----------------------------- MODULE MCSession -----------------------------
(* Instances of SessionLifecycle for TLC. *)
EXTENDS SessionProperties, TLC

\* Slots are interchangeable; sound for the runs without liveness.
Slots == Permutations(Conns) \union Permutations(Enders)
         \union Permutations(Starters)
=============================================================================

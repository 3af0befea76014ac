------------------------------ MODULE MCPortal ------------------------------
(* Instance of PortalAuth for TLC. *)
EXTENDS PortalAuth, TLC

\* No property says anything of what follows a race.
NotRaced == ~raced

Symmetric == Permutations(Tabs)
=============================================================================

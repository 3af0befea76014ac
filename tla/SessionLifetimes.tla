-------------------------- MODULE SessionLifetimes --------------------------
(***************************************************************************)
(* What users may rely on about the lifetime of a session, whatever the      *)
(* tasks of routers/sessions.py do: it begins once, only a handler that        *)
(* found it alive may bring it back after its end, and no handler finds it     *)
(* once it has ended.  When the last handler has gone, its end is final.       *)
(***************************************************************************)
CONSTANTS Sessions, Handlers

VARIABLES
  phase,   \* of each session
  held     \* the websocket handlers that serve each session

vars == <<phase, held>>

Phases == {"none", "alive", "ended", "purged"}

Init ==
  /\ phase = [s \in Sessions |-> "none"]
  /\ held = [s \in Sessions |-> {}]

Change(s, p, q) == phase[s] = p /\ phase' = [phase EXCEPT ![s] = q] /\ UNCHANGED held

Begin(s) == Change(s, "none", "alive")
End(s) == Change(s, "alive", "ended")

\* Known defect: a handler writes its status over the end.
Revive(s) == held[s] # {} /\ Change(s, "ended", "alive")

Attach(s, h) ==
  /\ phase[s] = "alive" /\ held' = [held EXCEPT ![s] = @ \union {h}] /\ UNCHANGED phase

Detach(s, h) == held' = [held EXCEPT ![s] = @ \ {h}] /\ UNCHANGED phase

\* The process restarts.
DetachAll == held' = [s \in Sessions |-> {}] /\ UNCHANGED phase

Purge(S) ==
  /\ \A s \in S : phase[s] = "ended"
  /\ phase' = [s \in Sessions |-> IF s \in S THEN "purged" ELSE phase[s]]
  /\ UNCHANGED held

Next ==
  \/ DetachAll
  \/ \E s \in Sessions : Begin(s) \/ End(s) \/ Revive(s)
  \/ \E s \in Sessions, h \in Handlers : Attach(s, h) \/ Detach(s, h)
  \/ \E S \in SUBSET Sessions : Purge(S)

Spec == Init /\ [][Next]_vars
=============================================================================

------------------------- MODULE SessionProperties -------------------------
(***************************************************************************)
(* What the backend promises about streaming sessions: invariants, action  *)
(* properties and liveness of SessionLifecycle.  The second half states     *)
(* what comments and documents of the repository say and the code does not *)
(* keep; each of those is the subject of a run that finds the violation.   *)
(***************************************************************************)
EXTENDS SessionLifecycle

Streaming(s) == {c \in Conns : conn[c].pc = "streaming" /\ conn[c].sid = s}

\* A task that is certain to write the status of s: a handler past its first
\* save, unless end_session closed its websocket while it was streaming, or an
\* end_session about to save.
WillSave(c) == \/ conn[c].pc \in {"dialing", "dialed", "failing", "idling"}
               \/ conn[c].pc = "streaming" /\ conn[c].sock # "closed"

-----------------------------------------------------------------------------
(* Properties that hold *)

\* session_websockets never keeps a websocket whose handler has finished or has not
\* got so far, nor one that belongs to another session, whatever handlers replace or
\* remove each other's entries (connect_to_stream's finally block).
RegistryLive ==
  \A s \in Sessions :
    registry[s] # NoConn => /\ conn[registry[s]].sid = s
                            /\ conn[registry[s]].pc \notin {"free", "loaded"}

\* sessions.active.count is the number of handlers that are streaming, also
\* when other tasks overwrite the row's status or restarts lose handlers.
GaugeExact == gauge = Cardinality({c \in Conns : conn[c].pc = "streaming"})

\* A row says CONNECTING or ACTIVE only as long as some task will move it on, so
\* a client is never locked out by "Client is connected already" for good.  It
\* needs end_session to close a websocket only when it also saves the row.
NoStuckSession ==
  \A s \in Sessions :
    row[s].status \in {"CONNECTING", "ACTIVE"} =>
      \/ \E c \in Conns : conn[c].sid = s /\ WillSave(c)
      \/ \E e \in Tasks : ender[e].sid = s /\ ender[e].pc = "saving"

\* An error the client reported is replaced by nothing but a later report, a new
\* streaming attempt or the purge: no handler, watcher or end_session that read
\* the row before the report overwrites it.
KeepsClientError ==
  \A s \in Sessions :
    row[s].error = "client" /\ row'[s].error # "client" =>
      \/ row' = [row EXCEPT ![s].error = "none"]
      \/ row'[s].status \in {"CONNECTING", "PURGED"}

ClientErrorKept == [][KeepsClientError]_vars

\* A session is created only within max_app_instances_count: the count that
\* start_stream made before its call to NVCF still holds when the row is
\* inserted, however many requests run at once.
StartsWithinLimit ==
  \A s \in Sessions :
    row[s].status = "ABSENT" /\ row'[s].status # "ABSENT" =>
      Cardinality({t \in Sessions : row'[t].status \in Alive}) <= MaxInstances

QuotaAtStart == [][StartsWithinLimit]_vars

\* A session past session_ttl ends (watch_session_timeout), through timeouts of
\* NVCF and reconnecting clients, as long as the watcher's task lives.
TtlEnforced ==
  \A s \in Sessions :
    Overdue(s) ~> (~IsAlive(s) \/ ender[Watcher].pc = "dead")

\* A session that has been without a client for session_idle_timeout does not
\* stay IDLE, also when no client ever connected to it (watch_idle_sessions).
IdleEnds == \A s \in Sessions : Abandoned(s) ~> ~Abandoned(s)

\* A handler whose websocket end_session closed finishes and frees its entry,
\* wherever it was when the websocket was closed.
ClosedHandlerFinishes ==
  \A c \in Conns :
    conn[c].sock \in {"closed", "closedEarly"} ~> conn[c].pc = "free"

-----------------------------------------------------------------------------
(* The lifetimes of sessions *)

Phase(status) == CASE status = "ABSENT" -> "none"
                   [] status = "PURGED" -> "purged"
                   [] status \in Terminal -> "ended"
                   [] OTHER -> "alive"

Holders(s) == {c \in Conns : conn[c].pc # "free" /\ conn[c].sid = s}

Lifetimes == INSTANCE SessionLifetimes WITH
  Handlers <- Conns,
  phase <- [s \in Sessions |-> Phase(row[s].status)],
  held <- [s \in Sessions |-> Holders(s)]

\* Sessions live as SessionLifetimes says: a session that has ended while no
\* handler serves it never runs again, whatever watchers, requests, stale
\* snapshots and restarts follow (connect_to_stream, end_session, the watchers).
KeepsLifetimes == Lifetimes!Spec

-----------------------------------------------------------------------------
(* What the repository says and the code does not keep *)

\* sessions.py:71 "Statuses that represent a session that has ended (no longer
\* running)": a session that has ended is not brought back to life.
TerminalIsFinal ==
  [][\A s \in Sessions : HasEnded(s) => row'[s].status \notin Alive]_vars

\* sessions.py:537 "Store the websocket connection in memory to let other
\* endpoints terminate it": a streaming handler is found in the registry.
StreamIsRegistered ==
  \A s \in Sessions : \A c \in Streaming(s) : registry[s] = c

\* settings.py:135 "Maximum session duration in seconds before users get
\* disconnected", with no condition on the watcher's task.
TtlAlwaysEnforced == \A s \in Sessions : Overdue(s) ~> ~IsAlive(s)

=============================================================================

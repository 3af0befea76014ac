----------------------- MODULE SessionLifetimesProofs -----------------------
(***************************************************************************)
(* SessionLifecycle implements SessionLifetimes, for every value of the      *)
(* constants and with restarts.                                             *)
(***************************************************************************)
EXTENDS SessionProofs

StatusSame == \A t \in Sessions : row'[t].status = row[t].status

\* What a save does to the statuses: nothing to a row that is not stored.
StatusSave(s, st) ==
  \A t \in Sessions :
    row'[t].status = IF t = s /\ Stored(s) THEN st ELSE row[t].status

HoldersSame == \A t \in Sessions : Holders(t)' = Holders(t)

-----------------------------------------------------------------------------
(* Steps that change the status of a session *)

\* A handler saves any status but only for the session it serves.
LEMMA HandlerStatus ==
  ASSUME TypeOK, NEW c \in Conns, Handler(c)
  PROVE  \/ StatusSame
         \/ /\ conn[c].pc # "free"
            /\ \E st \in Alive \union Terminal : StatusSave(conn[c].sid, st)
<1> DEFINE s == conn[c].sid
<1>0. conn[c].pc # "free" => s \in Sessions
  BY DEF TypeOK
<1>a. ASSUME NEW r, s \in Sessions, r \in Rows, r.status \in Alive \union Terminal,
             Save(s, r), conn[c].pc # "free"
      PROVE  conn[c].pc # "free"
             /\ \E st \in Alive \union Terminal : StatusSave(s, st)
  BY <1>a, SaveStatus DEF StatusSave
<1>b. now \in Nat \union {Null} /\ Null \in Nat \union {Null}
      /\ {"CONNECTING", "ACTIVE", "IDLE", "FAILED"} \subseteq Alive \union Terminal
      /\ {"CONNECTING", "ACTIVE", "IDLE", "FAILED"} \subseteq Statuses
      /\ {"none", "upstream"} \subseteq Errors
  BY DEF TypeOK, Alive, Terminal, Statuses, Errors
<1>r. ASSUME s \in Sessions, NEW st \in Statuses, NEW en \in Nat \union {Null}
      PROVE  [row[s] EXCEPT !.status = st, !.end = en] \in Rows /\ [row[s] EXCEPT !.status = st, !.end = en].status = st
  <2>1. row[s] \in Rows
    BY <1>r DEF TypeOK
  <2> QED BY <1>r, <2>1 DEF Rows
<1>q. ASSUME s \in Sessions, NEW st \in Statuses
      PROVE  [row[s] EXCEPT !.status = st] \in Rows /\ [row[s] EXCEPT !.status = st].status = st
  <2>1. row[s] \in Rows
    BY <1>q DEF TypeOK
  <2> QED BY <1>q, <2>1 DEF Rows
<1>e. ASSUME s \in Sessions, NEW er \in Errors
      PROVE  [row[s] EXCEPT !.error = er] \in Rows /\ [row[s] EXCEPT !.error = er].status = row[s].status
  <2>1. row[s] \in Rows
    BY <1>e DEF TypeOK
  <2> QED BY <1>e, <2>1 DEF Rows
<1>1. CASE SaveConnecting(c)
  <2> DEFINE r == [row[s] EXCEPT !.status = "CONNECTING", !.end = Null, !.error = "none"]
  <2>1. s \in Sessions /\ Save(s, r) /\ conn[c].pc # "free"
    BY <1>0, <1>1 DEF SaveConnecting
  <2>2. r = [[row[s] EXCEPT !.status = "CONNECTING", !.end = Null]
               EXCEPT !.error = "none"]
    OBVIOUS
  <2>3. [row[s] EXCEPT !.status = "CONNECTING", !.end = Null] \in Rows
        /\ [row[s] EXCEPT !.status = "CONNECTING", !.end = Null].status = "CONNECTING"
    BY <2>1, <1>b, <1>r
  <2>4. r \in Rows /\ r.status = "CONNECTING"
    BY <2>2, <2>3, <1>b DEF Rows
  <2> QED BY <2>1, <2>4, <1>a, <1>b
<1>2. CASE SaveActive(c)
  <2> DEFINE r == [row[s] EXCEPT !.status = "ACTIVE"]
  <2>1. s \in Sessions /\ Save(s, r) /\ conn[c].pc # "free"
    BY <1>0, <1>2 DEF SaveActive
  <2>2. r \in Rows /\ r.status = "ACTIVE"
    BY <2>1, <1>b, <1>q
  <2> QED BY <2>1, <2>2, <1>a, <1>b
<1>3. CASE SaveIdle(c)
  <2> DEFINE r == [row[s] EXCEPT !.status = "IDLE", !.end = now]
  <2>1. s \in Sessions /\ Save(s, r) /\ conn[c].pc # "free"
    BY <1>0, <1>3 DEF SaveIdle
  <2>2. r \in Rows /\ r.status = "IDLE"
    BY <2>1, <1>b, <1>r
  <2> QED BY <2>1, <2>2, <1>a, <1>b
<1>4. CASE SaveFailed(c)
  <2> DEFINE r == [row[s] EXCEPT !.status = "FAILED", !.end = now]
  <2>1. s \in Sessions /\ Save(s, r) /\ conn[c].pc # "free"
    BY <1>0, <1>4 DEF SaveFailed
  <2>2. r \in Rows /\ r.status = "FAILED"
    BY <2>1, <1>b, <1>r
  <2> QED BY <2>1, <2>2, <1>a, <1>b
<1>5. CASE RecordUpstreamError(c)
  <2> DEFINE er == IF row[s].error = "none" THEN "upstream" ELSE row[s].error
             r == [row[s] EXCEPT !.error = er]
  <2>1. s \in Sessions /\ Save(s, r)
    BY <1>0, <1>5 DEF RecordUpstreamError
  <2>2. er \in Errors
    BY <2>1, <1>b DEF TypeOK, Rows
  <2>3. r \in Rows /\ r.status = row[s].status
    BY <2>1, <2>2, <1>e
  <2> QED BY <2>1, <2>3, SaveStatus DEF StatusSame
<1>6. CASE \/ \E t \in Sessions : LoadSession(c, t)
           \/ RegisterWebsocket(c) \/ ApplicationGone(c)
           \/ DialAccepted(c) \/ DialRejected(c) \/ DialBreaks(c) \/ PopWebsocket(c)
  BY <1>6 DEF LoadSession, RegisterWebsocket, ApplicationGone, DialAccepted, DialRejected, DialBreaks, PopWebsocket,
              StatusSame
<1>7. CASE \/ ClientDisconnects(c) \/ UpstreamCloses(c) \/ UpstreamAborts(c)
           \/ ClosedByApi(c) \/ ConsumerRaises(c)
  BY <1>7 DEF ClientDisconnects, UpstreamCloses, UpstreamAborts, ClosedByApi,
              ConsumerRaises, EndStreaming, StatusSame
<1> QED BY <1>1, <1>2, <1>3, <1>4, <1>5, <1>6, <1>7 DEF Handler, HandlerRuns

\* A task other than a handler that saves a status ends the session.
LEMMA FinalSave ==
  ASSUME TypeOK, NEW s \in Sessions, NEW st \in Terminal, NEW en \in Nat \union {Null},
         \/ Save(s, [row[s] EXCEPT !.status = st])
         \/ Save(s, [row[s] EXCEPT !.status = st, !.end = en])
  PROVE  StatusSave(s, st)
<1>1. st \in Statuses /\ row[s] \in Rows
  BY DEF Statuses, TypeOK
<1>2. /\ [row[s] EXCEPT !.status = st] \in Rows
      /\ [row[s] EXCEPT !.status = st].status = st
      /\ [row[s] EXCEPT !.status = st, !.end = en] \in Rows
      /\ [row[s] EXCEPT !.status = st, !.end = en].status = st
  BY <1>1 DEF Rows
<1> QED BY <1>2, SaveStatus DEF StatusSave

\* Every step that changes a status inserts a row, ends a session, purges ended
\* ones or is a save of a handler.
LEMMA StatusSteps ==
  ASSUME TypeOK, [Next]_vars
  PROVE  \/ StatusSame
         \/ \E s \in Sessions, p \in Starters : PostAccepted(p, s)
         \/ \E s \in Sessions, st \in Terminal : StatusSave(s, st)
         \/ \E c \in Conns : /\ conn[c].pc # "free"
                             /\ \E st \in Alive \union Terminal :
                                  StatusSave(conn[c].sid, st)
         \/ Purge
<1>1. ASSUME NEW p \in Starters, StartRequest(p)
      PROVE  StatusSame \/ \E s \in Sessions : PostAccepted(p, s)
  BY <1>1 DEF StartRequest, StartStream, PostFails, StatusSame
<1>2. ASSUME NEW e \in Tasks, EndSession(e)
      PROVE  StatusSame \/ \E s \in Sessions, st \in Terminal : StatusSave(s, st)
  <2>1. CASE SaveEnded(e)
    <3>1. ender[e].sid \in Sessions /\ ender[e].final \in Terminal
          /\ now \in Nat \union {Null}
      BY <2>1 DEF SaveEnded, TypeOK
    <3>2. StatusSave(ender[e].sid, ender[e].final)
      BY <2>1, <3>1, FinalSave DEF SaveEnded
    <3> QED BY <3>1, <3>2
  <2>2. CASE ~SaveEnded(e)
    BY <1>2, <2>2 DEF EndSession, DeleteOk, DeleteNotFound, DeleteRefused,
       DeleteTimesOut, DeleteBreaks, LostDelete, CloseWebsocket, StatusSame
  <2> QED BY <2>1, <2>2
<1>3. ASSUME NEW b \in Snapshots, Save(b.sid, [row[b.sid] EXCEPT !.status = b.final])
      PROVE  \E s \in Sessions, st \in Terminal : StatusSave(s, st)
  <2>1. b.sid \in Sessions /\ b.final \in Terminal /\ Null \in Nat \union {Null}
    BY <1>3 DEF Snapshots
  <2>2. StatusSave(b.sid, b.final)
    BY <1>3, <2>1, FinalSave
  <2> QED BY <2>1, <2>2
<1>4. ASSUME NEW b \in idle, IdleExpire(b)
      PROVE  \E s \in Sessions, st \in Terminal : StatusSave(s, st)
  BY <1>3, <1>4 DEF IdleExpire, TypeOK
<1>5. ASSUME NEW b \in checks, CheckExpire(b)
      PROVE  \E s \in Sessions, st \in Terminal : StatusSave(s, st)
  BY <1>3, <1>5 DEF CheckExpire, TypeOK
<1>6. ASSUME NEW s \in Sessions, NEW er \in {"none", "client"}, UpdateSession(s, er)
      PROVE  StatusSame
  <2>1. Save(s, [row[s] EXCEPT !.error = er]) /\ er \in Errors
    BY <1>6 DEF UpdateSession, Errors
  <2>2. /\ [row[s] EXCEPT !.error = er] \in Rows
        /\ [row[s] EXCEPT !.error = er].status = row[s].status
    BY <2>1 DEF TypeOK, Rows
  <2> QED BY <2>1, <2>2, SaveStatus DEF StatusSame
<1>7. CASE TimeoutWatcher \/ IdleScan
  BY <1>7 DEF TimeoutWatcher, TimeoutScan, TimeoutNext, IdleScan, StatusSame
<1>8. CASE \/ \E e \in Enders, s \in Sessions : RequestEnd(e, s)
           \/ \E s \in Sessions : CheckSession(s) \/ NvcfEnds(s)
           \/ Tick \/ Restart \/ UNCHANGED vars
  BY <1>8 DEF RequestEnd, CheckSession, NvcfEnds, Tick, Restart, vars, StatusSame
<1> QED BY <1>1, <1>2, <1>4, <1>5, <1>6, <1>7, <1>8, HandlerStatus
        DEF Next, IdleWatcher

-----------------------------------------------------------------------------
(* Steps that change who serves a session *)

\* They leave every row alone.
LEMMA HolderSteps ==
  ASSUME TypeOK, [Next]_vars
  PROVE  \/ HoldersSame
         \/ \E c \in Conns, s \in Sessions : LoadSession(c, s)
         \/ \E c \in Conns : PopWebsocket(c) \/ ApplicationGone(c)
         \/ Restart
<1>1. CASE Quiet
  BY <1>1 DEF Quiet, HoldersSame, Holders
<1>2. ASSUME NEW c \in Conns, SaveActive(c) \/ RegisterWebsocket(c) PROVE HoldersSame
  <2>1. PICK pc \in ConnPcs \ {"free"} : Goto(c, pc)
    BY <1>2 DEF SaveActive, RegisterWebsocket, ConnPcs
  <2>2. conn[c].pc # "free"
    BY <1>2 DEF SaveActive, RegisterWebsocket
  <2>3. DOMAIN conn = Conns /\ DOMAIN conn[c] = {"pc", "sid", "sock"}
    BY DEF TypeOK
  <2>4. \A d \in Conns : /\ conn'[d].sid = conn[d].sid
                         /\ conn'[d].pc = "free" <=> conn[d].pc = "free"
    BY <2>1, <2>2, <2>3 DEF Goto
  <2> QED BY <2>4 DEF HoldersSame, Holders
<1>3. ASSUME NEW c \in Conns, NEW pc \in ConnPcs \ {"free", "loaded", "streaming"},
             NEW k \in Socks, EndStreaming(c, pc, k)
      PROVE  HoldersSame
  BY <1>3 DEF EndStreaming, HoldersSame, Holders, TypeOK
<1> QED BY <1>1, <1>2, <1>3, StepIsQuiet

-----------------------------------------------------------------------------
(* Every step is a step of SessionLifetimes or changes nothing there *)

Mapped == Lifetimes!Next \/ UNCHANGED Lifetimes!vars

LEMMA PhaseTypes ==
  /\ \A st \in Alive : Phase(st) = "alive"
  /\ \A st \in Terminal : Phase(st) = "ended"
  /\ Phase("ABSENT") = "none" /\ Phase("PURGED") = "purged"
BY DEF Phase, Alive, Terminal

\* The mapped variables stay when no status and no holder changes.
LEMMA SameIsMapped ==
  ASSUME StatusSame, HoldersSame PROVE Mapped
BY DEF StatusSame, HoldersSame, Mapped, Lifetimes!vars

LEMMA HolderStepMapped ==
  ASSUME TypeOK,
         \/ \E c \in Conns, s \in Sessions : LoadSession(c, s)
         \/ \E c \in Conns : PopWebsocket(c) \/ ApplicationGone(c)
         \/ Restart
  PROVE  Mapped
<1>1. ASSUME NEW c \in Conns, NEW s \in Sessions, LoadSession(c, s) PROVE Mapped
  <2>1. Phase(row[s].status) = "alive" /\ row' = row
    BY <1>1, PhaseTypes DEF LoadSession, IsAlive
  <2>2. \A t \in Sessions :
          Holders(t)' = IF t = s THEN Holders(t) \union {c} ELSE Holders(t)
    BY <1>1 DEF LoadSession, Holders, TypeOK
  <2>3. Lifetimes!Attach(s, c)
    BY <2>1, <2>2 DEF Lifetimes!Attach
  <2> QED BY <2>3 DEF Mapped, Lifetimes!Next
<1>2. ASSUME NEW c \in Conns, PopWebsocket(c) \/ ApplicationGone(c) PROVE Mapped
  <2> DEFINE s == conn[c].sid
  <2>1. s \in Sessions /\ row' = row
    BY <1>2 DEF PopWebsocket, ApplicationGone, TypeOK
  <2>2. \A t \in Sessions :
          Holders(t)' = IF t = s THEN Holders(t) \ {c} ELSE Holders(t)
    BY <1>2 DEF PopWebsocket, ApplicationGone, Holders, TypeOK, FreeConn
  <2>3. Lifetimes!Detach(s, c)
    BY <2>1, <2>2 DEF Lifetimes!Detach
  <2> QED BY <2>1, <2>3 DEF Mapped, Lifetimes!Next
<1>3. CASE Restart
  <2>1. row' = row /\ \A t \in Sessions : Holders(t)' = {}
    BY <1>3 DEF Restart, Holders, FreeConn
  <2>2. Lifetimes!DetachAll
    BY <2>1 DEF Lifetimes!DetachAll
  <2> QED BY <2>2 DEF Mapped, Lifetimes!Next
<1> QED BY <1>1, <1>2, <1>3

\* A save to an ended status ends the session, or finds it ended or not stored.
LEMMA EndMapped ==
  ASSUME TypeOK, HoldersSame, NEW s \in Sessions, NEW st \in Terminal,
         StatusSave(s, st)
  PROVE  Mapped
<1>1. CASE IsAlive(s)
  <2>1. Phase(row[s].status) = "alive" /\ Phase(st) = "ended"
    BY <1>1, PhaseTypes DEF IsAlive
  <2>2. \A t \in Sessions :
          Phase(row'[t].status) = IF t = s THEN "ended" ELSE Phase(row[t].status)
    BY <1>1, <2>1 DEF StatusSave, Stored
  <2>3. Lifetimes!End(s)
    BY <2>1, <2>2 DEF Lifetimes!End, Lifetimes!Change, HoldersSame
  <2> QED BY <2>3 DEF Mapped, Lifetimes!Next
<1>2. CASE ~IsAlive(s)
  <2>1. \A t \in Sessions : Phase(row'[t].status) = Phase(row[t].status)
    BY <1>2, PhaseTypes DEF StatusSave, Stored, HasEnded
  <2> QED BY <2>1 DEF HoldersSame, Mapped, Lifetimes!vars
<1> QED BY <1>1, <1>2

\* A handler's save may bring its own session back.
LEMMA HandlerSaveMapped ==
  ASSUME TypeOK, HoldersSame, NEW c \in Conns, conn[c].pc # "free",
         NEW st \in Alive \union Terminal, StatusSave(conn[c].sid, st)
  PROVE  Mapped
<1> DEFINE s == conn[c].sid
<1>0. s \in Sessions /\ Holders(s) # {}
  BY DEF TypeOK, Holders
<1>1. CASE st \in Terminal
  BY <1>0, <1>1, EndMapped
<1>2. CASE st \in Alive /\ HasEnded(s)
  <2>1. Phase(row[s].status) = "ended" /\ Phase(st) = "alive"
    BY <1>2, PhaseTypes DEF HasEnded
  <2>2. \A t \in Sessions :
          Phase(row'[t].status) = IF t = s THEN "alive" ELSE Phase(row[t].status)
    BY <1>2, <2>1 DEF StatusSave, Stored
  <2>3. Lifetimes!Revive(s)
    BY <1>0, <2>1, <2>2 DEF Lifetimes!Revive, Lifetimes!Change, HoldersSame
  <2> QED BY <1>0, <2>3 DEF Mapped, Lifetimes!Next
<1>3. CASE st \in Alive /\ ~HasEnded(s)
  <2>1. \A t \in Sessions : Phase(row'[t].status) = Phase(row[t].status)
    BY <1>3, PhaseTypes DEF StatusSave, Stored, IsAlive
  <2> QED BY <2>1 DEF HoldersSame, Mapped, Lifetimes!vars
<1> QED BY <1>1, <1>2, <1>3

\* PostAccepted and the purge.
LEMMA TableStepMapped ==
  ASSUME TypeOK, HoldersSame,
         (\E s \in Sessions, p \in Starters : PostAccepted(p, s)) \/ Purge
  PROVE  Mapped
<1>1. ASSUME NEW s \in Sessions, NEW p \in Starters, PostAccepted(p, s) PROVE Mapped
  <2>1. Phase(row[s].status) = "none" /\ Phase("IDLE") = "alive"
    BY <1>1, PhaseTypes DEF PostAccepted, Alive
  <2>2. \A t \in Sessions :
          row'[t].status = IF t = s THEN "IDLE" ELSE row[t].status
    BY <1>1 DEF PostAccepted, TypeOK
  <2>3. \A t \in Sessions :
          Phase(row'[t].status) = IF t = s THEN "alive" ELSE Phase(row[t].status)
    BY <2>1, <2>2
  <2>4. Lifetimes!Begin(s)
    BY <2>1, <2>3 DEF Lifetimes!Begin, Lifetimes!Change, HoldersSame
  <2> QED BY <2>4 DEF Mapped, Lifetimes!Next
<1>2. CASE Purge
  <2> DEFINE S == {s \in Sessions : HasEnded(s) /\ row[s].start + Retention <= now}
  <2>1. \A s \in S : Phase(row[s].status) = "ended"
    BY PhaseTypes DEF HasEnded
  <2>2. \A t \in Sessions :
          row'[t].status = IF t \in S THEN "PURGED" ELSE row[t].status
    BY <1>2 DEF Purge, PurgedRow, AbsentRow
  <2>3. \A t \in Sessions :
          Phase(row'[t].status) = IF t \in S THEN "purged" ELSE Phase(row[t].status)
    BY <2>2, PhaseTypes
  <2>4. Lifetimes!Purge(S)
    BY <2>1, <2>3 DEF Lifetimes!Purge, HoldersSame
  <2>5. S \in SUBSET Sessions
    OBVIOUS
  <2> QED BY <2>4, <2>5 DEF Mapped, Lifetimes!Next
<1> QED BY <1>1, <1>2

LEMMA StepIsMapped == TypeOK /\ [Next]_vars => Mapped
<1> SUFFICES ASSUME TypeOK, [Next]_vars PROVE Mapped
  OBVIOUS
<1>1. CASE HoldersSame
  <2>1. ASSUME NEW c \in Conns, conn[c].pc # "free",
               NEW st \in Alive \union Terminal, StatusSave(conn[c].sid, st)
        PROVE  Mapped
    BY <1>1, <2>1, HandlerSaveMapped
  <2> QED BY <1>1, <2>1, StatusSteps, SameIsMapped, EndMapped, TableStepMapped
<1>2. CASE ~HoldersSame
  BY <1>2, HolderSteps, HolderStepMapped
<1> QED BY <1>1, <1>2

\* Every behaviour of the backend keeps the lifetimes of SessionLifetimes: a session
\* that has ended and has no handler never runs again.
THEOREM KeepsLifetimesAlways == Spec => KeepsLifetimes
<1>1. Init => Lifetimes!Init
  <2> SUFFICES ASSUME Init PROVE Lifetimes!Init
    OBVIOUS
  <2>1. \A s \in Sessions : Phase(row[s].status) = "none" /\ Holders(s) = {}
    BY PhaseTypes DEF Init, AbsentRow, Holders, FreeConn
  <2> QED BY <2>1 DEF Lifetimes!Init
<1>2. TypeOK /\ [Next]_vars => [Lifetimes!Next]_(Lifetimes!vars)
  BY StepIsMapped DEF Mapped
<1> QED BY <1>1, <1>2, TypeCorrect, PTL DEF Spec, KeepsLifetimes, Lifetimes!Spec

=============================================================================

--------------------------- MODULE SessionProofs ---------------------------
(***************************************************************************)
(* Type correctness of SessionLifecycle and the safety properties of       *)
(* SessionProperties, for every number of sessions, websockets and         *)
(* requests, every setting and every fault.                                *)
(***************************************************************************)
EXTENDS SessionProperties, FiniteSetTheorems, TLAPS

-----------------------------------------------------------------------------
(* Types *)

\* A save of a well-typed row keeps the table well-typed, also for a session
\* that is not stored (the save is then an UPDATE of no row).
LEMMA SaveType ==
  ASSUME row \in [Sessions -> Rows], NEW s \in Sessions, NEW r \in Rows, Save(s, r)
  PROVE  row' \in [Sessions -> Rows]
BY DEF Save

\* Changing fields of a row by values of their types gives a row.
LEMMA RowType ==
  ASSUME row \in [Sessions -> Rows], NEW s \in Sessions,
         NEW st \in Statuses, NEW er \in Errors, NEW en \in Nat \union {Null}
  PROVE  /\ [row[s] EXCEPT !.status = st] \in Rows
         /\ [row[s] EXCEPT !.error = er] \in Rows
         /\ [row[s] EXCEPT !.status = st, !.end = en] \in Rows
         /\ [row[s] EXCEPT !.status = st, !.end = en, !.error = er] \in Rows
BY DEF Rows

\* A task's snapshot of a session names one of the ended statuses.
LEMMA SnapshotType ==
  ASSUME NEW s \in Sessions PROVE Snapshot(s) \in Snapshots
BY DEF Snapshot, Snapshots, WatcherTerminalStatus, Terminal

\* The counter of ended sessions stays a function into Nat.
LEMMA CountEndType ==
  ASSUME ends \in [Sessions -> Nat], NEW s \in Sessions, CountEnd(s)
  PROVE  ends' \in [Sessions -> Nat]
BY ConstantsAssumption DEF CountEnd, ConstantsAssumption

\* Moving a handler on keeps the types of conn, and its session.
LEMMA GotoType ==
  ASSUME TypeOK, NEW c \in Conns, NEW pc \in ConnPcs, NEW sock \in Socks,
         conn[c].pc # "free",
         \/ Goto(c, pc)
         \/ conn' = [conn EXCEPT ![c].pc = pc, ![c].sock = sock]
  PROVE  /\ conn' \in [Conns -> [pc : ConnPcs, sid : Sessions \union {NoSession},
                                 sock : Socks]]
         /\ \A d \in Conns : conn'[d].pc # "free" => conn'[d].sid \in Sessions
BY DEF TypeOK, Goto

\* The same for a call of end_session.
LEMMA EndGotoType ==
  ASSUME TypeOK, NEW e \in Tasks, NEW pc \in EndPcs, EndGoto(e, pc),
         ender[e].pc \notin {"ready", "dead"}
  PROVE  /\ ender' \in [Tasks -> [pc : EndPcs, sid : Sessions \union {NoSession},
                                  final : Terminal]]
         /\ \A d \in Tasks : ender'[d].pc \notin {"ready", "dead"} =>
                             ender'[d].sid \in Sessions
BY DEF TypeOK, EndGoto

LEMMA TypeInit == Init => TypeOK
BY DEF Init, TypeOK, AbsentRow, Rows, Statuses, Errors, FreeConn, ReadyTask,
       ConnPcs, Socks, EndPcs, Terminal, Snapshots

\* start_stream keeps the types.
LEMMA StartKeepsType ==
  ASSUME TypeOK, NEW p \in Starters, StartRequest(p)
  PROVE  TypeOK'
<1>1. CASE StartStream(p)
  BY <1>1 DEF StartStream, TypeOK
<1>2. ASSUME NEW s \in Sessions, PostAccepted(p, s)
      PROVE  TypeOK'
  <2>1. row' \in [Sessions -> Rows]
    BY <1>2 DEF PostAccepted, TypeOK, Rows, Statuses, Alive, Errors
  <2> QED BY <1>2, <2>1 DEF PostAccepted, TypeOK
<1>3. CASE PostFails(p)
  BY <1>3 DEF PostFails, TypeOK
<1> QED BY <1>1, <1>2, <1>3 DEF StartRequest

\* The websocket handler keeps the types.
LEMMA HandlerKeepsType ==
  ASSUME TypeOK, NEW c \in Conns, Handler(c)
  PROVE  TypeOK'
<1> DEFINE s == conn[c].sid
<1>0. conn[c].pc # "free" => s \in Sessions
  BY DEF TypeOK
<1>a. "IDLE" \in Statuses /\ "CONNECTING" \in Statuses /\ "ACTIVE" \in Statuses
      /\ "FAILED" \in Statuses /\ "none" \in Errors /\ "upstream" \in Errors
      /\ Null \in Nat \union {Null}
  BY DEF Statuses, Alive, Terminal, Errors
<1>1. ASSUME NEW t \in Sessions, LoadSession(c, t)
      PROVE  TypeOK'
  BY <1>1 DEF LoadSession, TypeOK, ConnPcs, Socks
<1>1b. CASE RegisterWebsocket(c)
  <2>1. conn[c].pc # "free" /\ Goto(c, "registered") /\ "registered" \in ConnPcs
        /\ conn[c].sock \in Socks
    BY <1>1b DEF RegisterWebsocket, ConnPcs, TypeOK
  <2>2. registry' \in [Sessions -> Conns \union {NoConn}]
    BY <1>0, <1>1b, <2>1 DEF RegisterWebsocket, TypeOK
  <2> QED BY <1>1b, <2>1, <2>2, GotoType DEF RegisterWebsocket, TypeOK
<1>1c. CASE ApplicationGone(c)
  BY <1>1c DEF ApplicationGone, TypeOK, FreeConn, ConnPcs, Socks
<1>2. CASE SaveConnecting(c)
  <2>1. row' \in [Sessions -> Rows]
    <3>1. [row[s] EXCEPT !.status = "CONNECTING", !.end = Null, !.error = "none"]
            \in Rows
      BY <1>0, <1>2, <1>a, RowType DEF SaveConnecting, TypeOK
    <3> QED BY <1>0, <1>2, <3>1, SaveType DEF SaveConnecting, TypeOK
  <2>2. conn[c].pc # "free" /\ Goto(c, "dialing") /\ "dialing" \in ConnPcs
        /\ conn[c].sock \in Socks
    BY <1>2 DEF SaveConnecting, ConnPcs, TypeOK
  <2> QED BY <1>2, <2>1, <2>2, GotoType DEF SaveConnecting, TypeOK
<1>3. CASE DialAccepted(c)
  <2>1. conn[c].pc # "free" /\ Goto(c, "dialed") /\ "dialed" \in ConnPcs
        /\ conn[c].sock \in Socks
    BY <1>3 DEF DialAccepted, ConnPcs, TypeOK
  <2> QED BY <1>3, <2>1, GotoType DEF DialAccepted, TypeOK
<1>4. CASE DialRejected(c)
  <2>1. conn[c].pc # "free" /\ Goto(c, "failing") /\ "failing" \in ConnPcs
        /\ conn[c].sock \in Socks
    BY <1>4 DEF DialRejected, ConnPcs, TypeOK
  <2> QED BY <1>4, <2>1, GotoType DEF DialRejected, TypeOK
<1>5. CASE DialBreaks(c)
  <2>1. conn[c].pc # "free" /\ Goto(c, "idling") /\ "idling" \in ConnPcs
        /\ conn[c].sock \in Socks
    BY <1>5 DEF DialBreaks, ConnPcs, TypeOK
  <2> QED BY <1>5, <2>1, GotoType DEF DialBreaks, TypeOK
<1>6. CASE SaveActive(c)
  <2>1. row' \in [Sessions -> Rows]
    <3>1. [row[s] EXCEPT !.status = "ACTIVE"] \in Rows
      BY <1>0, <1>6, <1>a, RowType DEF SaveActive, TypeOK
    <3> QED BY <1>0, <1>6, <3>1, SaveType DEF SaveActive, TypeOK
  <2>2. conn[c].pc # "free" /\ Goto(c, "streaming") /\ "streaming" \in ConnPcs
        /\ conn[c].sock \in Socks
    BY <1>6 DEF SaveActive, ConnPcs, TypeOK
  <2>3. gauge' \in Int
    BY <1>6 DEF SaveActive, TypeOK
  <2>4. conn' \in [Conns -> [pc : ConnPcs, sid : Sessions \union {NoSession},
                             sock : Socks]]
        /\ \A d \in Conns : conn'[d].pc # "free" => conn'[d].sid \in Sessions
    BY <2>2, GotoType
  <2> QED BY <1>6, <2>1, <2>3, <2>4 DEF SaveActive, TypeOK
<1>b. ASSUME NEW pc \in ConnPcs, NEW sock \in Socks, EndStreaming(c, pc, sock)
      PROVE  TypeOK'
  <2>1. conn[c].pc # "free"
    BY <1>b DEF EndStreaming
  <2>2. conn' = [conn EXCEPT ![c].pc = pc, ![c].sock = sock]
    BY <1>b DEF EndStreaming
  <2>3. gauge' \in Int
    BY <1>b DEF EndStreaming, TypeOK
  <2>4. conn' \in [Conns -> [pc : ConnPcs, sid : Sessions \union {NoSession},
                             sock : Socks]]
        /\ \A d \in Conns : conn'[d].pc # "free" => conn'[d].sid \in Sessions
    BY <1>b, <2>1, <2>2, GotoType
  <2> QED BY <1>b, <2>3, <2>4 DEF EndStreaming, TypeOK
<1>7. CASE ClientDisconnects(c)
  <2>1. PICK sock \in Socks : EndStreaming(c, "idling", sock)
    BY <1>7 DEF ClientDisconnects, TypeOK, Socks
  <2> QED BY <2>1, <1>b DEF ConnPcs
<1>8. CASE UpstreamCloses(c)
  <2>1. PICK sock \in Socks : EndStreaming(c, "idling", sock)
    BY <1>8 DEF UpstreamCloses, TypeOK, Socks
  <2> QED BY <2>1, <1>b DEF ConnPcs
<1>9. CASE UpstreamAborts(c)
  <2>1. PICK sock \in Socks : EndStreaming(c, "failing", sock)
    BY <1>9 DEF UpstreamAborts, TypeOK, Socks
  <2> QED BY <2>1, <1>b DEF ConnPcs
<1>10. CASE ClosedByApi(c)
  <2>1. PICK sock \in Socks : EndStreaming(c, "popping", sock)
    BY <1>10 DEF ClosedByApi, TypeOK, Socks
  <2> QED BY <2>1, <1>b DEF ConnPcs
<1>11. CASE ConsumerRaises(c)
  <2>1. PICK sock \in Socks : EndStreaming(c, "idling", sock)
    BY <1>11 DEF ConsumerRaises, TypeOK, Socks
  <2> QED BY <2>1, <1>b DEF ConnPcs
<1>12. CASE SaveIdle(c)
  <2>1. row' \in [Sessions -> Rows]
    <3>1. [row[s] EXCEPT !.status = "IDLE", !.end = now] \in Rows
      BY <1>0, <1>12, <1>a, RowType DEF SaveIdle, TypeOK
    <3> QED BY <1>0, <1>12, <3>1, SaveType DEF SaveIdle, TypeOK
  <2>2. conn[c].pc # "free" /\ Goto(c, "popping") /\ "popping" \in ConnPcs
        /\ conn[c].sock \in Socks
    BY <1>12 DEF SaveIdle, ConnPcs, TypeOK
  <2> QED BY <1>12, <2>1, <2>2, GotoType DEF SaveIdle, TypeOK
<1>13. CASE SaveFailed(c)
  <2>1. row' \in [Sessions -> Rows]
    <3>1. [row[s] EXCEPT !.status = "FAILED", !.end = now] \in Rows
      BY <1>0, <1>13, <1>a, RowType DEF SaveFailed, TypeOK
    <3> QED BY <1>0, <1>13, <3>1, SaveType DEF SaveFailed, TypeOK
  <2>2. conn[c].pc # "free" /\ Goto(c, "erring") /\ "erring" \in ConnPcs
        /\ conn[c].sock \in Socks
    BY <1>13 DEF SaveFailed, ConnPcs, TypeOK
  <2> QED BY <1>13, <2>1, <2>2, GotoType DEF SaveFailed, TypeOK
<1>14. CASE RecordUpstreamError(c)
  <2>1. row' \in [Sessions -> Rows]
    <3>1. [row[s] EXCEPT !.error = IF @ = "none" THEN "upstream" ELSE @] \in Rows
      <4>1. s \in Sessions /\ row[s].error \in Errors
        BY <1>0, <1>14 DEF RecordUpstreamError, TypeOK, Rows
      <4>2. (IF row[s].error = "none" THEN "upstream" ELSE row[s].error) \in Errors
        BY <4>1, <1>a
      <4> QED BY <4>1, <4>2, <1>a, RowType DEF TypeOK
    <3> QED BY <1>0, <1>14, <3>1, SaveType DEF RecordUpstreamError, TypeOK
  <2>2. conn[c].pc # "free" /\ Goto(c, "popping") /\ "popping" \in ConnPcs
        /\ conn[c].sock \in Socks
    BY <1>14 DEF RecordUpstreamError, ConnPcs, TypeOK
  <2>3. ends' \in [Sessions -> Nat]
    BY <1>0, <1>14, CountEndType DEF RecordUpstreamError, TypeOK
  <2> QED BY <1>14, <2>1, <2>2, <2>3, GotoType DEF RecordUpstreamError, TypeOK
<1>15. CASE PopWebsocket(c)
  BY <1>15 DEF PopWebsocket, TypeOK, FreeConn, ConnPcs, Socks
<1> QED
  BY <1>1, <1>2, <1>3, <1>4, <1>5, <1>6, <1>7, <1>8, <1>9, <1>10, <1>11, <1>12,
     <1>13, <1>14, <1>15, <1>1b, <1>1c DEF Handler, HandlerRuns

\* end_session keeps the types, whoever called it.
LEMMA EndSessionKeepsType ==
  ASSUME TypeOK, NEW e \in Tasks, EndSession(e)
  PROVE  TypeOK'
<1> DEFINE s == ender[e].sid
<1> USE DEF EndGoto
<1>0. ender[e].pc \notin {"ready", "dead"} => s \in Sessions
  BY DEF TypeOK
<1>a. ReadyTask \in [pc : EndPcs, sid : Sessions \union {NoSession}, final : Terminal]
      /\ Raised(e) \in [pc : EndPcs, sid : Sessions \union {NoSession},
                        final : Terminal]
      /\ ReadyTask.pc = "ready" /\ Raised(e).pc \in {"ready", "dead"}
  BY DEF ReadyTask, Raised, EndPcs, Terminal
<1>1. CASE DeleteOk(e)
  BY <1>1, EndGotoType DEF DeleteOk, TypeOK, EndPcs
<1>2. CASE DeleteNotFound(e)
  BY <1>2, EndGotoType DEF DeleteNotFound, TypeOK, EndPcs
<1>3. CASE DeleteRefused(e)
  BY <1>3, EndGotoType DEF DeleteRefused, TypeOK, EndPcs
<1>b. ASSUME NEW kind, LostDelete(e, kind)
      PROVE  nvcf' \in [Sessions -> {"none", "running", "gone"}] /\ faults' \in Nat
  BY <1>b DEF LostDelete, Fault, TypeOK
<1>4. CASE DeleteTimesOut(e)
  BY <1>4, <1>a, <1>b DEF DeleteTimesOut, LostDelete, TypeOK
<1>5. CASE DeleteBreaks(e)
  BY <1>5, <1>a, <1>b DEF DeleteBreaks, LostDelete, TypeOK
<1>6. CASE CloseWebsocket(e)
  <2>1. conn' \in [Conns -> [pc : ConnPcs, sid : Sessions \union {NoSession},
                             sock : Socks]]
        /\ \A d \in Conns : conn'[d].pc # "free" => conn'[d].sid \in Sessions
    <3> DEFINE c == registry[ender[e].sid]
    <3>1. CASE UNCHANGED conn
      BY <3>1 DEF TypeOK
    <3>2. CASE conn # conn'
      <4>1. PICK k \in Socks : conn' = [conn EXCEPT ![c].sock = k]
        BY <1>6, <3>2 DEF CloseWebsocket, Socks
      <4>2. /\ conn \in [Conns -> [pc : ConnPcs, sid : Sessions \union {NoSession},
                                  sock : Socks]]
            /\ \A d \in Conns : conn[d].pc # "free" => conn[d].sid \in Sessions
        BY DEF TypeOK
      <4> QED BY <4>1, <4>2
    <3> QED BY <3>1, <3>2
  <2>2. ender' \in [Tasks -> [pc : EndPcs, sid : Sessions \union {NoSession},
                              final : Terminal]]
        /\ \A d \in Tasks : ender'[d].pc \notin {"ready", "dead"} =>
                            ender'[d].sid \in Sessions
    <3>1. CASE EndGoto(e, "saving")
      BY <1>6, <3>1, EndGotoType DEF CloseWebsocket, TypeOK, EndPcs
    <3>2. CASE ender' = [ender EXCEPT ![e] = Raised(e)]
      BY <1>a, <3>2 DEF TypeOK
    <3> QED BY <1>6, <3>1, <3>2 DEF CloseWebsocket
  <2> QED BY <1>6, <2>1, <2>2 DEF CloseWebsocket, TypeOK
<1>7. CASE SaveEnded(e)
  <2>1. row' \in [Sessions -> Rows]
    <3>1. [row[s] EXCEPT !.status = ender[e].final, !.end = now] \in Rows
      <4>1. /\ ender[e].final \in Statuses /\ now \in Nat \union {Null}
            /\ "none" \in Errors
        BY DEF TypeOK, Statuses, Errors
      <4> QED BY <1>0, <1>7, <4>1, RowType DEF SaveEnded, TypeOK
    <3> QED BY <1>0, <1>7, <3>1, SaveType DEF SaveEnded, TypeOK
  <2>2. ends' \in [Sessions -> Nat]
    BY <1>0, <1>7, CountEndType DEF SaveEnded, TypeOK
  <2> QED BY <1>7, <1>a, <2>1, <2>2 DEF SaveEnded, TypeOK
<1> QED
  BY <1>1, <1>2, <1>3, <1>4, <1>5, <1>6, <1>7 DEF EndSession

\* The watchers, check_session and update_session keep the types.
LEMMA WatchersKeepType ==
  ASSUME TypeOK,
         \/ TimeoutWatcher \/ IdleWatcher \/ Purge
         \/ \E s \in Sessions : CheckSession(s)
         \/ \E b \in checks : CheckExpire(b)
         \/ \E s \in Sessions, error \in {"none", "client"} :
              UpdateSession(s, error)
  PROVE  TypeOK'
<1>a. ASSUME NEW b \in Snapshots
      PROVE  b.sid \in Sessions /\ [row[b.sid] EXCEPT !.status = b.final] \in Rows
  <2>1. b.sid \in Sessions /\ b.final \in Statuses
    BY <1>a DEF Snapshots, Statuses
  <2>2. "none" \in Errors /\ Null \in Nat \union {Null} /\ row \in [Sessions -> Rows]
    BY DEF Errors, TypeOK
  <2> QED BY <2>1, <2>2, RowType
<1>1. CASE TimeoutScan
  BY <1>1, SnapshotType DEF TimeoutScan, TypeOK
<1>2. ASSUME NEW b \in expiry, TimeoutNext(b)
      PROVE  TypeOK'
  BY <1>2 DEF TimeoutNext, TypeOK, Snapshots, EndPcs
<1>3. CASE IdleScan
  BY <1>3, SnapshotType DEF IdleScan, TypeOK
<1>4. ASSUME NEW b \in idle, IdleExpire(b)
      PROVE  TypeOK'
  <2>1. b \in Snapshots
    BY DEF TypeOK
  <2>2. row' \in [Sessions -> Rows]
    BY <1>4, <2>1, <1>a, SaveType DEF IdleExpire, TypeOK
  <2>3. ends' \in [Sessions -> Nat]
    BY <1>4, <2>1, <1>a, CountEndType DEF IdleExpire, TypeOK
  <2> QED BY <1>4, <2>2, <2>3 DEF IdleExpire, TypeOK
<1>5. CASE Purge
  <2>1. PurgedRow \in Rows
    BY DEF PurgedRow, AbsentRow, Rows, Statuses, Errors
  <2> QED BY <1>5, <2>1 DEF Purge, TypeOK
<1>6. ASSUME NEW s \in Sessions, CheckSession(s)
      PROVE  TypeOK'
  BY <1>6, SnapshotType DEF CheckSession, TypeOK
<1>7. ASSUME NEW b \in checks, CheckExpire(b)
      PROVE  TypeOK'
  <2>1. b \in Snapshots
    BY DEF TypeOK
  <2>2. row' \in [Sessions -> Rows]
    BY <1>7, <2>1, <1>a, SaveType DEF CheckExpire, TypeOK
  <2> QED BY <1>7, <2>2 DEF CheckExpire, TypeOK
<1>8. ASSUME NEW s \in Sessions, NEW error \in {"none", "client"},
             UpdateSession(s, error)
      PROVE  TypeOK'
  <2>1. [row[s] EXCEPT !.error = error] \in Rows
    BY DEF TypeOK, Rows, Errors
  <2>2. row' \in [Sessions -> Rows]
    BY <1>8, <2>1, SaveType DEF UpdateSession, TypeOK
  <2> QED BY <1>8, <2>2 DEF UpdateSession, TypeOK
<1> QED
  BY <1>1, <1>2, <1>3, <1>4, <1>5, <1>6, <1>7, <1>8 DEF TimeoutWatcher, IdleWatcher

\* NVCF, the clock and a restart keep the types.
LEMMA EnvironmentKeepsType ==
  ASSUME TypeOK, (\E s \in Sessions : NvcfEnds(s)) \/ Tick \/ Restart
  PROVE  TypeOK'
<1>1. ASSUME NEW s \in Sessions, NvcfEnds(s)
      PROVE  TypeOK'
  BY <1>1 DEF NvcfEnds, TypeOK
<1>2. CASE Tick
  BY <1>2 DEF Tick, TypeOK
<1>3. CASE Restart
  BY <1>3 DEF Restart, Fault, TypeOK, FreeConn, ReadyTask, ConnPcs, Socks, EndPcs,
              Terminal, Snapshots
<1> QED BY <1>1, <1>2, <1>3

\* Every step keeps the types.
LEMMA TypeStep == TypeOK /\ [Next]_vars => TypeOK'
<1> SUFFICES ASSUME TypeOK, [Next]_vars PROVE TypeOK'
  OBVIOUS
<1>1. ASSUME NEW e \in Enders, NEW s \in Sessions, RequestEnd(e, s)
      PROVE  TypeOK'
  BY <1>1 DEF RequestEnd, TypeOK, EndPcs, Terminal, Tasks
<1>2. CASE UNCHANGED vars
  BY <1>2 DEF vars, TypeOK, Snapshots
<1> QED
  BY <1>1, <1>2, StartKeepsType, HandlerKeepsType, EndSessionKeepsType,
     WatchersKeepType, EnvironmentKeepsType DEF Next

\* The state of the backend is well typed in every reachable state; in particular
\* a handler or an end_session call in progress always has a session.
THEOREM TypeCorrect == Spec => []TypeOK
<1>1. Init => TypeOK
  BY TypeInit
<1>2. TypeOK /\ [Next]_vars => TypeOK'
  BY TypeStep
<1> QED BY <1>1, <1>2, PTL DEF Spec

-----------------------------------------------------------------------------
(* The registry and the gauge *)

\* Most steps leave the registry, the gauge and what they count alone.
Quiet ==
  /\ registry' = registry /\ gauge' = gauge
  /\ \A c \in Conns : /\ conn'[c].sid = conn[c].sid
                      /\ conn'[c].pc = "free" <=> conn[c].pc = "free"
                      /\ conn'[c].pc = "loaded" <=> conn[c].pc = "loaded"
                      /\ conn'[c].pc = "streaming" <=> conn[c].pc = "streaming"

\* A handler that moves between two places outside the streaming section.
LEMMA GotoQuiet ==
  ASSUME TypeOK, NEW c \in Conns, NEW pc, Goto(c, pc),
         conn[c].pc \notin {"free", "loaded", "streaming"},
         pc \notin {"free", "loaded", "streaming"},
         registry' = registry, gauge' = gauge
  PROVE  Quiet
BY DEF TypeOK, Goto, Quiet

\* The steps that are not quiet.
LEMMA StepIsQuiet ==
  ASSUME TypeOK, [Next]_vars
  PROVE  \/ Quiet
         \/ \E c \in Conns, s \in Sessions : LoadSession(c, s)
         \/ \E c \in Conns : RegisterWebsocket(c) \/ ApplicationGone(c)
         \/ \E c \in Conns : PopWebsocket(c) \/ SaveActive(c)
         \/ \E c \in Conns, pc \in ConnPcs \ {"free", "loaded", "streaming"}, k \in Socks :
              EndStreaming(c, pc, k)
         \/ Restart
<1>1. ASSUME NEW p \in Starters, StartRequest(p) PROVE Quiet
  BY <1>1 DEF StartRequest, StartStream, PostAccepted, PostFails, Quiet
<1>2. ASSUME NEW c \in Conns, SaveConnecting(c) PROVE Quiet
  BY <1>2, GotoQuiet DEF SaveConnecting
<1>3. ASSUME NEW c \in Conns, DialAccepted(c) \/ DialRejected(c) \/ DialBreaks(c)
      PROVE  Quiet
  BY <1>3, GotoQuiet DEF DialAccepted, DialRejected, DialBreaks
<1>4. ASSUME NEW c \in Conns, SaveIdle(c) \/ SaveFailed(c) \/ RecordUpstreamError(c)
      PROVE  Quiet
  BY <1>4, GotoQuiet DEF SaveIdle, SaveFailed, RecordUpstreamError
<1>5. ASSUME NEW c \in Conns,
             \/ ClientDisconnects(c) \/ UpstreamCloses(c) \/ UpstreamAborts(c)
             \/ ClosedByApi(c) \/ ConsumerRaises(c)
      PROVE  \E pc \in ConnPcs \ {"free", "loaded", "streaming"}, k \in Socks :
               EndStreaming(c, pc, k)
  <2>1. conn[c].sock \in Socks
    BY DEF TypeOK
  <2>2. {"idling", "failing", "popping"} \subseteq ConnPcs \ {"free", "loaded", "streaming"}
        /\ {"left", "closed", "closedEarly"} \subseteq Socks
    BY DEF ConnPcs, Socks
  <2>3. CASE ClientDisconnects(c) BY <2>2, <2>3 DEF ClientDisconnects
  <2>4. CASE UpstreamCloses(c) BY <2>1, <2>2, <2>4 DEF UpstreamCloses
  <2>5. CASE UpstreamAborts(c) BY <2>1, <2>2, <2>5 DEF UpstreamAborts
  <2>6. CASE ClosedByApi(c) BY <2>2, <2>6 DEF ClosedByApi
  <2>7. CASE ConsumerRaises(c) BY <2>2, <2>7 DEF ConsumerRaises
  <2> QED BY <1>5, <2>3, <2>4, <2>5, <2>6, <2>7
<1>6. ASSUME NEW e \in Enders, NEW s \in Sessions, RequestEnd(e, s) PROVE Quiet
  BY <1>6 DEF RequestEnd, Quiet
<1>7. ASSUME NEW e \in Tasks, EndSession(e) PROVE Quiet
  <2>1. CASE CloseWebsocket(e)
    <3> DEFINE c == registry[ender[e].sid]
    <3>1. CASE UNCHANGED conn
      BY <2>1, <3>1 DEF CloseWebsocket, Quiet
    <3>2. CASE conn # conn'
      <4>1. PICK k \in Socks : conn' = [conn EXCEPT ![c].sock = k]
        BY <2>1, <3>2 DEF CloseWebsocket, Socks
      <4>2. conn \in [Conns -> [pc : ConnPcs, sid : Sessions \union {NoSession},
                               sock : Socks]]
        BY DEF TypeOK
      <4>3. \A d \in Conns : conn'[d].sid = conn[d].sid /\ conn'[d].pc = conn[d].pc
        BY <4>1, <4>2
      <4>4. registry' = registry /\ gauge' = gauge
        BY <2>1 DEF CloseWebsocket
      <4> QED BY <4>3, <4>4 DEF Quiet
    <3> QED BY <3>1, <3>2
  <2>2. CASE DeleteOk(e) \/ DeleteNotFound(e) \/ DeleteRefused(e) \/ SaveEnded(e)
    BY <2>2 DEF DeleteOk, DeleteNotFound, DeleteRefused, SaveEnded, Quiet
  <2>3. CASE DeleteTimesOut(e) \/ DeleteBreaks(e)
    BY <2>3 DEF DeleteTimesOut, DeleteBreaks, LostDelete, Quiet
  <2> QED BY <1>7, <2>1, <2>2, <2>3 DEF EndSession
<1>8. CASE TimeoutWatcher \/ IdleWatcher \/ Purge
  BY <1>8 DEF TimeoutWatcher, TimeoutScan, TimeoutNext, IdleWatcher, IdleScan,
              IdleExpire, Purge, Quiet
<1>9. ASSUME NEW s \in Sessions, CheckSession(s) \/ NvcfEnds(s) PROVE Quiet
  BY <1>9 DEF CheckSession, NvcfEnds, Quiet
<1>10. ASSUME NEW b \in checks, CheckExpire(b) PROVE Quiet
  BY <1>10 DEF CheckExpire, Quiet
<1>11. ASSUME NEW s \in Sessions, NEW er \in {"none", "client"}, UpdateSession(s, er)
       PROVE  Quiet
  BY <1>11 DEF UpdateSession, Quiet
<1>12. CASE Tick \/ UNCHANGED vars
  BY <1>12 DEF Tick, vars, Quiet
<1> QED
  BY <1>1, <1>2, <1>3, <1>4, <1>5, <1>6, <1>7, <1>8, <1>9, <1>10, <1>11, <1>12
  DEF Next, Handler, HandlerRuns

\* A registry entry is removed, by its own handler or by another one of the same
\* session, before its slot is freed: the only step that frees a slot clears
\* the entry of the handler's session.
LEMMA RegistryStep ==
  ASSUME TypeOK, RegistryLive, [Next]_vars
  PROVE  RegistryLive'
<1>1. CASE Quiet
  BY <1>1 DEF Quiet, RegistryLive, TypeOK
<1>2. ASSUME NEW c \in Conns, NEW s \in Sessions, LoadSession(c, s)
      PROVE  RegistryLive'
  BY <1>2 DEF LoadSession, RegistryLive, TypeOK
<1>2b. ASSUME NEW c \in Conns, RegisterWebsocket(c) \/ ApplicationGone(c)
       PROVE  RegistryLive'
  BY <1>2b DEF RegisterWebsocket, ApplicationGone, Goto, RegistryLive, TypeOK
<1>3. ASSUME NEW c \in Conns, PopWebsocket(c)
      PROVE  RegistryLive'
  BY <1>3 DEF PopWebsocket, RegistryLive, TypeOK
<1>4. ASSUME NEW c \in Conns, SaveActive(c)
      PROVE  RegistryLive'
  BY <1>4 DEF SaveActive, Goto, RegistryLive, TypeOK
<1>5. ASSUME NEW c \in Conns, NEW pc \in ConnPcs \ {"free", "loaded", "streaming"},
             NEW k \in Socks, EndStreaming(c, pc, k)
      PROVE  RegistryLive'
  BY <1>5 DEF EndStreaming, RegistryLive, TypeOK
<1>6. CASE Restart
  BY <1>6 DEF Restart, RegistryLive
<1> QED BY <1>1, <1>2, <1>2b, <1>3, <1>4, <1>5, <1>6, StepIsQuiet

\* session_websockets holds only websockets of handlers that still run, each
\* under its own session.
THEOREM RegistryIsLive == Spec => []RegistryLive
<1>1. Init => RegistryLive
  BY DEF Init, RegistryLive
<1>2. TypeOK /\ RegistryLive /\ [Next]_vars => RegistryLive'
  BY RegistryStep
<1> QED BY <1>1, <1>2, TypeCorrect, PTL DEF Spec

\* The gauge moves with the set of streaming handlers.
LEMMA GaugeStep ==
  ASSUME TypeOK, GaugeExact, [Next]_vars
  PROVE  GaugeExact'
<1> DEFINE S == {c \in Conns : conn[c].pc = "streaming"}
<1>0. IsFiniteSet(S)
  BY ConstantsAssumption, FS_Subset DEF ConstantsAssumption
<1>1. CASE Quiet
  <2>1. S' = S
    BY <1>1 DEF Quiet
  <2> QED BY <1>1, <2>1 DEF Quiet, GaugeExact
<1>2. ASSUME NEW c \in Conns, NEW s \in Sessions, LoadSession(c, s)
      PROVE  GaugeExact'
  <2>1. S' = S
    BY <1>2 DEF LoadSession, TypeOK
  <2> QED BY <1>2, <2>1 DEF LoadSession, GaugeExact
<1>2b. ASSUME NEW c \in Conns, RegisterWebsocket(c) \/ ApplicationGone(c)
       PROVE  GaugeExact'
  <2>1. S' = S
    BY <1>2b DEF RegisterWebsocket, ApplicationGone, Goto, TypeOK, FreeConn
  <2> QED BY <1>2b, <2>1 DEF RegisterWebsocket, ApplicationGone, GaugeExact
<1>3. ASSUME NEW c \in Conns, PopWebsocket(c)
      PROVE  GaugeExact'
  <2>1. S' = S
    BY <1>3 DEF PopWebsocket, TypeOK, FreeConn
  <2> QED BY <1>3, <2>1 DEF PopWebsocket, GaugeExact
<1>4. ASSUME NEW c \in Conns, SaveActive(c)
      PROVE  GaugeExact'
  <2>1. S' = S \union {c} /\ c \notin S
    BY <1>4 DEF SaveActive, Goto, TypeOK
  <2>2. Cardinality(S') = Cardinality(S) + 1
    BY <1>0, <2>1, FS_AddElement
  <2> QED BY <1>4, <2>2 DEF SaveActive, GaugeExact
<1>5. ASSUME NEW c \in Conns, NEW pc \in ConnPcs \ {"free", "loaded", "streaming"},
             NEW k \in Socks, EndStreaming(c, pc, k)
      PROVE  GaugeExact'
  <2>1. S' = S \ {c} /\ c \in S
    BY <1>5 DEF EndStreaming, TypeOK
  <2>2. Cardinality(S') = Cardinality(S) - 1
    BY <1>0, <2>1, FS_RemoveElement
  <2> QED BY <1>5, <2>2 DEF EndStreaming, GaugeExact
<1>6. CASE Restart
  <2>1. S' = {}
    BY <1>6 DEF Restart, FreeConn
  <2> QED BY <1>6, <2>1, FS_EmptySet DEF Restart, GaugeExact
<1> QED BY <1>1, <1>2, <1>2b, <1>3, <1>4, <1>5, <1>6, StepIsQuiet

\* sessions.active.count is exact, whatever other tasks write to the rows.
THEOREM GaugeIsExact == Spec => []GaugeExact
<1>1. Init => GaugeExact
  <2>1. ASSUME Init PROVE {c \in Conns : conn[c].pc = "streaming"} = {}
    BY <2>1 DEF Init, FreeConn
  <2> QED BY <2>1, FS_EmptySet DEF Init, GaugeExact
<1>2. TypeOK /\ GaugeExact /\ [Next]_vars => GaugeExact'
  BY GaugeStep
<1> QED BY <1>1, <1>2, TypeCorrect, PTL DEF Spec

-----------------------------------------------------------------------------
(* No session is stuck *)

\* A websocket is not closed "while streaming" before its handler streams, and not at
\* all before it is registered.
SockBeforeStream ==
  \A c \in Conns :
    /\ conn[c].pc = "loaded" => conn[c].sock = "open"
    /\ conn[c].pc \in {"registered", "dialing", "dialed"} =>
         conn[c].sock \in {"open", "closedEarly"}

LEMMA SockStep ==
  ASSUME TypeOK, RegistryLive, SockBeforeStream, [Next]_vars
  PROVE  SockBeforeStream'
<1>0. ASSUME conn' = conn PROVE SockBeforeStream'
  BY <1>0 DEF SockBeforeStream
<1>1. ASSUME NEW p \in Starters, StartRequest(p) PROVE SockBeforeStream'
  BY <1>0, <1>1 DEF StartRequest, StartStream, PostAccepted, PostFails
<1>2. ASSUME NEW c \in Conns, NEW s \in Sessions, LoadSession(c, s)
      PROVE  SockBeforeStream'
  BY <1>2 DEF LoadSession, SockBeforeStream, TypeOK
<1>2b. ASSUME NEW c \in Conns, RegisterWebsocket(c) \/ ApplicationGone(c)
       PROVE  SockBeforeStream'
  BY <1>2b DEF RegisterWebsocket, ApplicationGone, Goto, FreeConn, SockBeforeStream, TypeOK
<1>3. ASSUME NEW c \in Conns, SaveConnecting(c) \/ DialAccepted(c)
      PROVE  SockBeforeStream'
  BY <1>3 DEF SaveConnecting, DialAccepted, Goto, SockBeforeStream, TypeOK
<1>4. ASSUME NEW c \in Conns, DialRejected(c) \/ DialBreaks(c) \/ SaveActive(c)
      PROVE  SockBeforeStream'
  BY <1>4 DEF DialRejected, DialBreaks, SaveActive, Goto, SockBeforeStream, TypeOK
<1>5. ASSUME NEW c \in Conns,
             \/ ClientDisconnects(c) \/ UpstreamCloses(c) \/ UpstreamAborts(c)
             \/ ClosedByApi(c) \/ ConsumerRaises(c)
      PROVE  SockBeforeStream'
  <2>1. conn[c].sock \in Socks
    BY DEF TypeOK
  <2>2. PICK pc \in {"idling", "failing", "popping"}, k \in Socks :
          conn' = [conn EXCEPT ![c].pc = pc, ![c].sock = k]
    BY <1>5, <2>1 DEF ClientDisconnects, UpstreamCloses, UpstreamAborts, ClosedByApi,
                      ConsumerRaises, EndStreaming, Socks
  <2>3. conn'[c].pc = pc /\ \A d \in Conns \ {c} : conn'[d] = conn[d]
    BY <2>2 DEF TypeOK
  <2> QED BY <2>3 DEF SockBeforeStream
<1>6. ASSUME NEW c \in Conns, SaveIdle(c) \/ SaveFailed(c) \/ RecordUpstreamError(c)
      PROVE  SockBeforeStream'
  BY <1>6 DEF SaveIdle, SaveFailed, RecordUpstreamError, Goto, SockBeforeStream, TypeOK
<1>7. ASSUME NEW c \in Conns, PopWebsocket(c) PROVE SockBeforeStream'
  BY <1>7 DEF PopWebsocket, FreeConn, SockBeforeStream, TypeOK
<1>8. ASSUME NEW e \in Enders, NEW s \in Sessions, RequestEnd(e, s)
      PROVE  SockBeforeStream'
  BY <1>0, <1>8 DEF RequestEnd
<1>9. ASSUME NEW e \in Tasks, EndSession(e) PROVE SockBeforeStream'
  <2>1. CASE CloseWebsocket(e)
    <3> DEFINE s == ender[e].sid
    <3>1. s \in Sessions
      BY <2>1 DEF CloseWebsocket, TypeOK
    <3>2. registry[s] # NoConn => conn[registry[s]].pc # "loaded"
      BY <3>1 DEF RegistryLive
    <3> QED BY <2>1, <3>2 DEF CloseWebsocket, SockBeforeStream, TypeOK
  <2>2. CASE DeleteOk(e) \/ DeleteNotFound(e) \/ DeleteRefused(e) \/ SaveEnded(e)
    BY <1>0, <2>2 DEF DeleteOk, DeleteNotFound, DeleteRefused, SaveEnded
  <2>3. CASE DeleteTimesOut(e) \/ DeleteBreaks(e)
    BY <1>0, <2>3 DEF DeleteTimesOut, DeleteBreaks, LostDelete
  <2> QED BY <1>9, <2>1, <2>2, <2>3 DEF EndSession
<1>10. CASE TimeoutWatcher \/ IdleWatcher \/ Purge
  BY <1>0, <1>10 DEF TimeoutWatcher, TimeoutScan, TimeoutNext, IdleWatcher,
                     IdleScan, IdleExpire, Purge
<1>11. ASSUME NEW s \in Sessions, CheckSession(s) \/ NvcfEnds(s)
       PROVE  SockBeforeStream'
  BY <1>0, <1>11 DEF CheckSession, NvcfEnds
<1>12. ASSUME NEW b \in checks, CheckExpire(b) PROVE SockBeforeStream'
  BY <1>0, <1>12 DEF CheckExpire
<1>13. ASSUME NEW s \in Sessions, NEW er \in {"none", "client"}, UpdateSession(s, er)
       PROVE  SockBeforeStream'
  BY <1>0, <1>13 DEF UpdateSession
<1>14. CASE Tick \/ UNCHANGED vars
  BY <1>0, <1>14 DEF Tick, vars
<1>15. CASE Restart
  BY <1>15 DEF Restart, FreeConn, SockBeforeStream
<1> QED
  BY <1>1, <1>2, <1>3, <1>4, <1>5, <1>6, <1>7, <1>8, <1>9, <1>10, <1>11, <1>12,
     <1>13, <1>14, <1>15, <1>2b DEF Next, Handler, HandlerRuns

\* How a save changes statuses: it gives the saved row its new status, if the row
\* is stored, and leaves the others.
LEMMA SaveStatus ==
  ASSUME TypeOK, NEW s \in Sessions, NEW r \in Rows, Save(s, r)
  PROVE  \A t \in Sessions :
           row'[t].status = IF t = s /\ Stored(s) THEN r.status ELSE row[t].status
BY DEF Save, TypeOK

InUse == {"CONNECTING", "ACTIVE"}

\* A step that takes no row into use, and leaves those that will write a row what
\* they are, leaves no session stuck.
LEMMA NoStuckFrame ==
  ASSUME NoStuckSession,
         \A s \in Sessions : row'[s].status \in InUse => row[s].status \in InUse,
         \A c \in Conns : WillSave(c) => WillSave(c)' /\ conn'[c].sid = conn[c].sid,
         \A e \in Tasks : ender[e].pc = "saving" => ender'[e] = ender[e]
  PROVE  NoStuckSession'
BY DEF NoStuckSession, InUse

\* The handler's last save takes its session out of use, so nothing is lost when
\* the handler stops being a writer.
LEMMA NoStuckLastSave ==
  ASSUME TypeOK, NoStuckSession, NEW c \in Conns, NEW r \in Rows,
         conn[c].pc # "free", r.status \in {"IDLE", "FAILED"},
         Save(conn[c].sid, r), ender' = ender,
         NEW pc, Goto(c, pc)
  PROVE  NoStuckSession'
<1> DEFINE s == conn[c].sid
<1>1. s \in Sessions
  BY DEF TypeOK
<1>2. /\ row'[s].status \notin InUse
      /\ \A t \in Sessions \ {s} : row'[t].status = row[t].status
  BY <1>1, SaveStatus DEF Stored, IsAlive, HasEnded, InUse, Alive, Terminal
<1>3. \A d \in Conns \ {c} : conn'[d] = conn[d]
  BY DEF Goto, TypeOK
<1> QED BY <1>2, <1>3 DEF NoStuckSession, WillSave, InUse

LEMMA NoStuckHandler ==
  ASSUME TypeOK, SockBeforeStream, NoStuckSession, NEW c \in Conns, Handler(c)
  PROVE  NoStuckSession'
<1> DEFINE s == conn[c].sid
<1>0. conn[c].pc # "free" => s \in Sessions
  BY DEF TypeOK
<1>a. \A d \in Conns \ {c} : conn'[d] = conn[d] => WillSave(d)' = WillSave(d)
  BY DEF WillSave
<1>1. ASSUME NEW t \in Sessions, LoadSession(c, t)
      PROVE  NoStuckSession'
  <2>1. ~WillSave(c)
    BY <1>1 DEF LoadSession, WillSave
  <2>2. \A d \in Conns \ {c} : conn'[d] = conn[d]
    BY <1>1 DEF LoadSession, TypeOK
  <2> QED BY <1>1, <2>1, <2>2, <1>a, NoStuckFrame DEF LoadSession
<1>1b. CASE RegisterWebsocket(c) \/ ApplicationGone(c)
  <2>1. ~WillSave(c)
    BY <1>1b DEF RegisterWebsocket, ApplicationGone, WillSave
  <2>2. \A d \in Conns \ {c} : conn'[d] = conn[d]
    BY <1>1b DEF RegisterWebsocket, ApplicationGone, Goto, TypeOK
  <2> QED BY <1>1b, <2>1, <2>2, <1>a, NoStuckFrame DEF RegisterWebsocket, ApplicationGone
<1>2. CASE SaveConnecting(c)
  <2>1. WillSave(c)' /\ conn'[c].sid = s
    BY <1>2 DEF SaveConnecting, Goto, WillSave, TypeOK
  <2>2. \A d \in Conns \ {c} : conn'[d] = conn[d]
    BY <1>2 DEF SaveConnecting, Goto, TypeOK
  <2>3. \A t \in Sessions \ {s} : row'[t] = row[t]
    BY <1>2 DEF SaveConnecting, Save, TypeOK
  <2>4. ender' = ender
    BY <1>2 DEF SaveConnecting
  <2> QED BY <2>1, <2>2, <2>3, <2>4, <1>a DEF NoStuckSession
<1>3. CASE DialAccepted(c) \/ DialRejected(c) \/ DialBreaks(c)
  <2>1. WillSave(c)' /\ conn'[c].sid = s
    BY <1>3 DEF DialAccepted, DialRejected, DialBreaks, Goto, WillSave, TypeOK
  <2>2. \A d \in Conns \ {c} : conn'[d] = conn[d]
    BY <1>3 DEF DialAccepted, DialRejected, DialBreaks, Goto, TypeOK
  <2>3. ender' = ender /\ row' = row
    BY <1>3 DEF DialAccepted, DialRejected, DialBreaks
  <2> QED BY <2>1, <2>2, <2>3, <1>a, NoStuckFrame
<1>4. CASE SaveActive(c)
  <2>1. WillSave(c)' /\ conn'[c].sid = s
    BY <1>4 DEF SaveActive, Goto, WillSave, TypeOK, SockBeforeStream
  <2>2. \A d \in Conns \ {c} : conn'[d] = conn[d]
    BY <1>4 DEF SaveActive, Goto, TypeOK
  <2>3. \A t \in Sessions \ {s} : row'[t] = row[t]
    BY <1>4 DEF SaveActive, Save, TypeOK
  <2>4. ender' = ender
    BY <1>4 DEF SaveActive
  <2> QED BY <2>1, <2>2, <2>3, <2>4, <1>a DEF NoStuckSession
<1>5. CASE ClientDisconnects(c) \/ UpstreamCloses(c) \/ UpstreamAborts(c)
           \/ ConsumerRaises(c)
  <2>1. WillSave(c)' /\ conn'[c].sid = s
    BY <1>5 DEF ClientDisconnects, UpstreamCloses, UpstreamAborts, ConsumerRaises,
                EndStreaming, WillSave, TypeOK
  <2>2. \A d \in Conns \ {c} : conn'[d] = conn[d]
    BY <1>5 DEF ClientDisconnects, UpstreamCloses, UpstreamAborts, ConsumerRaises,
                EndStreaming, TypeOK
  <2>3. ender' = ender /\ row' = row
    BY <1>5 DEF ClientDisconnects, UpstreamCloses, UpstreamAborts, ConsumerRaises,
                EndStreaming
  <2> QED BY <2>1, <2>2, <2>3, <1>a, NoStuckFrame
<1>6. CASE ClosedByApi(c)
  <2>1. ~WillSave(c)
    BY <1>6 DEF ClosedByApi, EndStreaming, WillSave
  <2>2. \A d \in Conns \ {c} : conn'[d] = conn[d]
    BY <1>6 DEF ClosedByApi, EndStreaming, TypeOK
  <2>3. ender' = ender /\ row' = row
    BY <1>6 DEF ClosedByApi, EndStreaming
  <2> QED BY <2>1, <2>2, <2>3, <1>a, NoStuckFrame
<1>b. s \in Sessions =>
        /\ [row[s] EXCEPT !.status = "IDLE", !.end = now] \in Rows
        /\ [row[s] EXCEPT !.status = "FAILED", !.end = now] \in Rows
        /\ [row[s] EXCEPT !.status = "IDLE", !.end = now].status = "IDLE"
        /\ [row[s] EXCEPT !.status = "FAILED", !.end = now].status = "FAILED"
  <2>1. /\ "IDLE" \in Statuses /\ "FAILED" \in Statuses /\ "none" \in Errors
        /\ now \in Nat \union {Null} /\ row \in [Sessions -> Rows]
    BY DEF TypeOK, Statuses, Alive, Terminal, Errors
  <2>2. s \in Sessions => row[s] \in Rows
    BY <2>1
  <2> QED BY <2>1, <2>2, RowType DEF Rows
<1>7. CASE SaveIdle(c)
  BY <1>0, <1>7, <1>b, NoStuckLastSave DEF SaveIdle
<1>8. CASE SaveFailed(c)
  BY <1>0, <1>8, <1>b, NoStuckLastSave DEF SaveFailed
<1>9. CASE RecordUpstreamError(c)
  <2>1. ~WillSave(c)
    BY <1>9 DEF RecordUpstreamError, WillSave
  <2>2. \A d \in Conns \ {c} : conn'[d] = conn[d]
    BY <1>9 DEF RecordUpstreamError, Goto, TypeOK
  <2>3. \A t \in Sessions : row'[t].status = row[t].status
    BY <1>9 DEF RecordUpstreamError, Save, TypeOK, Rows
  <2>4. ender' = ender
    BY <1>9 DEF RecordUpstreamError
  <2> QED BY <2>1, <2>2, <2>3, <2>4, <1>a, NoStuckFrame
<1>10. CASE PopWebsocket(c)
  <2>1. ~WillSave(c)
    BY <1>10 DEF PopWebsocket, WillSave
  <2>2. \A d \in Conns \ {c} : conn'[d] = conn[d]
    BY <1>10 DEF PopWebsocket, TypeOK
  <2>3. ender' = ender /\ row' = row
    BY <1>10 DEF PopWebsocket
  <2> QED BY <2>1, <2>2, <2>3, <1>a, NoStuckFrame
<1> QED
  BY <1>1, <1>1b, <1>2, <1>3, <1>4, <1>5, <1>6, <1>7, <1>8, <1>9, <1>10
  DEF Handler, HandlerRuns

\* end_session takes a handler's word away only when it is about to save.
LEMMA NoStuckEnd ==
  ASSUME TypeOK, RegistryLive, NoStuckSession, NEW e \in Tasks, EndSession(e)
  PROVE  NoStuckSession'
<1> DEFINE s == ender[e].sid
<1>a. conn' = conn => \A c \in Conns : WillSave(c)' = WillSave(c)
  BY DEF WillSave
<1>1. CASE DeleteOk(e) \/ DeleteNotFound(e) \/ DeleteRefused(e)
  <2>1. conn' = conn /\ row' = row /\ ender[e].pc = "deleting"
        /\ \A d \in Tasks \ {e} : ender'[d] = ender[d]
    BY <1>1 DEF DeleteOk, DeleteNotFound, DeleteRefused, EndGoto, TypeOK
  <2> QED BY <1>a, <2>1, NoStuckFrame
<1>2. CASE DeleteTimesOut(e) \/ DeleteBreaks(e)
  <2>1. conn' = conn /\ row' = row /\ ender[e].pc = "deleting"
        /\ \A d \in Tasks \ {e} : ender'[d] = ender[d]
    BY <1>2 DEF DeleteTimesOut, DeleteBreaks, LostDelete, TypeOK
  <2> QED BY <1>a, <2>1, NoStuckFrame
<1>3. CASE CloseWebsocket(e)
  <2> DEFINE c == registry[s]
  <2>0. /\ row' = row /\ ender[e].pc = "closing" /\ s \in Sessions
        /\ \A d \in Tasks \ {e} : ender'[d] = ender[d]
    BY <1>3 DEF CloseWebsocket, EndGoto, TypeOK
  <2>1. CASE conn' = conn
    BY <1>a, <2>0, <2>1, NoStuckFrame
  <2>2. CASE conn' # conn
    <3>1. /\ c \in Conns /\ conn[c].sid = s
          /\ \A d \in Conns \ {c} : conn'[d] = conn[d]
          /\ ender'[e].sid = s /\ ender'[e].pc = "saving"
      BY <1>3, <2>0, <2>2 DEF CloseWebsocket, EndGoto, RegistryLive, TypeOK
    <3>2. \A d \in Conns \ {c} : WillSave(d)' = WillSave(d)
      BY <3>1 DEF WillSave
    <3> QED BY <2>0, <3>1, <3>2 DEF NoStuckSession
  <2> QED BY <2>1, <2>2
<1>4. CASE SaveEnded(e)
  <2>1. /\ conn' = conn /\ ender[e].pc = "saving" /\ s \in Sessions
        /\ \A d \in Tasks \ {e} : ender'[d] = ender[d]
    BY <1>4 DEF SaveEnded, TypeOK
  <2>2. /\ row'[s].status \notin InUse
        /\ \A t \in Sessions \ {s} : row'[t] = row[t]
    <3>1. ender[e].final \in Terminal
      BY DEF TypeOK
    <3>2. row[s] \in Rows
      BY <2>1 DEF TypeOK
    <3> QED BY <1>4, <2>1, <3>1, <3>2
            DEF SaveEnded, Save, Stored, IsAlive, HasEnded, InUse, Alive, Terminal,
                TypeOK, Rows
  <2> QED BY <1>a, <2>1, <2>2 DEF NoStuckSession, InUse
<1> QED BY <1>1, <1>2, <1>3, <1>4 DEF EndSession

\* What is left are tasks that only ever take a session out of use.
LEMMA NoStuckOthers ==
  ASSUME TypeOK, NoStuckSession,
         \/ \E p \in Starters : StartRequest(p)
         \/ \E e \in Enders, s \in Sessions : RequestEnd(e, s)
         \/ TimeoutWatcher \/ IdleWatcher \/ Purge
         \/ \E s \in Sessions : CheckSession(s) \/ NvcfEnds(s)
         \/ \E b \in checks : CheckExpire(b)
         \/ \E s \in Sessions, error \in {"none", "client"} :
              UpdateSession(s, error)
         \/ Tick \/ UNCHANGED vars
  PROVE  NoStuckSession'
<1>a. conn' = conn => \A c \in Conns : WillSave(c)' = WillSave(c)
  BY DEF WillSave
<1>b. ASSUME conn' = conn, row' = row,
             \A e \in Tasks : ender[e].pc = "saving" => ender'[e] = ender[e]
      PROVE  NoStuckSession'
  BY <1>a, <1>b, NoStuckFrame
<1>c. ASSUME conn' = conn, ender' = ender,
             \A s \in Sessions : row'[s].status \in InUse => row[s].status \in InUse
      PROVE  NoStuckSession'
  BY <1>a, <1>c, NoStuckFrame
<1>1. ASSUME NEW p \in Starters, StartRequest(p) PROVE NoStuckSession'
  <2>1. CASE StartStream(p) \/ PostFails(p)
    BY <1>b, <2>1 DEF StartStream, PostFails
  <2>2. ASSUME NEW s \in Sessions, PostAccepted(p, s) PROVE NoStuckSession'
    BY <1>c, <2>2 DEF PostAccepted, InUse, TypeOK
  <2> QED BY <1>1, <2>1, <2>2 DEF StartRequest
<1>2. ASSUME NEW e \in Enders, NEW s \in Sessions, RequestEnd(e, s)
      PROVE  NoStuckSession'
  BY <1>b, <1>2 DEF RequestEnd, TypeOK
<1>3. CASE TimeoutWatcher
  BY <1>b, <1>3 DEF TimeoutWatcher, TimeoutScan, TimeoutNext, TypeOK
<1>d. ASSUME NEW b \in Snapshots, Save(b.sid, [row[b.sid] EXCEPT !.status = b.final])
      PROVE  \A s \in Sessions : row'[s].status \in InUse => row[s].status \in InUse
  <2>1. b.sid \in Sessions /\ b.final \in Terminal /\ row[b.sid] \in Rows
    BY <1>d DEF Snapshots, TypeOK
  <2> QED BY <1>d, <2>1 DEF Save, InUse, Terminal, TypeOK, Rows
<1>4. CASE IdleWatcher
  <2>1. CASE IdleScan
    BY <1>b, <2>1 DEF IdleScan
  <2>2. ASSUME NEW b \in idle, IdleExpire(b) PROVE NoStuckSession'
    <3>1. b \in Snapshots
      BY DEF TypeOK
    <3> QED BY <1>c, <1>d, <2>2, <3>1 DEF IdleExpire
  <2> QED BY <1>4, <2>1, <2>2 DEF IdleWatcher
<1>5. CASE Purge
  BY <1>c, <1>5 DEF Purge, PurgedRow, AbsentRow, InUse, TypeOK
<1>6. ASSUME NEW s \in Sessions, CheckSession(s) \/ NvcfEnds(s)
      PROVE  NoStuckSession'
  BY <1>b, <1>6 DEF CheckSession, NvcfEnds
<1>7. ASSUME NEW b \in checks, CheckExpire(b) PROVE NoStuckSession'
  <2>1. b \in Snapshots
    BY DEF TypeOK
  <2> QED BY <1>c, <1>d, <1>7, <2>1 DEF CheckExpire
<1>8. ASSUME NEW s \in Sessions, NEW er \in {"none", "client"}, UpdateSession(s, er)
      PROVE  NoStuckSession'
  <2>1. \A t \in Sessions : row'[t].status = row[t].status
    BY <1>8 DEF UpdateSession, Save, TypeOK, Rows
  <2> QED BY <1>c, <1>8, <2>1 DEF UpdateSession
<1>9. CASE Tick \/ UNCHANGED vars
  BY <1>b, <1>9 DEF Tick, vars
<1> QED BY <1>1, <1>2, <1>3, <1>4, <1>5, <1>6, <1>7, <1>8, <1>9

\* Without a restart of the backend no row keeps saying CONNECTING or ACTIVE when
\* nothing is left that will change it.  (A restart leaves such rows behind: the
\* premise is needed.)
THEOREM NoSessionIsStuck ==
  ASSUME "restart" \notin Faults
  PROVE  Spec => []NoStuckSession
<1>1. Init => SockBeforeStream /\ NoStuckSession
  BY DEF Init, SockBeforeStream, FreeConn, NoStuckSession, AbsentRow
<1>2. TypeOK /\ RegistryLive /\ SockBeforeStream /\ NoStuckSession /\ [Next]_vars
        => (SockBeforeStream /\ NoStuckSession)'
  <2> SUFFICES ASSUME TypeOK, RegistryLive, SockBeforeStream, NoStuckSession,
                      [Next]_vars
               PROVE  SockBeforeStream' /\ NoStuckSession'
    OBVIOUS
  <2>1. SockBeforeStream'
    BY SockStep
  <2>2. ~Restart
    BY DEF Restart, Fault
  <2> QED BY <2>1, <2>2, NoStuckHandler, NoStuckEnd, NoStuckOthers DEF Next
<1> QED BY <1>1, <1>2, TypeCorrect, RegistryIsLive, PTL DEF Spec

-----------------------------------------------------------------------------
(* What a client reported, and the number of sessions it may start *)

\* Nothing writes a row before start_stream inserts it.
AbsentRows == \A s \in Sessions : row[s].status = "ABSENT" => row[s] = AbsentRow

\* How the steps of the system change the table: not at all, or in one of five ways.
RowInsert(s) == /\ row[s].status = "ABSENT"
                /\ row' = [row EXCEPT ![s] = [status |-> "IDLE", error |-> "none",
                                              start |-> now, end |-> Null]]
RowSave(s) == \E st \in Statuses \ {"ABSENT"}, en \in Nat \union {Null} :
                Save(s, [row[s] EXCEPT !.status = st, !.end = en])
RowConnect(s) == Save(s, [row[s] EXCEPT !.status = "CONNECTING", !.end = Null,
                                        !.error = "none"])
RowError(s) == \E er \in Errors : Save(s, [row[s] EXCEPT !.error = er])
RowPurge == row' = [s \in Sessions |->
                      IF HasEnded(s) /\ row[s].start + Retention <= now
                      THEN PurgedRow ELSE row[s]]

\* Each of them leaves the rows of sessions never started as they are.
LEMMA AbsentRowsStep ==
  ASSUME TypeOK, AbsentRows, NEW s \in Sessions,
         \/ row' = row \/ RowInsert(s) \/ RowSave(s) \/ RowConnect(s)
         \/ RowError(s) \/ RowPurge
  PROVE  AbsentRows'
<1>1. CASE row' = row
  BY <1>1 DEF AbsentRows
<1>2. CASE RowInsert(s)
  BY <1>2 DEF RowInsert, AbsentRows, TypeOK
<1>3. CASE RowSave(s) \/ RowConnect(s) \/ RowError(s)
  <2>1. Stored(s) => row[s].status # "ABSENT"
    BY DEF Stored, IsAlive, HasEnded, Alive, Terminal
  <2>2. row[s] \in Rows
    BY DEF TypeOK
  <2>3. ASSUME NEW r, Save(s, r), r.status # "ABSENT" \/ ~Stored(s)
        PROVE  AbsentRows'
    BY <2>3 DEF Save, AbsentRows, TypeOK
  <2>4. ASSUME NEW st \in Statuses \ {"ABSENT"}, NEW en \in Nat \union {Null}
        PROVE  [row[s] EXCEPT !.status = st, !.end = en].status # "ABSENT"
    BY <2>2 DEF Rows
  <2>5. [row[s] EXCEPT !.status = "CONNECTING", !.end = Null,
                       !.error = "none"].status # "ABSENT"
    BY <2>2 DEF Rows
  <2>6. ASSUME NEW er \in Errors
        PROVE  [row[s] EXCEPT !.error = er].status # "ABSENT" \/ ~Stored(s)
    BY <2>1, <2>2 DEF Rows
  <2> QED BY <1>3, <2>3, <2>4, <2>5, <2>6 DEF RowSave, RowConnect, RowError
<1>4. CASE RowPurge
  BY <1>4 DEF RowPurge, AbsentRows, PurgedRow, AbsentRow, TypeOK
<1> QED BY <1>1, <1>2, <1>3, <1>4

\* The steps of the system change the table in these ways only; only end_session's
\* callers, handlers and watchers save a status, and while start_stream holds its
\* transaction on SQLite nothing but its own insert changes the table.
LEMMA RowSteps ==
  ASSUME TypeOK, [Next]_vars
  PROVE  \/ row' = row
         \/ \E s \in Sessions, p \in Starters : PostAccepted(p, s)
         \/ DbFree /\ \E s \in Sessions :
              \/ RowSave(s) \/ RowConnect(s)
              \/ \E c \in Conns : RecordUpstreamError(c) /\ conn[c].sid = s
              \/ \E er \in {"none", "client"} : UpdateSession(s, er)
         \/ DbFree /\ RowPurge
<1>0. {"IDLE", "ACTIVE", "FAILED"} \union Terminal \subseteq Statuses \ {"ABSENT"}
      /\ now \in Nat \union {Null}
      /\ \A s \in Sessions : row[s] \in Rows
  BY DEF Statuses, Alive, Terminal, TypeOK
<1>a. ASSUME NEW s \in Sessions, NEW st \in Statuses
      PROVE  /\ row[s].end \in Nat \union {Null}
             /\ [row[s] EXCEPT !.status = st]
                = [row[s] EXCEPT !.status = st, !.end = row[s].end]
  BY <1>0 DEF Rows
<1>1. ASSUME NEW p \in Starters, StartRequest(p)
      PROVE  row' = row \/ \E s \in Sessions : PostAccepted(p, s)
  BY <1>1 DEF StartRequest, StartStream, PostFails
<1>2. ASSUME NEW c \in Conns, Handler(c)
      PROVE  \/ row' = row
             \/ DbFree /\ conn[c].sid \in Sessions
                /\ (\/ RowSave(conn[c].sid) \/ RowConnect(conn[c].sid)
                    \/ RecordUpstreamError(c))
  <2>0. conn[c].pc # "free" => conn[c].sid \in Sessions
    BY DEF TypeOK
  <2>1. CASE SaveConnecting(c)
    BY <2>0, <2>1 DEF SaveConnecting, RowConnect
  <2>2. CASE SaveActive(c)
    <3>1. conn[c].sid \in Sessions /\ "ACTIVE" \in Statuses \ {"ABSENT"}
      BY <2>0, <2>2, <1>0 DEF SaveActive
    <3>2. row[conn[c].sid].end \in Nat \union {Null}
      BY <3>1, <1>a
    <3>3. Save(conn[c].sid, [row[conn[c].sid] EXCEPT !.status = "ACTIVE",
                                                     !.end = row[conn[c].sid].end])
      BY <2>2, <3>1, <1>a DEF SaveActive
    <3> QED BY <2>2, <3>1, <3>2, <3>3 DEF SaveActive, RowSave
  <2>3. CASE SaveIdle(c)
    BY <2>0, <2>3, <1>0 DEF SaveIdle, RowSave
  <2>4. CASE SaveFailed(c)
    BY <2>0, <2>4, <1>0 DEF SaveFailed, RowSave
  <2>5. CASE RecordUpstreamError(c)
    BY <2>0, <2>5 DEF RecordUpstreamError
  <2>6. CASE \/ \E s \in Sessions : LoadSession(c, s)
             \/ RegisterWebsocket(c) \/ ApplicationGone(c)
             \/ DialAccepted(c) \/ DialRejected(c) \/ DialBreaks(c)
             \/ PopWebsocket(c)
    BY <2>6 DEF LoadSession, RegisterWebsocket, ApplicationGone, DialAccepted,
                DialRejected, DialBreaks, PopWebsocket
  <2>7. CASE \/ ClientDisconnects(c) \/ UpstreamCloses(c) \/ UpstreamAborts(c)
             \/ ClosedByApi(c) \/ ConsumerRaises(c)
    BY <2>7 DEF ClientDisconnects, UpstreamCloses, UpstreamAborts, ClosedByApi,
                ConsumerRaises, EndStreaming
  <2> QED BY <1>2, <2>1, <2>2, <2>3, <2>4, <2>5, <2>6, <2>7
          DEF Handler, HandlerRuns
<1>3. ASSUME NEW e \in Tasks, EndSession(e)
      PROVE  row' = row \/ (DbFree /\ \E s \in Sessions : RowSave(s))
  <2>1. CASE SaveEnded(e)
    <3>1. ender[e].sid \in Sessions /\ ender[e].final \in Terminal
      BY <2>1 DEF SaveEnded, TypeOK
    <3>2. Save(ender[e].sid, [row[ender[e].sid] EXCEPT !.status = ender[e].final,
                                                       !.end = now])
      BY <2>1 DEF SaveEnded
    <3>3. ender[e].final \in Statuses \ {"ABSENT"}
      BY <3>1, <1>0
    <3>4. RowSave(ender[e].sid)
      BY <3>2, <3>3, <1>0 DEF RowSave
    <3> QED BY <2>1, <3>1, <3>4 DEF SaveEnded
  <2>2. CASE ~SaveEnded(e)
    BY <1>3, <2>2 DEF EndSession, DeleteOk, DeleteNotFound, DeleteRefused,
       DeleteTimesOut, DeleteBreaks, LostDelete, CloseWebsocket
  <2> QED BY <2>1, <2>2
<1>b. ASSUME NEW b \in Snapshots, Save(b.sid, [row[b.sid] EXCEPT !.status = b.final])
      PROVE  \E s \in Sessions : RowSave(s)
  <2>1. b.sid \in Sessions /\ b.final \in Terminal
    BY <1>b DEF Snapshots
  <2>2. b.final \in Statuses \ {"ABSENT"} /\ row[b.sid].end \in Nat \union {Null}
    BY <2>1, <1>0, <1>a
  <2>3. Save(b.sid, [row[b.sid] EXCEPT !.status = b.final,
                                       !.end = row[b.sid].end])
    BY <1>b, <2>1, <1>a
  <2>4. RowSave(b.sid)
    BY <2>2, <2>3 DEF RowSave
  <2> QED BY <2>1, <2>4
<1>4. CASE TimeoutWatcher \/ IdleWatcher \/ Purge
  <2>1. CASE TimeoutWatcher \/ IdleScan \/ Purge
    BY <2>1 DEF TimeoutWatcher, TimeoutScan, TimeoutNext, IdleScan, Purge, RowPurge
  <2>2. ASSUME NEW b \in idle, IdleExpire(b)
        PROVE  DbFree /\ \E s \in Sessions : RowSave(s)
    <3>1. b \in Snapshots
      BY DEF TypeOK
    <3> QED BY <2>2, <3>1, <1>b DEF IdleExpire
  <2> QED BY <1>4, <2>1, <2>2 DEF IdleWatcher
<1>5. ASSUME NEW b \in checks, CheckExpire(b)
      PROVE  DbFree /\ \E s \in Sessions : RowSave(s)
  <2>1. b \in Snapshots
    BY DEF TypeOK
  <2> QED BY <1>5, <2>1, <1>b DEF CheckExpire
<1>6. ASSUME NEW s \in Sessions, NEW er \in {"none", "client"}, UpdateSession(s, er)
      PROVE  DbFree
  BY <1>6 DEF UpdateSession
<1>7. CASE \/ \E e \in Enders, s \in Sessions : RequestEnd(e, s)
           \/ \E s \in Sessions : CheckSession(s) \/ NvcfEnds(s)
           \/ Tick \/ Restart \/ UNCHANGED vars
  BY <1>7 DEF RequestEnd, CheckSession, NvcfEnds, Tick, Restart, vars
<1> QED BY <1>1, <1>2, <1>3, <1>4, <1>5, <1>6, <1>7 DEF Next

LEMMA ClientErrorStep ==
  ASSUME TypeOK, AbsentRows, [Next]_vars
  PROVE  KeepsClientError
<1> SUFFICES ASSUME NEW s \in Sessions, row[s].error = "client",
                    row'[s].error # "client"
             PROVE  \/ row' = [row EXCEPT ![s].error = "none"]
                    \/ row'[s].status \in {"CONNECTING", "PURGED"}
  BY DEF KeepsClientError
<1>1. row \in [Sessions -> Rows] /\ \A t \in Sessions : row[t] \in Rows
  BY DEF TypeOK
<1>2. ASSUME NEW p \in Starters, NEW t \in Sessions, PostAccepted(p, t)
      PROVE  FALSE
  BY <1>1, <1>2 DEF PostAccepted, AbsentRows, AbsentRow
<1>3. ASSUME NEW t \in Sessions, NEW r, Save(t, r), t # s \/ r.error = "client"
      PROVE  FALSE
  BY <1>1, <1>3 DEF Save
<1>4. ASSUME NEW t \in Sessions, RowSave(t)
      PROVE  FALSE
  <2>1. PICK st \in Statuses \ {"ABSENT"}, en \in Nat \union {Null} :
               Save(t, [row[t] EXCEPT !.status = st, !.end = en])
    BY <1>4 DEF RowSave
  <2>2. [row[t] EXCEPT !.status = st, !.end = en].error = row[t].error
    BY <1>1 DEF Rows
  <2> QED BY <2>1, <2>2, <1>3
<1>5. ASSUME NEW t \in Sessions, RowConnect(t)
      PROVE  row'[s].status = "CONNECTING"
  <2>1. t = s
    BY <1>3, <1>5 DEF RowConnect
  <2>2. row'[s] = [row[s] EXCEPT !.status = "CONNECTING", !.end = Null,
                                 !.error = "none"]
    BY <1>1, <1>5, <2>1 DEF RowConnect, Save
  <2> QED BY <1>1, <2>2 DEF Rows
<1>6. ASSUME NEW c \in Conns, NEW t \in Sessions, RecordUpstreamError(c),
             conn[c].sid = t
      PROVE  FALSE
  <2>1. Save(t, [row[t] EXCEPT !.error = IF @ = "none" THEN "upstream" ELSE @])
    BY <1>6 DEF RecordUpstreamError
  <2>2. row[t].error = "client" =>
          [row[t] EXCEPT !.error = IF @ = "none" THEN "upstream" ELSE @].error
            = "client"
    BY <1>1 DEF Rows
  <2> QED BY <2>1, <2>2, <1>3
<1>7. ASSUME NEW t \in Sessions, NEW er \in {"none", "client"},
             UpdateSession(t, er)
      PROVE  row' = [row EXCEPT ![s].error = "none"]
  <2>1. row' = [row EXCEPT ![t] = [row[t] EXCEPT !.error = er]]
    BY <1>7 DEF UpdateSession, Save
  <2>2. [row[t] EXCEPT !.error = er].error = er
    BY <1>1 DEF Rows
  <2>3. t = s /\ er = "none"
    BY <1>1, <2>1, <2>2
  <2> QED BY <2>1, <2>3
<1>8. CASE RowPurge
  BY <1>8 DEF RowPurge, PurgedRow, AbsentRow
<1> QED BY <1>2, <1>4, <1>5, <1>6, <1>7, <1>8, RowSteps

\* The steps that insert a row are start_stream's; every row that exists before
\* the others save it stays what RowSteps says, so absent rows are never written.
LEMMA AbsentRowsInv == Spec => []AbsentRows
<1>1. Init => AbsentRows
  BY DEF Init, AbsentRows
<1>2. TypeOK /\ AbsentRows /\ [Next]_vars => AbsentRows'
  <2> SUFFICES ASSUME TypeOK, AbsentRows, [Next]_vars PROVE AbsentRows'
    OBVIOUS
  <2>1. ASSUME NEW p \in Starters, NEW s \in Sessions, PostAccepted(p, s)
        PROVE  AbsentRows'
    BY <2>1, AbsentRowsStep DEF PostAccepted, RowInsert
  <2>2. ASSUME NEW c \in Conns, NEW s \in Sessions, RecordUpstreamError(c),
               conn[c].sid = s
        PROVE  AbsentRows'
    <3>1. (IF row[s].error = "none" THEN "upstream" ELSE row[s].error) \in Errors
      BY DEF TypeOK, Rows, Errors
    <3>2. Save(s, [row[s] EXCEPT !.error = IF row[s].error = "none" THEN "upstream"
                                           ELSE row[s].error])
      BY <2>2 DEF RecordUpstreamError
    <3>3. RowError(s)
      BY <3>1, <3>2 DEF RowError
    <3> QED BY <3>3, AbsentRowsStep
  <2>3. ASSUME NEW s \in Sessions, NEW er \in {"none", "client"},
               UpdateSession(s, er)
        PROVE  AbsentRows'
    BY <2>3, AbsentRowsStep DEF UpdateSession, RowError, Errors
  <2>4. CASE RowPurge \/ row' = row
    BY <2>4, AbsentRowsStep DEF RowPurge, AbsentRows, PurgedRow, AbsentRow, TypeOK
  <2>5. ASSUME NEW s \in Sessions, RowSave(s) \/ RowConnect(s)
        PROVE  AbsentRows'
    BY <2>5, AbsentRowsStep
  <2> QED BY <2>1, <2>2, <2>3, <2>4, <2>5, RowSteps
<1> QED BY <1>1, <1>2, TypeCorrect, PTL DEF Spec

\* What a client reported stays until a client withdraws it, reconnects, or the
\* row is purged, with every interleaving of the handlers and watchers.
THEOREM ClientErrorIsKept == Spec => ClientErrorKept
<1>1. TypeOK /\ AbsentRows /\ [Next]_vars => [KeepsClientError]_vars
  BY ClientErrorStep
<1> QED BY <1>1, TypeCorrect, AbsentRowsInv, PTL DEF Spec, ClientErrorKept

AliveSessions == {s \in Sessions : IsAlive(s)}

\* One request at a time is between its count and its insert, and what it counted
\* is still true.
CountStillTrue ==
  \A p \in Starters : starter[p] = "posting" =>
    /\ \A q \in Starters \ {p} : starter[q] # "posting"
    /\ Cardinality(AliveSessions) + 1 <= MaxInstances

\* Only start_stream's steps and a restart change which requests are posting.
LEMMA StarterSteps ==
  ASSUME TypeOK, [Next]_vars
  PROVE  \/ starter' = starter
         \/ \E p \in Starters : StartRequest(p)
         \/ Restart
<1>1. ASSUME NEW c \in Conns, Handler(c)
      PROVE  starter' = starter
  <2>1. CASE HandlerRuns(c)
    BY <2>1 DEF HandlerRuns, RegisterWebsocket, ApplicationGone, SaveConnecting,
       DialAccepted, DialRejected, DialBreaks,
       SaveActive, ClosedByApi, ConsumerRaises, EndStreaming, SaveIdle, SaveFailed,
       RecordUpstreamError, PopWebsocket
  <2>2. CASE ~HandlerRuns(c)
    BY <1>1, <2>2 DEF Handler, LoadSession, ClientDisconnects, UpstreamCloses,
       UpstreamAborts, EndStreaming
  <2> QED BY <2>1, <2>2
<1>2. ASSUME NEW e \in Tasks, EndSession(e)
      PROVE  starter' = starter
  BY <1>2 DEF EndSession, DeleteOk, DeleteNotFound, DeleteRefused, DeleteTimesOut,
     DeleteBreaks, LostDelete, CloseWebsocket, SaveEnded
<1>3. CASE \/ TimeoutWatcher \/ IdleWatcher \/ Purge
           \/ \E b \in checks : CheckExpire(b)
  BY <1>3 DEF TimeoutWatcher, TimeoutScan, TimeoutNext, IdleWatcher, IdleScan,
     IdleExpire, Purge, CheckExpire
<1>4. CASE \/ \E e \in Enders, s \in Sessions : RequestEnd(e, s)
           \/ \E s \in Sessions : CheckSession(s) \/ NvcfEnds(s)
           \/ \E s \in Sessions, error \in {"none", "client"} :
                UpdateSession(s, error)
           \/ Tick \/ UNCHANGED vars
  BY <1>4 DEF RequestEnd, CheckSession, NvcfEnds, UpdateSession, Tick, vars
<1> QED BY <1>1, <1>2, <1>3, <1>4 DEF Next

\* While a request is posting on SQLite, the table changes by its insert only.
LEMMA PostingAlone ==
  ASSUME TypeOK, SerialDB = TRUE, [Next]_vars,
         NEW p \in Starters, starter[p] = "posting"
  PROVE  row' = row \/ \E q \in Starters, s \in Sessions : PostAccepted(q, s)
BY RowSteps DEF DbFree

\* Where the count is still true the insert stays within the limit.
LEMMA InsertWithinLimit ==
  ASSUME TypeOK, CountStillTrue, NEW p \in Starters, NEW s \in Sessions,
         PostAccepted(p, s)
  PROVE  Cardinality({t \in Sessions : row'[t].status \in Alive}) <= MaxInstances
<1>1. {t \in Sessions : row'[t].status \in Alive} = AliveSessions \union {s}
  BY DEF PostAccepted, TypeOK, AliveSessions, IsAlive, Alive
<1>2. s \notin AliveSessions
  BY DEF PostAccepted, AliveSessions, IsAlive, Alive
<1>3. IsFiniteSet(AliveSessions)
  BY ConstantsAssumption, FS_Subset DEF AliveSessions
<1>4. Cardinality(AliveSessions \union {s}) = Cardinality(AliveSessions) + 1
  BY <1>2, <1>3, FS_AddElement
<1>5. Cardinality(AliveSessions) + 1 <= MaxInstances
  BY DEF CountStillTrue, PostAccepted
<1> QED BY <1>1, <1>4, <1>5

LEMMA CountStep ==
  ASSUME TypeOK, CountStillTrue, SerialDB = TRUE, [Next]_vars
  PROVE  CountStillTrue'
<1> SUFFICES ASSUME NEW p \in Starters, starter'[p] = "posting"
             PROVE  /\ \A q \in Starters \ {p} : starter'[q] # "posting"
                    /\ Cardinality(AliveSessions') + 1 <= MaxInstances
  BY DEF CountStillTrue
<1>1. CASE StartStream(p)
  <2>1. AliveSessions' = AliveSessions
    BY <1>1 DEF StartStream, AliveSessions, IsAlive
  <2>2. Cardinality(AliveSessions) + 1 <= MaxInstances
    BY <1>1 DEF StartStream, AliveSessions
  <2> QED BY <1>1, <2>1, <2>2 DEF StartStream, DbFree, TypeOK
<1>2. CASE starter' = starter
  <2>1. row' = row
    BY <1>2, PostingAlone DEF PostAccepted, TypeOK
  <2>2. AliveSessions' = AliveSessions
    BY <2>1 DEF AliveSessions, IsAlive
  <2> QED BY <1>2, <2>2 DEF CountStillTrue
<1>3. ASSUME NEW q \in Starters, StartRequest(q), ~StartStream(p)
      PROVE  FALSE
  <2>1. CASE StartStream(q)
    BY <1>3, <2>1 DEF StartStream, DbFree, TypeOK
  <2>2. CASE ~StartStream(q)
    BY <1>3, <2>2 DEF StartRequest, PostAccepted, PostFails, TypeOK, CountStillTrue
  <2> QED BY <2>1, <2>2
<1>4. ~Restart
  BY DEF Restart
<1> QED BY <1>1, <1>2, <1>3, <1>4, StarterSteps

\* On SQLite the number of a user's sessions is within max_app_instances_count
\* whenever one is created, with any number of concurrent requests: the
\* transaction that start_stream holds lets nothing change what it counted.
THEOREM QuotaHolds ==
  ASSUME SerialDB = TRUE
  PROVE  Spec => QuotaAtStart
<1>1. Init => CountStillTrue
  BY DEF Init, CountStillTrue
<1>2. TypeOK /\ AbsentRows /\ CountStillTrue /\ [Next]_vars => StartsWithinLimit
  <2> SUFFICES ASSUME TypeOK, AbsentRows, CountStillTrue, [Next]_vars,
                      NEW s \in Sessions, row[s].status = "ABSENT",
                      row'[s].status # "ABSENT"
               PROVE  Cardinality({t \in Sessions : row'[t].status \in Alive})
                        <= MaxInstances
    BY DEF StartsWithinLimit
  <2>1. ASSUME NEW t \in Sessions, NEW r, Save(t, r)
        PROVE  FALSE
    BY <2>1 DEF Save, Stored, IsAlive, HasEnded, Alive, Terminal, TypeOK
  <2>2. ~RowPurge
    BY DEF RowPurge, HasEnded, Terminal
  <2>3. \E p \in Starters, t \in Sessions : PostAccepted(p, t)
    BY <2>1, <2>2, RowSteps DEF RowSave, RowConnect, RecordUpstreamError, UpdateSession
  <2> QED BY <2>3, InsertWithinLimit
<1>3. TypeOK /\ CountStillTrue /\ [Next]_vars => CountStillTrue'
  BY CountStep
<1> QED BY <1>1, <1>2, <1>3, TypeCorrect, AbsentRowsInv, PTL
        DEF Spec, QuotaAtStart

=============================================================================

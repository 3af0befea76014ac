-------------------------- MODULE SessionLifecycle --------------------------
(***************************************************************************)
(* The life of streaming sessions in the portal's backend                  *)
(* (backend/app/routers/sessions.py), for the sessions one user starts of   *)
(* one application.                                                        *)
(*                                                                         *)
(* A session is a row of the database.  Everything that runs in the         *)
(* backend is an asyncio task that may be suspended at every await:         *)
(*   - the websocket handler connect_to_stream, one per open websocket;     *)
(*   - requests that end a session (stop_stream, terminate_session) and     *)
(*     the watcher watch_session_timeout, which all go through end_session; *)
(*   - watch_idle_sessions, watch_session_data_purge;                       *)
(*   - start_stream, check_session, update_session.                         *)
(* One action is what a task does between two awaits.  The values a task    *)
(* read before an await are kept in its own record, so that they can be     *)
(* stale when it uses them.                                                *)
(*                                                                         *)
(* NVCF, the client's websocket and the clock are external.                 *)
(*                                                                         *)
(* A definition whose name ends in Bug is the one after it with a mistake    *)
(* in it; nothing uses it.  Replacing the one by the other shows that a     *)
(* property of SessionProperties notices the mistake.                       *)
(***************************************************************************)
EXTENDS Integers, FiniteSets

CONSTANTS
  Sessions,      \* session ids (a uuid is never used twice)
  Conns,         \* slots for open websockets, one connect_to_stream task each
  Enders,        \* slots for concurrent stop_stream / terminate_session requests
  Watcher,       \* the task watch_session_timeout
  Starters,      \* slots for concurrent start_stream requests
  Null, NoSession, NoConn,
  MaxInstances,  \* settings.max_app_instances_count
  IdleTimeout,   \* settings.session_idle_timeout, in ticks
  SessionTTL,    \* settings.session_ttl, in ticks
  Retention,     \* settings.session_retention_days, in ticks; 0 disables purging
  SerialDB,      \* TRUE: SQLite, where a transaction blocks the whole database
  Faults,        \* which faults the environment may cause (see FaultKinds)
  MaxFaults,     \* bound: how many of them in a behaviour
  MaxTime,       \* bound: the clock stops here
  EndsCap        \* bound: the counter `ends' saturates here (0 leaves it out)

FaultKinds == {"timeout", "network", "restart"}

ASSUME ConstantsAssumption ==
  /\ NoSession \notin Sessions /\ NoConn \notin Conns
  /\ Watcher \notin Enders /\ Null \notin Nat
  /\ MaxInstances \in Nat /\ IdleTimeout \in Nat /\ SessionTTL \in Nat
  /\ Retention \in Nat /\ SerialDB \in BOOLEAN
  /\ Faults \subseteq FaultKinds
  /\ MaxFaults \in Nat /\ MaxTime \in Nat /\ EndsCap \in Nat
  /\ IsFiniteSet(Conns) /\ IsFiniteSet(Sessions)

VARIABLES
  now,           \* the clock
  row,           \* the session table
  nvcf,          \* whether NVCF runs the session (external)
  registry,      \* session_websockets
  conn,          \* the websocket handlers
  ender,         \* the end_session calls in progress
  expiry,        \* watch_session_timeout: rows still to be ended
  idle,          \* watch_idle_sessions: rows still to be expired
  checks,        \* check_session: rows it read as expired and has yet to save
  starter,       \* the start_stream requests
  gauge,         \* metrics.active_sessions
  ends,          \* metrics.session_end, per session
  faults         \* number of faults so far

vars == <<now, row, nvcf, registry, conn, ender, expiry, idle, checks,
          starter, gauge, ends, faults>>

-----------------------------------------------------------------------------
(* Types *)

Terminal == {"STOPPED", "EXPIRED", "FAILED"}     \* TERMINAL_STATUSES
Alive    == {"CONNECTING", "ACTIVE", "IDLE"}     \* ALIVE_STATUSES
Statuses == Alive \union Terminal \union {"ABSENT", "PURGED"}
Errors   == {"none", "client", "upstream"}       \* who recorded session.error

Rows == [status : Statuses, error : Errors,
         start : Nat, end : Nat \union {Null}]

\* A row some task has read and will end later, with the status it chose then.
Snapshots == [sid : Sessions, final : Terminal]

ConnPcs == {"free", "loaded", "registered", "dialing", "dialed", "streaming",
            "failing", "erring", "idling", "popping"}
Socks   == {"open", "left", "closed", "closedEarly"}
EndPcs  == {"ready", "deleting", "closing", "saving", "dead"}
Tasks   == Enders \union {Watcher}

FreeConn  == [pc |-> "free", sid |-> NoSession, sock |-> "open"]
ReadyTask == [pc |-> "ready", sid |-> NoSession, final |-> "STOPPED"]

TypeOK ==
  /\ now \in Nat
  /\ row \in [Sessions -> Rows]
  /\ nvcf \in [Sessions -> {"none", "running", "gone"}]
  /\ registry \in [Sessions -> Conns \union {NoConn}]
  /\ conn \in [Conns -> [pc : ConnPcs, sid : Sessions \union {NoSession},
                         sock : Socks]]
  /\ \A c \in Conns : conn[c].pc # "free" => conn[c].sid \in Sessions
  /\ ender \in [Tasks -> [pc : EndPcs, sid : Sessions \union {NoSession},
                          final : Terminal]]
  /\ \A e \in Tasks : ender[e].pc \notin {"ready", "dead"} =>
                      ender[e].sid \in Sessions
  /\ expiry \subseteq Snapshots
  /\ idle \subseteq Snapshots
  /\ checks \subseteq Snapshots
  /\ starter \in [Starters -> {"ready", "posting"}]
  /\ gauge \in Int
  /\ ends \in [Sessions -> Nat]
  /\ faults \in Nat

AbsentRow == [status |-> "ABSENT", error |-> "none", start |-> 0, end |-> Null]
PurgedRow == [AbsentRow EXCEPT !.status = "PURGED"]

Init ==
  /\ now = 0
  /\ row = [s \in Sessions |-> AbsentRow]
  /\ nvcf = [s \in Sessions |-> "none"]
  /\ registry = [s \in Sessions |-> NoConn]
  /\ conn = [c \in Conns |-> FreeConn]
  /\ ender = [e \in Tasks |-> ReadyTask]
  /\ expiry = {} /\ idle = {} /\ checks = {}
  /\ starter = [p \in Starters |-> "ready"]
  /\ gauge = 0
  /\ ends = [s \in Sessions |-> 0]
  /\ faults = 0

-----------------------------------------------------------------------------
(* Helpers *)

IsAlive(s) == row[s].status \in Alive
HasEnded(s) == row[s].status \in Terminal
Stored(s)  == IsAlive(s) \/ HasEnded(s)

DbFreeBug == TRUE      \* no transaction around the count and the insert
\* start_stream holds its transaction across the call to NVCF; on SQLite every
\* other statement of the process waits for it.
DbFree == SerialDB => \A p \in Starters : starter[p] # "posting"

\* session.save(update_fields = ...): only the named columns of an existing row.
Save(s, r) == row' = IF Stored(s) THEN [row EXCEPT ![s] = r] ELSE row

WatcherTerminalStatusBug(s) == row[s].error     \* session.error or EXPIRED
WatcherTerminalStatus(s) == IF row[s].error # "none" THEN "FAILED" ELSE "EXPIRED"
Snapshot(s) == [sid |-> s, final |-> WatcherTerminalStatus(s)]

Overdue(s) == IsAlive(s) /\ row[s].start + SessionTTL <= now

Abandoned(s) ==
  /\ row[s].status = "IDLE"
  /\ IF row[s].end = Null THEN row[s].start + IdleTimeout <= now
                          ELSE row[s].end + IdleTimeout <= now

CountEnd(s) == ends' = [ends EXCEPT ![s] = IF @ < EndsCap THEN @ + 1 ELSE @]

Fault(kind) == kind \in Faults /\ faults < MaxFaults /\ faults' = faults + 1

Goto(c, pc) == conn' = [conn EXCEPT ![c].pc = pc]
EndGoto(e, pc) == ender' = [ender EXCEPT ![e].pc = pc]

-----------------------------------------------------------------------------
(* POST /sessions/ : start_stream *)

StartStream(p) ==
  /\ starter[p] = "ready" /\ DbFree
  /\ Cardinality({s \in Sessions : IsAlive(s)}) + 1 <= MaxInstances
  /\ starter' = [starter EXCEPT ![p] = "posting"]
  /\ UNCHANGED <<now, row, nvcf, registry, conn, ender, expiry, idle, checks,
                 gauge, ends, faults>>

PostAccepted(p, s) ==
  /\ starter[p] = "posting"
  /\ row[s].status = "ABSENT"
  /\ nvcf' = [nvcf EXCEPT ![s] = "running"]
  /\ row' = [row EXCEPT ![s] = [status |-> "IDLE", error |-> "none",
                                start |-> now, end |-> Null]]
  /\ starter' = [starter EXCEPT ![p] = "ready"]
  /\ UNCHANGED <<now, registry, conn, ender, expiry, idle, checks, gauge, ends,
                 faults>>

\* NVCF answers with an error, or not in time: no row is created.
PostFails(p) ==
  /\ starter[p] = "posting"
  /\ starter' = [starter EXCEPT ![p] = "ready"]
  /\ UNCHANGED <<now, row, nvcf, registry, conn, ender, expiry, idle, checks,
                 gauge, ends, faults>>

-----------------------------------------------------------------------------
(* WEBSOCKET /sessions/{id}/sign_in : connect_to_stream *)

LoadSessionBug(c, s) ==   \* refuses ACTIVE only, not what has ended
  /\ conn[c].pc = "free" /\ DbFree
  /\ Stored(s) /\ row[s].status # "ACTIVE"
  /\ conn' = [conn EXCEPT ![c] = [pc |-> "loaded", sid |-> s, sock |-> "open"]]
  /\ UNCHANGED <<now, row, nvcf, registry, ender, expiry, idle, checks, starter,
                 gauge, ends, faults>>

\* Reads the row; its application is read by a second query (prefetch_related), and
\* only then is the status that was read looked at.
LoadSession(c, s) ==
  /\ conn[c].pc = "free" /\ DbFree
  /\ IsAlive(s) /\ row[s].status # "ACTIVE"
  /\ conn' = [conn EXCEPT ![c] = [pc |-> "loaded", sid |-> s, sock |-> "open"]]
  /\ UNCHANGED <<now, row, nvcf, registry, ender, expiry, idle, checks, starter,
                 gauge, ends, faults>>

RegisterWebsocket(c) ==
  /\ conn[c].pc = "loaded" /\ DbFree
  /\ registry' = [registry EXCEPT ![conn[c].sid] = c]
  /\ Goto(c, "registered")
  /\ UNCHANGED <<now, row, nvcf, ender, expiry, idle, checks, starter, gauge,
                 ends, faults>>

\* The application has been deleted: the client is sent away.
ApplicationGone(c) ==
  /\ conn[c].pc = "loaded" /\ DbFree
  /\ conn' = [conn EXCEPT ![c] = FreeConn]
  /\ UNCHANGED <<now, row, nvcf, registry, ender, expiry, idle, checks, starter,
                 gauge, ends, faults>>

SaveConnecting(c) ==
  LET s == conn[c].sid IN
  /\ conn[c].pc = "registered" /\ DbFree
  /\ Save(s, [row[s] EXCEPT !.status = "CONNECTING", !.end = Null,
                            !.error = "none"])
  /\ Goto(c, "dialing")
  /\ UNCHANGED <<now, nvcf, registry, ender, expiry, idle, checks, starter,
                 gauge, ends, faults>>

DialAccepted(c) ==
  /\ conn[c].pc = "dialing" /\ nvcf[conn[c].sid] = "running"
  /\ Goto(c, "dialed")
  /\ UNCHANGED <<now, row, nvcf, registry, ender, expiry, idle, checks, starter,
                 gauge, ends, faults>>

\* InvalidStatus or TimeoutError: upstream_failed is set.
DialRejected(c) ==
  /\ conn[c].pc = "dialing"
  /\ Goto(c, "failing")
  /\ UNCHANGED <<now, row, nvcf, registry, ender, expiry, idle, checks, starter,
                 gauge, ends, faults>>

\* Any other exception (connection refused, broken handshake) only runs the
\* finally block, with code 1000 and upstream_failed unset.
DialBreaks(c) ==
  /\ conn[c].pc = "dialing"
  /\ Goto(c, "idling")
  /\ UNCHANGED <<now, row, nvcf, registry, ender, expiry, idle, checks, starter,
                 gauge, ends, faults>>

\* The save and the metric that follows it without an await.
SaveActive(c) ==
  LET s == conn[c].sid IN
  /\ conn[c].pc = "dialed" /\ DbFree
  /\ Save(s, [row[s] EXCEPT !.status = "ACTIVE"])
  /\ gauge' = gauge + 1
  /\ Goto(c, "streaming")
  /\ UNCHANGED <<now, nvcf, registry, ender, expiry, idle, checks, starter,
                 ends, faults>>

\* The gauge is lowered if the stored status, not the handler's own, is ACTIVE.
EndStreamingBug(c, pc, sock) ==
  /\ conn[c].pc = "streaming"
  /\ conn' = [conn EXCEPT ![c].pc = pc, ![c].sock = sock]
  /\ gauge' = IF row[conn[c].sid].status = "ACTIVE" THEN gauge - 1 ELSE gauge
  /\ UNCHANGED <<now, row, nvcf, registry, ender, expiry, idle, checks, starter,
                 ends, faults>>

\* The streaming section ends: what runs up to the finally block's next await.
EndStreaming(c, pc, sock) ==
  /\ conn[c].pc = "streaming"
  /\ conn' = [conn EXCEPT ![c].pc = pc, ![c].sock = sock]
  /\ gauge' = gauge - 1
  /\ UNCHANGED <<now, row, nvcf, registry, ender, expiry, idle, checks, starter,
                 ends, faults>>

\* consumer() or producer(): WebSocketDisconnect, code outside 3000-3999.
ClientDisconnects(c) ==
  conn[c].sock = "open" /\ EndStreaming(c, "idling", "left")

\* ConnectionClosedOK is not handled: code stays 1000.
UpstreamCloses(c) == EndStreaming(c, "idling", conn[c].sock)

\* ConnectionClosedError with a code other than 1000.
UpstreamAborts(c) == EndStreaming(c, "failing", conn[c].sock)

ClosedByApiBug(c) ==   \* the close by end_session does not end the consumer
  conn[c].sock = "left" /\ EndStreaming(c, "popping", "left")

\* WebSocketDisconnect with code 3010: end_session closed the websocket while
\* the consumer was reading from it.  Nothing is saved.  (A consumer that was sending
\* to NVCF instead gets a RuntimeError and goes on as in UpstreamCloses.)
ClosedByApi(c) ==
  conn[c].sock = "closed" /\ EndStreaming(c, "popping", "closed")

ConsumerRaisesBug(c) ==   \* taken for a close by end_session
  conn[c].sock = "closedEarly" /\ EndStreaming(c, "popping", "closedEarly")

\* The websocket was closed before the consumer began to read: RuntimeError
\* ends the consumer, code stays 1000.
ConsumerRaises(c) ==
  conn[c].sock = "closedEarly" /\ EndStreaming(c, "idling", "closedEarly")

SaveIdle(c) ==
  LET s == conn[c].sid IN
  /\ conn[c].pc = "idling" /\ DbFree
  /\ Save(s, [row[s] EXCEPT !.status = "IDLE", !.end = now])
  /\ Goto(c, "popping")
  /\ UNCHANGED <<now, nvcf, registry, ender, expiry, idle, checks, starter,
                 gauge, ends, faults>>

SaveFailed(c) ==
  LET s == conn[c].sid IN
  /\ conn[c].pc = "failing" /\ DbFree
  /\ Save(s, [row[s] EXCEPT !.status = "FAILED", !.end = now])
  /\ Goto(c, "erring")
  /\ UNCHANGED <<now, nvcf, registry, ender, expiry, idle, checks, starter,
                 gauge, ends, faults>>

\* The error is stored with the status, whatever the row holds.
RecordUpstreamErrorBug(c) ==
  LET s == conn[c].sid IN
  /\ conn[c].pc = "erring" /\ DbFree
  /\ Save(s, [row[s] EXCEPT !.error = "upstream"])
  /\ CountEnd(s)
  /\ Goto(c, "popping")
  /\ UNCHANGED <<now, nvcf, registry, ender, expiry, idle, checks, starter,
                 gauge, faults>>

\* UPDATE ... SET error WHERE error IS NULL, then the end metrics.
RecordUpstreamError(c) ==
  LET s == conn[c].sid IN
  /\ conn[c].pc = "erring" /\ DbFree
  /\ Save(s, [row[s] EXCEPT !.error = IF @ = "none" THEN "upstream" ELSE @])
  /\ CountEnd(s)
  /\ Goto(c, "popping")
  /\ UNCHANGED <<now, nvcf, registry, ender, expiry, idle, checks, starter,
                 gauge, faults>>

PopWebsocketBug(c) ==   \* the entry is left behind
  /\ conn[c].pc = "popping"
  /\ conn' = [conn EXCEPT ![c] = FreeConn]
  /\ UNCHANGED <<now, row, nvcf, registry, ender, expiry, idle, checks, starter,
                 gauge, ends, faults>>

PopWebsocket(c) ==
  /\ conn[c].pc = "popping"
  /\ registry' = [registry EXCEPT ![conn[c].sid] = NoConn]
  /\ conn' = [conn EXCEPT ![c] = FreeConn]
  /\ UNCHANGED <<now, row, nvcf, ender, expiry, idle, checks, starter, gauge,
                 ends, faults>>

-----------------------------------------------------------------------------
(* end_session, on behalf of a request or of watch_session_timeout *)

\* stop_stream and terminate_session: the row is read, then end_session called.
RequestEnd(e, s) ==
  /\ ender[e].pc = "ready" /\ DbFree
  /\ IsAlive(s)
  /\ ender' = [ender EXCEPT ![e] = [pc |-> "deleting", sid |-> s,
                                    final |-> "STOPPED"]]
  /\ UNCHANGED <<now, row, nvcf, registry, conn, expiry, idle, checks, starter,
                 gauge, ends, faults>>

\* DELETE answered 200: NVCF ended the session.
DeleteOk(e) ==
  LET s == ender[e].sid IN
  /\ ender[e].pc = "deleting" /\ nvcf[s] = "running"
  /\ nvcf' = [nvcf EXCEPT ![s] = "gone"]
  /\ EndGoto(e, "closing")
  /\ UNCHANGED <<now, row, registry, conn, expiry, idle, checks, starter, gauge,
                 ends, faults>>

\* DELETE answered 404 (NVCF does not know the session) or with an error: both
\* go on to save the final status.
DeleteNotFound(e) ==
  /\ ender[e].pc = "deleting" /\ nvcf[ender[e].sid] # "running"
  /\ EndGoto(e, "saving")
  /\ UNCHANGED <<now, row, nvcf, registry, conn, expiry, idle, checks, starter,
                 gauge, ends, faults>>

DeleteRefused(e) ==
  /\ ender[e].pc = "deleting" /\ nvcf[ender[e].sid] = "running"
  /\ EndGoto(e, "saving")
  /\ UNCHANGED <<now, row, nvcf, registry, conn, expiry, idle, checks, starter,
                 gauge, ends, faults>>

\* What is left of a task whose end_session raised: a request is answered 500,
\* the watcher is gone for good.
Raised(e) == IF e = Watcher THEN [ReadyTask EXCEPT !.pc = "dead"] ELSE ReadyTask

\* NVCF may or may not have carried out a DELETE whose answer is lost.
LostDelete(e, kind) ==
  LET s == ender[e].sid IN
  /\ ender[e].pc = "deleting"
  /\ Fault(kind)
  /\ \/ UNCHANGED nvcf
     \/ nvcf[s] = "running" /\ nvcf' = [nvcf EXCEPT ![s] = "gone"]
  /\ UNCHANGED <<now, row, registry, conn, expiry, idle, checks, starter, gauge,
                 ends>>

\* httpx.TimeoutException: answered 408, the row is left as it is.
DeleteTimesOut(e) ==
  LostDelete(e, "timeout") /\ ender' = [ender EXCEPT ![e] = ReadyTask]

\* Any other httpx exception is not caught.
DeleteBreaks(e) ==
  LostDelete(e, "network") /\ ender' = [ender EXCEPT ![e] = Raised(e)]

\* After a 200: close the registered websocket, if there is one.  Closing one
\* that has been closed already raises (the handler guards its own close call
\* against it, end_session does not).
CloseWebsocket(e) ==
  LET c == registry[ender[e].sid] IN
  /\ ender[e].pc = "closing"
  /\ \/ c = NoConn /\ EndGoto(e, "saving") /\ UNCHANGED conn
     \/ /\ c # NoConn /\ conn[c].sock = "open"
        /\ conn' = [conn EXCEPT ![c].sock =
                      IF conn[c].pc \in {"registered", "dialing", "dialed"}
                      THEN "closedEarly" ELSE "closed"]
        /\ EndGoto(e, "saving")
     \/ /\ c # NoConn /\ conn[c].sock # "open"
        /\ ender' = [ender EXCEPT ![e] = Raised(e)]
        /\ UNCHANGED conn
  /\ UNCHANGED <<now, row, nvcf, registry, expiry, idle, checks, starter, gauge,
                 ends, faults>>

SaveEnded(e) ==
  LET s == ender[e].sid IN
  /\ ender[e].pc = "saving" /\ DbFree
  /\ Save(s, [row[s] EXCEPT !.status = ender[e].final, !.end = now])
  /\ CountEnd(s)
  /\ ender' = [ender EXCEPT ![e] = ReadyTask]
  /\ UNCHANGED <<now, nvcf, registry, conn, expiry, idle, checks, starter, gauge,
                 faults>>

-----------------------------------------------------------------------------
(* The watchers *)

TimeoutScanBug ==   \* ACTIVE is left out of the statuses asked for
  /\ ender[Watcher].pc = "ready" /\ expiry = {} /\ DbFree
  /\ expiry' = {Snapshot(s) : s \in {t \in Sessions :
                                      Overdue(t) /\ row[t].status # "ACTIVE"}}
  /\ UNCHANGED <<now, row, nvcf, registry, conn, ender, idle, checks, starter,
                 gauge, ends, faults>>

\* watch_session_timeout reads the overdue rows, then ends them one by one.
TimeoutScan ==
  /\ ender[Watcher].pc = "ready" /\ expiry = {} /\ DbFree
  /\ expiry' = {Snapshot(s) : s \in {t \in Sessions : Overdue(t)}}
  /\ UNCHANGED <<now, row, nvcf, registry, conn, ender, idle, checks, starter,
                 gauge, ends, faults>>

TimeoutNext(b) ==
  /\ ender[Watcher].pc = "ready" /\ b \in expiry
  /\ expiry' = expiry \ {b}
  /\ ender' = [ender EXCEPT ![Watcher] = [pc |-> "deleting", sid |-> b.sid,
                                          final |-> b.final]]
  /\ UNCHANGED <<now, row, nvcf, registry, conn, idle, checks, starter, gauge,
                 ends, faults>>

IdleScanBug ==   \* without the query for rows that have no end_date
  /\ idle = {} /\ DbFree
  /\ idle' = {Snapshot(s) : s \in {t \in Sessions :
                                    Abandoned(t) /\ row[t].end # Null}}
  /\ UNCHANGED <<now, row, nvcf, registry, conn, ender, expiry, checks, starter,
                 gauge, ends, faults>>

\* watch_idle_sessions: its two queries are one step.
IdleScan ==
  /\ idle = {} /\ DbFree
  /\ idle' = {Snapshot(s) : s \in {t \in Sessions : Abandoned(t)}}
  /\ UNCHANGED <<now, row, nvcf, registry, conn, ender, expiry, checks, starter,
                 gauge, ends, faults>>

IdleExpire(b) ==
  /\ b \in idle /\ DbFree
  /\ idle' = idle \ {b}
  /\ Save(b.sid, [row[b.sid] EXCEPT !.status = b.final])
  /\ CountEnd(b.sid)
  /\ UNCHANGED <<now, nvcf, registry, conn, ender, expiry, checks, starter,
                 gauge, faults>>

Purge ==
  /\ Retention > 0 /\ DbFree
  /\ row' = [s \in Sessions |->
               IF HasEnded(s) /\ row[s].start + Retention <= now
               THEN PurgedRow ELSE row[s]]
  /\ UNCHANGED <<now, nvcf, registry, conn, ender, expiry, idle, checks, starter,
                 gauge, ends, faults>>

-----------------------------------------------------------------------------
(* HEAD /sessions/{id}/sign_in : check_session,
   PATCH /sessions/{id}/ : update_session *)

CheckSession(s) ==
  /\ DbFree
  /\ row[s].status = "IDLE" /\ row[s].end # Null
  /\ row[s].end + SessionTTL <= now
  /\ checks' = checks \union {Snapshot(s)}
  /\ UNCHANGED <<now, row, nvcf, registry, conn, ender, expiry, idle, starter,
                 gauge, ends, faults>>

CheckExpire(b) ==
  /\ b \in checks /\ DbFree
  /\ checks' = checks \ {b}
  /\ Save(b.sid, [row[b.sid] EXCEPT !.status = b.final])
  /\ UNCHANGED <<now, nvcf, registry, conn, ender, expiry, idle, starter, gauge,
                 ends, faults>>

UpdateSession(s, error) ==
  /\ Stored(s) /\ DbFree
  /\ Save(s, [row[s] EXCEPT !.error = error])
  /\ UNCHANGED <<now, nvcf, registry, conn, ender, expiry, idle, checks, starter,
                 gauge, ends, faults>>

-----------------------------------------------------------------------------
(* The environment *)

\* The streaming application ends, crashes, or its reconnect window closes.
NvcfEnds(s) ==
  /\ nvcf[s] = "running"
  /\ nvcf' = [nvcf EXCEPT ![s] = "gone"]
  /\ UNCHANGED <<now, row, registry, conn, ender, expiry, idle, checks, starter,
                 gauge, ends, faults>>

Tick ==
  /\ now < MaxTime
  /\ now' = now + 1
  /\ UNCHANGED <<row, nvcf, registry, conn, ender, expiry, idle, checks, starter,
                 gauge, ends, faults>>

\* The backend's process is restarted: only the database and NVCF survive.
Restart ==
  /\ Fault("restart")
  /\ registry' = [s \in Sessions |-> NoConn]
  /\ conn' = [c \in Conns |-> FreeConn]
  /\ ender' = [e \in Tasks |-> ReadyTask]
  /\ expiry' = {} /\ idle' = {} /\ checks' = {}
  /\ starter' = [p \in Starters |-> "ready"]
  /\ gauge' = 0
  /\ UNCHANGED <<now, row, nvcf, ends>>

-----------------------------------------------------------------------------
(* Next *)

StartRequest(p) == StartStream(p) \/ (\E s \in Sessions : PostAccepted(p, s))
                   \/ PostFails(p)

\* Steps of a handler that its own code takes without the client or NVCF
\* ending the stream.
HandlerRuns(c) ==
  \/ RegisterWebsocket(c) \/ ApplicationGone(c) \/ SaveConnecting(c)
  \/ DialAccepted(c) \/ DialRejected(c) \/ DialBreaks(c)
  \/ SaveActive(c)
  \/ ClosedByApi(c) \/ ConsumerRaises(c)
  \/ SaveIdle(c) \/ SaveFailed(c) \/ RecordUpstreamError(c)
  \/ PopWebsocket(c)

Handler(c) ==
  \/ \E s \in Sessions : LoadSession(c, s)
  \/ HandlerRuns(c)
  \/ ClientDisconnects(c) \/ UpstreamCloses(c) \/ UpstreamAborts(c)

EndSession(e) ==
  \/ DeleteOk(e) \/ DeleteNotFound(e) \/ DeleteRefused(e)
  \/ DeleteTimesOut(e) \/ DeleteBreaks(e)
  \/ CloseWebsocket(e) \/ SaveEnded(e)

TimeoutWatcher == TimeoutScan \/ (\E b \in expiry : TimeoutNext(b))
IdleWatcher == IdleScan \/ (\E b \in idle : IdleExpire(b))

Next ==
  \/ \E p \in Starters : StartRequest(p)
  \/ \E c \in Conns : Handler(c)
  \/ \E e \in Enders, s \in Sessions : RequestEnd(e, s)
  \/ \E e \in Tasks : EndSession(e)
  \/ TimeoutWatcher \/ IdleWatcher \/ Purge
  \/ \E s \in Sessions : CheckSession(s) \/ NvcfEnds(s)
  \/ \E b \in checks : CheckExpire(b)
  \/ \E s \in Sessions, error \in {"none", "client"} : UpdateSession(s, error)
  \/ Tick \/ Restart

Spec == Init /\ [][Next]_vars

\* The event loop runs every task that can run, and every call to NVCF is
\* answered or fails; the lock that start_stream's transaction holds is an
\* asyncio.Lock, first come first served, hence strong fairness for whoever
\* waits for the database.  Clients, NVCF's own decisions and the clock may stop.
Fairness ==
  /\ \A p \in Starters : WF_vars((\E s \in Sessions : PostAccepted(p, s))
                                 \/ PostFails(p))
  /\ \A c \in Conns : SF_vars(HandlerRuns(c))
  /\ \A e \in Tasks : SF_vars(EndSession(e))
  /\ SF_vars(TimeoutWatcher)
  /\ SF_vars(IdleWatcher)

FairSpec == Spec /\ Fairness

=============================================================================

---------------------------- MODULE StreamClient ----------------------------
(***************************************************************************)
(* A tab that streams: AppStreamList.tsx, AppStream.tsx, useStream.ts,        *)
(* useStreamStart.tsx and startSession / reportSessionError of Sessions.ts.   *)
(*                                                                         *)
(* A page has several coroutines at once: connect() of useStream (flow), and  *)
(* the handlers that call startNewSession or stream.terminate (call).  They   *)
(* outlive the page when the portal navigates by itself, and die with it       *)
(* when the browser loads another.  AppStreamer is external.                  *)
(***************************************************************************)
EXTENDS Naturals, FiniteSets

CONSTANTS
  Calls,        \* bound: handlers of a page that run at once
  NoCall,
  Tries,        \* POSTs of one mutation: the first and failureCount < 3 more
  MaxSession,   \* bound: sessions, in the order they are started
  MaxFault,     \* bound: calls that fail
  MaxClick      \* bound: clicks of the user that load or start something

Sessions == 1 .. MaxSession
Errors == {"start", "connect", "stream", "play", "terminate"}

ASSUME StreamAssumption ==
  /\ NoCall \notin Calls /\ IsFiniteSet(Calls)
  /\ Tries \in Nat \ {0} /\ MaxSession \in Nat /\ MaxFault \in Nat /\ MaxClick \in Nat

VARIABLES
  row,      \* the sessions in the backend
  stored,   \* the errors reported for each session, SessionModel.error
  reports,  \* PATCH requests on their way
  missed,   \* whether one failed, or two overtook each other
  page,     \* what the tab shows
  flow,     \* where connect() is
  blind,    \* whether checkSession got no answer
  ui,       \* loading, error
  call,     \* the handlers
  latest,   \* the call the mutation's isPending and isError tell of
  list,     \* AppStreamList: the answer to getSessions, autoStart last rendered
  href,     \* the session location.href was set to, 0 for none
  auth,     \* auth.isAuthenticated
  faults, clicks

vars == <<row, stored, reports, missed, page, flow, blind, ui, call, latest, list, href, auth,
          faults, clicks>>

IdleCall == [by |-> "none", pc |-> "idle", tries |-> 0, sid |-> 0]

StreamTypeOK ==
  /\ row \in [Sessions -> {"none", "alive", "ended"}]
  /\ \A s, t \in Sessions : s < t /\ row[s] = "none" => row[t] = "none"
  /\ stored \in [Sessions -> Errors \union {"none"}]
  /\ reports \subseteq Sessions \X Errors
  /\ page.at \in {"home", "list", "stream"} /\ page.sid \in 0 .. MaxSession
  /\ page.at = "stream" => page.sid # 0 /\ row[page.sid] # "none"
  /\ page.at # "home" => auth
  /\ flow \in {"none", "checking", "starting", "leaving", "connecting", "waiting",
               "playing", "stopped", "failed"}
  /\ ui.loading \in BOOLEAN /\ ui.error \in Errors \union {"none"}
  /\ \A c \in Calls :
       /\ call[c].by \in {"none", "flow", "list", "button", "toolbar"}
       /\ call[c].pc \in {"idle", "terminating", "sent", "made", "ok", "error", "reload"}
       /\ call[c].tries \in 0 .. Tries
       /\ call[c].pc = "made" => row[call[c].sid] # "none"
  /\ latest \in Calls \union {NoCall}
  /\ list.items \in {"loading", "some", "none", "error"} /\ list.auto \in BOOLEAN
  /\ href \in 0 .. MaxSession
  /\ {auth, blind, missed} \subseteq BOOLEAN
  /\ faults \in 0 .. MaxFault /\ clicks \in 0 .. MaxClick

-----------------------------------------------------------------------------
(* Helpers *)

AliveSessions == {s \in Sessions : row[s] = "alive"}

Made == Cardinality({s \in Sessions : row[s] # "none"})

Grown(n) == [s \in Sessions |-> IF s > Made /\ s <= Made + n THEN "alive" ELSE row[s]]

Free(c) == call[c].pc \in {"idle", "error"}

IsPending == latest # NoCall /\ call[latest].pc \in {"sent", "made"}
IsError == latest # NoCall /\ call[latest].pc = "error"

AutoStart == page.at = "list" /\ list.items = "none" /\ ~IsError

\* startSession is called, by useMutation.
Begin(c, by) == call' = [call EXCEPT ![c] = [by |-> by, pc |-> "sent", tries |-> 1, sid |-> 0]]

Fault == faults < MaxFault /\ faults' = faults + 1

\* setError, then the effect that reports a new error of the session.  The loader stays
\* where setLoading(false) does not follow.
Shown(e) == [loading |-> ui.loading /\ e \in {"play", "terminate"}, error |-> e]

SetErrorBug(e) ==   \* reports only the first error of a page
  IF page.at = "stream"
  THEN /\ ui' = Shown(e)
       /\ reports' = IF ui.error = "none" THEN reports \union {<<page.sid, e>>} ELSE reports
  ELSE UNCHANGED <<ui, reports>>

SetError(e) ==
  IF page.at = "stream"
  THEN /\ ui' = Shown(e)
       /\ reports' = IF ui.error # e THEN reports \union {<<page.sid, e>>} ELSE reports
  ELSE UNCHANGED <<ui, reports>>

Backend == <<row, stored, reports, missed>>
Page == <<page, list, href, auth>>

ShownPage(at, sid) ==
  /\ page' = [at |-> at, sid |-> sid]
  /\ flow' = IF at = "stream" THEN "checking" ELSE "none"
  /\ ui' = [loading |-> at = "stream", error |-> "none"]
  /\ list' = [items |-> "loading", auto |-> FALSE]
  /\ latest' = NoCall /\ blind' = FALSE

\* The browser loads a page: a POST of the last one may still arrive.
HardLoad(at, sid) ==
  /\ ShownPage(at, sid)
  /\ href' = 0
  /\ call' = [c \in Calls |-> IdleCall]
  /\ \E n \in 0 .. Cardinality({c \in Calls : call[c].pc = "sent"}) :
       n <= MaxSession - Made /\ row' = Grown(n)
  /\ reports' \in SUBSET reports
  /\ UNCHANGED <<stored, missed, faults>>

Init ==
  /\ row \in [Sessions -> {"none", "alive"}] /\ \A s \in Sessions : s > 1 => row[s] = "none"
  /\ stored = [s \in Sessions |-> "none"] /\ reports = {} /\ missed = FALSE
  /\ page = [at |-> "home", sid |-> 0] /\ flow = "none" /\ blind = FALSE
  /\ ui = [loading |-> FALSE, error |-> "none"]
  /\ call = [c \in Calls |-> IdleCall] /\ latest = NoCall
  /\ list = [items |-> "loading", auto |-> FALSE] /\ href = 0
  /\ auth = TRUE /\ faults = 0 /\ clicks = 0

-----------------------------------------------------------------------------
(* The list of sessions *)

\* The user opens the application.
OpenApp ==
  /\ page.at = "home" /\ auth /\ clicks < MaxClick /\ clicks' = clicks + 1
  /\ HardLoad("list", 0) /\ UNCHANGED auth

\* getSessions answers, also to a refetch on focus.
ListSessions ==
  /\ page.at = "list" /\ list.items # "error"
  /\ \/ list' = [list EXCEPT !.items = IF AliveSessions = {} THEN "none" ELSE "some"]
        /\ UNCHANGED faults
     \/ list.items = "loading" /\ Fault /\ list' = [list EXCEPT !.items = "error"]
  /\ UNCHANGED <<Backend, page, flow, blind, ui, call, latest, href, auth, clicks>>

\* The effect on autoStart.
ListEffect ==
  /\ page.at = "list" /\ list.auto # AutoStart
  /\ list' = [list EXCEPT !.auto = AutoStart]
  /\ IF AutoStart
     THEN \E c \in Calls : Free(c) /\ Begin(c, "list") /\ latest' = c
     ELSE UNCHANGED <<call, latest>>
  /\ UNCHANGED <<Backend, page, flow, blind, ui, href, auth, faults, clicks>>

\* "New session", or "Start a new session" below an error.
NewSession(c) ==
  /\ page.at = "list" /\ list.items \in {"some", "none"} /\ ~list.auto /\ ~AutoStart
  /\ ~IsPending /\ Free(c) /\ clicks < MaxClick /\ clicks' = clicks + 1
  /\ Begin(c, "list") /\ latest' = c
  /\ UNCHANGED <<Backend, Page, flow, blind, ui, faults>>

\* "Reconnect", by the router.
Reconnect(s) ==
  /\ page.at = "list" /\ list.items = "some" /\ ~IsPending /\ ~IsError
  /\ row[s] # "none" /\ clicks < MaxClick /\ clicks' = clicks + 1
  /\ ShownPage("stream", s)
  /\ UNCHANGED <<Backend, call, href, auth, faults>>

-----------------------------------------------------------------------------
(* startSession and its retries *)

FailedBug(c) ==   \* the error is shown, the loader stays
  IF call[c].tries < Tries
  THEN call' = [call EXCEPT ![c].pc = "sent", ![c].tries = @ + 1]
       /\ UNCHANGED <<flow, ui, reports>>
  ELSE call' = [call EXCEPT ![c].pc = "error"]
       /\ UNCHANGED <<flow, ui, reports>>

FailedOnceMoreBug(c) ==   \* failureCount <= 3
  IF call[c].tries <= Tries
  THEN call' = [call EXCEPT ![c].pc = "sent", ![c].tries = @ + 1]
       /\ UNCHANGED <<flow, ui, reports>>
  ELSE call' = [call EXCEPT ![c].pc = "error"]
       /\ IF call[c].by = "flow"
          THEN flow' = "connecting" /\ SetError("start")
          ELSE UNCHANGED <<flow, ui, reports>>

\* The POST failed.  When the last one of connect() has, it goes on to connect.
Failed(c) ==
  IF call[c].tries < Tries
  THEN call' = [call EXCEPT ![c].pc = "sent", ![c].tries = @ + 1]
       /\ UNCHANGED <<flow, ui, reports>>
  ELSE call' = [call EXCEPT ![c].pc = "error"]
       /\ IF call[c].by = "flow"
          THEN flow' = "connecting" /\ SetError("start")
          ELSE UNCHANGED <<flow, ui, reports>>

Post(c) ==
  /\ call[c].pc = "sent"
  /\ \/ /\ Made < MaxSession /\ row' = Grown(1)
        /\ call' = [call EXCEPT ![c].pc = "made", ![c].sid = Made + 1]
        /\ UNCHANGED <<flow, ui, reports, faults>>
     \/ /\ IF Made = MaxSession THEN UNCHANGED faults ELSE Fault
        /\ Failed(c) /\ UNCHANGED row
  /\ UNCHANGED <<stored, missed, Page, blind, latest, clicks>>

\* onSuccess sets location.href; the button's handler goes on to reload.
Answer(c) ==
  /\ call[c].pc = "made"
  /\ \/ /\ href' = call[c].sid
        /\ call' = [call EXCEPT ![c].pc = IF call[c].by = "button" THEN "reload" ELSE "ok"]
        /\ flow' = IF call[c].by = "flow" THEN "leaving" ELSE flow
        /\ UNCHANGED <<ui, reports, faults>>
     \/ Fault /\ Failed(c) /\ UNCHANGED href
  /\ UNCHANGED <<row, stored, missed, page, list, auth, blind, latest, clicks>>

\* AuthRequired shows the page to a user who is signed in.
Leave ==
  /\ href # 0 /\ HardLoad(IF auth THEN "stream" ELSE "home", href)
  /\ UNCHANGED <<auth, clicks>>

\* window.location.reload(), which takes the place of the navigation to href.
ReloadAfterStart(c) ==
  /\ call[c].pc = "reload" /\ HardLoad(page.at, page.sid)
  /\ UNCHANGED <<auth, clicks>>

-----------------------------------------------------------------------------
(* connect() *)

CheckBug ==   \* starts a session whatever checkSession says
  /\ flow = "checking" /\ flow' = "starting"
  /\ \E c \in Calls : Free(c) /\ Begin(c, "flow")
  /\ UNCHANGED <<Backend, Page, ui, latest, clicks, blind, faults>>

\* checkSession: any failure counts as "no longer available".
Check ==
  /\ flow = "checking"
  /\ \/ /\ row[page.sid] = "alive" /\ flow' = "connecting"
        /\ UNCHANGED <<call, blind, faults>>
     \/ /\ IF row[page.sid] = "ended" THEN UNCHANGED <<blind, faults>>
           ELSE Fault /\ blind' = TRUE
        /\ flow' = "starting" /\ \E c \in Calls : Free(c) /\ Begin(c, "flow")
  /\ UNCHANGED <<Backend, Page, ui, latest, clicks>>

\* AppStreamer.connect returns or throws.
Connect ==
  /\ flow = "connecting"
  /\ \/ /\ row[page.sid] = "alive" /\ flow' = "waiting"
        /\ UNCHANGED <<ui, reports, faults>>
     \/ /\ IF row[page.sid] = "ended" THEN UNCHANGED faults ELSE Fault
        /\ flow' = "failed" /\ SetError("connect")
  /\ UNCHANGED <<row, stored, missed, Page, blind, call, latest, clicks>>

\* onStart.  A session that ends meanwhile is reported as an error.
OnStart ==
  /\ flow = "waiting"
  /\ \/ /\ row[page.sid] = "alive" /\ flow' = "playing"
        /\ IF page.at = "stream" THEN ui' = [ui EXCEPT !.loading = FALSE] ELSE UNCHANGED ui
        /\ UNCHANGED <<reports, faults>>
     \/ /\ IF row[page.sid] = "ended" THEN UNCHANGED faults ELSE Fault
        /\ flow' = "failed" /\ SetError("stream")
  /\ UNCHANGED <<row, stored, missed, Page, blind, call, latest, clicks>>

\* video.play() is refused.
PlayRefused ==
  /\ flow = "playing" /\ Fault /\ SetError("play")
  /\ UNCHANGED <<row, stored, missed, Page, flow, blind, call, latest, clicks>>

\* onStop, onTerminate: the latency indicator is reset, no more.
OnStop ==
  /\ flow = "playing" /\ row[page.sid] = "ended" /\ flow' = "stopped"
  /\ UNCHANGED <<Backend, Page, blind, ui, call, latest, faults, clicks>>

-----------------------------------------------------------------------------
(* Handlers of AppStreamSession *)

StreamPage == page.at = "stream"

StartTerminate(c, by) ==
  call' = [call EXCEPT ![c] = [IdleCall EXCEPT !.by = by, !.pc = "terminating"]]

Reload ==
  /\ StreamPage /\ (ui.error # "none" \/ IsError) /\ ~IsPending
  /\ clicks < MaxClick /\ clicks' = clicks + 1 /\ HardLoad("stream", page.sid)
  /\ UNCHANGED auth

\* "Start a new session".  The button is enabled again until the POST is sent.
StartNewSession(c) ==
  /\ StreamPage /\ (ui.error # "none" \/ IsError) /\ ~IsPending
  /\ Free(c) /\ clicks < MaxClick /\ clicks' = clicks + 1 /\ StartTerminate(c, "button")
  /\ UNCHANGED <<Backend, Page, flow, blind, ui, latest, faults>>

\* The cross of the toolbar.
Terminate(c) ==
  /\ StreamPage /\ Free(c) /\ clicks < MaxClick /\ clicks' = clicks + 1
  /\ StartTerminate(c, "toolbar")
  /\ UNCHANGED <<Backend, Page, flow, blind, ui, latest, faults>>

\* What a handler does after stream.terminate().
Continue(c) ==
  IF call[c].by = "button"
  THEN Begin(c, "button") /\ latest' = c /\ UNCHANGED page
  ELSE /\ page' = [page EXCEPT !.at = "home"]
       /\ call' = [call EXCEPT ![c] = IdleCall] /\ UNCHANGED latest

\* AppStreamer.terminate(true) ends the session if it is connected to it.  When it
\* fails and the page is left by navigate, the clean-up of the effect of useStream calls
\* AppStreamer.terminate() once more, which disconnects or fails too.
Terminated(c) ==
  /\ call[c].pc = "terminating" /\ Continue(c)
  /\ \/ /\ IF flow \in {"waiting", "playing"}
           THEN flow' = "stopped" /\ row' = [row EXCEPT ![page.sid] = "ended"]
           ELSE UNCHANGED <<flow, row>>
        /\ UNCHANGED <<ui, reports, faults>>
     \/ /\ Fault /\ SetError("terminate") /\ UNCHANGED row
        /\ \/ UNCHANGED flow
           \/ call[c].by = "toolbar" /\ flow \in {"waiting", "playing"} /\ flow' = "stopped"
  /\ UNCHANGED <<stored, missed, list, href, auth, blind, clicks>>

-----------------------------------------------------------------------------
(* The backend and the rest of the portal *)

\* update_session; the PATCH may fail.
Report(p) ==
  /\ p \in reports /\ reports' = reports \ {p}
  /\ \/ /\ stored' = [stored EXCEPT ![p[1]] = p[2]] /\ UNCHANGED faults
        /\ missed' = (missed \/ \E q \in reports : q # p /\ q[1] = p[1])
     \/ Fault /\ missed' = TRUE /\ UNCHANGED stored
  /\ UNCHANGED <<row, Page, flow, blind, ui, call, latest, clicks>>

\* A session ends.  It does not come back here, although a handler of the backend may
\* write over the end of a session (see SessionLifetimes).
EndSession(s) ==
  /\ row[s] = "alive" /\ row' = [row EXCEPT ![s] = "ended"]
  /\ UNCHANGED <<stored, reports, missed, Page, flow, blind, ui, call, latest, faults, clicks>>

\* The user is removed, here or in another tab: AuthRequired shows nothing, so that the
\* page is unmounted (its own effect on auth never finds the user signed out).  The
\* clean-up of useStream disconnects a stream, unless that fails; a connect() that is
\* still on its way goes on, and nothing ends the stream that it starts.
SignOut ==
  /\ auth /\ auth' = FALSE /\ page' = [page EXCEPT !.at = "home"]
  /\ \/ UNCHANGED flow
     \/ StreamPage /\ flow \in {"waiting", "playing"} /\ flow' = "stopped"
  /\ UNCHANGED <<Backend, list, href, blind, ui, call, latest, faults, clicks>>

\* The browser goes to the identity provider, and comes back to the page it left or,
\* after a logout in this tab, to the home page.
SignIn ==
  /\ ~auth /\ auth' = TRUE /\ clicks < MaxClick /\ clicks' = clicks + 1
  /\ \/ HardLoad("home", 0) \/ HardLoad("list", 0)
     \/ page.sid # 0 /\ HardLoad("stream", page.sid)

Handlers(c) == Post(c) \/ Answer(c) \/ ReloadAfterStart(c) \/ Terminated(c)

User(c) == NewSession(c) \/ StartNewSession(c) \/ Terminate(c)

Next ==
  \/ OpenApp \/ ListSessions \/ ListEffect \/ Leave \/ Reload
  \/ Check \/ Connect \/ OnStart \/ OnStop \/ PlayRefused \/ SignOut \/ SignIn
  \/ \E c \in Calls : Handlers(c) \/ User(c)
  \/ \E p \in Sessions \X Errors : Report(p)
  \/ \E s \in Sessions : EndSession(s) \/ Reconnect(s)

Spec == Init /\ [][Next]_vars

\* Requests settle, effects run after a render and AppStreamer answers.
FairSpec ==
  /\ Spec
  /\ WF_vars(Check) /\ WF_vars(Connect) /\ WF_vars(OnStart) /\ WF_vars(Leave)
  /\ WF_vars(OnStop)
  /\ \A c \in Calls : WF_vars(Handlers(c))
  /\ WF_vars(\E p \in Sessions \X Errors : Report(p))

-----------------------------------------------------------------------------
(* Properties *)

(* connect() starts another session only when the page's session has ended   *)
(* or checkSession got no answer: users do not end up with two sessions        *)
(* because a page was loaded again while its session runs (useStream.ts).     *)
ReplacesOnlyGone ==
  \A c \in Calls : call[c].by = "flow" /\ call[c].pc \in {"sent", "made", "ok"} =>
    blind \/ row[page.sid] = "ended"

(* The loader of a stream page does not stay: the stream plays, an error is    *)
(* shown or another page is, whatever fails on the way (useStream.ts), also on *)
(* the page a user who has signed in again comes back to.                    *)
PageSettles == []<>(~StreamPage \/ ~ui.loading)

(* Every error a page shows is eventually stored for its session, unless the    *)
(* PATCH fails or the page is left before (useStream.ts, "Forward any error  *)
(* reported during the streaming session to the backend").                   *)
ErrorReported ==
  \A e \in Errors :
    (StreamPage /\ ui.error = e)
      ~> (~StreamPage \/ stored[page.sid] = e \/ missed \/ ui.error # e)
=============================================================================

---------------------------- MODULE StreamProofs ----------------------------
(***************************************************************************)
(* What holds of StreamClient for any number of handlers, sessions, faults and *)
(* clicks.                                                                  *)
(***************************************************************************)
EXTENDS StreamClient, FiniteSetTheorems, TLAPS

Callings == [by : {"none", "flow", "list", "button", "toolbar"},
             pc : {"idle", "terminating", "sent", "made", "ok", "error", "reload"},
             tries : Nat, sid : Nat]

\* Sessions are started in order, one after the other.
InOrder ==
  /\ row \in [Sessions -> {"none", "alive", "ended"}]
  /\ \A s, t \in Sessions : s < t /\ row[s] = "none" => row[t] = "none"

\* The sessions pages and calls refer to have been started.
Places ==
  /\ page \in [at : {"home", "list", "stream"}, sid : 0 .. MaxSession]
  /\ page.at = "stream" => page.sid # 0
  /\ page.sid # 0 => row[page.sid] # "none"
  /\ page.at = "list" => flow = "none"
  /\ flow # "none" => page.sid # 0
  /\ href \in 0 .. MaxSession /\ (href # 0 => row[href] # "none")
  /\ call \in [Calls -> Callings]
  /\ \A c \in Calls : call[c].pc = "made" => call[c].sid \in Sessions /\ row[call[c].sid] # "none"

\* A call of connect() is one of a page whose session was looked for in vain.
Starts(c) == call[c].by = "flow" /\ call[c].pc \in {"sent", "made", "ok"}

Gone ==
  \A c \in Calls : Starts(c) =>
    /\ page.at # "list" /\ flow # "none"
    /\ blind \/ row[page.sid] = "ended"

StreamInv == InOrder /\ Places /\ Gone

-----------------------------------------------------------------------------
(* The sessions *)

\* Those started so far are the first ones.
LEMMA MadeFirst ==
  ASSUME InOrder
  PROVE  Made \in Nat /\ \A s \in Sessions : row[s] # "none" <=> s <= Made
<1> DEFINE S == {s \in Sessions : row[s] # "none"}
<1>1. IsFiniteSet(S)
  <2>1. IsFiniteSet(Sessions)
    BY StreamAssumption, FS_Interval DEF StreamAssumption, Sessions
  <2> QED BY <2>1, FS_Subset
<1>2. Made = Cardinality(S) /\ Made \in Nat
  BY <1>1, FS_CardinalityType DEF Made
<1>3. ASSUME NEW s \in Sessions, row[s] # "none"
      PROVE  s <= Made
  <2>1. s \in Nat \ {0}
    BY <1>3, StreamAssumption DEF Sessions, StreamAssumption
  <2>2. 1 .. s \subseteq S
    BY <1>3, <2>1, StreamAssumption DEF InOrder, Sessions, StreamAssumption
  <2>3. Cardinality(1 .. s) = s
    BY <2>1, FS_Interval
  <2> QED BY <1>1, <1>2, <2>1, <2>2, <2>3, FS_Subset
<1>4. ASSUME NEW s \in Sessions, row[s] = "none"
      PROVE  s > Made
  <2>1. s \in Nat \ {0}
    BY <1>4, StreamAssumption DEF Sessions, StreamAssumption
  <2>2. S \subseteq 1 .. (s - 1)
    BY <1>4, <2>1, StreamAssumption DEF InOrder, Sessions, StreamAssumption
  <2>3. IsFiniteSet(1 .. (s - 1)) /\ Cardinality(1 .. (s - 1)) = s - 1
    BY <2>1, FS_Interval
  <2> QED BY <1>2, <2>1, <2>2, <2>3, FS_Subset
<1> HIDE DEF S
<1>5. ASSUME NEW s \in Sessions PROVE row[s] # "none" <=> s <= Made
  <2>1. s \in Nat
    BY StreamAssumption DEF Sessions, StreamAssumption
  <2> QED BY <1>2, <1>3, <1>4, <2>1
<1> QED BY <1>2, <1>5

\* New sessions take the place of none, and the next ones.
LEMMA GrownRow ==
  ASSUME InOrder, NEW n \in Nat, row' = Grown(n)
  PROVE  InOrder' /\ \A s \in Sessions : row[s] # "none" => row'[s] = row[s]
<1>1. /\ row \in [Sessions -> {"none", "alive", "ended"}] /\ Sessions \subseteq Nat
      /\ Made \in Nat /\ \A s \in Sessions : row[s] # "none" <=> s <= Made
  BY MadeFirst, StreamAssumption DEF InOrder, Sessions, StreamAssumption
<1> HIDE DEF Made, Sessions
<1>2. \A s \in Sessions : row'[s] = IF s > Made /\ s <= Made + n THEN "alive" ELSE row[s]
  BY DEF Grown
<1>3. row' \in [Sessions -> {"none", "alive", "ended"}]
  BY <1>1 DEF Grown
<1>4. \A s \in Sessions : row'[s] # "none" <=> s <= Made + n
  BY <1>1, <1>2
<1>5. \A s, t \in Sessions : s < t /\ row'[s] = "none" => row'[t] = "none"
  BY <1>1, <1>4
<1> QED BY <1>1, <1>2, <1>3, <1>5 DEF InOrder

\* Sessions that have started stay, and those that have ended have ended for good.
RowsKept ==
  /\ InOrder'
  /\ \A s \in Sessions : /\ row[s] # "none" => row'[s] # "none"
                         /\ row[s] = "ended" => row'[s] = "ended"

LEMMA EndedRow ==
  ASSUME InOrder, NEW s, row[s] # "none", row' = [row EXCEPT ![s] = "ended"]
  PROVE  RowsKept
BY DEF InOrder, RowsKept

LEMMA SameRow == ASSUME InOrder, row' = row PROVE RowsKept
BY DEF InOrder, RowsKept

LEMMA LoadedRow ==
  ASSUME InOrder, NEW at, NEW s, HardLoad(at, s)
  PROVE  RowsKept
<1>1. IsFiniteSet({c \in Calls : call[c].pc = "sent"})
  BY StreamAssumption, FS_Subset DEF StreamAssumption
<1>2. Cardinality({c \in Calls : call[c].pc = "sent"}) \in Nat
  BY <1>1, FS_CardinalityType
<1>3. PICK n \in 0 .. Cardinality({c \in Calls : call[c].pc = "sent"}) : row' = Grown(n)
  BY DEF HardLoad
<1>4. n \in Nat
  BY <1>2, <1>3
<1> QED BY <1>3, <1>4, GrownRow DEF RowsKept

LEMMA RowStep == StreamInv /\ [Next]_vars => RowsKept
<1> SUFFICES ASSUME StreamInv, [Next]_vars PROVE RowsKept
  OBVIOUS
<1>0. InOrder
  BY DEF StreamInv
<1>1. CASE OpenApp \/ Leave \/ Reload \/ SignIn \/ \E c \in Calls : ReloadAfterStart(c)
  BY <1>0, <1>1, LoadedRow DEF OpenApp, Leave, Reload, SignIn, ReloadAfterStart
<1>2. CASE \/ ListSessions \/ ListEffect \/ Check \/ Connect \/ OnStart \/ OnStop
           \/ PlayRefused \/ SignOut
           \/ \E c \in Calls : Answer(c) \/ User(c)
           \/ \E p \in Sessions \X Errors : Report(p)
           \/ \E s \in Sessions : Reconnect(s)
           \/ UNCHANGED vars
  <2>1. row' = row
    BY <1>2 DEF ListSessions, ListEffect, Check, Connect, OnStart, OnStop, PlayRefused,
                SignOut, Answer, User, NewSession, StartNewSession, Terminate,
                Report, Reconnect, Backend, vars
  <2> QED BY <1>0, <2>1, SameRow
<1>3. ASSUME NEW c \in Calls, Post(c)
      PROVE  RowsKept
  <2>1. row' = Grown(1) \/ row' = row
    BY <1>3 DEF Post
  <2> QED BY <1>0, <2>1, SameRow, GrownRow DEF RowsKept
<1>4. ASSUME NEW c \in Calls, Terminated(c)
      PROVE  RowsKept
  <2>1. \/ row' = row
        \/ flow \in {"waiting", "playing"} /\ row' = [row EXCEPT ![page.sid] = "ended"]
    BY <1>4 DEF Terminated
  <2>2. flow \in {"waiting", "playing"} => row[page.sid] # "none"
    BY DEF StreamInv, Places
  <2> QED BY <1>0, <2>1, <2>2, SameRow, EndedRow
<1>5. ASSUME NEW s \in Sessions, EndSession(s)
      PROVE  RowsKept
  BY <1>0, <1>5, EndedRow DEF EndSession
<1> QED BY <1>1, <1>2, <1>3, <1>4, <1>5 DEF Next, Handlers

-----------------------------------------------------------------------------
(* The pages *)

LEMMA StreamInit == Init => StreamInv
<1> SUFFICES ASSUME Init PROVE StreamInv
  OBVIOUS
<1>1. InOrder
  BY StreamAssumption DEF Init, InOrder, Sessions, StreamAssumption
<1>2. IdleCall \in Callings
  BY DEF IdleCall, Callings
<1>3. call \in [Calls -> Callings] /\ \A c \in Calls : call[c].pc = "idle"
  BY <1>2 DEF Init, IdleCall
<1>4. Places /\ Gone
  BY <1>3, StreamAssumption DEF Init, Places, Gone, Starts, StreamAssumption
<1> QED BY <1>1, <1>4 DEF StreamInv

\* The browser loads a page: nothing is left of the one before.
LEMMA HardLoaded ==
  ASSUME StreamInv, RowsKept, NEW at \in {"home", "list", "stream"}, NEW s \in 0 .. MaxSession,
         HardLoad(at, s), at = "stream" => s # 0, s # 0 => row[s] # "none"
  PROVE  StreamInv'
<1>1. /\ page' = [at |-> at, sid |-> s] /\ href' = 0
      /\ call' = [c \in Calls |-> IdleCall]
      /\ flow' = IF at = "stream" THEN "checking" ELSE "none"
  BY DEF HardLoad, ShownPage
<1>2. s # 0 => row'[s] # "none"
  BY StreamAssumption DEF RowsKept, Sessions, StreamAssumption
<1>3. IdleCall \in Callings /\ IdleCall.pc = "idle"
  BY DEF IdleCall, Callings
<1>4. call' \in [Calls -> Callings] /\ \A c \in Calls : call'[c].pc = "idle"
  BY <1>1, <1>3
<1>5. Places'
  BY <1>1, <1>2, <1>4, StreamAssumption DEF Places, StreamAssumption
<1>6. Gone'
  BY <1>4 DEF Gone, Starts
<1> QED BY <1>5, <1>6 DEF StreamInv, RowsKept

\* No call changes, and the page stays or is left for the list of applications.
LEMMA QuietStep ==
  ASSUME StreamInv, RowsKept, UNCHANGED <<call, href, blind>>,
         page' = page \/ page' = [page EXCEPT !.at = "home"],
         flow' = "none" <=> flow = "none"
  PROVE  StreamInv'
<1>1. \A s \in 1 .. MaxSession : /\ row[s] # "none" => row'[s] # "none"
                                 /\ row[s] = "ended" => row'[s] = "ended"
  BY DEF RowsKept, Sessions
<1>0. /\ page' \in [at : {"home", "list", "stream"}, sid : 0 .. MaxSession]
      /\ page'.sid = page.sid /\ page'.at \in {page.at, "home"}
  BY DEF StreamInv, Places
<1>2. Places'
  BY <1>0, <1>1, StreamAssumption DEF StreamInv, Places, Sessions, StreamAssumption
<1>3. ASSUME NEW c \in Calls, Starts(c)'
      PROVE  /\ page'.at # "list" /\ flow' # "none"
             /\ blind' \/ row'[page'.sid] = "ended"
  <2>1. Starts(c)
    BY <1>3 DEF Starts
  <2>2. page.sid \in 1 .. MaxSession
    BY <2>1, StreamAssumption DEF StreamInv, Places, Gone, StreamAssumption
  <2> QED BY <1>0, <1>1, <2>1, <2>2 DEF StreamInv, Gone
<1> QED BY <1>2, <1>3 DEF StreamInv, Gone, RowsKept

\* One call goes to q; the page stays or is left for the list of applications.
LEMMA CallStep ==
  ASSUME StreamInv, RowsKept, NEW c \in Calls, NEW q \in Callings,
         call' = [call EXCEPT ![c] = q],
         page' = page \/ page' = [page EXCEPT !.at = "home"],
         flow' = "none" <=> flow = "none",
         blind => blind',
         q.pc = "made" => q.sid \in Sessions /\ row'[q.sid] # "none",
         href' = href \/ (href' \in Sessions /\ row'[href'] # "none"),
         q.by = "flow" /\ q.pc \in {"sent", "made", "ok"} =>
           Starts(c) \/ (flow # "none" /\ (blind' \/ row[page.sid] = "ended"))
  PROVE  StreamInv'
<1>1. \A s \in 1 .. MaxSession : /\ row[s] # "none" => row'[s] # "none"
                                 /\ row[s] = "ended" => row'[s] = "ended"
  BY DEF RowsKept, Sessions
<1>2. call'[c] = q /\ \A d \in Calls \ {c} : call'[d] = call[d]
  BY DEF StreamInv, Places
<1>3. /\ page \in [at : {"home", "list", "stream"}, sid : 0 .. MaxSession]
      /\ page' \in [at : {"home", "list", "stream"}, sid : 0 .. MaxSession]
      /\ page'.sid = page.sid /\ page'.at \in {page.at, "home"}
  BY DEF StreamInv, Places
<1>4. call' \in [Calls -> Callings]
  BY DEF StreamInv, Places
<1>5. \A d \in Calls : call'[d].pc = "made" =>
        call'[d].sid \in Sessions /\ row'[call'[d].sid] # "none"
  BY <1>1, <1>2 DEF StreamInv, Places, Sessions
<1>6. href' \in 0 .. MaxSession /\ (href' # 0 => row'[href'] # "none")
  BY <1>1, StreamAssumption DEF StreamInv, Places, Sessions, StreamAssumption
<1>7. Places'
  <2>1. page.sid # 0 => row'[page.sid] # "none"
    BY <1>1, <1>3, StreamAssumption DEF StreamInv, Places, StreamAssumption
  <2> QED BY <1>3, <1>4, <1>5, <1>6, <2>1 DEF StreamInv, Places
<1>8. ASSUME NEW d \in Calls, Starts(d)'
      PROVE  /\ page'.at # "list" /\ flow' # "none"
             /\ blind' \/ row'[page'.sid] = "ended"
  <2>1. Starts(d) \/ (flow # "none" /\ (blind' \/ row[page.sid] = "ended"))
    BY <1>2, <1>8 DEF Starts
  <2>2. flow # "none" /\ page.at # "list" /\ (blind' \/ row[page.sid] = "ended")
    BY <2>1 DEF StreamInv, Places, Gone
  <2>3. page.sid \in 1 .. MaxSession
    BY <2>2, StreamAssumption DEF StreamInv, Places, StreamAssumption
  <2> QED BY <1>1, <1>3, <2>2, <2>3
<1> QED BY <1>7, <1>8 DEF StreamInv, Gone, RowsKept

-----------------------------------------------------------------------------
(* Steps *)

LEMMA CallingTypes ==
  /\ IdleCall \in Callings /\ IdleCall.pc = "idle"
  /\ \A by \in {"flow", "list", "button"} :
       LET q == [by |-> by, pc |-> "sent", tries |-> 1, sid |-> 0] IN
       q \in Callings /\ q.by = by /\ q.pc = "sent"
  /\ \A by \in {"button", "toolbar"} :
       LET q == [IdleCall EXCEPT !.by = by, !.pc = "terminating"] IN
       q \in Callings /\ q.pc = "terminating"
BY DEF IdleCall, Callings

LEMMA CallingMoves ==
  ASSUME NEW r \in Callings
  PROVE  /\ LET q == [r EXCEPT !.pc = "sent", !.tries = @ + 1] IN
            q \in Callings /\ q.pc = "sent" /\ q.by = r.by
         /\ LET q == [r EXCEPT !.pc = "error"] IN
            q \in Callings /\ q.pc = "error" /\ q.by = r.by
         /\ \A s \in Nat : LET q == [r EXCEPT !.pc = "made", !.sid = s] IN
              q \in Callings /\ q.pc = "made" /\ q.by = r.by /\ q.sid = s
<1>1. /\ [r EXCEPT !.pc = "sent"] \in Callings /\ [r EXCEPT !.pc = "error"] \in Callings
      /\ r.tries + 1 \in Nat
  BY DEF Callings
<1>2. ASSUME NEW w \in Callings, NEW n \in Nat
      PROVE  /\ [w EXCEPT !.tries = n] \in Callings
             /\ [w EXCEPT !.tries = n].pc = w.pc /\ [w EXCEPT !.tries = n].by = w.by
  BY <1>2 DEF Callings
<1>3. /\ [r EXCEPT !.pc = "sent"].pc = "sent" /\ [r EXCEPT !.pc = "sent"].by = r.by
      /\ [r EXCEPT !.pc = "error"].pc = "error" /\ [r EXCEPT !.pc = "error"].by = r.by
  BY DEF Callings
<1>4. ASSUME NEW s \in Nat
      PROVE  LET q == [r EXCEPT !.pc = "made", !.sid = s] IN
             q \in Callings /\ q.pc = "made" /\ q.by = r.by /\ q.sid = s
  <2>1. [r EXCEPT !.pc = "made", !.sid = s] \in Callings
    BY <1>4 DEF Callings
  <2>2. LET q == [r EXCEPT !.pc = "made", !.sid = s] IN
        q.pc = "made" /\ q.by = r.by /\ q.sid = s
    BY <1>4 DEF Callings
  <2> QED BY <2>1, <2>2
<1>5. LET q == [[r EXCEPT !.pc = "sent"] EXCEPT !.tries = r.tries + 1] IN
      q \in Callings /\ q.pc = "sent" /\ q.by = r.by
  BY <1>1, <1>2, <1>3
<1> QED BY <1>1, <1>3, <1>4, <1>5

\* A handler begins, or startSession is called by a click.
LEMMA BeginStep ==
  ASSUME StreamInv, RowsKept, NEW c \in Calls,
         \/ \E by \in {"list", "button"} : Begin(c, by)
         \/ \E by \in {"button", "toolbar"} : StartTerminate(c, by)
         \/ call' = [call EXCEPT ![c] = IdleCall],
         page' = page \/ page' = [page EXCEPT !.at = "home"],
         flow' = "none" <=> flow = "none",
         UNCHANGED <<href, blind>>
  PROVE  StreamInv'
<1>1. PICK q \in Callings :
        /\ call' = [call EXCEPT ![c] = q]
        /\ q.pc # "made" /\ ~(q.by = "flow" /\ q.pc \in {"sent", "made", "ok"})
  <2>1. ASSUME NEW by \in {"list", "button"}, Begin(c, by)
        PROVE  \E q \in Callings :
                 /\ call' = [call EXCEPT ![c] = q]
                 /\ q.pc # "made" /\ ~(q.by = "flow" /\ q.pc \in {"sent", "made", "ok"})
    BY <2>1, CallingTypes DEF Begin
  <2>2. ASSUME NEW by \in {"button", "toolbar"}, StartTerminate(c, by)
        PROVE  \E q \in Callings :
                 /\ call' = [call EXCEPT ![c] = q]
                 /\ q.pc # "made" /\ ~(q.by = "flow" /\ q.pc \in {"sent", "made", "ok"})
    BY <2>2, CallingTypes DEF StartTerminate
  <2> QED BY <2>1, <2>2, CallingTypes
<1> QED BY <1>1, CallStep

\* Steps of the page, AppStreamer and the backend.
LEMMA PageSteps ==
  ASSUME StreamInv, RowsKept,
         \/ ListSessions \/ Connect \/ OnStart \/ OnStop \/ PlayRefused \/ SignOut
         \/ \E p \in Sessions \X Errors : Report(p)
         \/ \E s \in Sessions : EndSession(s)
         \/ UNCHANGED vars
  PROVE  StreamInv'
<1>1. /\ UNCHANGED <<call, href, blind>> /\ (flow' = "none" <=> flow = "none")
      /\ page' = page \/ page' = [page EXCEPT !.at = "home"]
  BY DEF ListSessions, Connect, OnStart, OnStop, PlayRefused, SignOut, Report, EndSession,
         Backend, Page, vars
<1> QED BY <1>1, QuietStep

\* The browser loads a page.
LEMMA LoadSteps ==
  ASSUME StreamInv, RowsKept,
         OpenApp \/ Leave \/ Reload \/ SignIn \/ \E c \in Calls : ReloadAfterStart(c)
  PROVE  StreamInv'
<1>1. /\ page.at \in {"home", "list", "stream"} /\ page.sid \in 0 .. MaxSession
      /\ href \in 0 .. MaxSession /\ 0 \in 0 .. MaxSession
      /\ page.at = "stream" => page.sid # 0
      /\ page.sid # 0 => row[page.sid] # "none"
      /\ href # 0 => row[href] # "none"
  BY StreamAssumption DEF StreamInv, Places, StreamAssumption
<1>2. CASE OpenApp
  BY <1>1, <1>2, HardLoaded DEF OpenApp
<1>3. CASE Leave
  BY <1>1, <1>3, HardLoaded DEF Leave
<1>4. CASE Reload
  BY <1>1, <1>4, HardLoaded DEF Reload, StreamPage
<1>5. CASE \E c \in Calls : ReloadAfterStart(c)
  BY <1>1, <1>5, HardLoaded DEF ReloadAfterStart
<1>6. CASE SignIn
  BY <1>1, <1>6, HardLoaded DEF SignIn
<1> QED BY <1>2, <1>3, <1>4, <1>5, <1>6

\* Handlers begin, and stream.terminate() settles.
LEMMA HandlerSteps ==
  ASSUME StreamInv, RowsKept,
         \/ ListEffect
         \/ \E c \in Calls : User(c) \/ Terminated(c)
  PROVE  StreamInv'
<1>1. CASE ListEffect
  <2>1. UNCHANGED <<page, flow, href, blind>>
    BY <1>1 DEF ListEffect
  <2>2. call' = call \/ \E c \in Calls : Begin(c, "list")
    BY <1>1 DEF ListEffect
  <2> QED BY <2>1, <2>2, QuietStep, BeginStep
<1>2. ASSUME NEW c \in Calls, User(c)
      PROVE  StreamInv'
  <2>1. UNCHANGED <<page, flow, href, blind>>
    BY <1>2 DEF User, NewSession, StartNewSession, Terminate, Page
  <2>2. Begin(c, "list") \/ \E by \in {"button", "toolbar"} : StartTerminate(c, by)
    BY <1>2 DEF User, NewSession, StartNewSession, Terminate
  <2> QED BY <2>1, <2>2, BeginStep
<1>3. ASSUME NEW c \in Calls, Terminated(c)
      PROVE  StreamInv'
  <2>1. UNCHANGED <<href, blind>> /\ (flow' = "none" <=> flow = "none")
    BY <1>3 DEF Terminated
  <2>2. /\ Begin(c, "button") \/ call' = [call EXCEPT ![c] = IdleCall]
        /\ page' = page \/ page' = [page EXCEPT !.at = "home"]
    <3>1. Continue(c)
      BY <1>3 DEF Terminated
    <3> QED BY <3>1 DEF Continue
  <2> QED BY <2>1, <2>2, BeginStep
<1> QED BY <1>1, <1>2, <1>3

\* The user goes back to a session; the list has no call of connect().
LEMMA ReconnectStep ==
  ASSUME StreamInv, RowsKept, NEW s \in Sessions, Reconnect(s)
  PROVE  StreamInv'
<1>1. /\ page' = [at |-> "stream", sid |-> s] /\ flow' = "checking"
      /\ UNCHANGED <<call, href, row>> /\ page.at = "list" /\ row[s] # "none"
  BY DEF Reconnect, ShownPage, Backend
<1>2. s \in 0 .. MaxSession /\ s # 0
  BY StreamAssumption DEF Sessions, StreamAssumption
<1>3. Places'
  BY <1>1, <1>2 DEF StreamInv, Places
<1>4. \A c \in Calls : ~Starts(c)'
  BY <1>1 DEF StreamInv, Gone, Starts
<1> QED BY <1>3, <1>4 DEF StreamInv, Gone, RowsKept

\* A POST that failed is sent again or given up; connect() goes on.
LEMMA FailedStep ==
  ASSUME StreamInv, RowsKept, NEW c \in Calls, call[c].pc \in {"sent", "made"}, Failed(c),
         UNCHANGED <<page, href, blind>>
  PROVE  StreamInv'
<1>1. call[c] \in Callings
  BY DEF StreamInv, Places
<1>2. \A r \in Callings :
        /\ LET q == [r EXCEPT !.pc = "sent", !.tries = @ + 1] IN
           q \in Callings /\ q.pc = "sent" /\ q.by = r.by
        /\ LET q == [r EXCEPT !.pc = "error"] IN
           q \in Callings /\ q.pc = "error" /\ q.by = r.by
  BY CallingMoves
<1>3. call[c].by = "flow" => Starts(c) /\ flow # "none"
  BY DEF Starts, StreamInv, Gone
<1>4. flow' = "none" <=> flow = "none"
  BY <1>3 DEF Failed
<1>5. \/ call' = [call EXCEPT ![c] = [call[c] EXCEPT !.pc = "sent", !.tries = @ + 1]]
      \/ call' = [call EXCEPT ![c] = [call[c] EXCEPT !.pc = "error"]]
  BY DEF Failed, StreamInv, Places
<1>6. PICK q \in Callings :
        call' = [call EXCEPT ![c] = q] /\ q.pc \in {"sent", "error"} /\ q.by = call[c].by
  BY <1>1, <1>2, <1>5
<1> QED BY <1>3, <1>4, <1>6, CallStep

LEMMA PostStep ==
  ASSUME StreamInv, RowsKept, NEW c \in Calls, Post(c)
  PROVE  StreamInv'
<1>1. UNCHANGED <<page, href, blind>> /\ call[c].pc = "sent"
  BY DEF Post, Page
<1>2. CASE Failed(c)
  BY <1>1, <1>2, FailedStep
<1>3. CASE /\ Made < MaxSession /\ row' = Grown(1)
           /\ call' = [call EXCEPT ![c].pc = "made", ![c].sid = Made + 1]
           /\ flow' = flow
  <2>1. Made \in Nat /\ Made + 1 \in Sessions
    BY <1>3, MadeFirst, StreamAssumption DEF StreamInv, Sessions, StreamAssumption
  <2> HIDE DEF Made
  <2>2. row'[Made + 1] = "alive"
    BY <1>3, <2>1 DEF Grown
  <2>3. \A r \in Callings : LET q == [r EXCEPT !.pc = "made", !.sid = Made + 1] IN
          q \in Callings /\ q.pc = "made" /\ q.by = r.by /\ q.sid = Made + 1
    <3>1. Made + 1 \in Nat
      BY <2>1
    <3> QED BY <3>1, CallingMoves
  <2>4. call[c] \in Callings
    BY DEF StreamInv, Places
  <2>5. call' = [call EXCEPT ![c] = [call[c] EXCEPT !.pc = "made", !.sid = Made + 1]]
    BY <1>3 DEF StreamInv, Places
  <2>6. PICK q \in Callings :
          /\ call' = [call EXCEPT ![c] = q]
          /\ q.pc = "made" /\ q.by = call[c].by /\ q.sid = Made + 1
    BY <2>3, <2>4, <2>5
  <2>7. q.by = "flow" => Starts(c)
    BY <1>1, <2>6 DEF Starts
  <2> QED BY <1>1, <1>3, <2>1, <2>2, <2>6, <2>7, CallStep
<1> QED BY <1>2, <1>3 DEF Post

LEMMA AnswerStep ==
  ASSUME StreamInv, RowsKept, NEW c \in Calls, Answer(c)
  PROVE  StreamInv'
<1>1. UNCHANGED <<page, blind>> /\ call[c].pc = "made"
  BY DEF Answer
<1>2. CASE Failed(c) /\ UNCHANGED href
  BY <1>1, <1>2, FailedStep
<1>3. CASE /\ href' = call[c].sid
           /\ call' = [call EXCEPT ![c].pc = IF call[c].by = "button" THEN "reload" ELSE "ok"]
           /\ flow' = IF call[c].by = "flow" THEN "leaving" ELSE flow
  <2>1. call[c].sid \in Sessions /\ row'[call[c].sid] # "none"
    BY <1>1 DEF StreamInv, Places, RowsKept
  <2>2. call[c].by = "flow" => Starts(c) /\ flow # "none"
    BY <1>1 DEF Starts, StreamInv, Gone
  <2>3. \A r \in Callings, p \in {"reload", "ok"} : LET q == [r EXCEPT !.pc = p] IN
          q \in Callings /\ q.pc = p /\ q.by = r.by
    BY DEF Callings
  <2>4. call[c] \in Callings
    BY DEF StreamInv, Places
  <2>5. PICK p \in {"reload", "ok"} : call' = [call EXCEPT ![c] = [call[c] EXCEPT !.pc = p]]
    BY <1>3 DEF StreamInv, Places
  <2>6. PICK q \in Callings :
          call' = [call EXCEPT ![c] = q] /\ q.pc = p /\ q.by = call[c].by
    <3> DEFINE q == [call[c] EXCEPT !.pc = p]
    <3>1. q \in Callings /\ q.pc = p /\ q.by = call[c].by
      BY <2>3, <2>4
    <3>2. call' = [call EXCEPT ![c] = q]
      BY <2>5
    <3> HIDE DEF q
    <3> QED BY <3>1, <3>2
  <2>7. flow' = "none" <=> flow = "none"
    BY <1>3, <2>2
  <2> QED BY <1>1, <1>3, <2>1, <2>2, <2>6, <2>7, CallStep
<1> QED BY <1>2, <1>3 DEF Answer

\* checkSession answers.
LEMMA CheckStep ==
  ASSUME StreamInv, RowsKept, Check
  PROVE  StreamInv'
<1>1. UNCHANGED <<page, href>> /\ flow = "checking" /\ flow' \in {"connecting", "starting"}
  BY DEF Check, Page
<1>2. CASE UNCHANGED <<call, blind>>
  BY <1>1, <1>2, QuietStep
<1>3. CASE /\ (row[page.sid] = "ended" /\ UNCHANGED blind) \/ blind' = TRUE
           /\ \E c \in Calls : Begin(c, "flow")
  <2>1. PICK c \in Calls, q \in Callings :
          call' = [call EXCEPT ![c] = q] /\ q.pc = "sent"
    BY <1>3, CallingTypes DEF Begin
  <2>2. (blind => blind') /\ (blind' \/ row[page.sid] = "ended")
    BY <1>3
  <2>3. (flow' = "none" <=> flow = "none") /\ flow # "none"
    BY <1>1
  <2> QED BY <1>1, <2>1, <2>2, <2>3, CallStep
<1> QED BY <1>2, <1>3 DEF Check

LEMMA StreamStep == StreamInv /\ [Next]_vars => StreamInv'
<1> SUFFICES ASSUME StreamInv, [Next]_vars PROVE StreamInv'
  OBVIOUS
<1>1. RowsKept
  BY RowStep
<1> QED BY <1>1, PageSteps, LoadSteps, HandlerSteps, ReconnectStep, PostStep, AnswerStep,
           CheckStep
        DEF Next, Handlers

\* A page starts another session only in place of one that has ended, or that it could
\* not ask for, whatever is clicked, loaded or left meanwhile.
THEOREM ReplacesGone == Spec => []ReplacesOnlyGone
<1>1. StreamInv => ReplacesOnlyGone
  BY DEF StreamInv, Gone, Starts, ReplacesOnlyGone
<1> QED BY <1>1, StreamInit, StreamStep, PTL DEF Spec

-----------------------------------------------------------------------------
(* Types: what StreamInv does not say *)

Flows == {"none", "checking", "starting", "leaving", "connecting", "waiting", "playing",
          "stopped", "failed"}

UiTypes == ui \in [loading : BOOLEAN, error : Errors \union {"none"}]

ReportTypes ==
  /\ stored \in [Sessions -> Errors \union {"none"}]
  /\ reports \subseteq Sessions \X Errors
  /\ missed \in BOOLEAN

ListTypes ==
  /\ list \in [items : {"loading", "some", "none", "error"}, auto : BOOLEAN]
  /\ latest \in Calls \union {NoCall}

Bounded ==
  /\ auth \in BOOLEAN /\ blind \in BOOLEAN
  /\ flow \in Flows
  /\ faults \in 0 .. MaxFault /\ clicks \in 0 .. MaxClick

TriesInv == \A c \in Calls : call[c].tries <= Tries

Rest == UiTypes /\ ReportTypes /\ ListTypes /\ Bounded /\ TriesInv

LEMMA RestInit == Init => Rest
<1> SUFFICES ASSUME Init PROVE Rest
  OBVIOUS
<1>1. TriesInv
  BY StreamAssumption DEF Init, TriesInv, IdleCall, StreamAssumption
<1>2. UiTypes /\ ReportTypes /\ ListTypes
  BY DEF Init, UiTypes, ReportTypes, ListTypes
<1>3. Bounded
  <2>1. auth = TRUE /\ blind = FALSE /\ flow = "none" /\ faults = 0 /\ clicks = 0
    BY DEF Init
  <2>2. auth \in BOOLEAN /\ blind \in BOOLEAN /\ flow \in Flows
    BY <2>1 DEF Flows
  <2>3. 0 \in 0 .. MaxFault /\ 0 \in 0 .. MaxClick
    BY StreamAssumption DEF StreamAssumption
  <2> QED BY <2>1, <2>2, <2>3 DEF Bounded
<1> QED BY <1>1, <1>2, <1>3 DEF Rest

LEMMA FaultStep ==
  ASSUME Bounded, Fault \/ UNCHANGED faults
  PROVE  faults' \in 0 .. MaxFault
BY StreamAssumption DEF Bounded, Fault, StreamAssumption

LEMMA ClickStep ==
  ASSUME Bounded, (clicks < MaxClick /\ clicks' = clicks + 1) \/ UNCHANGED clicks
  PROVE  clicks' \in 0 .. MaxClick
BY StreamAssumption DEF Bounded, StreamAssumption

LEMMA ErrorStep ==
  ASSUME Places, Rest, NEW e \in Errors, SetError(e) \/ UNCHANGED <<ui, reports>>,
         UNCHANGED <<stored, missed>>
  PROVE  UiTypes' /\ ReportTypes'
<1>1. CASE page.at = "stream" /\ SetError(e)
  <2>1. page.sid \in Sessions
    BY <1>1, StreamAssumption DEF Places, Sessions, StreamAssumption
  <2>2. ui' = [loading |-> ui.loading /\ e \in {"play", "terminate"}, error |-> e]
    BY <1>1 DEF SetError, Shown
  <2>3. reports' = reports \union {<<page.sid, e>>} \/ reports' = reports
    BY <1>1 DEF SetError
  <2>4. UiTypes'
    BY <2>2 DEF UiTypes
  <2> QED BY <2>1, <2>3, <2>4 DEF Rest, ReportTypes
<1>2. CASE UNCHANGED <<ui, reports>>
  BY <1>2 DEF Rest, UiTypes, ReportTypes
<1> QED BY <1>1, <1>2 DEF SetError

LEMMA ShownStep ==
  ASSUME Rest, NEW at, NEW s, ShownPage(at, s)
  PROVE  UiTypes' /\ ListTypes' /\ flow' \in Flows /\ blind' \in BOOLEAN
BY DEF ShownPage, UiTypes, ListTypes, Flows

LEMMA LoadTypes ==
  ASSUME Rest, NEW at, NEW s, HardLoad(at, s), auth' \in BOOLEAN,
         (clicks < MaxClick /\ clicks' = clicks + 1) \/ UNCHANGED clicks
  PROVE  Rest'
<1>1. UiTypes' /\ ListTypes' /\ flow' \in Flows /\ blind' \in BOOLEAN
  BY ShownStep DEF HardLoad
<1>2. Bounded'
  BY <1>1, ClickStep DEF HardLoad, Rest, Bounded
<1>3. ReportTypes'
  BY DEF HardLoad, Rest, ReportTypes
<1>4. TriesInv'
  BY StreamAssumption DEF HardLoad, TriesInv, IdleCall, StreamAssumption
<1> QED BY <1>1, <1>2, <1>3, <1>4 DEF Rest

\* One handler begins or goes back to idle.
LEMMA BeginTries ==
  ASSUME Rest, NEW c \in Calls,
         \/ \E by \in {"list", "flow", "button"} : Begin(c, by)
         \/ \E by \in {"button", "toolbar"} : StartTerminate(c, by)
         \/ call' = [call EXCEPT ![c] = IdleCall],
         call \in [Calls -> Callings]
  PROVE  TriesInv'
<1>1. PICK q : call' = [call EXCEPT ![c] = q] /\ q.tries <= Tries
  <2>0. 0 <= Tries /\ 1 <= Tries
    BY StreamAssumption DEF StreamAssumption
  <2>1. ASSUME NEW by \in {"list", "flow", "button"}, Begin(c, by)
        PROVE  \E q : call' = [call EXCEPT ![c] = q] /\ q.tries <= Tries
    <3> WITNESS [by |-> by, pc |-> "sent", tries |-> 1, sid |-> 0]
    <3> QED BY <2>0, <2>1 DEF Begin
  <2>2. ASSUME NEW by \in {"button", "toolbar"}, StartTerminate(c, by)
        PROVE  \E q : call' = [call EXCEPT ![c] = q] /\ q.tries <= Tries
    <3> WITNESS [IdleCall EXCEPT !.by = by, !.pc = "terminating"]
    <3>1. [IdleCall EXCEPT !.by = by, !.pc = "terminating"].tries = 0
      BY DEF IdleCall
    <3> QED BY <2>0, <2>2, <3>1 DEF StartTerminate
  <2>3. ASSUME call' = [call EXCEPT ![c] = IdleCall]
        PROVE  \E q : call' = [call EXCEPT ![c] = q] /\ q.tries <= Tries
    <3>1. IdleCall.tries = 0
      BY DEF IdleCall
    <3> QED BY <2>0, <2>3, <3>1
  <2> QED BY <2>1, <2>2, <2>3
<1> QED BY <1>1 DEF Rest, TriesInv

\* A handler goes on without another try.
LEMMA SameTries ==
  ASSUME Rest, NEW c \in Calls, NEW p, call \in [Calls -> Callings],
         \/ call' = [call EXCEPT ![c].pc = p]
         \/ \E s \in Nat : call' = [call EXCEPT ![c].pc = p, ![c].sid = s]
         \/ UNCHANGED call
  PROVE  TriesInv'
<1>1. \A d \in Calls : call'[d].tries = call[d].tries
  BY DEF Callings
<1> QED BY <1>1 DEF Rest, TriesInv

LEMMA FailedTypes ==
  ASSUME Places, Rest, NEW c \in Calls, Failed(c), UNCHANGED <<stored, missed>>
  PROVE  UiTypes' /\ ReportTypes' /\ TriesInv' /\ flow' \in Flows
<1>1. UiTypes' /\ ReportTypes'
  BY ErrorStep DEF Failed, Errors
<1>2. flow' \in Flows
  BY DEF Failed, Flows, Rest, Bounded
<1>3. TriesInv'
  <2>1. call \in [Calls -> Callings]
    BY DEF Places
  <2>2. CASE call[c].tries < Tries
    <3>1. call' = [call EXCEPT ![c].pc = "sent", ![c].tries = @ + 1]
      BY <2>2 DEF Failed
    <3>2. call[c].tries \in Nat /\ call[c].tries + 1 <= Tries
      BY <2>1, <2>2, StreamAssumption DEF Callings, StreamAssumption
    <3>3. call'[c].tries = call[c].tries + 1 /\ \A d \in Calls \ {c} : call'[d] = call[d]
      BY <2>1, <3>1 DEF Callings
    <3> QED BY <3>2, <3>3 DEF Rest, TriesInv
  <2>3. CASE ~(call[c].tries < Tries)
    BY <2>1, <2>3, SameTries DEF Failed
  <2> QED BY <2>2, <2>3
<1> QED BY <1>1, <1>2, <1>3

\* No handler does anything, and the page asks for nothing.
LEMMA PageTypes ==
  ASSUME Places, Rest,
         \/ ListSessions \/ Connect \/ OnStart \/ OnStop \/ PlayRefused \/ SignOut
         \/ \E s \in Sessions : EndSession(s) \/ Reconnect(s)
  PROVE  Rest'
<1>1. CASE ListSessions
  <2>1. UNCHANGED <<stored, reports, missed, flow, blind, ui, call, latest, auth, clicks>>
    BY <1>1 DEF ListSessions, Backend
  <2>2. list' \in [items : {"loading", "some", "none", "error"}, auto : BOOLEAN]
    BY <1>1 DEF ListSessions, Rest, ListTypes
  <2>3. faults' \in 0 .. MaxFault
    BY <1>1, FaultStep DEF ListSessions, Rest
  <2> QED BY <2>1, <2>2, <2>3 DEF Rest, UiTypes, ReportTypes, ListTypes, Bounded, TriesInv
<1>2. CASE Connect
  <2>1. /\ UNCHANGED <<stored, missed, list, auth, blind, call, latest, clicks>>
        /\ SetError("connect") \/ UNCHANGED <<ui, reports>>
        /\ flow' \in Flows /\ (Fault \/ UNCHANGED faults)
    BY <1>2 DEF Connect, Page, Flows
  <2>2. UiTypes' /\ ReportTypes' /\ faults' \in 0 .. MaxFault
    BY <2>1, ErrorStep, FaultStep DEF Errors, Rest
  <2> QED BY <2>1, <2>2 DEF Rest, ListTypes, Bounded, TriesInv
<1>3. CASE OnStart
  <2>1. /\ UNCHANGED <<stored, missed, list, auth, blind, call, latest, clicks>>
        /\ flow' \in Flows /\ (Fault \/ UNCHANGED faults)
    BY <1>3 DEF OnStart, Page, Flows
  <2>2. faults' \in 0 .. MaxFault
    BY <2>1, FaultStep DEF Rest
  <2>3. UiTypes' /\ ReportTypes'
    <3>1. CASE SetError("stream") \/ UNCHANGED <<ui, reports>>
      BY <2>1, <3>1, ErrorStep DEF Errors
    <3>2. CASE ui' = [ui EXCEPT !.loading = FALSE] /\ UNCHANGED reports
      BY <2>1, <3>2 DEF Rest, UiTypes, ReportTypes
    <3> QED BY <1>3, <3>1, <3>2 DEF OnStart
  <2> QED BY <2>1, <2>2, <2>3 DEF Rest, ListTypes, Bounded, TriesInv
<1>4. CASE PlayRefused
  <2>1. /\ UNCHANGED <<stored, missed, list, auth, blind, call, latest, clicks, flow>>
        /\ SetError("play") /\ Fault
    BY <1>4 DEF PlayRefused, Page
  <2>2. UiTypes' /\ ReportTypes' /\ faults' \in 0 .. MaxFault
    BY <2>1, ErrorStep, FaultStep DEF Errors, Rest
  <2> QED BY <2>1, <2>2 DEF Rest, ListTypes, Bounded, TriesInv
<1>5. CASE OnStop \/ \E s \in Sessions : EndSession(s)
  <2>1. /\ UNCHANGED <<stored, reports, missed, list, auth, blind, call, latest, clicks, ui,
                       faults>>
        /\ flow' \in Flows
    BY <1>5 DEF OnStop, EndSession, Page, Backend, Flows, Rest, Bounded
  <2> QED BY <2>1 DEF Rest, UiTypes, ReportTypes, ListTypes, Bounded, TriesInv
<1>6. CASE SignOut
  <2>1. /\ UNCHANGED <<stored, reports, missed, list, blind, call, latest, clicks, ui, faults>>
        /\ auth' \in BOOLEAN /\ flow' \in Flows
    BY <1>6 DEF SignOut, Backend, Flows, Rest, Bounded
  <2> QED BY <2>1 DEF Rest, UiTypes, ReportTypes, ListTypes, Bounded, TriesInv
<1>7. ASSUME NEW s \in Sessions, Reconnect(s)
      PROVE  Rest'
  <2>1. UNCHANGED <<stored, reports, missed, call, auth, faults>> /\ ShownPage("stream", s)
    BY <1>7 DEF Reconnect, Backend
  <2>2. UiTypes' /\ ListTypes' /\ flow' \in Flows /\ blind' \in BOOLEAN
    BY <2>1, ShownStep
  <2>3. clicks' \in 0 .. MaxClick
    BY <1>7, ClickStep DEF Reconnect, Rest
  <2> QED BY <2>1, <2>2, <2>3 DEF Rest, ReportTypes, Bounded, TriesInv
<1> QED BY <1>1, <1>2, <1>3, <1>4, <1>5, <1>6, <1>7

\* startSession, in the list or by connect().
LEMMA StartTypes ==
  ASSUME InOrder, Places, Rest,
         ListEffect \/ Check \/ \E c \in Calls : NewSession(c) \/ Post(c) \/ Answer(c)
  PROVE  Rest'
<1>0. call \in [Calls -> Callings]
  BY DEF Places
<1>1. CASE ListEffect
  <2>1. UNCHANGED <<stored, reports, missed, flow, blind, ui, auth, clicks, faults>>
    BY <1>1 DEF ListEffect, Backend
  <2>2. ListTypes'
    BY <1>1 DEF ListEffect, AutoStart, Rest, ListTypes
  <2>3. TriesInv'
    <3>1. UNCHANGED call \/ \E c \in Calls : Begin(c, "list")
      BY <1>1 DEF ListEffect
    <3> QED BY <1>0, <3>1, BeginTries DEF Rest, TriesInv
  <2> QED BY <2>1, <2>2, <2>3 DEF Rest, UiTypes, ReportTypes, Bounded
<1>2. CASE Check
  <2>1. /\ UNCHANGED <<stored, reports, missed, list, auth, ui, latest, clicks>>
        /\ flow' \in Flows /\ (Fault \/ UNCHANGED faults)
        /\ blind' = TRUE \/ blind' = blind
    BY <1>2 DEF Check, Backend, Page, Flows
  <2>2. TriesInv'
    <3>1. UNCHANGED call \/ \E c \in Calls : Begin(c, "flow")
      BY <1>2 DEF Check
    <3> QED BY <1>0, <3>1, BeginTries DEF Rest, TriesInv
  <2>3. faults' \in 0 .. MaxFault
    BY <2>1, FaultStep DEF Rest
  <2> QED BY <2>1, <2>2, <2>3 DEF Rest, UiTypes, ReportTypes, ListTypes, Bounded
<1>3. ASSUME NEW c \in Calls, NewSession(c)
      PROVE  Rest'
  <2>1. /\ UNCHANGED <<stored, reports, missed, list, auth, flow, blind, ui, faults>>
        /\ latest' = c /\ Begin(c, "list")
    BY <1>3 DEF NewSession, Backend, Page
  <2>2. TriesInv'
    BY <1>0, <2>1, BeginTries
  <2>3. clicks' \in 0 .. MaxClick
    BY <1>3, ClickStep DEF NewSession, Rest
  <2> QED BY <2>1, <2>2, <2>3 DEF Rest, UiTypes, ReportTypes, ListTypes, Bounded
<1>4. ASSUME NEW c \in Calls, Post(c)
      PROVE  Rest'
  <2>1. /\ UNCHANGED <<stored, missed, list, auth, blind, latest, clicks>>
        /\ Fault \/ UNCHANGED faults
    BY <1>4 DEF Post, Page
  <2>2. UiTypes' /\ ReportTypes' /\ TriesInv' /\ flow' \in Flows
    <3>1. CASE Failed(c)
      BY <2>1, <3>1, FailedTypes
    <3>2. CASE /\ call' = [call EXCEPT ![c].pc = "made", ![c].sid = Made + 1]
               /\ UNCHANGED <<flow, ui, reports>>
      <4>1. Made + 1 \in Nat
        BY MadeFirst
      <4>2. TriesInv'
        BY <1>0, <3>2, <4>1, SameTries
      <4> QED BY <2>1, <3>2, <4>2 DEF Rest, UiTypes, ReportTypes, Bounded
    <3> QED BY <1>4, <3>1, <3>2 DEF Post
  <2>3. faults' \in 0 .. MaxFault
    BY <2>1, FaultStep DEF Rest
  <2> QED BY <2>1, <2>2, <2>3 DEF Rest, ListTypes, Bounded
<1>5. ASSUME NEW c \in Calls, Answer(c)
      PROVE  Rest'
  <2>1. /\ UNCHANGED <<stored, missed, list, auth, blind, latest, clicks>>
        /\ Fault \/ UNCHANGED faults
    BY <1>5 DEF Answer
  <2>2. UiTypes' /\ ReportTypes' /\ TriesInv' /\ flow' \in Flows
    <3>1. CASE Failed(c)
      BY <2>1, <3>1, FailedTypes
    <3>2. CASE /\ call' = [call EXCEPT ![c].pc = IF call[c].by = "button" THEN "reload" ELSE "ok"]
               /\ flow' = IF call[c].by = "flow" THEN "leaving" ELSE flow
               /\ UNCHANGED <<ui, reports>>
      <4>1. TriesInv'
        BY <1>0, <3>2, SameTries
      <4> QED BY <2>1, <3>2, <4>1 DEF Rest, UiTypes, ReportTypes, Bounded, Flows
    <3> QED BY <1>5, <3>1, <3>2 DEF Answer
  <2>3. faults' \in 0 .. MaxFault
    BY <2>1, FaultStep DEF Rest
  <2> QED BY <2>1, <2>2, <2>3 DEF Rest, ListTypes, Bounded
<1> QED BY <1>1, <1>2, <1>3, <1>4, <1>5

\* The handlers of AppStreamSession, and the reports.
LEMMA HandlerTypes ==
  ASSUME Places, Rest,
         \/ \E c \in Calls : \/ StartNewSession(c) \/ Terminate(c) \/ Terminated(c)
         \/ \E p \in Sessions \X Errors : Report(p)
  PROVE  Rest'
<1>0. call \in [Calls -> Callings]
  BY DEF Places
<1>1. ASSUME NEW c \in Calls, StartNewSession(c) \/ Terminate(c)
      PROVE  Rest'
  <2>1. /\ UNCHANGED <<stored, reports, missed, list, auth, flow, blind, ui, latest, faults>>
        /\ \E by \in {"button", "toolbar"} : StartTerminate(c, by)
    BY <1>1 DEF StartNewSession, Terminate, Backend, Page
  <2>2. TriesInv'
    BY <1>0, <2>1, BeginTries
  <2>3. clicks' \in 0 .. MaxClick
    BY <1>1, ClickStep DEF StartNewSession, Terminate, Rest
  <2> QED BY <2>1, <2>2, <2>3 DEF Rest, UiTypes, ReportTypes, ListTypes, Bounded
<1>2. ASSUME NEW c \in Calls, Terminated(c)
      PROVE  Rest'
  <2>1. /\ UNCHANGED <<stored, missed, list, auth, blind, clicks>>
        /\ Fault \/ UNCHANGED faults
        /\ SetError("terminate") \/ UNCHANGED <<ui, reports>>
        /\ flow' = "stopped" \/ flow' = flow
    BY <1>2 DEF Terminated
  <2>2. UiTypes' /\ ReportTypes' /\ faults' \in 0 .. MaxFault
    BY <2>1, ErrorStep, FaultStep DEF Errors, Rest
  <2>3. /\ Begin(c, "button") \/ call' = [call EXCEPT ![c] = IdleCall]
        /\ latest' = c \/ latest' = latest
    BY <1>2 DEF Terminated, Continue
  <2>4. TriesInv'
    BY <1>0, <2>3, BeginTries
  <2> QED BY <2>1, <2>2, <2>3, <2>4 DEF Rest, ListTypes, Bounded, Flows
<1>3. ASSUME NEW p \in Sessions \X Errors, Report(p)
      PROVE  Rest'
  <2>1. /\ UNCHANGED <<list, auth, flow, blind, ui, call, latest, clicks>>
        /\ Fault \/ UNCHANGED faults
        /\ reports' \subseteq reports
    BY <1>3 DEF Report, Page
  <2>2. stored' \in [Sessions -> Errors \union {"none"}] /\ missed' \in BOOLEAN
    BY <1>3 DEF Report, Rest, ReportTypes
  <2>3. faults' \in 0 .. MaxFault
    BY <2>1, FaultStep DEF Rest
  <2> QED BY <2>1, <2>2, <2>3 DEF Rest, UiTypes, ReportTypes, ListTypes, Bounded, TriesInv
<1> QED BY <1>1, <1>2, <1>3

LEMMA RestStep == StreamInv /\ Rest /\ [Next]_vars => Rest'
<1> SUFFICES ASSUME StreamInv, Rest, [Next]_vars PROVE Rest'
  OBVIOUS
<1>0. InOrder /\ Places
  BY DEF StreamInv
<1>1. CASE OpenApp \/ Leave \/ Reload \/ SignIn \/ \E c \in Calls : ReloadAfterStart(c)
  <2>1. auth' \in BOOLEAN
    BY <1>1 DEF OpenApp, Leave, Reload, SignIn, ReloadAfterStart, Rest, Bounded
  <2> QED BY <1>1, <2>1, LoadTypes DEF OpenApp, Leave, Reload, SignIn, ReloadAfterStart
<1>2. CASE UNCHANGED vars
  BY <1>2 DEF vars, Rest, UiTypes, ReportTypes, ListTypes, Bounded, TriesInv
<1> QED BY <1>0, <1>1, <1>2, PageTypes, StartTypes, HandlerTypes DEF Next, Handlers, User

\* A page is shown to a user who is signed in.
SignedIn == page.at # "home" => auth

LEMMA SignedInStep == Places /\ SignedIn /\ [Next]_vars => SignedIn'
<1> SUFFICES ASSUME Places, SignedIn, [Next]_vars PROVE SignedIn'
  OBVIOUS
<1>0. [page EXCEPT !.at = "home"].at = "home"
  BY DEF Places
<1> USE DEF SignedIn
<1>1. CASE OpenApp \/ Leave \/ Reload \/ SignIn \/ \E c \in Calls : ReloadAfterStart(c)
  BY <1>1 DEF OpenApp, Leave, Reload, SignIn, ReloadAfterStart, HardLoad, ShownPage, StreamPage
<1>2. CASE SignOut
  <2>1. page' = [page EXCEPT !.at = "home"]
    BY <1>2 DEF SignOut
  <2> QED BY <1>0, <2>1
<1>3. ASSUME NEW c \in Calls, Terminated(c)
      PROVE  SignedIn'
  <2>1. auth' = auth /\ (page' = page \/ page' = [page EXCEPT !.at = "home"])
    BY <1>3 DEF Terminated, Continue
  <2> QED BY <1>0, <2>1
<1>4. CASE \E s \in Sessions : Reconnect(s)
  BY <1>4 DEF Reconnect
<1>5. CASE \/ ListSessions \/ ListEffect \/ Check \/ Connect \/ OnStart \/ OnStop \/ PlayRefused
           \/ \E c \in Calls : Post(c) \/ Answer(c) \/ User(c)
           \/ \E p \in Sessions \X Errors : Report(p)
           \/ \E s \in Sessions : EndSession(s)
           \/ UNCHANGED vars
  <2>1. page' = page /\ auth' = auth
    BY <1>5 DEF ListSessions, ListEffect, Check, Connect, OnStart, OnStop, PlayRefused, Post,
                Answer, User, NewSession, StartNewSession, Terminate, Report, EndSession, Page, vars
  <2> QED BY <2>1
<1> QED BY <1>1, <1>2, <1>3, <1>4, <1>5 DEF Next, Handlers

LEMMA StreamTyped == StreamInv /\ Rest /\ SignedIn => StreamTypeOK
<1> SUFFICES ASSUME StreamInv, Rest, SignedIn PROVE StreamTypeOK
  OBVIOUS
<1>1. ASSUME NEW c \in Calls
      PROVE  /\ call[c].by \in {"none", "flow", "list", "button", "toolbar"}
             /\ call[c].pc \in {"idle", "terminating", "sent", "made", "ok", "error", "reload"}
             /\ call[c].tries \in 0 .. Tries
             /\ call[c].pc = "made" => row[call[c].sid] # "none"
  <2>1. call[c] \in Callings
    BY DEF StreamInv, Places
  <2>2. call[c].tries \in 0 .. Tries
    BY <2>1, StreamAssumption DEF Callings, Rest, TriesInv, StreamAssumption
  <2> QED BY <2>1, <2>2 DEF Callings, StreamInv, Places
<1>2. /\ page.at \in {"home", "list", "stream"} /\ page.sid \in 0 .. MaxSession
      /\ page.at = "stream" => page.sid # 0 /\ row[page.sid] # "none"
      /\ href \in 0 .. MaxSession
  BY DEF StreamInv, Places
<1>3. /\ flow \in Flows /\ faults \in 0 .. MaxFault /\ clicks \in 0 .. MaxClick
      /\ {auth, blind, missed} \subseteq BOOLEAN
      /\ latest \in Calls \union {NoCall}
      /\ list.items \in {"loading", "some", "none", "error"} /\ list.auto \in BOOLEAN
      /\ ui.loading \in BOOLEAN /\ ui.error \in Errors \union {"none"}
      /\ stored \in [Sessions -> Errors \union {"none"}]
      /\ reports \subseteq Sessions \X Errors
  BY DEF Rest, Bounded, UiTypes, ReportTypes, ListTypes
<1> QED BY <1>1, <1>2, <1>3 DEF StreamTypeOK, StreamInv, InOrder, Flows, SignedIn

\* Pages, handlers and reports hold what they may; no mutation tries more often than it
\* may, every session a page or a handler names has been started, and no page is shown to
\* a user who is signed out.
THEOREM StreamTypes == Spec => []StreamTypeOK
<1>1. Init => SignedIn
  BY DEF Init, SignedIn
<1>2. StreamInv => Places
  BY DEF StreamInv
<1> QED BY <1>1, <1>2, StreamInit, RestInit, StreamStep, RestStep, SignedInStep, StreamTyped, PTL
        DEF Spec
=============================================================================

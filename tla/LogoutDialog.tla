---------------------------- MODULE LogoutDialog ----------------------------
(***************************************************************************)
(* "Log out & end all sessions": LogoutDialog.tsx with getOwnAliveSessions    *)
(* and terminateOwnSessions of Sessions.ts, and the endpoints they call,      *)
(* get_sessions and terminate_session of routers/sessions.py.                *)
(*                                                                         *)
(* Meanwhile the sessions of the user may end for another reason, in NVCF, in  *)
(* the table or in both, a websocket handler may write its status over the     *)
(* end of one (see SessionLifetimes), and others may be started in another tab. *)
(***************************************************************************)
EXTENDS Integers, Sequences, FiniteSets

CONSTANTS
  MaxSession,    \* bound: sessions 1 .. MaxSession, in the order they are started
  PageSize,      \* OWN_SESSIONS_PAGE_SIZE
  Concurrency,   \* TERMINATION_CONCURRENCY
  Delay,         \* SUCCESS_DELAY_SECONDS
  MaxAstray      \* bound: sessions that are left over or revived at a time

Sessions == 1 .. MaxSession

ASSUME LogoutAssumption ==
  /\ MaxSession \in Nat /\ PageSize \in Nat \ {0} /\ Concurrency \in Nat \ {0}
  /\ Delay \in Nat /\ MaxAstray \in Nat

VARIABLES
  row,       \* the rows of the user's sessions
  nvcf,      \* the sessions that run in NVCF
  dialog,    \* the mutation endSessions: its state, page and totalPages
  alive,     \* the sessions listed so far
  job,       \* the calls of terminateSession, one for each element of alive
  result,    \* what the dialog shows of each session
  failed,    \* number of calls that failed
  seconds,   \* secondsLeft, -1 for null
  logout,    \* the mutation logout
  auto,      \* whether nobody clicked for the logout
  before,    \* sessions that were alive when the list was begun
  shifted,   \* whether rows changed places while the list was read
  leftover,  \* sessions that run in NVCF although others ended their row
  revived    \* sessions that are alive because a handler has overwritten their end

vars == <<row, nvcf, dialog, alive, job, result, failed, seconds, logout, auto,
          before, shifted, leftover, revived>>

LogoutTypeOK ==
  /\ row \in [Sessions -> {"none", "alive", "ended", "purged"}]
  /\ nvcf \subseteq Sessions
  /\ dialog.state \in {"idle", "counting", "reading", "terminating", "success", "error"}
  /\ dialog.page \in Nat \ {0} /\ dialog.total \in Nat
  /\ alive \in Seq(Sessions)
  /\ job \in [1 .. Len(alive) -> {"waiting", "asked", "deleting", "ok", "failed"}]
  /\ Cardinality({i \in 1 .. Len(alive) : job[i] \in {"asked", "deleting"}}) <= Concurrency
  /\ result \in [Sessions -> {"none", "terminated", "failed"}]
  /\ failed \in 0 .. Len(alive)
  /\ seconds \in -1 .. Delay
  /\ logout \in {"idle", "pending", "tokens removed"}
  /\ auto \in BOOLEAN /\ before \subseteq Sessions /\ shifted \in BOOLEAN
  /\ leftover \subseteq Sessions /\ revived \subseteq Sessions

-----------------------------------------------------------------------------
(* Helpers *)

AliveRows == {s \in Sessions : row[s] = "alive"}

\* Number of rows before s in the order of get_sessions, the newest first.
Position(s) == Cardinality({r \in AliveRows : r > s})

PageRows(p) == {s \in AliveRows : Position(s) >= (p - 1) * PageSize
                               /\ Position(s) < p * PageSize}

Descending(S) ==
  CHOOSE q \in [1 .. Cardinality(S) -> S] : \A i, j \in DOMAIN q : i < j => q[i] > q[j]

Jobs(state) == {i \in DOMAIN job : job[i] = state}

InFlight == Jobs("asked") \union Jobs("deleting")

\* Settled jobs: the answer of call i is known.
Settle(i, r) ==
  /\ job' = [job EXCEPT ![i] = r]
  /\ result' = [result EXCEPT ![alive[i]] = IF r = "ok" THEN "terminated" ELSE "failed"]
  /\ failed' = IF r = "ok" THEN failed ELSE failed + 1

EndRow(s) ==
  /\ row' = [row EXCEPT ![s] = IF @ = "purged" THEN @ ELSE "ended"]
  /\ revived' = revived \ {s}

MayStray(s) == Cardinality(leftover \union revived \union {s}) <= MaxAstray

\* s does not run in NVCF any more.
EndStream(s) == nvcf' = nvcf \ {s} /\ leftover' = leftover \ {s}

SessionsUnchanged == UNCHANGED <<row, nvcf, leftover, revived>>

DialogUnchanged == UNCHANGED <<dialog, alive, seconds, logout, auto, before, shifted>>

Init ==
  /\ \E n \in 0 .. MaxSession :
       row \in [Sessions -> {"none", "alive", "ended"}]
       /\ \A s \in Sessions : row[s] = "none" <=> s > n
  /\ leftover \in SUBSET {s \in Sessions : row[s] = "ended"} /\ revived = {}
  /\ Cardinality(leftover) <= MaxAstray
  /\ nvcf = AliveRows \union leftover
  /\ dialog = [state |-> "idle", page |-> 1, total |-> 1]
  /\ alive = <<>> /\ job = <<>> /\ result = [s \in Sessions |-> "none"] /\ failed = 0
  /\ seconds = -1 /\ logout = "idle" /\ auto = FALSE /\ before = {} /\ shifted = FALSE

-----------------------------------------------------------------------------
(* The list *)

EndSessionsBug ==   \* the button stays enabled
  /\ dialog.state = "idle" /\ logout # "tokens removed"
  /\ dialog' = [dialog EXCEPT !.state = "counting"] /\ before' = AliveRows
  /\ UNCHANGED <<alive, job, result, failed, seconds, logout, auto, shifted>>
  /\ SessionsUnchanged

\* "Log out & end all sessions".  (The button is enabled again once logout is over, but
\* then the user is removed and AuthRequired has unmounted the header with its dialog.)
EndSessions ==
  /\ dialog.state = "idle" /\ logout = "idle"
  /\ dialog' = [dialog EXCEPT !.state = "counting"] /\ before' = AliveRows
  /\ UNCHANGED <<alive, job, result, failed, seconds, logout, auto, shifted>>
  /\ SessionsUnchanged

\* get_sessions counts the rows, and reads the page in a second query.
CountRows ==
  /\ dialog.state = "counting"
  /\ dialog' = [dialog EXCEPT !.state = "reading",
                  !.total = (Cardinality(AliveRows) + PageSize - 1) \div PageSize]
  /\ UNCHANGED <<alive, job, result, failed, seconds, logout, auto, before, shifted>>
  /\ SessionsUnchanged

ReadPageBug ==   \* one page is enough
  /\ dialog.state = "reading"
  /\ alive' = alive \o Descending(PageRows(dialog.page))
  /\ dialog' = [dialog EXCEPT !.state = "terminating"]
  /\ job' = [i \in DOMAIN alive' |-> "waiting"]
  /\ UNCHANGED <<result, failed, seconds, logout, auto, before, shifted>>
  /\ SessionsUnchanged

\* The page is added to the list, and the next one asked for.
ReadPage ==
  /\ dialog.state = "reading"
  /\ alive' = alive \o Descending(PageRows(dialog.page))
  /\ dialog' = [dialog EXCEPT !.page = @ + 1,
                  !.state = IF dialog.page < dialog.total THEN "counting"
                                                          ELSE "terminating"]
  /\ job' = [i \in DOMAIN alive' |-> "waiting"]
  /\ UNCHANGED <<result, failed, seconds, logout, auto, before, shifted>>
  /\ SessionsUnchanged

\* A request fails: the mutation fails, nothing is ended.
ListFails ==
  /\ dialog.state \in {"counting", "reading"}
  /\ dialog' = [dialog EXCEPT !.state = "error"]
  /\ UNCHANGED <<alive, job, result, failed, seconds, logout, auto, before, shifted>>
  /\ SessionsUnchanged

-----------------------------------------------------------------------------
(* The calls *)

AskBug(i) ==   \* no limit
  /\ dialog.state = "terminating" /\ job[i] = "waiting"
  /\ job' = [job EXCEPT ![i] = "asked"]
  /\ UNCHANGED <<result, failed>> /\ SessionsUnchanged /\ DialogUnchanged

Ask(i) ==
  /\ dialog.state = "terminating" /\ job[i] = "waiting"
  /\ Cardinality(InFlight) < Concurrency
  /\ job' = [job EXCEPT ![i] = "asked"]
  /\ UNCHANGED <<result, failed>> /\ SessionsUnchanged /\ DialogUnchanged

\* terminate_session reads the row: 404 without one, 204 when the session has ended.
Receive(i) ==
  /\ job[i] = "asked"
  /\ \/ row[alive[i]] = "purged" /\ Settle(i, "failed")
     \/ row[alive[i]] = "ended" /\ Settle(i, "ok")
     \/ /\ row[alive[i]] \notin {"purged", "ended"}
        /\ job' = [job EXCEPT ![i] = "deleting"] /\ UNCHANGED <<result, failed>>
  /\ SessionsUnchanged /\ DialogUnchanged

\* end_session: NVCF ended the session, or does not know it.
Deleted(i) ==
  /\ job[i] = "deleting"
  /\ EndStream(alive[i]) /\ EndRow(alive[i]) /\ Settle(i, "ok")
  /\ DialogUnchanged

RefusedBug(i) ==   \* the answer of NVCF is not passed on
  /\ job[i] = "deleting" /\ EndRow(alive[i]) /\ Settle(i, "ok")
  /\ UNCHANGED <<nvcf, leftover>> /\ DialogUnchanged

\* NVCF refuses: the row says ended, the session runs, the user is told of a failure.
Refused(i) ==
  /\ job[i] = "deleting" /\ EndRow(alive[i]) /\ Settle(i, "failed")
  /\ UNCHANGED <<nvcf, leftover>> /\ DialogUnchanged

\* A timeout, an error of the backend or of the network: NVCF may have ended the session.
NoAnswer(i) ==
  /\ job[i] = "deleting" /\ Settle(i, "failed")
  /\ EndStream(alive[i]) \/ UNCHANGED <<nvcf, leftover>>
  /\ UNCHANGED <<row, revived>> /\ DialogUnchanged

\* The request does not reach the backend.
NotSent(i) ==
  /\ job[i] = "asked" /\ Settle(i, "failed")
  /\ SessionsUnchanged /\ DialogUnchanged

\* onSuccess: log out at once when there was nothing to end, after a delay when all
\* ended; otherwise the user has to click.
AllSettled ==
  /\ dialog.state = "terminating" /\ \A i \in DOMAIN job : job[i] \in {"ok", "failed"}
  /\ dialog' = [dialog EXCEPT !.state = "success"]
  /\ IF alive = <<>>
     THEN logout' = "pending" /\ auto' = TRUE /\ UNCHANGED seconds
     ELSE seconds' = (IF failed = 0 THEN Delay ELSE seconds) /\ UNCHANGED <<logout, auto>>
  /\ UNCHANGED <<alive, job, result, failed, before, shifted>>
  /\ SessionsUnchanged

-----------------------------------------------------------------------------
(* Logging out *)

CountdownBug ==   \* the last second is forgotten
  /\ seconds > 1 /\ seconds' = seconds - 1
  /\ UNCHANGED <<dialog, alive, job, result, failed, logout, auto, before, shifted>>
  /\ SessionsUnchanged

Countdown ==
  /\ seconds > 0 /\ seconds' = seconds - 1
  /\ UNCHANGED <<dialog, alive, job, result, failed, logout, auto, before, shifted>>
  /\ SessionsUnchanged

Elapsed ==
  /\ seconds = 0 /\ seconds' = -1
  /\ IF logout = "idle" THEN logout' = "pending" /\ auto' = TRUE
                        ELSE UNCHANGED <<logout, auto>>
  /\ UNCHANGED <<dialog, alive, job, result, failed, before, shifted>>
  /\ SessionsUnchanged

\* "Log out & retain all sessions", "Log out now" or "Log out anyway": disabled while
\* endSessions is pending.
ClickLogOut ==
  /\ logout = "idle" /\ dialog.state \in {"idle", "success", "error"}
  /\ logout' = "pending" /\ seconds' = -1
  /\ UNCHANGED <<dialog, alive, job, result, failed, auto, before, shifted>>
  /\ SessionsUnchanged

\* onLogOut removes the user, and with it the tokens (see PortalAuth); the page is left.
RemoveUser ==
  /\ logout = "pending" /\ logout' = "tokens removed"
  /\ UNCHANGED <<dialog, alive, job, result, failed, seconds, auto, before, shifted>>
  /\ SessionsUnchanged

-----------------------------------------------------------------------------
(* Meanwhile *)

Elsewhere == UNCHANGED <<dialog, alive, job, result, failed, seconds, logout, auto, before>>

ListShifts(states) == shifted' = (shifted \/ dialog.state \in states)

\* Another tab or watch_session_timeout ends a session by a DELETE that NVCF obeys.
EndsElsewhere(s) ==
  /\ row[s] = "alive" /\ EndRow(s) /\ EndStream(s)
  /\ ListShifts({"counting", "reading"}) /\ Elsewhere

\* The row ends, NVCF runs the session: it refused that DELETE, or watch_idle_sessions,
\* which sends none, found the row idle.
MarkedElsewhere(s) ==
  /\ row[s] = "alive" /\ MayStray(s) /\ EndRow(s)
  /\ leftover' = leftover \union ({s} \intersect nvcf)
  /\ ListShifts({"counting", "reading"}) /\ UNCHANGED nvcf /\ Elsewhere

\* The session ends in NVCF and its row does not: the answer to the DELETE is lost, or its
\* application closes.
GoneElsewhere(s) ==
  /\ s \in nvcf /\ EndStream(s)
  /\ UNCHANGED <<row, shifted, revived>> /\ Elsewhere

\* connect_to_stream saves CONNECTING, ACTIVE or IDLE without looking at the row.
Revive(s) ==
  /\ row[s] = "ended" /\ MayStray(s) /\ row' = [row EXCEPT ![s] = "alive"]
  /\ revived' = revived \union {s}
  /\ ListShifts({"reading"}) /\ UNCHANGED <<nvcf, leftover>> /\ Elsewhere

\* Another tab starts a session.
StartsElsewhere(s) ==
  /\ row[s] = "none" /\ \A r \in 1 .. s - 1 : row[r] # "none"
  /\ row' = [row EXCEPT ![s] = "alive"] /\ nvcf' = nvcf \union {s}
  /\ ListShifts({"reading"}) /\ UNCHANGED <<leftover, revived>> /\ Elsewhere

Purge(s) ==
  /\ row[s] = "ended" /\ row' = [row EXCEPT ![s] = "purged"]
  /\ UNCHANGED <<nvcf, shifted, leftover, revived>> /\ Elsewhere

-----------------------------------------------------------------------------
Listing == CountRows \/ ReadPage \/ ListFails
Call(i) == Ask(i) \/ Receive(i) \/ Deleted(i) \/ Refused(i) \/ NoAnswer(i) \/ NotSent(i)
Leaving == AllSettled \/ Countdown \/ Elapsed \/ RemoveUser

Next ==
  \/ EndSessions \/ Listing \/ (\E i \in DOMAIN job : Call(i)) \/ Leaving
  \/ ClickLogOut
  \/ \E s \in Sessions :
       \/ EndsElsewhere(s) \/ MarkedElsewhere(s) \/ GoneElsewhere(s)
       \/ Revive(s) \/ StartsElsewhere(s) \/ Purge(s)

Spec == Init /\ [][Next]_vars

\* Requests are answered or fail, timers fire.  Users need not click.
FairSpec ==
  /\ Spec /\ WF_vars(Listing) /\ WF_vars(Leaving)
  /\ WF_vars(\E i \in DOMAIN job : Call(i))

-----------------------------------------------------------------------------
(* Properties *)

\* Session s is over: its row, unless a handler has overwritten it, and its stream, unless
\* others ended the row while NVCF ran it (terminate_session then answers 204 without a
\* DELETE, so the dialog cannot know).
Over(s) ==
  /\ row[s] \in {"ended", "purged"} \/ s \in revived
  /\ s \notin nvcf \/ s \in leftover

\* When the dialog logs the user out on its own, the sessions that were alive when it
\* began are over, here and in NVCF, although pages are cut by offset while sessions
\* start, and DELETEs overlap.  It needs that none ended while the list was read (the
\* rows behind it move up a place, and the next page skips one) and that none started or
\* was revived between the two queries of a request (the last row moves to a page that
\* was not counted); Sessions.ts:106 says "Returns every running session" without
\* condition.
AutoLogoutEnds ==
  logout # "idle" /\ auto /\ ~shifted => \A s \in before : Over(s)

\* The tokens are there as long as a request of the dialog needs them
\* (LogoutDialog.tsx:52 "so that sessions are terminated while the authentication tokens
\* are still available"), whatever the user clicks and in whatever order.
TokensWhileEnding ==
  logout # "idle" => dialog.state \notin {"counting", "reading", "terminating"}

\* A session that the dialog shows as terminated is over, unless a second call for it (a
\* session may be listed twice) found the row of a DELETE that was refused.
ShownAsEnded ==
  \A s \in Sessions : result[s] = "terminated" /\ failed = 0 => Over(s)

\* The dialog, which cannot be closed any more, gets the user out: on its own when
\* every call succeeded, otherwise by a button.
DialogFinishes ==
  dialog.state # "idle" ~>
    \/ logout = "tokens removed"
    \/ dialog.state = "error"
    \/ dialog.state = "success" /\ failed > 0

=============================================================================

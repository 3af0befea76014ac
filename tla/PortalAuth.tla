----------------------------- MODULE PortalAuth -----------------------------
(***************************************************************************)
(* The portal's user in several browser tabs: AuthProvider.tsx,              *)
(* AuthRequired.tsx, tokenRenewal.ts and logOut of Header.tsx.               *)
(*                                                                         *)
(* The tabs share the stored user (localStorage) and the cookies; each has a  *)
(* copy of the user in React state and a timer that fires before its token    *)
(* expires.  A BroadcastChannel tells other tabs of renewals and logouts, and *)
(* a lock keeps two tabs from renewing at once.  A user is modelled by the     *)
(* number of its tokens: each sign-in and each renewal makes new ones.         *)
(***************************************************************************)
EXTENDS Naturals, Sequences

CONSTANTS
  Tabs,
  NoTab,       \* nobody holds the lock
  MaxTokens    \* bound: how often tokens are issued

ASSUME PortalAssumption == NoTab \notin Tabs /\ MaxTokens \in Nat

None == 0      \* no user
Users == 0 .. MaxTokens

VARIABLES
  store,    \* the user in localStorage
  cookie,   \* the user in the cookies
  lock,     \* who holds the lock "auth-renewal"
  idp,      \* whether the identity provider has a session of the user
  serial,   \* the tokens issued last
  tab,      \* the tabs
  failed,   \* what failed or was cut short: "renewing", "cooldown"
  raced,    \* whether a sign-in, a logout or an opening tab overlapped something
  stale     \* whether a tab that heard of no newer user wrote the cookies last, unasked

vars == <<store, cookie, lock, idp, serial, tab, failed, raced, stale>>

Messages == {"renewal", "logout"}

Closed == [pc |-> "closed", user |-> None, got |-> None, armed |-> None,
           sync |-> FALSE, mark |-> FALSE, silent |-> "none", inbox |-> <<>>]

PortalTypeOK ==
  /\ store \in 0 .. serial /\ cookie \in 0 .. serial
  /\ lock \in Tabs \union {NoTab}
  /\ idp \in BOOLEAN
  /\ serial \in Users
  /\ \A t \in Tabs :
       /\ tab[t].pc \in {"closed", "away", "opening", "callback", "read", "here",
                         "leaving", "signing out"}
       /\ tab[t].user \in 0 .. serial /\ tab[t].got \in 0 .. serial
       /\ tab[t].armed \in 0 .. serial
       /\ tab[t].sync \in BOOLEAN /\ tab[t].mark \in BOOLEAN
       /\ tab[t].silent \in {"none", "signing in", "renewing", "cooldown"}
       /\ tab[t].inbox \in Seq(Messages)
       /\ tab[t].silent \in {"renewing", "cooldown"} <=> lock = t
  /\ failed \subseteq {"renewing", "cooldown"} /\ raced \in BOOLEAN /\ stale \in BOOLEAN

-----------------------------------------------------------------------------
(* Helpers *)

Open(t) == tab[t].pc \notin {"closed", "away"}

Others(t) == {u \in Tabs \ {t} : Open(u)}

Posted(f, t, m) == [u \in Tabs |-> IF u \in Others(t)
                                   THEN [f[u] EXCEPT !.inbox = Append(@, m)] ELSE f[u]]

\* t holds a user that it will write to the cookies.
Pending(t) == tab[t].pc = "read" \/ tab[t].sync

Unread(t, m) == \E i \in DOMAIN tab[t].inbox : tab[t].inbox[i] = m

UnloadedBug(t, p) ==   \* the lock stays with the page
  /\ tab' = [tab EXCEPT ![t] = [Closed EXCEPT !.pc = p,
                                  !.mark = IF p = "away" THEN tab[t].mark ELSE FALSE]]
  /\ failed' = failed \union ({tab[t].silent} \intersect {"renewing", "cooldown"})
  /\ UNCHANGED lock

\* The page is unloaded: whatever ran in it stops, and its lock is free.
Unloaded(t, p) ==
  /\ tab' = [tab EXCEPT ![t] = [Closed EXCEPT !.pc = p,
                                  !.mark = IF p = "away" THEN tab[t].mark ELSE FALSE]]
  /\ lock' = IF lock = t THEN NoTab ELSE lock
  /\ failed' = failed \union ({tab[t].silent} \intersect {"renewing", "cooldown"})

Race(b) == raced' = (raced \/ b)

\* New tokens arrive and are stored.
Issued ==
  /\ serial < MaxTokens /\ serial' = serial + 1 /\ store' = serial'

Init ==
  /\ store = None /\ cookie = None /\ lock = NoTab /\ idp \in BOOLEAN /\ serial = 0
  /\ tab = [t \in Tabs |-> Closed]
  /\ failed = {} /\ raced = FALSE /\ stale = FALSE

-----------------------------------------------------------------------------
(* Pages *)

\* A page of the portal is loaded.  CookieSync runs before the stored user is read,
\* and removes the cookies of all tabs.
OpenPage(t) ==
  /\ ~Open(t)
  /\ tab' = [tab EXCEPT ![t].pc = "opening"] /\ cookie' = None /\ stale' = FALSE
  /\ UNCHANGED <<store, lock, idp, serial, failed, raced>>

\* UserManager.getUser: the timers are set, React does not know yet.
ReadUser(t) ==
  /\ tab[t].pc = "opening"
  /\ tab' = [tab EXCEPT ![t].pc = "read", ![t].got = store,
                        ![t].armed = IF store = None THEN @ ELSE store]
  /\ UNCHANGED <<store, cookie, lock, idp, serial, failed, raced, stale>>

\* React gets the user, CookieSync writes the cookies.
Initialised(t) ==
  /\ tab[t].pc = "read"
  /\ tab' = [tab EXCEPT ![t].pc = "here", ![t].user = tab[t].got, ![t].got = None,
                        ![t].sync = TRUE]
  /\ UNCHANGED <<store, cookie, lock, idp, serial, failed, raced, stale>>

\* The effects of a page: CookieSync writes or removes the cookies, and AuthRequired, if
\* there is no user, signs in again: on the identity provider's page when the tab is
\* marked, silently otherwise.  They depend on all that useAuth returns, so they run
\* after a change of the user (sync) and may run again at any render, with the user that
\* React has: an older one if the tab only heard of a renewal.
RunEffects(t) ==
  /\ Open(t) /\ cookie' = tab[t].user
  /\ stale' = (~tab[t].sync /\ tab[t].user \notin {None, store})
  /\ LET out == tab[t].pc = "here" /\ tab[t].user = None /\ tab[t].silent # "signing in"
     IN tab' = [tab EXCEPT
          ![t].sync = FALSE,
          ![t].pc = IF out /\ tab[t].mark THEN "leaving" ELSE @,
          ![t].silent = IF out /\ ~tab[t].mark /\ @ = "none" THEN "signing in" ELSE @]
  /\ UNCHANGED <<store, lock, idp, serial, failed, raced>>

\* signinSilent of AuthRequired succeeds, if the identity provider still has a session.
\* Other tabs are not told.
SilentSignIn(t) ==
  /\ tab[t].silent = "signing in" /\ idp /\ Issued
  /\ tab' = [tab EXCEPT ![t].user = serial', ![t].armed = serial', ![t].sync = TRUE,
                        ![t].silent = "none"]
  /\ Race(Others(t) # {})
  /\ UNCHANGED <<cookie, lock, idp, failed, stale>>

\* It fails, or there is no user: the tab goes to the identity provider.
SilentSignInFails(t) ==
  /\ tab[t].silent = "signing in"
  /\ tab' = [tab EXCEPT ![t].silent = "none", ![t].pc = "leaving"]
  /\ cookie' \in {cookie, None} /\ stale' = (stale /\ cookie' # None)
  /\ UNCHANGED <<store, lock, idp, serial, failed, raced>>

Leave(t) ==
  /\ tab[t].pc = "leaving" /\ Unloaded(t, "away") /\ Race(Pending(t))
  /\ UNCHANGED <<store, cookie, idp, serial, stale>>

\* The identity provider sends the user back with a code.
Return(t) ==
  /\ tab[t].pc = "away"
  /\ tab' = [tab EXCEPT ![t].pc = "callback"] /\ cookie' = None /\ stale' = FALSE /\ idp' = TRUE
  /\ UNCHANGED <<store, lock, serial, failed, raced>>

\* signinCallback, onSignIn.
SignedIn(t) ==
  /\ tab[t].pc = "callback" /\ Issued
  /\ tab' = [tab EXCEPT ![t].pc = "read", ![t].got = serial', ![t].armed = serial',
                        ![t].mark = FALSE]
  /\ Race(Others(t) # {})
  /\ UNCHANGED <<cookie, lock, idp, failed, stale>>

\* The user closes the tab.
Close(t) ==
  /\ Open(t) /\ Unloaded(t, "closed")
  /\ Race(\/ Pending(t) \/ tab[t].pc \in {"opening", "callback"}
          \/ stale /\ Unread(t, "logout"))
  /\ UNCHANGED <<store, cookie, idp, serial, stale>>

-----------------------------------------------------------------------------
(* renewTokenWithLock *)

\* The token is about to expire: the timer fires once.  Without the lock the tab does
\* nothing.  (A timer takes a second at least, in which a page has read its user, and
\* tokens live longer than the lock is held.)
Expiring(t) ==
  /\ tab[t].pc \in {"here", "leaving", "signing out"} /\ tab[t].armed # None
  /\ lock # NoTab /\ tab[lock].silent = "cooldown" => tab[t].armed # store
  /\ IF lock = NoTab
     THEN /\ lock' = t
          /\ tab' = [tab EXCEPT ![t].armed = None, ![t].silent = "renewing"]
          /\ Race(Unread(t, "logout") \/ tab[t].silent = "signing in")
     ELSE /\ tab' = [tab EXCEPT ![t].armed = None]
          /\ UNCHANGED <<lock, raced>>
  /\ UNCHANGED <<store, cookie, idp, serial, failed, stale>>

RenewBug(t) ==   \* the lock is released at once
  /\ tab[t].silent = "renewing" /\ idp /\ Issued
  /\ tab' = Posted([tab EXCEPT ![t].user = serial', ![t].armed = serial',
                               ![t].sync = TRUE, ![t].silent = "none"],
                   t, "renewal")
  /\ lock' = NoTab
  /\ Race(\E u \in Tabs \ {t} : Pending(u))
  /\ UNCHANGED <<cookie, idp, failed, stale>>

RenewUnseenBug(t) ==   \* React is not told
  /\ tab[t].silent = "renewing" /\ idp /\ Issued
  /\ tab' = Posted([tab EXCEPT ![t].armed = serial', ![t].silent = "cooldown"],
                   t, "renewal")
  /\ Race(\E u \in Tabs \ {t} : Pending(u))
  /\ UNCHANGED <<cookie, lock, idp, failed, stale>>

\* signinSilent succeeds: the other tabs are told, and the lock is kept for a while.
Renew(t) ==
  /\ tab[t].silent = "renewing" /\ idp /\ Issued
  /\ tab' = Posted([tab EXCEPT ![t].user = serial', ![t].armed = serial',
                               ![t].sync = TRUE, ![t].silent = "cooldown"],
                   t, "renewal")
  /\ Race(\E u \in Tabs \ {t} : Pending(u))
  /\ UNCHANGED <<cookie, lock, idp, failed, stale>>

\* signinSilent fails or returns no user: nobody is told and nobody tries again.
RenewFails(t) ==
  /\ tab[t].silent = "renewing"
  /\ tab' = [tab EXCEPT ![t].silent = "none"] /\ lock' = NoTab
  /\ failed' = failed \union {"renewing"}
  /\ UNCHANGED <<store, cookie, idp, serial, raced, stale>>

\* cooldownMs has passed.  It is long enough for all tabs to get the message.
CooldownEnds(t) ==
  /\ tab[t].silent = "cooldown"
  /\ \A u \in Tabs : ~Unread(u, "renewal")
  /\ tab' = [tab EXCEPT ![t].silent = "none"] /\ lock' = NoTab
  /\ UNCHANGED <<store, cookie, idp, serial, failed, raced, stale>>

-----------------------------------------------------------------------------
(* Messages *)

HearRenewalBug(t) ==   \* the timer is left as it is
  /\ Open(t) /\ tab[t].inbox # <<>> /\ Head(tab[t].inbox) = "renewal"
  /\ tab' = [tab EXCEPT ![t].inbox = Tail(@)]
  /\ UNCHANGED <<store, cookie, lock, idp, serial, failed, raced, stale>>

\* Another tab renewed: getUser sets the timers for the stored user, React is not told.
HearRenewal(t) ==
  /\ Open(t) /\ tab[t].inbox # <<>> /\ Head(tab[t].inbox) = "renewal"
  /\ tab' = [tab EXCEPT ![t].inbox = Tail(@),
                        ![t].armed = IF store = None THEN @ ELSE store]
  /\ UNCHANGED <<store, cookie, lock, idp, serial, failed, raced, stale>>

HearLogoutBug(t) ==   \* only the stored user is removed
  /\ Open(t) /\ tab[t].inbox # <<>> /\ Head(tab[t].inbox) = "logout"
  /\ store' = None
  /\ tab' = [tab EXCEPT ![t].inbox = Tail(@), ![t].mark = TRUE]
  /\ UNCHANGED <<cookie, lock, idp, serial, failed, raced, stale>>

\* Another tab logged out: the stored user is removed (whoever it is by now), the timers
\* stop, React is told.
HearLogout(t) ==
  /\ Open(t) /\ tab[t].inbox # <<>> /\ Head(tab[t].inbox) = "logout"
  /\ store' = None
  /\ tab' = [tab EXCEPT ![t].inbox = Tail(@), ![t].mark = TRUE, ![t].user = None,
                        ![t].armed = None, ![t].sync = TRUE]
  /\ UNCHANGED <<cookie, lock, idp, serial, failed, raced, stale>>

\* logOut of Header.tsx up to the redirect, with onRemoveUser.
LogOut(t) ==
  /\ tab[t].pc = "here" /\ tab[t].user # None
  /\ store' = None /\ cookie' = None /\ stale' = FALSE
  /\ tab' = Posted([tab EXCEPT ![t].pc = "signing out", ![t].user = None,
                               ![t].armed = None, ![t].mark = TRUE, ![t].sync = TRUE],
                   t, "logout")
  /\ Race(\E u \in Tabs :
            \/ tab[u].silent \in {"renewing", "signing in"}
            \/ tab[u].pc \in {"opening", "callback", "read"}
            \/ Pending(u) \/ tab[u].inbox # <<>>)
  /\ UNCHANGED <<lock, idp, serial, failed>>

\* signoutRedirect ends the session of the identity provider.
SignOut(t) ==
  /\ tab[t].pc = "signing out" /\ ~tab[t].sync
  /\ Unloaded(t, "away") /\ idp' = FALSE
  /\ UNCHANGED <<store, cookie, serial, raced, stale>>

\* It fails: AuthRequired takes the tab to the identity provider.
SignOutFails(t) ==
  /\ tab[t].pc = "signing out"
  /\ tab' = [tab EXCEPT ![t].pc = "leaving"]
  /\ UNCHANGED <<store, cookie, lock, idp, serial, failed, raced, stale>>

-----------------------------------------------------------------------------
Next == \E t \in Tabs :
  \/ OpenPage(t) \/ ReadUser(t) \/ Initialised(t) \/ RunEffects(t)
  \/ SilentSignIn(t) \/ SilentSignInFails(t) \/ Leave(t) \/ Return(t) \/ SignedIn(t)
  \/ Close(t)
  \/ Expiring(t) \/ Renew(t) \/ RenewFails(t) \/ CooldownEnds(t)
  \/ HearRenewal(t) \/ HearLogout(t)
  \/ LogOut(t) \/ SignOut(t) \/ SignOutFails(t)

Spec == Init /\ [][Next]_vars

-----------------------------------------------------------------------------
(* Properties *)

\* Nothing is under way that would still change what the tabs share.
Settled ==
  \A t \in Tabs : /\ ~Pending(t) /\ tab[t].inbox = <<>>
                  /\ tab[t].pc \notin {"opening", "callback", "leaving", "signing out"}
                  /\ tab[t].silent \in {"none", "cooldown"}

\* A tab only starts to renew the newest token, so that each is renewed once: the lock
\* keeps two tabs from renewing at the same time, the time it is held afterwards keeps
\* a tab whose timer fires late from renewing again what the others renewed already
\* (as long as the tab that holds it is not closed).
RenewsNewest ==
  [][\A t \in Tabs :
       tab[t].silent # "renewing" /\ tab'[t].silent = "renewing"
         /\ ~raced' /\ failed = {} =>
         tab[t].armed = store]_vars

\* When all is settled, each tab that shows the portal has a timer for the newest token,
\* so that closing any of them leaves one that renews it.  It needs that no renewal
\* failed: the timer fires once, and nobody tries again.
ArmedForNewest ==
  Settled /\ "renewing" \notin failed /\ ~raced =>
    \A t \in Tabs : tab[t].pc = "here" => tab[t].armed = store /\ tab[t].armed # None

\* When all is settled, requests carry the newest token: no change of the user in any tab
\* has put back an older one or left the cookies removed.  The exception is what
\* AuthProvider.tsx:157 allows: the effect of a tab that only heard of a renewal runs
\* again and writes the older token that its React user has (stale).  Even that never
\* leaves a user without cookies, nor cookies without a user.
CookieNewest ==
  Settled /\ ~raced /\ (\E t \in Tabs : Open(t)) =>
    \/ cookie = store
    \/ stale /\ None < cookie /\ cookie < store

\* Header.tsx:68 "Ends the portal session in all tabs": when all is settled and the stored
\* user is gone, no tab shows the portal and no cookie is left, unless a renewal, a sign-in
\* or an opening tab overlapped the logout.
LogoutReachesAll ==
  Settled /\ ~raced /\ store = None =>
    /\ cookie = None
    /\ \A t \in Tabs : tab[t].user = None /\ tab[t].armed = None /\ tab[t].pc # "here"

=============================================================================

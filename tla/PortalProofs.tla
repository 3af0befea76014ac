---------------------------- MODULE PortalProofs ----------------------------
(***************************************************************************)
(* What holds of PortalAuth for any number of tabs and of tokens.           *)
(*                                                                         *)
(* PortalInv says of each tab what the state of the tab tells about the      *)
(* stored user, and of the tabs together who wrote the cookies or is about to,  *)
(* who is about to renew and who still has a message to read.  Its last part    *)
(* holds until a sign-in, a logout or an opening tab overlaps something.       *)
(***************************************************************************)
EXTENDS PortalAuth, TLAPS

Pcs == {"closed", "away", "opening", "callback", "read", "here", "leaving",
        "signing out"}
Working == {"here", "leaving", "signing out"}
Silents == {"none", "signing in", "renewing", "cooldown"}

TabStates == [pc : Pcs, user : Nat, got : Nat, armed : Nat, sync : BOOLEAN,
              mark : BOOLEAN, silent : Silents, inbox : Seq(Messages)]

PortalTypes ==
  /\ tab \in [Tabs -> TabStates]
  /\ PortalTypeOK

-----------------------------------------------------------------------------
(* Types *)

\* What PortalTypeOK says of one tab, with the tokens issued up to k.
TabTyped(r, k) ==
  /\ r \in TabStates
  /\ r.user <= k /\ r.got <= k /\ r.armed <= k

Holds(r) == r.silent \in {"renewing", "cooldown"}

\* The types, one tab at a time.
Typed ==
  /\ tab = [t \in Tabs |-> tab[t]]
  /\ serial \in Users /\ store \in 0 .. serial /\ cookie \in 0 .. serial
  /\ lock \in Tabs \union {NoTab} /\ idp \in BOOLEAN
  /\ failed \subseteq {"renewing", "cooldown"} /\ raced \in BOOLEAN /\ stale \in BOOLEAN
  /\ \A t \in Tabs : TabTyped(tab[t], serial) /\ (Holds(tab[t]) <=> lock = t)

LEMMA TypesSplit == PortalTypes <=> Typed
<1>1. ASSUME PortalTypes, NEW t \in Tabs
      PROVE  TabTyped(tab[t], serial) /\ (Holds(tab[t]) <=> lock = t)
  <2>1. /\ tab[t].user \in 0 .. serial /\ tab[t].got \in 0 .. serial
        /\ tab[t].armed \in 0 .. serial
        /\ tab[t].silent \in {"renewing", "cooldown"} <=> lock = t
    BY <1>1, Zenon DEF PortalTypes, PortalTypeOK
  <2>2. tab[t] \in TabStates
    BY <1>1 DEF PortalTypes
  <2>3. tab[t].user <= serial /\ tab[t].got <= serial /\ tab[t].armed <= serial
    BY <2>1
  <2> QED BY <2>1, <2>2, <2>3, Zenon DEF TabTyped, Holds
<1>2. ASSUME NEW t \in Tabs, serial \in Nat, TabTyped(tab[t], serial)
      PROVE  /\ tab[t].pc \in Pcs /\ tab[t].silent \in Silents
             /\ tab[t].user \in 0 .. serial /\ tab[t].got \in 0 .. serial
             /\ tab[t].armed \in 0 .. serial
             /\ tab[t].sync \in BOOLEAN /\ tab[t].mark \in BOOLEAN
             /\ tab[t].inbox \in Seq(Messages)
  BY <1>2 DEF TabTyped, TabStates
<1>3. serial \in Users => serial \in Nat
  BY PortalAssumption DEF PortalAssumption, Users
<1>4. tab = [t \in Tabs |-> tab[t]] /\ (\A t \in Tabs : TabTyped(tab[t], serial))
        => tab \in [Tabs -> TabStates]
  BY DEF TabTyped
<1>5. ASSUME serial \in Users /\ store \in 0 .. serial /\ cookie \in 0 .. serial,
             lock \in Tabs \union {NoTab} /\ idp \in BOOLEAN,
             failed \subseteq {"renewing", "cooldown"} /\ raced \in BOOLEAN /\ stale \in BOOLEAN,
             \A t \in Tabs : TabTyped(tab[t], serial) /\ (Holds(tab[t]) <=> lock = t)
      PROVE  PortalTypeOK
  BY <1>2, <1>3, <1>5, Zenon DEF Pcs, Silents, PortalTypeOK, Holds
<1>6. PortalTypes => /\ tab = [t \in Tabs |-> tab[t]]
                     /\ serial \in Users /\ store \in 0 .. serial /\ cookie \in 0 .. serial
                     /\ lock \in Tabs \union {NoTab} /\ idp \in BOOLEAN
                     /\ failed \subseteq {"renewing", "cooldown"} /\ raced \in BOOLEAN /\ stale \in BOOLEAN
  BY DEF PortalTypes, PortalTypeOK
<1> QED BY <1>1, <1>4, <1>5, <1>6, Zenon DEF PortalTypes, Typed

LEMMA TypesInit == Init => PortalTypes
<1> SUFFICES ASSUME Init PROVE PortalTypes
  OBVIOUS
<1>1. Closed \in TabStates
  BY DEF Closed, TabStates, Pcs, Silents, Messages, None
<1>2. tab = [t \in Tabs |-> tab[t]] /\ \A t \in Tabs : tab[t] = Closed
  BY DEF Init
<1>3. serial \in Users /\ None \in 0 .. serial /\ TabTyped(Closed, serial)
  BY <1>1, PortalAssumption DEF Init, Users, None, PortalAssumption, TabTyped, Closed
<1>4. \A t \in Tabs : TabTyped(tab[t], serial) /\ (Holds(tab[t]) <=> lock = t)
  BY <1>2, <1>3, PortalAssumption DEF Init, PortalAssumption, Holds, Closed
<1> QED BY <1>2, <1>3, <1>4, TypesSplit DEF Init, Typed

-----------------------------------------------------------------------------
(* Steps of one tab *)

\* Tab t becomes r, the others stay as they are.
Becomes(t, r) ==
  /\ tab' = [u \in Tabs |-> tab'[u]]
  /\ tab'[t] = r
  /\ \A u \in Tabs \ {t} : tab'[u] = tab[u]

\* Tab t becomes r and posts m to the others that are open.
Told(r, m) == IF r.pc \in {"closed", "away"} THEN r ELSE [r EXCEPT !.inbox = Append(@, m)]

Tells(t, r, m) ==
  /\ tab' = [u \in Tabs |-> tab'[u]]
  /\ tab'[t] = r
  /\ \A u \in Tabs \ {t} : tab'[u] = Told(tab[u], m)

LEMMA Tabs2 ==
  ASSUME tab = [u \in Tabs |-> tab[u]], NEW t \in Tabs, NEW r
  PROVE  /\ tab' = [tab EXCEPT ![t] = r] => Becomes(t, r)
         /\ \A m : tab' = Posted([tab EXCEPT ![t] = r], t, m) => Tells(t, r, m)
BY DEF Becomes, Tells, Told, Posted, Others, Open

\* What each action makes of its tab.
LEMMA Effects ==
  ASSUME PortalTypes, NEW t \in Tabs
  PROVE
    /\ OpenPage(t) => Becomes(t, [tab[t] EXCEPT !.pc = "opening"])
    /\ ReadUser(t) =>
           Becomes(t, [tab[t] EXCEPT !.pc = "read", !.got = store,
             !.armed = IF store = None THEN @ ELSE store])
    /\ Initialised(t) =>
           Becomes(t, [tab[t] EXCEPT !.pc = "here", !.user = tab[t].got, !.got = None,
             !.sync = TRUE])
    /\ SilentSignIn(t) =>
           Becomes(t, [tab[t] EXCEPT !.user = serial', !.armed = serial', !.sync = TRUE,
             !.silent = "none"])
    /\ SilentSignInFails(t) =>
           Becomes(t, [tab[t] EXCEPT !.silent = "none", !.pc = "leaving"])
    /\ Return(t) => Becomes(t, [tab[t] EXCEPT !.pc = "callback"])
    /\ SignedIn(t) =>
           Becomes(t, [tab[t] EXCEPT !.pc = "read", !.got = serial', !.armed = serial',
             !.mark = FALSE])
    /\ Renew(t) =>
           Tells(t, [tab[t] EXCEPT !.user = serial', !.armed = serial', !.sync = TRUE,
             !.silent = "cooldown"], "renewal")
    /\ RenewFails(t) => Becomes(t, [tab[t] EXCEPT !.silent = "none"])
    /\ CooldownEnds(t) => Becomes(t, [tab[t] EXCEPT !.silent = "none"])
    /\ HearRenewal(t) =>
           Becomes(t, [tab[t] EXCEPT !.inbox = Tail(@),
             !.armed = IF store = None THEN @ ELSE store])
    /\ HearLogout(t) =>
           Becomes(t, [tab[t] EXCEPT !.inbox = Tail(@), !.mark = TRUE, !.user = None,
             !.armed = None, !.sync = TRUE])
    /\ LogOut(t) =>
           Tells(t, [tab[t] EXCEPT !.pc = "signing out", !.user = None, !.armed = None,
             !.mark = TRUE, !.sync = TRUE], "logout")
    /\ SignOutFails(t) => Becomes(t, [tab[t] EXCEPT !.pc = "leaving"])
<1>0. tab = [u \in Tabs |-> tab[u]] /\ tab[t] \in TabStates
  BY DEF PortalTypes
<1>1. OpenPage(t) => Becomes(t, [tab[t] EXCEPT !.pc = "opening"])
  BY <1>0 DEF OpenPage, Becomes
<1>2. ReadUser(t) =>
         Becomes(t, [tab[t] EXCEPT !.pc = "read", !.got = store,
           !.armed = IF store = None THEN @ ELSE store])
  BY <1>0 DEF ReadUser, Becomes
<1>3. Initialised(t) =>
         Becomes(t, [tab[t] EXCEPT !.pc = "here", !.user = tab[t].got, !.got = None,
           !.sync = TRUE])
  BY <1>0 DEF Initialised, Becomes
<1>4. SilentSignIn(t) =>
         Becomes(t, [tab[t] EXCEPT !.user = serial', !.armed = serial', !.sync = TRUE,
           !.silent = "none"])
  BY <1>0 DEF SilentSignIn, Becomes
<1>5. SilentSignInFails(t) => Becomes(t, [tab[t] EXCEPT !.silent = "none", !.pc = "leaving"])
  BY <1>0 DEF SilentSignInFails, Becomes
<1>6. Return(t) => Becomes(t, [tab[t] EXCEPT !.pc = "callback"])
  BY <1>0 DEF Return, Becomes
<1>7. SignedIn(t) =>
         Becomes(t, [tab[t] EXCEPT !.pc = "read", !.got = serial', !.armed = serial',
           !.mark = FALSE])
  BY <1>0 DEF SignedIn, Becomes
<1>8. Renew(t) =>
         Tells(t, [tab[t] EXCEPT !.user = serial', !.armed = serial', !.sync = TRUE,
           !.silent = "cooldown"], "renewal")
  BY <1>0, Tabs2 DEF Renew
<1>9. RenewFails(t) => Becomes(t, [tab[t] EXCEPT !.silent = "none"])
  BY <1>0 DEF RenewFails, Becomes
<1>10. CooldownEnds(t) => Becomes(t, [tab[t] EXCEPT !.silent = "none"])
  BY <1>0 DEF CooldownEnds, Becomes
<1>11. HearRenewal(t) =>
         Becomes(t, [tab[t] EXCEPT !.inbox = Tail(@),
           !.armed = IF store = None THEN @ ELSE store])
  BY <1>0 DEF HearRenewal, Becomes
<1>12. HearLogout(t) =>
         Becomes(t, [tab[t] EXCEPT !.inbox = Tail(@), !.mark = TRUE, !.user = None,
           !.armed = None, !.sync = TRUE])
  BY <1>0 DEF HearLogout, Becomes
<1>13. LogOut(t) =>
         Tells(t, [tab[t] EXCEPT !.pc = "signing out", !.user = None, !.armed = None,
           !.mark = TRUE, !.sync = TRUE], "logout")
  BY <1>0, Tabs2 DEF LogOut
<1>14. SignOutFails(t) => Becomes(t, [tab[t] EXCEPT !.pc = "leaving"])
  BY <1>0 DEF SignOutFails, Becomes
<1> QED BY <1>1, <1>2, <1>3, <1>4, <1>5, <1>6, <1>7, <1>8, <1>9, <1>10, <1>11, <1>12, <1>13, <1>14

\* The page of t is unloaded: it keeps its mark if it comes back.
LEMMA UnloadedBecomes ==
  ASSUME PortalTypes, NEW t \in Tabs, NEW p \in {"closed", "away"}, Unloaded(t, p)
  PROVE  \E m \in BOOLEAN : Becomes(t, [Closed EXCEPT !.pc = p, !.mark = m])
<1> DEFINE m == IF p = "away" THEN tab[t].mark ELSE FALSE
<1>1. tab = [u \in Tabs |-> tab[u]] /\ m \in BOOLEAN
  BY DEF PortalTypes, TabStates
<1>2. Becomes(t, [Closed EXCEPT !.pc = p, !.mark = m])
  BY <1>1 DEF Unloaded, Becomes
<1> QED BY <1>1, <1>2

\* AuthRequired without a user: the tab leaves, signs in silently or waits for a lock.
LEMMA EffectsOfChange ==
  ASSUME PortalTypes, NEW t \in Tabs, RunEffects(t)
  PROVE  LET out == /\ tab[t].pc = "here" /\ tab[t].user = None
                    /\ tab[t].silent # "signing in"
         IN Becomes(t, [tab[t] EXCEPT !.sync = FALSE,
              !.pc = IF out /\ tab[t].mark THEN "leaving" ELSE @,
              !.silent = IF out /\ ~tab[t].mark /\ @ = "none" THEN "signing in" ELSE @])
<1>1. tab = [u \in Tabs |-> tab[u]] /\ tab[t] \in TabStates
  BY DEF PortalTypes
<1> QED BY <1>1 DEF RunEffects, Becomes

LEMMA TimerFires ==
  ASSUME PortalTypes, NEW t \in Tabs, Expiring(t)
  PROVE  Becomes(t, [tab[t] EXCEPT !.armed = None,
                       !.silent = IF lock = NoTab THEN "renewing" ELSE @])
<1>1. tab = [u \in Tabs |-> tab[u]] /\ tab[t] \in TabStates
  BY DEF PortalTypes
<1>2. CASE lock = NoTab
  BY <1>1, <1>2 DEF Expiring, Becomes
<1>3. CASE lock # NoTab
  BY <1>1, <1>3 DEF Expiring, Becomes
<1> QED BY <1>2, <1>3

-----------------------------------------------------------------------------
(* Types are kept *)

\* What the tabs share stays well typed, and what changes of the lock concerns t only.
Shared(t, r) ==
  /\ serial' \in Users /\ serial <= serial'
  /\ store' \in 0 .. serial' /\ cookie' \in 0 .. serial'
  /\ lock' \in Tabs \union {NoTab} /\ idp' \in BOOLEAN
  /\ failed' \subseteq {"renewing", "cooldown"} /\ raced' \in BOOLEAN /\ stale' \in BOOLEAN
  /\ Holds(r) <=> lock' = t
  /\ \A u \in Tabs \ {t} : lock' = u <=> lock = u

LEMMA TypedLater ==
  ASSUME NEW r, NEW j \in Nat, NEW k \in Nat, j <= k, TabTyped(r, j)
  PROVE  TabTyped(r, k)
BY DEF TabTyped, TabStates

LEMMA ToldTyped ==
  ASSUME NEW r, NEW k \in Nat, NEW m \in Messages, TabTyped(r, k)
  PROVE  TabTyped(Told(r, m), k) /\ (Holds(Told(r, m)) <=> Holds(r))
<1>1. r \in TabStates
  BY DEF TabTyped
<1>2. Append(r.inbox, m) \in Seq(Messages)
  BY <1>1 DEF TabStates
<1> QED BY <1>1, <1>2 DEF TabTyped, TabStates, Told, Holds

LEMMA TypesKept ==
  ASSUME PortalTypes, NEW t \in Tabs, NEW r, TabTyped(r, serial'), Shared(t, r),
         Becomes(t, r) \/ \E m \in Messages : Tells(t, r, m)
  PROVE  PortalTypes'
<1>1. serial \in Nat /\ serial' \in Nat
  BY PortalAssumption, TypesSplit DEF Users, PortalAssumption, Shared, Typed
<1>2. ASSUME NEW u \in Tabs \ {t}
      PROVE  TabTyped(tab'[u], serial') /\ (Holds(tab'[u]) <=> lock' = u)
  <2>1. TabTyped(tab[u], serial') /\ (Holds(tab[u]) <=> lock = u)
    BY <1>1, TypesSplit, TypedLater DEF Shared, Typed
  <2>2. lock' = u <=> lock = u
    BY DEF Shared
  <2>3. tab'[u] = tab[u] \/ \E m \in Messages : tab'[u] = Told(tab[u], m)
    BY DEF Becomes, Tells
  <2> QED BY <1>1, <2>1, <2>2, <2>3, ToldTyped
<1>3. tab'[t] = r /\ tab' = [u \in Tabs |-> tab'[u]]
  BY DEF Becomes, Tells
<1>4. \A u \in Tabs : TabTyped(tab'[u], serial') /\ (Holds(tab'[u]) <=> lock' = u)
  BY <1>2, <1>3 DEF Shared
<1>5. Typed'
  BY <1>3, <1>4 DEF Shared, Typed
<1> QED BY <1>5, TypesSplit, PTL

\* What the types say of the tab that takes a step.
LEMMA TypedHere ==
  ASSUME PortalTypes, NEW t \in Tabs
  PROVE  /\ tab[t] \in TabStates
         /\ tab[t].user <= serial /\ tab[t].got <= serial /\ tab[t].armed <= serial
         /\ serial \in Users /\ serial \in Nat /\ MaxTokens \in Nat
         /\ store \in 0 .. serial /\ cookie \in 0 .. serial
         /\ lock \in Tabs \union {NoTab} /\ NoTab \notin Tabs /\ idp \in BOOLEAN
         /\ failed \subseteq {"renewing", "cooldown"} /\ raced \in BOOLEAN /\ stale \in BOOLEAN
         /\ Holds(tab[t]) <=> lock = t
         /\ None \in 0 .. serial /\ \A k \in Nat : k <= k
<1>1. /\ TabTyped(tab[t], serial) /\ (Holds(tab[t]) <=> lock = t)
      /\ serial \in Users /\ store \in 0 .. serial /\ cookie \in 0 .. serial
      /\ lock \in Tabs \union {NoTab} /\ idp \in BOOLEAN
      /\ failed \subseteq {"renewing", "cooldown"} /\ raced \in BOOLEAN /\ stale \in BOOLEAN
  BY TypesSplit, Zenon DEF Typed
<1>2. /\ serial \in Nat /\ MaxTokens \in Nat /\ NoTab \notin Tabs
      /\ None \in 0 .. serial /\ \A k \in Nat : k <= k
  BY <1>1, PortalAssumption DEF PortalAssumption, Users, None
<1> QED BY <1>1, <1>2, Zenon DEF TabTyped

LEMMA HereLater ==
  ASSUME PortalTypes, NEW t \in Tabs, NEW k \in Nat, serial <= k
  PROVE  tab[t] \in TabStates /\ TabTyped(tab[t], k) /\ store \in 0 .. k
<1>1. TabTyped(tab[t], serial) /\ serial \in Nat /\ store \in 0 .. serial
  BY TypedHere DEF TabTyped
<1>2. TabTyped(tab[t], k)
  BY <1>1, TypedLater
<1>3. store \in 0 .. k
  BY <1>1
<1> QED BY <1>1, <1>2, <1>3 DEF TabTyped

LEMMA IssuedTyped ==
  ASSUME PortalTypes, Issued
  PROVE  /\ serial' \in Users /\ serial' \in Nat /\ serial' = serial + 1
         /\ serial <= serial' /\ store' = serial'
         /\ store' \in 0 .. serial' /\ cookie \in 0 .. serial'
<1>1. serial \in Nat /\ MaxTokens \in Nat /\ cookie \in 0 .. serial
  BY TypesSplit, PortalAssumption DEF Typed, Users, PortalAssumption
<1> QED BY <1>1 DEF Issued, Users

\* Pages that open and users that sign in.
LEMMA PagesTyped ==
  ASSUME PortalTypes, NEW t \in Tabs
  PROVE  (\/ OpenPage(t) \/ ReadUser(t) \/ Initialised(t) \/ SilentSignIn(t)
          \/ SilentSignInFails(t) \/ Return(t) \/ SignedIn(t))
         => PortalTypes'
<1>1. CASE OpenPage(t)
  <2> DEFINE r == [tab[t] EXCEPT !.pc = "opening"]
  <2>1. serial' = serial /\ serial' \in Nat /\ serial <= serial'
    BY <1>1, TypedHere DEF OpenPage
  <2>2. /\ tab[t] \in TabStates /\ TabTyped(tab[t], serial')
        /\ serial' \in Nat /\ store \in 0 .. serial'
    BY <2>1, HereLater
  <2>3. r \in TabStates
    BY <2>1, <2>2 DEF TabStates, Pcs, Silents, None
  <2>4. TabTyped(r, serial')
    BY <2>1, <2>2, <2>3 DEF TabTyped, TabStates, None
  <2>5. Holds(r) <=> Holds(tab[t])
    BY <1>1, <2>2 DEF OpenPage, Holds, TabStates
  <2>6. Shared(t, r)
    BY <1>1, <2>1, <2>5, TypedHere, Zenon DEF OpenPage, Shared
  <2>7. Becomes(t, r)
    BY <1>1, Effects
  <2> HIDE DEF r
  <2> QED BY <2>4, <2>6, <2>7, TypesKept
<1>2. CASE ReadUser(t)
  <2> DEFINE r == [tab[t] EXCEPT !.pc = "read", !.got = store,
                   !.armed = IF store = None THEN @ ELSE store]
  <2>1. serial' = serial /\ serial' \in Nat /\ serial <= serial'
    BY <1>2, TypedHere DEF ReadUser
  <2>2. /\ tab[t] \in TabStates /\ TabTyped(tab[t], serial')
        /\ serial' \in Nat /\ store \in 0 .. serial'
    BY <2>1, HereLater
  <2>3. r \in TabStates
    <3>1. store \in Nat
      BY <2>1, <2>2
    <3> QED BY <2>2, <3>1 DEF TabStates, Pcs
  <2>4. TabTyped(r, serial')
    BY <2>1, <2>2, <2>3 DEF TabTyped, TabStates, None
  <2>5. Holds(r) <=> Holds(tab[t])
    BY <1>2, <2>2 DEF ReadUser, Holds, TabStates
  <2>6. Shared(t, r)
    BY <1>2, <2>1, <2>5, TypedHere, Zenon DEF ReadUser, Shared
  <2>7. Becomes(t, r)
    BY <1>2, Effects
  <2> HIDE DEF r
  <2> QED BY <2>4, <2>6, <2>7, TypesKept
<1>3. CASE Initialised(t)
  <2> DEFINE r == [tab[t] EXCEPT !.pc = "here", !.user = tab[t].got, !.got = None,
                   !.sync = TRUE]
  <2>1. serial' = serial /\ serial' \in Nat /\ serial <= serial'
    BY <1>3, TypedHere DEF Initialised
  <2>2. /\ tab[t] \in TabStates /\ TabTyped(tab[t], serial')
        /\ serial' \in Nat /\ store \in 0 .. serial'
    BY <2>1, HereLater
  <2>3. r \in TabStates
    BY <2>1, <2>2 DEF TabStates, Pcs, Silents, None
  <2>4. TabTyped(r, serial')
    BY <2>1, <2>2, <2>3 DEF TabTyped, TabStates, None
  <2>5. Holds(r) <=> Holds(tab[t])
    BY <1>3, <2>2 DEF Initialised, Holds, TabStates
  <2>6. Shared(t, r)
    BY <1>3, <2>1, <2>5, TypedHere, Zenon DEF Initialised, Shared
  <2>7. Becomes(t, r)
    BY <1>3, Effects
  <2> HIDE DEF r
  <2> QED BY <2>4, <2>6, <2>7, TypesKept
<1>4. CASE SilentSignIn(t)
  <2> DEFINE r == [tab[t] EXCEPT !.user = serial', !.armed = serial', !.sync = TRUE,
                   !.silent = "none"]
  <2>1. /\ serial' \in Users /\ serial <= serial' /\ serial' \in Nat
        /\ store' \in 0 .. serial' /\ cookie \in 0 .. serial'
    BY <1>4, IssuedTyped DEF SilentSignIn
  <2>2. tab[t] \in TabStates /\ TabTyped(tab[t], serial') /\ serial' \in Nat
    BY <2>1, HereLater
  <2>3. r \in TabStates
    BY <2>1, <2>2 DEF TabStates, Pcs, Silents, None
  <2>4. TabTyped(r, serial')
    BY <2>1, <2>2, <2>3 DEF TabTyped, TabStates, None
  <2>5. ~Holds(r) /\ ~Holds(tab[t])
    BY <1>4, <2>2 DEF SilentSignIn, Holds, TabStates
  <2>6. Shared(t, r)
    BY <1>4, <2>1, <2>5, TypedHere, Zenon DEF SilentSignIn, Shared, Race
  <2>7. Becomes(t, r)
    BY <1>4, Effects
  <2> HIDE DEF r
  <2> QED BY <2>4, <2>6, <2>7, TypesKept
<1>5. CASE SilentSignInFails(t)
  <2> DEFINE r == [tab[t] EXCEPT !.silent = "none", !.pc = "leaving"]
  <2>1. serial' = serial /\ serial' \in Nat /\ serial <= serial'
    BY <1>5, TypedHere DEF SilentSignInFails
  <2>2. /\ tab[t] \in TabStates /\ TabTyped(tab[t], serial')
        /\ serial' \in Nat /\ store \in 0 .. serial'
    BY <2>1, HereLater
  <2>3. r \in TabStates
    BY <2>1, <2>2 DEF TabStates, Pcs, Silents, None
  <2>4. TabTyped(r, serial')
    BY <2>1, <2>2, <2>3 DEF TabTyped, TabStates, None
  <2>5. ~Holds(r) /\ ~Holds(tab[t])
    BY <1>5, <2>2 DEF SilentSignInFails, Holds, TabStates
  <2>6. Shared(t, r)
    BY <1>5, <2>1, <2>5, TypedHere, Zenon DEF SilentSignInFails, Shared
  <2>7. Becomes(t, r)
    BY <1>5, Effects
  <2> HIDE DEF r
  <2> QED BY <2>4, <2>6, <2>7, TypesKept
<1>6. CASE Return(t)
  <2> DEFINE r == [tab[t] EXCEPT !.pc = "callback"]
  <2>1. serial' = serial /\ serial' \in Nat /\ serial <= serial'
    BY <1>6, TypedHere DEF Return
  <2>2. /\ tab[t] \in TabStates /\ TabTyped(tab[t], serial')
        /\ serial' \in Nat /\ store \in 0 .. serial'
    BY <2>1, HereLater
  <2>3. r \in TabStates
    BY <2>1, <2>2 DEF TabStates, Pcs, Silents, None
  <2>4. TabTyped(r, serial')
    BY <2>1, <2>2, <2>3 DEF TabTyped, TabStates, None
  <2>5. Holds(r) <=> Holds(tab[t])
    BY <1>6, <2>2 DEF Return, Holds, TabStates
  <2>6. Shared(t, r)
    BY <1>6, <2>1, <2>5, TypedHere, Zenon DEF Return, Shared
  <2>7. Becomes(t, r)
    BY <1>6, Effects
  <2> HIDE DEF r
  <2> QED BY <2>4, <2>6, <2>7, TypesKept
<1>7. CASE SignedIn(t)
  <2> DEFINE r == [tab[t] EXCEPT !.pc = "read", !.got = serial', !.armed = serial',
                   !.mark = FALSE]
  <2>1. /\ serial' \in Users /\ serial <= serial' /\ serial' \in Nat
        /\ store' \in 0 .. serial' /\ cookie \in 0 .. serial'
    BY <1>7, IssuedTyped DEF SignedIn
  <2>2. tab[t] \in TabStates /\ TabTyped(tab[t], serial') /\ serial' \in Nat
    BY <2>1, HereLater
  <2>3. r \in TabStates
    BY <2>1, <2>2 DEF TabStates, Pcs, Silents, None
  <2>4. TabTyped(r, serial')
    BY <2>1, <2>2, <2>3 DEF TabTyped, TabStates, None
  <2>5. Holds(r) <=> Holds(tab[t])
    BY <1>7, <2>2 DEF SignedIn, Holds, TabStates
  <2>6. Shared(t, r)
    BY <1>7, <2>1, <2>5, TypedHere, Zenon DEF SignedIn, Shared, Race
  <2>7. Becomes(t, r)
    BY <1>7, Effects
  <2> HIDE DEF r
  <2> QED BY <2>4, <2>6, <2>7, TypesKept
<1> QED BY <1>1, <1>2, <1>3, <1>4, <1>5, <1>6, <1>7

\* Renewals, logouts and what other tabs hear of them.
LEMMA MessagesTyped ==
  ASSUME PortalTypes, NEW t \in Tabs
  PROVE  (\/ Renew(t) \/ RenewFails(t) \/ CooldownEnds(t) \/ HearRenewal(t)
          \/ HearLogout(t) \/ LogOut(t) \/ SignOutFails(t))
         => PortalTypes'
<1>1. CASE Renew(t)
  <2> DEFINE r == [tab[t] EXCEPT !.user = serial', !.armed = serial', !.sync = TRUE,
                   !.silent = "cooldown"]
  <2>1. /\ serial' \in Users /\ serial <= serial' /\ serial' \in Nat
        /\ store' \in 0 .. serial' /\ cookie \in 0 .. serial'
    BY <1>1, IssuedTyped DEF Renew
  <2>2. tab[t] \in TabStates /\ TabTyped(tab[t], serial') /\ serial' \in Nat
    BY <2>1, HereLater
  <2>3. r \in TabStates
    BY <2>1, <2>2 DEF TabStates, Pcs, Silents, None
  <2>4. TabTyped(r, serial')
    BY <2>1, <2>2, <2>3 DEF TabTyped, TabStates, None
  <2>5. Holds(r) /\ Holds(tab[t])
    BY <1>1, <2>2 DEF Renew, Holds, TabStates
  <2>6. Shared(t, r)
    BY <1>1, <2>1, <2>5, TypedHere, Zenon DEF Renew, Shared, Race
  <2>7. \E m \in Messages : Tells(t, r, m)
    BY <1>1, Effects DEF Messages
  <2> HIDE DEF r
  <2> QED BY <2>4, <2>6, <2>7, TypesKept
<1>2. CASE RenewFails(t)
  <2> DEFINE r == [tab[t] EXCEPT !.silent = "none"]
  <2>1. serial' = serial /\ serial' \in Nat /\ serial <= serial'
    BY <1>2, TypedHere DEF RenewFails
  <2>2. /\ tab[t] \in TabStates /\ TabTyped(tab[t], serial')
        /\ serial' \in Nat /\ store \in 0 .. serial'
    BY <2>1, HereLater
  <2>3. r \in TabStates
    BY <2>1, <2>2 DEF TabStates, Pcs, Silents, None
  <2>4. TabTyped(r, serial')
    BY <2>1, <2>2, <2>3 DEF TabTyped, TabStates, None
  <2>5. ~Holds(r) /\ Holds(tab[t])
    BY <1>2, <2>2 DEF RenewFails, Holds, TabStates
  <2>6. Shared(t, r)
    BY <1>2, <2>1, <2>5, TypedHere, Zenon DEF RenewFails, Shared
  <2>7. Becomes(t, r)
    BY <1>2, Effects
  <2> HIDE DEF r
  <2> QED BY <2>4, <2>6, <2>7, TypesKept
<1>3. CASE CooldownEnds(t)
  <2> DEFINE r == [tab[t] EXCEPT !.silent = "none"]
  <2>1. serial' = serial /\ serial' \in Nat /\ serial <= serial'
    BY <1>3, TypedHere DEF CooldownEnds
  <2>2. /\ tab[t] \in TabStates /\ TabTyped(tab[t], serial')
        /\ serial' \in Nat /\ store \in 0 .. serial'
    BY <2>1, HereLater
  <2>3. r \in TabStates
    BY <2>1, <2>2 DEF TabStates, Pcs, Silents, None
  <2>4. TabTyped(r, serial')
    BY <2>1, <2>2, <2>3 DEF TabTyped, TabStates, None
  <2>5. ~Holds(r) /\ Holds(tab[t])
    BY <1>3, <2>2 DEF CooldownEnds, Holds, TabStates
  <2>6. Shared(t, r)
    BY <1>3, <2>1, <2>5, TypedHere, Zenon DEF CooldownEnds, Shared
  <2>7. Becomes(t, r)
    BY <1>3, Effects
  <2> HIDE DEF r
  <2> QED BY <2>4, <2>6, <2>7, TypesKept
<1>4. CASE HearRenewal(t)
  <2> DEFINE r == [tab[t] EXCEPT !.inbox = Tail(@),
                   !.armed = IF store = None THEN @ ELSE store]
  <2>1. serial' = serial /\ serial' \in Nat /\ serial <= serial'
    BY <1>4, TypedHere DEF HearRenewal
  <2>2. Tail(tab[t].inbox) \in Seq(Messages)
    BY <1>4, TypedHere DEF HearRenewal, TabStates
  <2>3. /\ tab[t] \in TabStates /\ TabTyped(tab[t], serial')
        /\ serial' \in Nat /\ store \in 0 .. serial'
    BY <2>1, HereLater
  <2>4. r \in TabStates
    <3>1. [tab[t] EXCEPT !.inbox = Tail(@)] \in TabStates
      BY <2>2, <2>3 DEF TabStates
    <3>2. store \in Nat
      BY <2>1, <2>3
    <3> QED BY <3>1, <3>2 DEF TabStates
  <2>5. TabTyped(r, serial')
    BY <2>1, <2>2, <2>3, <2>4 DEF TabTyped, TabStates, None
  <2>6. Holds(r) <=> Holds(tab[t])
    BY <1>4, <2>3 DEF HearRenewal, Holds, TabStates
  <2>7. Shared(t, r)
    BY <1>4, <2>1, <2>6, TypedHere, Zenon DEF HearRenewal, Shared
  <2>8. Becomes(t, r)
    BY <1>4, Effects
  <2> HIDE DEF r
  <2> QED BY <2>5, <2>7, <2>8, TypesKept
<1>5. CASE HearLogout(t)
  <2> DEFINE r == [tab[t] EXCEPT !.inbox = Tail(@), !.mark = TRUE, !.user = None,
                   !.armed = None, !.sync = TRUE]
  <2>1. serial' = serial /\ serial' \in Nat /\ serial <= serial'
    BY <1>5, TypedHere DEF HearLogout
  <2>2. Tail(tab[t].inbox) \in Seq(Messages)
    BY <1>5, TypedHere DEF HearLogout, TabStates
  <2>3. /\ tab[t] \in TabStates /\ TabTyped(tab[t], serial')
        /\ serial' \in Nat /\ store \in 0 .. serial'
    BY <2>1, HereLater
  <2>4. r \in TabStates
    <3>1. [tab[t] EXCEPT !.inbox = Tail(@)] \in TabStates
      BY <2>2, <2>3 DEF TabStates
    <3> QED BY <3>1 DEF TabStates, None
  <2>5. TabTyped(r, serial')
    BY <2>1, <2>2, <2>3, <2>4 DEF TabTyped, TabStates, None
  <2>6. Holds(r) <=> Holds(tab[t])
    BY <1>5, <2>3 DEF HearLogout, Holds, TabStates
  <2>7. Shared(t, r)
    BY <1>5, <2>1, <2>6, TypedHere, Zenon DEF HearLogout, Shared
  <2>8. Becomes(t, r)
    BY <1>5, Effects
  <2> HIDE DEF r
  <2> QED BY <2>5, <2>7, <2>8, TypesKept
<1>6. CASE LogOut(t)
  <2> DEFINE r == [tab[t] EXCEPT !.pc = "signing out", !.user = None, !.armed = None,
                   !.mark = TRUE, !.sync = TRUE]
  <2>1. serial' = serial /\ serial' \in Nat /\ serial <= serial'
    BY <1>6, TypedHere DEF LogOut
  <2>2. /\ tab[t] \in TabStates /\ TabTyped(tab[t], serial')
        /\ serial' \in Nat /\ store \in 0 .. serial'
    BY <2>1, HereLater
  <2>3. r \in TabStates
    BY <2>1, <2>2 DEF TabStates, Pcs, Silents, None
  <2>4. TabTyped(r, serial')
    BY <2>1, <2>2, <2>3 DEF TabTyped, TabStates, None
  <2>5. Holds(r) <=> Holds(tab[t])
    BY <1>6, <2>2 DEF LogOut, Holds, TabStates
  <2>6. Shared(t, r)
    BY <1>6, <2>1, <2>5, TypedHere, Zenon DEF LogOut, Shared, Race
  <2>7. \E m \in Messages : Tells(t, r, m)
    BY <1>6, Effects DEF Messages
  <2> HIDE DEF r
  <2> QED BY <2>4, <2>6, <2>7, TypesKept
<1>7. CASE SignOutFails(t)
  <2> DEFINE r == [tab[t] EXCEPT !.pc = "leaving"]
  <2>1. serial' = serial /\ serial' \in Nat /\ serial <= serial'
    BY <1>7, TypedHere DEF SignOutFails
  <2>2. /\ tab[t] \in TabStates /\ TabTyped(tab[t], serial')
        /\ serial' \in Nat /\ store \in 0 .. serial'
    BY <2>1, HereLater
  <2>3. r \in TabStates
    BY <2>1, <2>2 DEF TabStates, Pcs, Silents, None
  <2>4. TabTyped(r, serial')
    BY <2>1, <2>2, <2>3 DEF TabTyped, TabStates, None
  <2>5. Holds(r) <=> Holds(tab[t])
    BY <1>7, <2>2 DEF SignOutFails, Holds, TabStates
  <2>6. Shared(t, r)
    BY <1>7, <2>1, <2>5, TypedHere, Zenon DEF SignOutFails, Shared
  <2>7. Becomes(t, r)
    BY <1>7, Effects
  <2> HIDE DEF r
  <2> QED BY <2>4, <2>6, <2>7, TypesKept
<1> QED BY <1>1, <1>2, <1>3, <1>4, <1>5, <1>6, <1>7

\* The page is unloaded, its effects run or its timer fires.
LEMMA UnloadedTyped ==
  ASSUME PortalTypes, NEW t \in Tabs, NEW p \in {"closed", "away"}, Unloaded(t, p),
         raced' \in BOOLEAN /\ stale' \in BOOLEAN, idp' \in BOOLEAN, UNCHANGED <<store, cookie, serial>>
  PROVE  PortalTypes'
<1>1. PICK m \in BOOLEAN : Becomes(t, [Closed EXCEPT !.pc = p, !.mark = m])
  BY UnloadedBecomes
<1> DEFINE r == [Closed EXCEPT !.pc = p, !.mark = m]
<1>2. serial' = serial /\ serial \in Nat /\ serial <= serial'
  BY TypedHere
<1>3. TabTyped(r, serial') /\ ~Holds(r)
  <2>1. Closed \in TabStates
    BY DEF Closed, TabStates, Pcs, Silents, Messages, None
  <2>2. r \in TabStates /\ r.user = 0 /\ r.got = 0 /\ r.armed = 0 /\ r.silent = "none"
    BY <2>1 DEF TabStates, Closed, Pcs, None
  <2> HIDE DEF r
  <2> QED BY <1>2, <2>2 DEF TabTyped, Holds
<1>4. failed' \subseteq {"renewing", "cooldown"}
  BY TypedHere DEF Unloaded
<1>5. lock' \in Tabs \union {NoTab} /\ lock' # t /\ \A u \in Tabs \ {t} : lock' = u <=> lock = u
  BY TypedHere DEF Unloaded
<1>6. Shared(t, r)
  BY <1>2, <1>3, <1>4, <1>5, TypedHere, Zenon DEF Shared
<1> HIDE DEF r
<1> QED BY <1>1, <1>3, <1>6, TypesKept DEF r

LEMMA TimersTyped ==
  ASSUME PortalTypes, NEW t \in Tabs
  PROVE  (RunEffects(t) \/ Leave(t) \/ Close(t) \/ SignOut(t) \/ Expiring(t)) => PortalTypes'
<1>1. CASE RunEffects(t)
  <2> DEFINE out == tab[t].pc = "here" /\ tab[t].user = None /\ tab[t].silent # "signing in"
             r == [tab[t] EXCEPT !.sync = FALSE,
                     !.pc = IF out /\ tab[t].mark THEN "leaving" ELSE @,
                     !.silent = IF out /\ ~tab[t].mark /\ @ = "none" THEN "signing in"
                                                                    ELSE @]
  <2>1. serial' = serial /\ serial' \in Nat /\ serial <= serial'
    BY <1>1, TypedHere DEF RunEffects
  <2>2. tab[t] \in TabStates /\ TabTyped(tab[t], serial') /\ tab[t].user \in 0 .. serial'
    BY <2>1, HereLater DEF TabTyped, TabStates
  <2>3. r \in TabStates
    BY <2>2 DEF TabStates, Pcs, Silents
  <2>4. TabTyped(r, serial')
    BY <2>2, <2>3 DEF TabTyped, TabStates
  <2>5. Holds(r) <=> Holds(tab[t])
    BY <2>2 DEF Holds, TabStates
  <2>6. Shared(t, r)
    BY <1>1, <2>1, <2>2, <2>5, TypedHere, Zenon DEF RunEffects, Shared
  <2>7. Becomes(t, r)
    BY <1>1, EffectsOfChange
  <2> HIDE DEF r
  <2> QED BY <2>4, <2>6, <2>7, TypesKept
<1>2. CASE Leave(t) \/ Close(t) \/ SignOut(t)
  <2>1. PICK p \in {"closed", "away"} : Unloaded(t, p)
    BY <1>2 DEF Leave, Close, SignOut
  <2>2. raced' \in BOOLEAN /\ stale' \in BOOLEAN /\ idp' \in BOOLEAN /\ UNCHANGED <<store, cookie, serial>>
    BY <1>2, TypedHere DEF Leave, Close, SignOut, Race
  <2> QED BY <2>1, <2>2, UnloadedTyped
<1>3. CASE Expiring(t)
  <2> DEFINE r == [tab[t] EXCEPT !.armed = None,
                     !.silent = IF lock = NoTab THEN "renewing" ELSE @]
  <2>1. serial' = serial /\ serial' \in Nat /\ serial <= serial'
    BY <1>3, TypedHere DEF Expiring
  <2>2. tab[t] \in TabStates /\ TabTyped(tab[t], serial')
    BY <2>1, HereLater
  <2>3. r \in TabStates
    BY <2>2 DEF TabStates, Silents, None
  <2>4. TabTyped(r, serial')
    BY <2>1, <2>2, <2>3 DEF TabTyped, TabStates, None
  <2>5. /\ lock' = IF lock = NoTab THEN t ELSE lock
        /\ raced' \in BOOLEAN /\ stale' \in BOOLEAN /\ UNCHANGED <<store, cookie, idp, serial, failed>>
    BY <1>3, TypedHere DEF Expiring, Race
  <2>6. IF lock = NoTab THEN Holds(r) ELSE Holds(r) <=> Holds(tab[t])
    BY <2>2 DEF Holds, TabStates
  <2>7. /\ Holds(r) <=> lock' = t
        /\ lock' \in Tabs \union {NoTab}
        /\ \A u \in Tabs \ {t} : lock' = u <=> lock = u
    BY <2>5, <2>6, TypedHere, Zenon
  <2>8. Shared(t, r)
    BY <2>1, <2>5, <2>7, TypedHere, Zenon DEF Shared
  <2>9. Becomes(t, r)
    BY <1>3, TimerFires
  <2> HIDE DEF r
  <2> QED BY <2>4, <2>8, <2>9, TypesKept
<1> QED BY <1>1, <1>2, <1>3

LEMMA TypesStep == PortalTypes /\ [Next]_vars => PortalTypes'
<1> SUFFICES ASSUME PortalTypes, [Next]_vars PROVE PortalTypes'
  OBVIOUS
<1>1. CASE UNCHANGED vars
  BY <1>1 DEF vars, PortalTypes, PortalTypeOK
<1>2. ASSUME NEW t \in Tabs,
             \/ OpenPage(t) \/ ReadUser(t) \/ Initialised(t) \/ RunEffects(t)
             \/ SilentSignIn(t) \/ SilentSignInFails(t) \/ Leave(t) \/ Return(t)
             \/ SignedIn(t) \/ Close(t) \/ Expiring(t) \/ Renew(t) \/ RenewFails(t)
             \/ CooldownEnds(t) \/ HearRenewal(t) \/ HearLogout(t) \/ LogOut(t)
             \/ SignOut(t) \/ SignOutFails(t)
      PROVE  PortalTypes'
  BY <1>2, PagesTyped, MessagesTyped, TimersTyped
<1> QED BY <1>1, <1>2 DEF Next

\* The lock is held by the tab that renews or waits afterwards, and by no other, also
\* when pages are unloaded in the middle of a renewal; no tab holds tokens that were
\* never issued.
THEOREM PortalTypesHold == Spec => []PortalTypeOK
<1>1. PortalTypes => PortalTypeOK
  BY DEF PortalTypes
<1> QED BY <1>1, TypesInit, TypesStep, PTL DEF Spec

-----------------------------------------------------------------------------
(* Tabs that do not race *)

Seen(r, m) == \E i \in DOMAIN r.inbox : r.inbox[i] = m

\* The user that the page of a tab goes by.
Held(r) == IF r.pc = "read" THEN r.got ELSE r.user

\* A page that is closed knows nothing; the user arrives before the page is shown.
PageFits(r) ==
  /\ r.pc \in {"closed", "away"} => r.armed = None /\ ~r.sync /\ r.inbox = <<>>
  /\ r.pc # "read" => r.got = None
  /\ r.pc \notin Working => r.silent = "none" /\ r.user = None
  /\ r.pc \in {"opening", "callback", "read"} => ~r.sync
  /\ r.pc \in {"leaving", "signing out"} => r.user = None

\* A logout that was not heard yet is the only message, nothing is stored and the tab, which
\* still has its user, is not about to store one; a renewal is heard while a user is stored.
InboxFits(r, s) ==
  /\ Seen(r, "logout") =>
       /\ r.inbox = <<"logout">> /\ s = None /\ r.pc = "here" /\ r.user # None
       /\ ~r.sync /\ r.silent # "signing in"
  /\ Seen(r, "renewal") => s # None

\* The page goes by a user if one is stored, until it hears of a logout; its timer is the
\* one of the stored user, until it hears of a renewal or a logout.
UserFits(r, s) ==
  /\ Held(r) # None => s # None \/ Seen(r, "logout")
  /\ r.pc \in Working \union {"read"} /\ Held(r) = None => s = None
  /\ r.armed \in {None, s} \/ r.inbox # <<>>

\* Who signs in silently or renews, and what is about to be written to the cookies.
\* A page without a user signs in, or will when its effects run.
EffectsFit(r, s) ==
  /\ r.silent = "renewing" => s # None
  /\ r.silent = "signing in" => r.pc = "here" /\ r.user = None
  /\ r.pc = "read" => r.got = s
  /\ r.sync => r.user = s
  /\ r.pc = "here" /\ r.user = None =>
       \/ r.silent = "signing in"
       \/ r.sync /\ (r.mark \/ r.silent = "none")

Fits(r, s) == PageFits(r) /\ InboxFits(r, s) /\ UserFits(r, s) /\ EffectsFit(r, s)

\* A page with a user but without a timer hears of new tokens, as long as none failed.
Waits(r) == r.pc \in {"here", "read"} /\ Held(r) # None /\ r.armed = None

TimersComeBack ==
  "renewing" \notin failed => \A t \in Tabs : Waits(tab[t]) =>
    \/ tab[t].inbox # <<>>
    \/ \E u \in Tabs : tab[u].silent = "renewing"

\* Where the cookies are not those of the stored user, the effect of a tab that heard of no
\* newer user wrote them, or a tab is about to write them, or will when it hears of a logout.
Writes(r) == r.pc \in {"opening", "callback", "read"} \/ r.sync

OldCookie == stale /\ None < cookie /\ cookie < store

CookiesFollow ==
  \/ cookie = store \/ OldCookie
  \/ \E t \in Tabs : Writes(tab[t])
  \/ stale /\ \E t \in Tabs : Seen(tab[t], "logout")

\* A renewal is heard by all while the lock is still held.
LockOutlasts ==
  failed = {} => \A t \in Tabs : Seen(tab[t], "renewal") =>
    lock # NoTab /\ tab[lock].silent = "cooldown"

Calm ==
  /\ \A t \in Tabs : Fits(tab[t], store)
  /\ TimersComeBack /\ CookiesFollow /\ LockOutlasts

\* Whoever is stored has the tokens issued last.
NewestStored == store \in {None, serial}

PortalInv == PortalTypes /\ NewestStored /\ (~raced => Calm)

-----------------------------------------------------------------------------
(* Messages in an inbox *)

LEMMA SeenTold ==
  ASSUME NEW r \in TabStates, NEW m \in Messages, r.pc \notin {"closed", "away"}
  PROVE  /\ \A x : Seen(Told(r, m), x) <=> x = m \/ Seen(r, x)
         /\ Told(r, m).inbox # <<>>
         /\ r.inbox = <<>> => Told(r, m).inbox = <<m>>
<1>1. r.inbox \in Seq(Messages) /\ Told(r, m).inbox = Append(r.inbox, m)
  BY DEF TabStates, Told
<1>2. ASSUME NEW q \in Seq(Messages), NEW x
      PROVE  (\E i \in DOMAIN Append(q, m) : Append(q, m)[i] = x)
               <=> x = m \/ \E i \in DOMAIN q : q[i] = x
  <2>1. /\ DOMAIN Append(q, m) = 1 .. Len(q) + 1 /\ DOMAIN q = 1 .. Len(q)
        /\ Append(q, m)[Len(q) + 1] = m /\ Len(q) \in Nat
        /\ \A i \in 1 .. Len(q) : Append(q, m)[i] = q[i]
    OBVIOUS
  <2> QED BY <2>1
<1>3. \A x : Seen(Told(r, m), x) <=> x = m \/ Seen(r, x)
  BY <1>1, <1>2 DEF Seen
<1>4. Append(r.inbox, m) # <<>>
  <2>1. \E i \in DOMAIN Append(r.inbox, m) : Append(r.inbox, m)[i] = m
    BY <1>1, <1>2
  <2>2. DOMAIN <<>> = {}
    OBVIOUS
  <2> QED BY <2>1, <2>2, Zenon
<1>5. Append(<<>>, m) = <<m>>
  OBVIOUS
<1> QED BY <1>1, <1>3, <1>4, <1>5

LEMMA SeenTail ==
  ASSUME NEW q \in Seq(Messages), q # <<>>, NEW x
  PROVE  (\E i \in DOMAIN Tail(q) : Tail(q)[i] = x) => \E i \in DOMAIN q : q[i] = x
<1>1. /\ DOMAIN Tail(q) = 1 .. Len(q) - 1 /\ DOMAIN q = 1 .. Len(q) /\ Len(q) \in Nat
      /\ \A i \in 1 .. Len(q) - 1 : Tail(q)[i] = q[i + 1]
  OBVIOUS
<1>2. \A i \in 1 .. Len(q) - 1 : i + 1 \in 1 .. Len(q)
  BY <1>1
<1> QED BY <1>1, <1>2

LEMMA NothingSeen ==
  ASSUME NEW r, r.inbox = <<>>
  PROVE  \A x : ~Seen(r, x)
<1>1. DOMAIN <<>> = {}
  OBVIOUS
<1> QED BY <1>1, Zenon DEF Seen

LEMMA SeenOrEmpty ==
  ASSUME NEW r \in TabStates
  PROVE  /\ r.inbox = <<>> => \A x : ~Seen(r, x)
         /\ r.inbox # <<>> => Seen(r, "renewal") \/ Seen(r, "logout")
         /\ r.inbox # <<>> => Seen(r, Head(r.inbox))
<1>1. r.inbox \in Seq(Messages)
  BY DEF TabStates
<1>2. r.inbox # <<>> => 1 \in DOMAIN r.inbox /\ r.inbox[1] \in Messages
                        /\ Head(r.inbox) = r.inbox[1]
  BY <1>1
<1>3. r.inbox = <<>> => DOMAIN r.inbox = {}
  BY <1>1
<1> QED BY <1>2, <1>3 DEF Seen, Messages

-----------------------------------------------------------------------------
(* A tab fits after each of its steps *)

LEMMA PagesFit ==
  ASSUME NEW q \in TabStates, NEW s \in Nat, Fits(q, s)
  PROVE  /\ \A p \in {"opening", "callback"} :
              q.pc \in {"closed", "away"} => Fits([q EXCEPT !.pc = p], s)
         /\ q.pc = "opening" =>
              Fits([q EXCEPT !.pc = "read", !.got = s,
                             !.armed = IF s = None THEN @ ELSE s], s)
         /\ q.pc = "read" =>
              Fits([q EXCEPT !.pc = "here", !.user = q.got, !.got = None,
                             !.sync = TRUE], s)
<1> USE SeenOrEmpty DEF Fits, PageFits, InboxFits, UserFits, EffectsFit, Held, Working
<1>1. ASSUME NEW p \in {"opening", "callback"}, q.pc \in {"closed", "away"}
      PROVE  Fits([q EXCEPT !.pc = p], s)
  <2> DEFINE r == [q EXCEPT !.pc = p]
  <2>1. \A x : ~Seen(r, x)
    <3>1. r.inbox = q.inbox /\ q.inbox = <<>>
      BY <1>1 DEF TabStates
    <3>2. \A x : ~Seen(q, x)
      BY <3>1
    <3> QED BY <3>1, <3>2, Zenon DEF Seen
  <2> QED BY <1>1, <2>1 DEF TabStates
<1>2. ASSUME q.pc = "opening"
      PROVE  Fits([q EXCEPT !.pc = "read", !.got = s,
                            !.armed = IF s = None THEN @ ELSE s], s)
  <2> DEFINE r == [q EXCEPT !.pc = "read", !.got = s,
                            !.armed = IF s = None THEN @ ELSE s]
  <2>1. \A x : Seen(r, x) <=> Seen(q, x)
    <3>1. r.inbox = q.inbox
      BY DEF TabStates
    <3> QED BY <3>1, Zenon DEF Seen
  <2> QED BY <1>2, <2>1 DEF TabStates, None
<1>3. ASSUME q.pc = "read"
      PROVE  Fits([q EXCEPT !.pc = "here", !.user = q.got, !.got = None,
                            !.sync = TRUE], s)
  <2> DEFINE r == [q EXCEPT !.pc = "here", !.user = q.got, !.got = None, !.sync = TRUE]
  <2>1. \A x : Seen(r, x) <=> Seen(q, x)
    <3>1. r.inbox = q.inbox
      BY DEF TabStates
    <3> QED BY <3>1, Zenon DEF Seen
  <2> QED BY <1>3, <2>1 DEF TabStates
<1> QED BY <1>1, <1>2, <1>3

LEMMA EffectsFitAfter ==
  ASSUME NEW q \in TabStates, NEW s \in Nat, Fits(q, s)
  PROVE  LET out == q.pc = "here" /\ q.user = None /\ q.silent # "signing in"
         IN Fits([q EXCEPT !.sync = FALSE,
              !.pc = IF out /\ q.mark THEN "leaving" ELSE @,
              !.silent = IF out /\ ~q.mark /\ @ = "none" THEN "signing in" ELSE @], s)
<1> USE SeenOrEmpty DEF Fits, PageFits, InboxFits, UserFits, EffectsFit, Held, Working
<1> DEFINE out == q.pc = "here" /\ q.user = None /\ q.silent # "signing in"
           r == [q EXCEPT !.sync = FALSE,
              !.pc = IF out /\ q.mark THEN "leaving" ELSE @,
              !.silent = IF out /\ ~q.mark /\ @ = "none" THEN "signing in" ELSE @]
<1>1. \A x : Seen(r, x) <=> Seen(q, x)
  <2>1. r.inbox = q.inbox
    BY DEF TabStates
  <2> QED BY <2>1, Zenon DEF Seen
<1>2. CASE out /\ q.mark
  BY <1>1, <1>2 DEF TabStates
<1>3. CASE out /\ ~q.mark
  BY <1>1, <1>3 DEF TabStates
<1>4. CASE ~out
  BY <1>1, <1>4 DEF TabStates
<1> QED BY <1>2, <1>3, <1>4

\* It leaves, or what it did about its tokens is over.
LEMMA LeavingFits ==
  ASSUME NEW q \in TabStates, NEW s \in Nat, Fits(q, s)
  PROVE  /\ q.silent = "signing in" =>
              Fits([q EXCEPT !.silent = "none", !.pc = "leaving"], s)
         /\ q.pc = "signing out" => Fits([q EXCEPT !.pc = "leaving"], s)
         /\ Holds(q) => Fits([q EXCEPT !.silent = "none"], s)
         /\ \A p \in {"closed", "away"}, m \in BOOLEAN :
              Fits([Closed EXCEPT !.pc = p, !.mark = m], s)
<1> USE SeenOrEmpty DEF Fits, PageFits, InboxFits, UserFits, EffectsFit, Held, Working
<1>1. ASSUME q.silent = "signing in"
      PROVE  Fits([q EXCEPT !.silent = "none", !.pc = "leaving"], s)
  <2> DEFINE r == [q EXCEPT !.silent = "none", !.pc = "leaving"]
  <2>1. \A x : Seen(r, x) <=> Seen(q, x)
    <3>1. r.inbox = q.inbox
      BY DEF TabStates
    <3> QED BY <3>1, Zenon DEF Seen
  <2> QED BY <1>1, <2>1 DEF TabStates
<1>2. ASSUME q.pc = "signing out"
      PROVE  Fits([q EXCEPT !.pc = "leaving"], s)
  <2> DEFINE r == [q EXCEPT !.pc = "leaving"]
  <2>1. \A x : Seen(r, x) <=> Seen(q, x)
    <3>1. r.inbox = q.inbox
      BY DEF TabStates
    <3> QED BY <3>1, Zenon DEF Seen
  <2> QED BY <1>2, <2>1 DEF TabStates
<1>3. ASSUME Holds(q)
      PROVE  Fits([q EXCEPT !.silent = "none"], s)
  <2> DEFINE r == [q EXCEPT !.silent = "none"]
  <2>1. \A x : Seen(r, x) <=> Seen(q, x)
    <3>1. r.inbox = q.inbox
      BY DEF TabStates
    <3> QED BY <3>1, Zenon DEF Seen
  <2> QED BY <1>3, <2>1 DEF TabStates, Holds
<1>4. ASSUME NEW p \in {"closed", "away"}, NEW m \in BOOLEAN
      PROVE  Fits([Closed EXCEPT !.pc = p, !.mark = m], s)
  <2> DEFINE r == [Closed EXCEPT !.pc = p, !.mark = m]
  <2>1. /\ r.pc = p /\ r.user = None /\ r.got = None /\ r.armed = None /\ ~r.sync
        /\ r.silent = "none" /\ r.inbox = <<>>
    BY DEF Closed
  <2>2. \A x : ~Seen(r, x)
    BY <2>1, NothingSeen, Zenon
  <2> HIDE DEF r
  <2>3. Fits(r, s)
    BY <2>1, <2>2
  <2> QED BY <2>3 DEF r
<1> QED BY <1>1, <1>2, <1>3, <1>4

\* New tokens, k, come to the tab.
LEMMA IssuedFits ==
  ASSUME NEW q \in TabStates, NEW s \in Nat, NEW k \in Nat \ {0}, Fits(q, s)
  PROVE  /\ q.silent = "signing in" =>
              Fits([q EXCEPT !.user = k, !.armed = k, !.sync = TRUE, !.silent = "none"], k)
         /\ q.silent = "renewing" =>
              Fits([q EXCEPT !.user = k, !.armed = k, !.sync = TRUE,
                             !.silent = "cooldown"], k)
         /\ q.pc = "callback" =>
              Fits([q EXCEPT !.pc = "read", !.got = k, !.armed = k, !.mark = FALSE], k)
<1> USE SeenOrEmpty DEF Fits, PageFits, InboxFits, UserFits, EffectsFit, Held, Working, None
<1>1. ASSUME q.silent = "signing in"
      PROVE  Fits([q EXCEPT !.user = k, !.armed = k, !.sync = TRUE, !.silent = "none"], k)
  <2> DEFINE r == [q EXCEPT !.user = k, !.armed = k, !.sync = TRUE, !.silent = "none"]
  <2>1. \A x : Seen(r, x) <=> Seen(q, x)
    <3>1. r.inbox = q.inbox
      BY DEF TabStates
    <3> QED BY <3>1, Zenon DEF Seen
  <2> QED BY <1>1, <2>1 DEF TabStates
<1>2. ASSUME q.silent = "renewing"
      PROVE  Fits([q EXCEPT !.user = k, !.armed = k, !.sync = TRUE,
                            !.silent = "cooldown"], k)
  <2> DEFINE r == [q EXCEPT !.user = k, !.armed = k, !.sync = TRUE, !.silent = "cooldown"]
  <2>1. \A x : Seen(r, x) <=> Seen(q, x)
    <3>1. r.inbox = q.inbox
      BY DEF TabStates
    <3> QED BY <3>1, Zenon DEF Seen
  <2> QED BY <1>2, <2>1 DEF TabStates
<1>3. ASSUME q.pc = "callback"
      PROVE  Fits([q EXCEPT !.pc = "read", !.got = k, !.armed = k, !.mark = FALSE], k)
  <2> DEFINE r == [q EXCEPT !.pc = "read", !.got = k, !.armed = k, !.mark = FALSE]
  <2>1. \A x : Seen(r, x) <=> Seen(q, x)
    <3>1. r.inbox = q.inbox
      BY DEF TabStates
    <3> QED BY <3>1, Zenon DEF Seen
  <2> QED BY <1>3, <2>1 DEF TabStates
<1> QED BY <1>1, <1>2, <1>3

\* The timer fires, with or without the lock.
LEMMA TimerFits ==
  ASSUME NEW q \in TabStates, NEW s \in Nat, Fits(q, s),
         q.pc \in Working, q.armed # None
  PROVE  /\ Fits([q EXCEPT !.armed = None], s)
         /\ ~Seen(q, "logout") /\ q.silent # "signing in" =>
              Fits([q EXCEPT !.armed = None, !.silent = "renewing"], s)
<1> USE SeenOrEmpty DEF Fits, PageFits, InboxFits, UserFits, EffectsFit, Held, Working
<1>1. Fits([q EXCEPT !.armed = None], s)
  <2> DEFINE r == [q EXCEPT !.armed = None]
  <2>1. \A x : Seen(r, x) <=> Seen(q, x)
    <3>1. r.inbox = q.inbox
      BY DEF TabStates
    <3> QED BY <3>1, Zenon DEF Seen
  <2> QED BY <2>1 DEF TabStates
<1>2. ASSUME ~Seen(q, "logout"), q.silent # "signing in"
      PROVE  Fits([q EXCEPT !.armed = None, !.silent = "renewing"], s)
  <2> DEFINE r == [q EXCEPT !.armed = None, !.silent = "renewing"]
  <2>1. \A x : Seen(r, x) <=> Seen(q, x)
    <3>1. r.inbox = q.inbox
      BY DEF TabStates
    <3> QED BY <3>1, Zenon DEF Seen
  <2>2. s # None
    BY <1>2
  <2> QED BY <1>2, <2>1, <2>2 DEF TabStates
<1> QED BY <1>1, <1>2

\* The tab hears a message.
LEMMA HeardFits ==
  ASSUME NEW q \in TabStates, NEW s \in Nat, Fits(q, s), q.inbox # <<>>
  PROVE  /\ Head(q.inbox) = "renewal" =>
              Fits([q EXCEPT !.inbox = Tail(@),
                             !.armed = IF s = None THEN @ ELSE s], s)
         /\ Head(q.inbox) = "logout" =>
              s = None /\ Fits([q EXCEPT !.inbox = Tail(@), !.mark = TRUE, !.user = None,
                                         !.armed = None, !.sync = TRUE], s)
<1>1. q.inbox \in Seq(Messages)
  BY DEF TabStates
<1>2. ASSUME Head(q.inbox) = "renewal"
      PROVE  Fits([q EXCEPT !.inbox = Tail(@), !.armed = IF s = None THEN @ ELSE s], s)
  <2> DEFINE r == [q EXCEPT !.inbox = Tail(@), !.armed = IF s = None THEN @ ELSE s]
  <2>1. r.inbox = Tail(q.inbox)
    BY DEF TabStates
  <2>2. \A x : Seen(r, x) => Seen(q, x)
    <3>1. ASSUME NEW x, \E i \in DOMAIN Tail(q.inbox) : Tail(q.inbox)[i] = x
          PROVE  \E i \in DOMAIN q.inbox : q.inbox[i] = x
      BY <1>1, <3>1, SeenTail
    <3> HIDE DEF r
    <3> QED BY <2>1, <3>1, Zenon DEF Seen
  <2>3. Seen(q, "renewal") /\ q.inbox # <<"logout">>
    BY <1>1, <1>2, SeenOrEmpty
  <2>4. s # None /\ ~Seen(q, "logout")
    BY <2>3 DEF Fits, InboxFits
  <2>5. /\ r.pc = q.pc /\ r.user = q.user /\ r.got = q.got /\ r.armed = s
        /\ r.sync = q.sync /\ r.mark = q.mark /\ r.silent = q.silent
    BY <2>4 DEF TabStates
  <2>6. r.pc \notin {"closed", "away"}
    BY <2>5 DEF Fits, PageFits
  <2> HIDE DEF r
  <2>7. Fits(r, s)
    BY <2>2, <2>4, <2>5, <2>6 DEF Fits, PageFits, InboxFits, UserFits, EffectsFit, Held
  <2> QED BY <2>7 DEF r
<1>3. ASSUME Head(q.inbox) = "logout"
      PROVE  s = None /\ Fits([q EXCEPT !.inbox = Tail(@), !.mark = TRUE, !.user = None,
                                        !.armed = None, !.sync = TRUE], s)
  <2> DEFINE r == [q EXCEPT !.inbox = Tail(@), !.mark = TRUE, !.user = None,
                            !.armed = None, !.sync = TRUE]
  <2>1. Seen(q, "logout")
    BY <1>3, SeenOrEmpty
  <2>2. /\ q.inbox = <<"logout">> /\ s = None /\ q.pc = "here"
        /\ q.silent # "signing in" /\ q.silent # "renewing" /\ q.got = None
    BY <2>1 DEF Fits, InboxFits, EffectsFit, PageFits, Working
  <2>3. /\ r.pc = q.pc /\ r.user = None /\ r.got = q.got /\ r.armed = None
        /\ r.sync /\ r.mark /\ r.silent = q.silent /\ r.inbox = Tail(q.inbox)
    BY DEF TabStates
  <2>4. Tail(<<"logout">>) = <<>>
    OBVIOUS
  <2>5. r.inbox = <<>> /\ \A x : ~Seen(r, x)
    BY <2>2, <2>3, <2>4, NothingSeen, Zenon
  <2> HIDE DEF r
  <2>6. Fits(r, s)
    BY <2>2, <2>3, <2>5
       DEF Fits, PageFits, InboxFits, UserFits, EffectsFit, Held, Working
  <2> QED BY <2>2, <2>6 DEF r
<1> QED BY <1>2, <1>3

\* The tab logs out.
LEMMA LogOutFits ==
  ASSUME NEW q \in TabStates, NEW s \in Nat, Fits(q, s), q.pc = "here",
         q.inbox = <<>>, q.silent \notin {"renewing", "signing in"}
  PROVE  Fits([q EXCEPT !.pc = "signing out", !.user = None, !.armed = None,
                        !.mark = TRUE, !.sync = TRUE], None)
<1> DEFINE r == [q EXCEPT !.pc = "signing out", !.user = None, !.armed = None,
                          !.mark = TRUE, !.sync = TRUE]
<1>1. /\ r.pc = "signing out" /\ r.user = None /\ r.got = q.got /\ r.armed = None
      /\ r.sync /\ r.silent = q.silent /\ r.inbox = q.inbox
  BY DEF TabStates
<1>2. \A x : ~Seen(r, x)
  BY <1>1, NothingSeen, Zenon
<1> HIDE DEF r
<1>3. Fits(r, None)
  BY <1>1, <1>2
     DEF Fits, PageFits, InboxFits, UserFits, EffectsFit, Held, Working
<1> QED BY <1>3 DEF r

\* Another tab that is told of a renewal, or of a logout.
LEMMA ToldFits ==
  ASSUME NEW q \in TabStates, NEW s \in Nat, Fits(q, s), q.pc # "read", ~q.sync
  PROVE  /\ \A k \in Nat \ {0} : s # None => Fits(Told(q, "renewal"), k)
         /\ /\ q.pc \notin {"opening", "callback"} /\ q.inbox = <<>>
            /\ q.silent \notin {"renewing", "signing in"} /\ s # None
            => Fits(Told(q, "logout"), None)
<1>1. CASE q.pc \in {"closed", "away"}
  <2>1. q.inbox = <<>> /\ \A m : Told(q, m) = q
    BY <1>1 DEF Told, Fits, PageFits
  <2>2. \A x : ~Seen(q, x)
    BY <2>1, NothingSeen
  <2> QED BY <1>1, <2>1, <2>2
          DEF Fits, PageFits, InboxFits, UserFits, EffectsFit, Held, Working, None
<1>2. CASE q.pc \notin {"closed", "away"}
  <2>1. \A m : /\ Told(q, m).pc = q.pc /\ Told(q, m).user = q.user
               /\ Told(q, m).got = q.got /\ Told(q, m).armed = q.armed
               /\ Told(q, m).sync = q.sync /\ Told(q, m).mark = q.mark
               /\ Told(q, m).silent = q.silent
    BY <1>2 DEF Told, TabStates
  <2>2. ASSUME NEW k \in Nat \ {0}, s # None
        PROVE  Fits(Told(q, "renewal"), k)
    <3>1. /\ Told(q, "renewal").inbox # <<>>
          /\ \A x : Seen(Told(q, "renewal"), x) <=> x = "renewal" \/ Seen(q, x)
      BY <1>2, SeenTold DEF Messages
    <3>2. ~Seen(q, "logout")
      BY <2>2 DEF Fits, InboxFits
    <3>3. k # None
      BY DEF None
    <3> DEFINE r == Told(q, "renewal")
    <3>4. /\ r.pc = q.pc /\ r.user = q.user /\ r.got = q.got /\ r.armed = q.armed
          /\ r.sync = q.sync /\ r.mark = q.mark /\ r.silent = q.silent
          /\ r.inbox # <<>> /\ \A x : Seen(r, x) <=> x = "renewal" \/ Seen(q, x)
      BY <2>1, <3>1
    <3> HIDE DEF r
    <3>5. Fits(r, k)
      BY <1>2, <2>2, <3>2, <3>3, <3>4
         DEF Fits, PageFits, InboxFits, UserFits, EffectsFit, Held, Working
    <3> QED BY <3>5 DEF r
  <2>3. ASSUME q.pc \notin {"opening", "callback"}, q.inbox = <<>>,
               q.silent \notin {"renewing", "signing in"}, s # None
        PROVE  Fits(Told(q, "logout"), None)
    <3> DEFINE r == Told(q, "logout")
    <3>1. /\ r.pc = q.pc /\ r.user = q.user /\ r.got = q.got /\ r.armed = q.armed
          /\ r.sync = q.sync /\ r.mark = q.mark /\ r.silent = q.silent
      BY <2>1
    <3>2. r.inbox = <<"logout">> /\ \A x : Seen(r, x) <=> x = "logout" \/ Seen(q, x)
      BY <1>2, <2>3, SeenTold DEF Messages
    <3>3. \A x : ~Seen(q, x)
      BY <2>3, NothingSeen
    <3>4. q.pc = "here" /\ q.user # None
      <4>1. q.pc \in Working
        BY <1>2, <2>3 DEF TabStates, Pcs, Working
      <4> QED BY <2>3, <4>1 DEF Fits, PageFits, UserFits, Held, Working
    <3>5. r.inbox # <<>>
      BY <1>2, SeenTold DEF Messages
    <3> HIDE DEF r
    <3>6. Fits(r, None)
      BY <2>3, <3>1, <3>2, <3>3, <3>4, <3>5
         DEF Fits, PageFits, InboxFits, UserFits, EffectsFit, Held, Working
    <3> QED BY <3>6 DEF r
  <2> QED BY <2>2, <2>3
<1> QED BY <1>1, <1>2

-----------------------------------------------------------------------------
(* The tabs together *)

LEMMA CalmInit == Init => Calm
<1> SUFFICES ASSUME Init PROVE Calm
  OBVIOUS
<1>1. \A t \in Tabs : tab[t] = Closed
  BY DEF Init
<1>2. \A x : ~Seen(Closed, x)
  BY NothingSeen DEF Closed
<1>3. Fits(Closed, None)
  BY <1>2 DEF Fits, PageFits, InboxFits, UserFits, EffectsFit, Held, Closed, Working
<1>4. \A t \in Tabs : Fits(tab[t], store)
  BY <1>1, <1>3 DEF Init
<1>5. TimersComeBack /\ CookiesFollow /\ LockOutlasts
  BY <1>1, <1>2 DEF Init, TimersComeBack, CookiesFollow, LockOutlasts, Waits, Closed
<1> QED BY <1>4, <1>5 DEF Calm

\* What a step of one tab must do so that the tabs together stay calm, when it neither
\* takes nor gives back the lock.
Quiet(q, r) ==
  /\ q.silent = "renewing" <=> r.silent = "renewing"
  /\ q.silent = "cooldown" <=> r.silent = "cooldown"
  /\ Seen(r, "renewal") => Seen(q, "renewal")
  /\ Waits(r) => r.inbox # <<>> \/ (Waits(q) /\ r.inbox = q.inbox)

LEMMA QuietStep ==
  ASSUME PortalTypes, Calm, NEW t \in Tabs, NEW r, Becomes(t, r), Quiet(tab[t], r),
         UNCHANGED <<lock, failed>>, Fits(r, store'),
         \A u \in Tabs \ {t} : Fits(tab[u], store'),
         \/ cookie' = store' \/ OldCookie' \/ Writes(r)
         \/ stale' /\ Seen(r, "logout")
         \/ /\ UNCHANGED <<cookie, store, stale>> /\ (Writes(tab[t]) => Writes(r))
            /\ Seen(tab[t], "logout") => Seen(r, "logout")
  PROVE  Calm'
<1>0. /\ tab'[t] = r /\ \A u \in Tabs \ {t} : tab'[u] = tab[u]
  BY DEF Becomes
<1>1. \A u \in Tabs : Fits(tab'[u], store')
  BY <1>0
<1>2. TimersComeBack'
  <2> SUFFICES ASSUME "renewing" \notin failed, NEW u \in Tabs, Waits(tab'[u])
               PROVE  \/ tab'[u].inbox # <<>>
                      \/ \E v \in Tabs : tab'[v].silent = "renewing"
    BY DEF TimersComeBack
  <2>1. \A v \in Tabs : tab[v].silent = "renewing" => tab'[v].silent = "renewing"
    BY <1>0 DEF Quiet
  <2>2. CASE u = t
    BY <1>0, <2>1, <2>2 DEF Calm, TimersComeBack, Quiet
  <2>3. CASE u # t
    BY <1>0, <2>1, <2>3 DEF Calm, TimersComeBack
  <2> QED BY <2>2, <2>3
<1>3. CookiesFollow'
  <2>1. CASE cookie' = store' \/ OldCookie'
    BY <2>1 DEF CookiesFollow
  <2>2. CASE Writes(r) \/ (stale' /\ Seen(r, "logout"))
    BY <1>0, <2>2 DEF CookiesFollow
  <2>3. CASE /\ UNCHANGED <<cookie, store, stale>> /\ (Writes(tab[t]) => Writes(r))
             /\ Seen(tab[t], "logout") => Seen(r, "logout")
    BY <1>0, <2>3 DEF Calm, CookiesFollow, OldCookie
  <2> QED BY <2>1, <2>2, <2>3
<1>4. LockOutlasts'
  <2> SUFFICES ASSUME failed = {}, NEW u \in Tabs, Seen(tab'[u], "renewal")
               PROVE  lock # NoTab /\ tab'[lock].silent = "cooldown"
    BY DEF LockOutlasts
  <2>1. Seen(tab[u], "renewal")
    BY <1>0 DEF Quiet
  <2>2. lock # NoTab /\ tab[lock].silent = "cooldown" /\ lock \in Tabs
    BY <2>1, TypesSplit DEF Calm, LockOutlasts, Typed
  <2> QED BY <1>0, <2>2 DEF Quiet
<1> QED BY <1>1, <1>2, <1>3, <1>4 DEF Calm

LEMMA CalmHere ==
  ASSUME PortalTypes, Calm, NEW t \in Tabs
  PROVE  tab[t] \in TabStates /\ store \in Nat /\ Fits(tab[t], store)
BY TypedHere DEF Calm

\* Steps that neither take nor give back the lock and keep the stored user.
LEMMA PagesCalm ==
  ASSUME PortalTypes, Calm, NEW t \in Tabs
  PROVE  (\/ OpenPage(t) \/ Return(t) \/ ReadUser(t) \/ Initialised(t)
          \/ SilentSignInFails(t) \/ SignOutFails(t) \/ HearRenewal(t)) => Calm'
<1>1. /\ tab[t] \in TabStates /\ store \in Nat /\ Fits(tab[t], store)
      /\ \A u \in Tabs \ {t} : Fits(tab[u], store)
  BY CalmHere DEF Calm
<1>2. CASE OpenPage(t)
  <2> DEFINE r == [tab[t] EXCEPT !.pc = "opening"]
  <2>1. tab[t].pc \in {"closed", "away"} /\ UNCHANGED <<lock, failed, store>>
    BY <1>2 DEF OpenPage, Open
  <2>2. Fits(r, store)
    BY <1>1, <2>1, PagesFit
  <2>3. \A x : Seen(r, x) <=> Seen(tab[t], x)
    <3>1. r.inbox = tab[t].inbox
      BY <1>1 DEF TabStates
    <3> QED BY <3>1, Zenon DEF Seen
  <2>4. Quiet(tab[t], r)
    BY <1>1, <2>1, <2>3 DEF Quiet, Waits, Held, None, TabStates, Fits, PageFits
  <2>5. Writes(r)
    BY <1>1 DEF Writes, TabStates
  <2>6. Becomes(t, r)
    BY <1>2, Effects
  <2> HIDE DEF r
  <2> QED BY <1>1, <2>1, <2>2, <2>4, <2>5, <2>6, QuietStep
<1>3. CASE Return(t)
  <2> DEFINE r == [tab[t] EXCEPT !.pc = "callback"]
  <2>1. tab[t].pc \in {"closed", "away"} /\ UNCHANGED <<lock, failed, store>>
    BY <1>3 DEF Return
  <2>2. Fits(r, store)
    BY <1>1, <2>1, PagesFit
  <2>3. \A x : Seen(r, x) <=> Seen(tab[t], x)
    <3>1. r.inbox = tab[t].inbox
      BY <1>1 DEF TabStates
    <3> QED BY <3>1, Zenon DEF Seen
  <2>4. Quiet(tab[t], r)
    BY <1>1, <2>1, <2>3 DEF Quiet, Waits, Held, None, TabStates, Fits, PageFits
  <2>5. Writes(r)
    BY <1>1 DEF Writes, TabStates
  <2>6. Becomes(t, r)
    BY <1>3, Effects
  <2> HIDE DEF r
  <2> QED BY <1>1, <2>1, <2>2, <2>4, <2>5, <2>6, QuietStep
<1>4. CASE ReadUser(t)
  <2> DEFINE r == [tab[t] EXCEPT !.pc = "read", !.got = store,
                   !.armed = IF store = None THEN @ ELSE store]
  <2>1. tab[t].pc = "opening" /\ UNCHANGED <<lock, failed, store>>
    BY <1>4 DEF ReadUser
  <2>2. Fits(r, store)
    BY <1>1, <2>1, PagesFit
  <2>3. \A x : Seen(r, x) <=> Seen(tab[t], x)
    <3>1. r.inbox = tab[t].inbox
      BY <1>1 DEF TabStates
    <3> QED BY <3>1, Zenon DEF Seen
  <2>4. Quiet(tab[t], r)
    BY <1>1, <2>1, <2>3 DEF Quiet, Waits, Held, None, TabStates, Fits, PageFits
  <2>5. Writes(r)
    BY <1>1 DEF Writes, TabStates
  <2>6. Becomes(t, r)
    BY <1>4, Effects
  <2> HIDE DEF r
  <2> QED BY <1>1, <2>1, <2>2, <2>4, <2>5, <2>6, QuietStep
<1>5. CASE Initialised(t)
  <2> DEFINE r == [tab[t] EXCEPT !.pc = "here", !.user = tab[t].got, !.got = None,
                   !.sync = TRUE]
  <2>1. tab[t].pc = "read" /\ UNCHANGED <<lock, failed, store>>
    BY <1>5 DEF Initialised
  <2>2. Fits(r, store)
    BY <1>1, <2>1, PagesFit
  <2>3. \A x : Seen(r, x) <=> Seen(tab[t], x)
    <3>1. r.inbox = tab[t].inbox
      BY <1>1 DEF TabStates
    <3> QED BY <3>1, Zenon DEF Seen
  <2>4. Quiet(tab[t], r)
    BY <1>1, <2>1, <2>3 DEF Quiet, Waits, Held, None, TabStates, Fits, PageFits
  <2>5. Writes(r)
    BY <1>1 DEF Writes, TabStates
  <2>6. Becomes(t, r)
    BY <1>5, Effects
  <2> HIDE DEF r
  <2> QED BY <1>1, <2>1, <2>2, <2>4, <2>5, <2>6, QuietStep
<1>6. CASE SilentSignInFails(t)
  <2> DEFINE r == [tab[t] EXCEPT !.silent = "none", !.pc = "leaving"]
  <2>1. tab[t].silent = "signing in" /\ UNCHANGED <<lock, failed, store>>
    BY <1>6 DEF SilentSignInFails
  <2>2. Fits(r, store)
    BY <1>1, <2>1, LeavingFits
  <2>3. \A x : Seen(r, x) <=> Seen(tab[t], x)
    <3>1. r.inbox = tab[t].inbox
      BY <1>1 DEF TabStates
    <3> QED BY <3>1, Zenon DEF Seen
  <2>4. Quiet(tab[t], r)
    BY <1>1, <2>1, <2>3 DEF Quiet, Waits, Held, None, TabStates, Fits, PageFits
  <2>5. \/ cookie' = store'
        \/ UNCHANGED <<cookie, store, stale>> /\ (Writes(tab[t]) => Writes(r))
    <3>1. store = None /\ tab[t].pc = "here"
      BY <1>1, <2>1 DEF Fits, UserFits, EffectsFit, Held, Working
    <3>2. Writes(tab[t]) => Writes(r)
      BY <1>1, <3>1 DEF Writes, TabStates
    <3>3. UNCHANGED store /\ (cookie' = store' \/ UNCHANGED <<cookie, stale>>)
      <4>1. stale \in BOOLEAN
        BY TypedHere
      <4>2. /\ UNCHANGED store /\ cookie' \in {cookie, None}
            /\ stale' = (stale /\ cookie' # None)
        BY <1>6 DEF SilentSignInFails
      <4>3. cookie' # None => stale' = stale
        BY <4>1, <4>2
      <4> QED BY <3>1, <4>2, <4>3
    <3> QED BY <3>2, <3>3
  <2>6. Becomes(t, r)
    BY <1>6, Effects
  <2> HIDE DEF r
  <2> QED BY <1>1, <2>1, <2>2, <2>3, <2>4, <2>5, <2>6, QuietStep
<1>7. CASE SignOutFails(t)
  <2> DEFINE r == [tab[t] EXCEPT !.pc = "leaving"]
  <2>1. tab[t].pc = "signing out" /\ UNCHANGED <<lock, failed, store>>
    BY <1>7 DEF SignOutFails
  <2>2. Fits(r, store)
    BY <1>1, <2>1, LeavingFits
  <2>3. \A x : Seen(r, x) <=> Seen(tab[t], x)
    <3>1. r.inbox = tab[t].inbox
      BY <1>1 DEF TabStates
    <3> QED BY <3>1, Zenon DEF Seen
  <2>4. Quiet(tab[t], r)
    BY <1>1, <2>1, <2>3 DEF Quiet, Waits, Held, None, TabStates, Fits, PageFits
  <2>5. UNCHANGED <<cookie, store, stale>> /\ (Writes(tab[t]) => Writes(r))
    BY <1>1, <1>7 DEF SignOutFails, Writes, TabStates
  <2>6. Becomes(t, r)
    BY <1>7, Effects
  <2> HIDE DEF r
  <2> QED BY <1>1, <2>1, <2>2, <2>3, <2>4, <2>5, <2>6, QuietStep
<1>8. CASE HearRenewal(t)
  <2> DEFINE r == [tab[t] EXCEPT !.inbox = Tail(@),
                   !.armed = IF store = None THEN @ ELSE store]
  <2>1. tab[t].inbox # <<>> /\ Head(tab[t].inbox) = "renewal" /\ UNCHANGED <<lock, failed, store>>
    BY <1>8 DEF HearRenewal
  <2>2. Fits(r, store)
    BY <1>1, <2>1, HeardFits
  <2>3. \A x : Seen(r, x) => Seen(tab[t], x)
    <3>1. r.inbox = Tail(tab[t].inbox) /\ tab[t].inbox \in Seq(Messages)
      BY <1>1 DEF TabStates
    <3>2. ASSUME NEW x, \E i \in DOMAIN Tail(tab[t].inbox) : Tail(tab[t].inbox)[i] = x
          PROVE  \E i \in DOMAIN tab[t].inbox : tab[t].inbox[i] = x
      BY <2>1, <3>1, <3>2, SeenTail
    <3> HIDE DEF r
    <3> QED BY <3>1, <3>2, Zenon DEF Seen
  <2>4. store # None /\ ~Seen(tab[t], "logout")
    BY <1>1, <2>1, SeenOrEmpty DEF Fits, InboxFits
  <2>5. Quiet(tab[t], r)
    BY <1>1, <2>1, <2>3, <2>4 DEF Quiet, Waits, TabStates
  <2>6. UNCHANGED <<cookie, store, stale>> /\ (Writes(tab[t]) => Writes(r))
    BY <1>1, <1>8 DEF HearRenewal, Writes, TabStates
  <2>7. Becomes(t, r)
    BY <1>8, Effects
  <2> HIDE DEF r
  <2> QED BY <1>1, <2>1, <2>2, <2>4, <2>5, <2>6, <2>7, QuietStep
<1> QED BY <1>2, <1>3, <1>4, <1>5, <1>6, <1>7, <1>8

\* An effect writes the user of its page: the stored one, an older one, none while the page
\* still reads it, or one whose logout the page has not heard of.
LEMMA RunEffectsCalm ==
  ASSUME PortalTypes, NewestStored, Calm, NEW t \in Tabs, RunEffects(t)
  PROVE  Calm'
<1> DEFINE out == tab[t].pc = "here" /\ tab[t].user = None /\ tab[t].silent # "signing in"
           r == [tab[t] EXCEPT !.sync = FALSE,
                   !.pc = IF out /\ tab[t].mark THEN "leaving" ELSE @,
                   !.silent = IF out /\ ~tab[t].mark /\ @ = "none" THEN "signing in"
                                                                  ELSE @]
<1>1. /\ tab[t] \in TabStates /\ store \in Nat /\ Fits(tab[t], store)
      /\ \A u \in Tabs \ {t} : Fits(tab[u], store)
  BY CalmHere DEF Calm
<1>2. /\ Open(t) /\ cookie' = tab[t].user /\ UNCHANGED <<lock, failed, store>>
      /\ stale' = (~tab[t].sync /\ tab[t].user \notin {None, store})
  BY DEF RunEffects
<1>3. Fits(r, store)
  BY <1>1, EffectsFitAfter
<1>4. \A x : Seen(r, x) <=> Seen(tab[t], x)
  <2>1. r.inbox = tab[t].inbox
    BY <1>1 DEF TabStates
  <2> QED BY <2>1, Zenon DEF Seen
<1>5. Quiet(tab[t], r)
  BY <1>1, <1>2, <1>4 DEF Quiet, Waits, Held, TabStates
<1>6. Becomes(t, r)
  BY EffectsOfChange
<1>7. tab[t].pc \in {"opening", "callback", "read"} => Writes(r)
  BY <1>1 DEF Writes, TabStates
<1> HIDE DEF r
<1>8. \/ cookie' = store' \/ OldCookie' \/ Writes(r)
      \/ stale' /\ Seen(r, "logout")
  <2>1. CASE tab[t].sync
    BY <1>1, <1>2, <2>1 DEF Fits, EffectsFit
  <2>2. CASE tab[t].pc \in {"opening", "callback", "read"}
    BY <1>7, <2>2
  <2>3. ASSUME ~tab[t].sync, tab[t].pc \in Working
        PROVE  cookie' = store' \/ OldCookie' \/ (stale' /\ Seen(r, "logout"))
    <3>1. CASE tab[t].user = None
      BY <1>1, <1>2, <2>3, <3>1 DEF Fits, UserFits, Held, Working
    <3>2. CASE tab[t].user # None /\ store = None
      <4>1. Seen(tab[t], "logout")
        BY <1>1, <2>3, <3>2 DEF Fits, UserFits, Held, Working
      <4> QED BY <1>2, <1>4, <2>3, <3>2, <4>1
    <3>3. CASE tab[t].user # None /\ store # None
      <4>1. tab[t].user \in Nat /\ tab[t].user <= store /\ store \in Nat
        BY <1>1, <3>3, TypedHere DEF NewestStored, TabStates
      <4>2. CASE tab[t].user = store
        BY <1>2, <4>2
      <4>3. CASE tab[t].user # store
        <5>1. None < tab[t].user /\ tab[t].user < store
          BY <3>3, <4>1, <4>3 DEF None
        <5> QED BY <1>2, <2>3, <3>3, <4>3, <5>1 DEF OldCookie
      <4> QED BY <4>2, <4>3
    <3> QED BY <3>1, <3>2, <3>3
  <2>4. tab[t].pc \in {"opening", "callback", "read"} \union Working
    BY <1>1, <1>2 DEF Open, TabStates, Pcs, Working
  <2> QED BY <2>1, <2>2, <2>3, <2>4
<1> QED BY <1>1, <1>2, <1>3, <1>5, <1>6, <1>8, QuietStep

\* The tab that hears a logout finds nothing stored.
LEMMA HearLogoutCalm ==
  ASSUME PortalTypes, Calm, NEW t \in Tabs, HearLogout(t)
  PROVE  Calm'
<1> DEFINE r == [tab[t] EXCEPT !.inbox = Tail(@), !.mark = TRUE, !.user = None,
                   !.armed = None, !.sync = TRUE]
<1>1. /\ tab[t] \in TabStates /\ store \in Nat /\ Fits(tab[t], store)
      /\ \A u \in Tabs \ {t} : Fits(tab[u], store)
  BY CalmHere DEF Calm
<1>2. /\ tab[t].inbox # <<>> /\ Head(tab[t].inbox) = "logout" /\ store' = None
      /\ UNCHANGED <<lock, failed>>
  BY DEF HearLogout
<1>3. store = None /\ Fits(r, store)
  BY <1>1, <1>2, HeardFits
<1>4. Seen(tab[t], "logout")
  BY <1>1, <1>2, SeenOrEmpty
<1>5. /\ r.pc = tab[t].pc /\ r.user = None /\ r.silent = tab[t].silent /\ r.sync
  BY <1>1 DEF TabStates
<1>6. ~Seen(r, "renewal") /\ r.pc # "read"
  BY <1>1, <1>3, <1>4, <1>5 DEF Fits, InboxFits, Working
<1>7. Becomes(t, r)
  BY Effects
<1> HIDE DEF r
<1>8. Quiet(tab[t], r) /\ Writes(r)
  BY <1>5, <1>6 DEF Quiet, Waits, Held, Writes
<1> QED BY <1>1, <1>2, <1>3, <1>7, <1>8, QuietStep

\* A tab that signs in is the only one, or races.
LEMMA SignInCalm ==
  ASSUME PortalTypes, Calm, NEW t \in Tabs, SilentSignIn(t) \/ SignedIn(t), ~raced'
  PROVE  Calm'
<1>1. /\ tab[t] \in TabStates /\ store \in Nat /\ Fits(tab[t], store)
  BY CalmHere
<1>2. /\ Issued /\ Others(t) = {} /\ UNCHANGED <<lock, failed>>
  BY DEF SilentSignIn, SignedIn, Race
<1>3. serial' \in Nat \ {0} /\ store' = serial'
  BY <1>2, TypedHere DEF Issued
<1>4. \A u \in Tabs \ {t} : Fits(tab[u], store')
  <2> SUFFICES ASSUME NEW u \in Tabs \ {t} PROVE Fits(tab[u], store')
    OBVIOUS
  <2>1. tab[u].pc \in {"closed", "away"} /\ Fits(tab[u], store)
    BY <1>2 DEF Others, Open, Calm
  <2>2. \A x : ~Seen(tab[u], x)
    BY <2>1, NothingSeen DEF Fits, PageFits
  <2> QED BY <2>1, <2>2
          DEF Fits, PageFits, InboxFits, UserFits, EffectsFit, Held, Working
<1>5. CASE SilentSignIn(t)
  <2> DEFINE r == [tab[t] EXCEPT !.user = serial', !.armed = serial', !.sync = TRUE,
                                 !.silent = "none"]
  <2>1. tab[t].silent = "signing in"
    BY <1>5 DEF SilentSignIn
  <2>2. Fits(r, store')
    BY <1>1, <1>3, <2>1, IssuedFits
  <2>3. \A x : Seen(r, x) <=> Seen(tab[t], x)
    <3>1. r.inbox = tab[t].inbox
      BY <1>1 DEF TabStates
    <3> QED BY <3>1, Zenon DEF Seen
  <2>4. Quiet(tab[t], r) /\ Writes(r)
    BY <1>1, <1>3, <2>1, <2>3 DEF Quiet, Waits, Writes, TabStates, None
  <2>5. Becomes(t, r)
    BY <1>5, Effects
  <2> HIDE DEF r
  <2> QED BY <1>2, <1>4, <2>2, <2>4, <2>5, QuietStep
<1>6. CASE SignedIn(t)
  <2> DEFINE r == [tab[t] EXCEPT !.pc = "read", !.got = serial', !.armed = serial',
                                 !.mark = FALSE]
  <2>1. tab[t].pc = "callback"
    BY <1>6 DEF SignedIn
  <2>2. Fits(r, store')
    BY <1>1, <1>3, <2>1, IssuedFits
  <2>3. \A x : Seen(r, x) <=> Seen(tab[t], x)
    <3>1. r.inbox = tab[t].inbox
      BY <1>1 DEF TabStates
    <3> QED BY <3>1, Zenon DEF Seen
  <2>4. Quiet(tab[t], r) /\ Writes(r)
    BY <1>1, <1>3, <2>1, <2>3 DEF Quiet, Waits, Writes, TabStates, None
  <2>5. Becomes(t, r)
    BY <1>6, Effects
  <2> HIDE DEF r
  <2> QED BY <1>2, <1>4, <2>2, <2>4, <2>5, QuietStep
<1> QED BY <1>5, <1>6

\* A page that is unloaded was not about to write the cookies, or races; a renewal that
\* it cuts short has failed.
LEMMA UnloadedCalm ==
  ASSUME PortalTypes, Calm, NEW t \in Tabs, Leave(t) \/ Close(t) \/ SignOut(t), ~raced'
  PROVE  Calm'
<1>1. PICK p \in {"closed", "away"} : Unloaded(t, p)
  BY DEF Leave, Close, SignOut
<1>2. PICK m \in BOOLEAN : Becomes(t, [Closed EXCEPT !.pc = p, !.mark = m])
  BY <1>1, UnloadedBecomes
<1> DEFINE r == [Closed EXCEPT !.pc = p, !.mark = m]
<1>3. r.pc = p /\ r.inbox = <<>> /\ r.silent = "none" /\ ~r.sync
  BY DEF Closed
<1>4. Fits(r, store)
  BY CalmHere, LeavingFits
<1> HIDE DEF r
<1>5. \A x : ~Seen(r, x)
  BY <1>3, NothingSeen
<1>6. tab'[t] = r /\ \A u \in Tabs \ {t} : tab'[u] = tab[u]
  BY <1>2 DEF Becomes, r
<1>7. UNCHANGED <<store, cookie, stale>>
  BY DEF Leave, Close, SignOut
<1>8. ~Writes(tab[t]) /\ ~(stale /\ Seen(tab[t], "logout"))
  <2>1. ~Writes(tab[t])
    BY DEF Leave, Close, SignOut, Race, Pending, Writes
  <2>2. Close(t) => ~(stale /\ Seen(tab[t], "logout"))
    BY DEF Close, Race, Unread, Seen
  <2>3. Leave(t) \/ SignOut(t) => tab[t].pc # "here"
    BY DEF Leave, SignOut
  <2>4. Seen(tab[t], "logout") => tab[t].pc = "here"
    BY CalmHere DEF Fits, InboxFits
  <2> QED BY <2>1, <2>2, <2>3, <2>4
<1>9. /\ \A u \in Tabs : Fits(tab'[u], store')
  BY <1>4, <1>6, <1>7 DEF Calm
<1>10. TimersComeBack'
  <2> SUFFICES ASSUME "renewing" \notin failed', NEW u \in Tabs, Waits(tab'[u])
               PROVE  \/ tab'[u].inbox # <<>>
                      \/ \E v \in Tabs : tab'[v].silent = "renewing"
    BY DEF TimersComeBack
  <2>1. "renewing" \notin failed /\ tab[t].silent # "renewing"
    BY <1>1 DEF Unloaded
  <2>2. u # t
    BY <1>3, <1>6 DEF Waits
  <2> QED BY <1>6, <2>1, <2>2 DEF Calm, TimersComeBack
<1>11. CookiesFollow'
  <2>1. cookie = store \/ OldCookie => CookiesFollow'
    BY <1>7 DEF CookiesFollow, OldCookie
  <2>2. (\E u \in Tabs : Writes(tab[u])) => CookiesFollow'
    BY <1>6, <1>8 DEF CookiesFollow
  <2>3. (stale /\ \E u \in Tabs : Seen(tab[u], "logout")) => CookiesFollow'
    BY <1>6, <1>7, <1>8 DEF CookiesFollow
  <2> QED BY <2>1, <2>2, <2>3 DEF Calm, CookiesFollow
<1>12. LockOutlasts'
  <2> SUFFICES ASSUME failed' = {}, NEW u \in Tabs, Seen(tab'[u], "renewal")
               PROVE  lock' # NoTab /\ tab'[lock'].silent = "cooldown"
    BY DEF LockOutlasts
  <2>1. failed = {} /\ tab[t].silent \notin {"renewing", "cooldown"}
    BY <1>1 DEF Unloaded
  <2>2. u # t
    BY <1>5, <1>6
  <2>3. lock # NoTab /\ tab[lock].silent = "cooldown" /\ lock \in Tabs
    BY <1>6, <2>1, <2>2, TypesSplit DEF Calm, LockOutlasts, Typed
  <2>4. lock # t /\ lock' = lock
    BY <1>1, <2>1, <2>3 DEF Unloaded
  <2> QED BY <1>6, <2>3, <2>4
<1> QED BY <1>9, <1>10, <1>11, <1>12 DEF Calm

\* A timer that fires without the lock: another tab renews, or did so and the message is
\* on its way.
LEMMA ExpiringCalm ==
  ASSUME PortalTypes, Calm, NEW t \in Tabs, Expiring(t), ~raced'
  PROVE  Calm'
<1> DEFINE r == [tab[t] EXCEPT !.armed = None,
                   !.silent = IF lock = NoTab THEN "renewing" ELSE @]
<1>1. tab[t] \in TabStates /\ store \in Nat /\ Fits(tab[t], store)
  BY CalmHere
<1>2. /\ tab[t].pc \in Working /\ tab[t].armed # None
      /\ UNCHANGED <<store, cookie, failed, stale>>
  BY DEF Expiring, Working
<1>3. Becomes(t, r)
  BY TimerFires
<1>4. tab'[t] = r /\ \A u \in Tabs \ {t} : tab'[u] = tab[u]
  BY <1>3 DEF Becomes
<1>5. /\ r.pc = tab[t].pc /\ r.user = tab[t].user /\ r.got = tab[t].got
      /\ r.armed = None /\ r.sync = tab[t].sync /\ r.inbox = tab[t].inbox
      /\ r.silent = IF lock = NoTab THEN "renewing" ELSE tab[t].silent
  BY <1>1 DEF TabStates
<1>6. \A x : Seen(r, x) <=> Seen(tab[t], x)
  BY <1>5, Zenon DEF Seen
<1>7. CookiesFollow'
  <2>1. Writes(tab[t]) => Writes(r)
    BY <1>5 DEF Writes
  <2> HIDE DEF r
  <2> QED BY <1>2, <1>4, <1>6, <2>1 DEF Calm, CookiesFollow, OldCookie
<1>8. CASE lock = NoTab
  <2>1. ~Seen(tab[t], "logout") /\ tab[t].silent # "signing in" /\ lock' = t
    BY <1>8 DEF Expiring, Race, Unread, Seen
  <2>2. r = [tab[t] EXCEPT !.armed = None, !.silent = "renewing"]
    BY <1>8
  <2>3. Fits(r, store)
    BY <1>1, <1>2, <2>1, <2>2, TimerFits
  <2>4. \A u \in Tabs : Fits(tab'[u], store')
    BY <1>2, <1>4, <2>3 DEF Calm
  <2>5. TimersComeBack'
    BY <1>4, <1>5, <1>8 DEF TimersComeBack
  <2>6. LockOutlasts'
    <3> HIDE DEF r
    <3> QED BY <1>2, <1>4, <1>6, <1>8 DEF Calm, LockOutlasts
  <2> QED BY <1>7, <2>4, <2>5, <2>6 DEF Calm
<1>9. CASE lock # NoTab
  <2>1. /\ UNCHANGED lock /\ lock \in Tabs /\ Holds(tab[lock])
        /\ tab[lock].silent = "cooldown" => tab[t].armed # store
    BY <1>9, TypesSplit DEF Expiring, Typed
  <2>2. r = [tab[t] EXCEPT !.armed = None]
    BY <1>1, <1>9 DEF TabStates
  <2>3. Fits(r, store)
    BY <1>1, <1>2, <2>2, TimerFits
  <2>4. \A u \in Tabs : Fits(tab'[u], store')
    BY <1>2, <1>4, <2>3 DEF Calm
  <2>5. \A u \in Tabs : tab'[u].silent = tab[u].silent
    BY <1>4, <1>5, <1>9
  <2>6. tab[lock].silent = "cooldown" => r.inbox # <<>>
    BY <1>1, <1>2, <1>5, <2>1 DEF Fits, UserFits
  <2> HIDE DEF r
  <2>7. TimersComeBack'
    BY <1>2, <1>4, <2>1, <2>5, <2>6 DEF Calm, TimersComeBack, Holds
  <2>8. LockOutlasts'
    BY <1>2, <1>4, <1>6, <2>1, <2>5 DEF Calm, LockOutlasts
  <2> QED BY <1>7, <2>4, <2>7, <2>8 DEF Calm
<1> QED BY <1>8, <1>9

\* The renewed tokens are stored, the others that are open hear of them.
LEMMA RenewCalm ==
  ASSUME PortalTypes, Calm, NEW t \in Tabs, Renew(t), ~raced'
  PROVE  Calm'
<1> DEFINE r == [tab[t] EXCEPT !.user = serial', !.armed = serial', !.sync = TRUE,
                               !.silent = "cooldown"]
<1>1. tab[t] \in TabStates /\ store \in Nat /\ Fits(tab[t], store)
  BY CalmHere
<1>2. /\ tab[t].silent = "renewing" /\ Issued /\ UNCHANGED <<cookie, lock, failed>>
      /\ \A u \in Tabs \ {t} : ~Pending(u)
  BY DEF Renew, Race
<1>3. serial' \in Nat \ {0} /\ store' = serial'
  BY <1>2, TypedHere DEF Issued
<1>4. Fits(r, store') /\ store # None
  <2> DEFINE k == serial'
  <2>1. k \in Nat \ {0} /\ store' = k
    BY <1>3
  <2>2. r = [tab[t] EXCEPT !.user = k, !.armed = k, !.sync = TRUE, !.silent = "cooldown"]
    OBVIOUS
  <2> HIDE DEF k, r
  <2>3. Fits(r, k)
    BY <1>1, <1>2, <2>1, <2>2, IssuedFits
  <2>4. store # None
    BY <1>1, <1>2 DEF Fits, EffectsFit
  <2> QED BY <2>1, <2>3, <2>4
<1>5. Tells(t, r, "renewal")
  BY Effects
<1>6. r.sync /\ r.silent = "cooldown" /\ r.armed # None
  BY <1>1, <1>3 DEF TabStates, None
<1>7. tab'[t] = r /\ \A u \in Tabs \ {t} : tab'[u] = Told(tab[u], "renewal")
  BY <1>5 DEF Tells
<1> HIDE DEF r
<1>8. ASSUME NEW u \in Tabs \ {t} PROVE Fits(tab'[u], store')
  <2> DEFINE k == serial'
  <2>1. k \in Nat \ {0} /\ store' = k
    BY <1>3
  <2>2. tab[u] \in TabStates /\ Fits(tab[u], store) /\ tab[u].pc # "read" /\ ~tab[u].sync
    BY <1>2 DEF Calm, Pending, PortalTypes
  <2> HIDE DEF k
  <2>3. Fits(Told(tab[u], "renewal"), k)
    BY <1>1, <1>4, <2>1, <2>2, ToldFits
  <2> QED BY <1>7, <2>1, <2>3
<1>9. \A u \in Tabs : Fits(tab'[u], store')
  BY <1>4, <1>7, <1>8
<1>10. lock = t /\ lock # NoTab
  BY <1>2, TypedHere DEF Holds
<1>11. TimersComeBack'
  <2> SUFFICES ASSUME NEW u \in Tabs, Waits(tab'[u]) PROVE tab'[u].inbox # <<>>
    BY DEF TimersComeBack
  <2>1. u # t
    BY <1>6, <1>7 DEF Waits
  <2>2. tab[u] \in TabStates /\ tab'[u] = Told(tab[u], "renewal")
    BY <1>7, <2>1 DEF PortalTypes
  <2>3. tab[u].pc \notin {"closed", "away"}
    BY <2>2 DEF Told, Waits
  <2> QED BY <2>2, <2>3, SeenTold DEF Messages
<1>12. CookiesFollow' /\ LockOutlasts'
  BY <1>2, <1>6, <1>7, <1>10 DEF CookiesFollow, LockOutlasts, Writes
<1> QED BY <1>9, <1>11, <1>12 DEF Calm

\* The lock is free again: every message of the renewal was heard, or the renewal failed.
LEMMA LockFreeCalm ==
  ASSUME PortalTypes, Calm, NEW t \in Tabs, RenewFails(t) \/ CooldownEnds(t)
  PROVE  Calm'
<1> DEFINE r == [tab[t] EXCEPT !.silent = "none"]
<1>1. tab[t] \in TabStates /\ store \in Nat /\ Fits(tab[t], store)
  BY CalmHere
<1>2. Holds(tab[t]) /\ UNCHANGED <<store, cookie, stale>>
  BY DEF RenewFails, CooldownEnds, Holds
<1>3. Fits(r, store)
  BY <1>1, <1>2, LeavingFits
<1>4. Becomes(t, r)
  BY Effects
<1>5. tab'[t] = r /\ \A u \in Tabs \ {t} : tab'[u] = tab[u]
  BY <1>4 DEF Becomes
<1>6. /\ r.pc = tab[t].pc /\ r.user = tab[t].user /\ r.got = tab[t].got
      /\ r.armed = tab[t].armed /\ r.sync = tab[t].sync /\ r.inbox = tab[t].inbox
  BY <1>1 DEF TabStates
<1> HIDE DEF r
<1>7. \A u \in Tabs : Fits(tab'[u], store')
  BY <1>2, <1>3, <1>5 DEF Calm
<1>8. CookiesFollow'
  <2>1. (Writes(tab[t]) => Writes(r)) /\ (Seen(tab[t], "logout") => Seen(r, "logout"))
    BY <1>6 DEF Writes, Seen
  <2> QED BY <1>2, <1>5, <2>1 DEF Calm, CookiesFollow, OldCookie
<1>9. CASE RenewFails(t)
  <2>1. "renewing" \in failed'
    BY <1>9 DEF RenewFails
  <2>2. TimersComeBack' /\ LockOutlasts'
    BY <2>1 DEF TimersComeBack, LockOutlasts
  <2> QED BY <1>7, <1>8, <2>2 DEF Calm
<1>10. CASE CooldownEnds(t)
  <2>1. /\ UNCHANGED failed /\ tab[t].silent = "cooldown"
        /\ \A u \in Tabs : ~Seen(tab[u], "renewal")
    BY <1>10 DEF CooldownEnds, Unread, Seen
  <2>2. \A u \in Tabs : ~Seen(tab'[u], "renewal")
    BY <1>5, <1>6, <2>1 DEF Seen
  <2>3. LockOutlasts'
    BY <2>2 DEF LockOutlasts
  <2>4. TimersComeBack'
    <3> SUFFICES ASSUME "renewing" \notin failed, NEW u \in Tabs, Waits(tab'[u])
                 PROVE  \/ tab'[u].inbox # <<>>
                        \/ \E v \in Tabs : tab'[v].silent = "renewing"
      BY <2>1 DEF TimersComeBack
    <3>1. Waits(tab[u]) /\ tab[u].inbox = tab'[u].inbox
      BY <1>5, <1>6 DEF Waits, Held
    <3>2. \A v \in Tabs : tab[v].silent = "renewing" => tab'[v].silent = "renewing"
      BY <1>5, <2>1
    <3> QED BY <3>1, <3>2 DEF Calm, TimersComeBack
  <2> QED BY <1>7, <1>8, <2>3, <2>4 DEF Calm
<1> QED BY <1>9, <1>10

\* Nothing is stored any more, the others that are open hear of it.
LEMMA LogOutCalm ==
  ASSUME PortalTypes, Calm, NEW t \in Tabs, LogOut(t), ~raced'
  PROVE  Calm'
<1> DEFINE r == [tab[t] EXCEPT !.pc = "signing out", !.user = None, !.armed = None,
                   !.mark = TRUE, !.sync = TRUE]
<1>1. tab[t] \in TabStates /\ store \in Nat /\ Fits(tab[t], store)
  BY CalmHere
<1>2. /\ tab[t].pc = "here" /\ tab[t].user # None /\ store' = None /\ cookie' = None
      /\ UNCHANGED <<lock, failed>>
      /\ \A u \in Tabs : /\ tab[u].silent \notin {"renewing", "signing in"}
                         /\ tab[u].pc \notin {"opening", "callback", "read"}
                         /\ ~tab[u].sync /\ tab[u].inbox = <<>>
  BY DEF LogOut, Race, Pending
<1>3. Fits(r, None)
  BY <1>1, <1>2, LogOutFits
<1>4. Tells(t, r, "logout")
  BY Effects
<1>5. r.inbox = <<>> /\ r.pc = "signing out"
  BY <1>1, <1>2 DEF TabStates
<1>6. tab'[t] = r /\ \A u \in Tabs \ {t} : tab'[u] = Told(tab[u], "logout")
  BY <1>4 DEF Tells
<1> HIDE DEF r
<1>7. \A u \in Tabs \ {t} : Fits(tab'[u], None)
  <2>1. store # None
    BY <1>1, <1>2, NothingSeen DEF Fits, UserFits, Held
  <2>2. ASSUME NEW u \in Tabs \ {t} PROVE Fits(Told(tab[u], "logout"), None)
    <3>1. tab[u] \in TabStates /\ Fits(tab[u], store) /\ store \in Nat
      BY <1>1 DEF Calm, PortalTypes
    <3>2. /\ tab[u].silent \notin {"renewing", "signing in"}
          /\ tab[u].pc \notin {"opening", "callback"} /\ tab[u].pc # "read"
          /\ ~tab[u].sync /\ tab[u].inbox = <<>>
      BY <1>2
    <3> QED BY <2>1, <3>1, <3>2, ToldFits
  <2> QED BY <1>6, <2>2
<1>8. \A u \in Tabs : Fits(tab'[u], store')
  BY <1>2, <1>3, <1>6, <1>7
<1>9. \A u \in Tabs : ~Seen(tab'[u], "renewal") /\ (Waits(tab'[u]) => tab'[u].inbox # <<>>)
  <2>1. ~Seen(r, "renewal") /\ ~Waits(r)
    BY <1>5, NothingSeen DEF Waits
  <2>2. ASSUME NEW u \in Tabs \ {t}
        PROVE  ~Seen(tab'[u], "renewal") /\ (Waits(tab'[u]) => tab'[u].inbox # <<>>)
    <3>1. tab[u] \in TabStates /\ ~Seen(tab[u], "renewal")
      BY <1>2, NothingSeen DEF PortalTypes
    <3>2. CASE tab[u].pc \in {"closed", "away"}
      BY <1>6, <3>1, <3>2 DEF Told, Waits
    <3>3. CASE tab[u].pc \notin {"closed", "away"}
      BY <1>6, <3>1, <3>3, SeenTold DEF Messages
    <3> QED BY <3>2, <3>3
  <2> QED BY <1>6, <2>1, <2>2
<1>10. TimersComeBack' /\ CookiesFollow' /\ LockOutlasts'
  BY <1>2, <1>9 DEF TimersComeBack, CookiesFollow, LockOutlasts
<1> QED BY <1>8, <1>10 DEF Calm

LEMMA NewestStep ==
  ASSUME PortalTypes, NewestStored, [Next]_vars
  PROVE  NewestStored'
<1>1. CASE UNCHANGED vars
  BY <1>1 DEF vars, NewestStored
<1>2. ASSUME NEW t \in Tabs,
             \/ OpenPage(t) \/ ReadUser(t) \/ Initialised(t) \/ RunEffects(t)
             \/ SilentSignInFails(t) \/ Leave(t) \/ Return(t) \/ Close(t)
             \/ Expiring(t) \/ RenewFails(t) \/ CooldownEnds(t) \/ HearRenewal(t)
             \/ SignOut(t) \/ SignOutFails(t)
      PROVE  NewestStored'
  <2>1. UNCHANGED <<store, serial>>
    BY <1>2 DEF OpenPage, ReadUser, Initialised, RunEffects, SilentSignInFails, Leave,
                Return, Close, Expiring, RenewFails, CooldownEnds, HearRenewal, SignOut,
                SignOutFails
  <2> QED BY <2>1 DEF NewestStored
<1>3. ASSUME NEW t \in Tabs, SilentSignIn(t) \/ SignedIn(t) \/ Renew(t)
      PROVE  NewestStored'
  BY <1>3 DEF SilentSignIn, SignedIn, Renew, Issued, NewestStored
<1>4. ASSUME NEW t \in Tabs, HearLogout(t) \/ LogOut(t)
      PROVE  NewestStored'
  BY <1>4 DEF HearLogout, LogOut, NewestStored
<1> QED BY <1>1, <1>2, <1>3, <1>4 DEF Next

\* A race is never forgotten, so what was calm before the step was calm.
LEMMA PortalStep == PortalInv /\ [Next]_vars => PortalInv'
<1> SUFFICES ASSUME PortalInv, [Next]_vars PROVE PortalInv'
  OBVIOUS
<1>1. PortalTypes /\ PortalTypes' /\ NewestStored /\ NewestStored'
  BY TypesStep, NewestStep DEF PortalInv
<1>2. ASSUME ~raced' PROVE Calm'
  <2>1. CASE UNCHANGED vars
    BY <1>2, <2>1 DEF vars, PortalInv, Calm, TimersComeBack, CookiesFollow, OldCookie,
                      LockOutlasts
  <2>2. ASSUME NEW t \in Tabs,
               \/ OpenPage(t) \/ ReadUser(t) \/ Initialised(t) \/ RunEffects(t)
               \/ SilentSignIn(t) \/ SilentSignInFails(t) \/ Leave(t) \/ Return(t)
               \/ SignedIn(t) \/ Close(t) \/ Expiring(t) \/ Renew(t) \/ RenewFails(t)
               \/ CooldownEnds(t) \/ HearRenewal(t) \/ HearLogout(t) \/ LogOut(t)
               \/ SignOut(t) \/ SignOutFails(t)
        PROVE  Calm'
    <3>1. ~raced
      BY <1>2, <2>2
         DEF OpenPage, ReadUser, Initialised, RunEffects, SilentSignIn, SilentSignInFails,
             Leave, Return, SignedIn, Close, Expiring, Renew, RenewFails, CooldownEnds,
             HearRenewal, HearLogout, LogOut, SignOut, SignOutFails, Race
    <3>2. Calm
      BY <3>1 DEF PortalInv
    <3> QED BY <1>1, <1>2, <2>2, <3>2, PagesCalm, RunEffectsCalm, HearLogoutCalm,
               SignInCalm, UnloadedCalm, ExpiringCalm, RenewCalm, LockFreeCalm, LogOutCalm
  <2> QED BY <2>1, <2>2 DEF Next
<1> QED BY <1>1, <1>2 DEF PortalInv

LEMMA PortalAlways == Spec => []PortalInv
<1>1. Init => PortalInv
  BY TypesInit, CalmInit DEF PortalInv, Init, NewestStored
<1> QED BY <1>1, PortalStep, PTL DEF Spec

-----------------------------------------------------------------------------
(* What the invariant is for *)

\* Once all is settled a tab has no message and nothing to write.
LEMMA SettledTab ==
  ASSUME PortalTypes, Calm, Settled, NEW t \in Tabs
  PROVE  /\ tab[t] \in TabStates /\ Fits(tab[t], store)
         /\ tab[t].inbox = <<>> /\ ~tab[t].sync
         /\ tab[t].pc \in {"closed", "away", "here"}
         /\ tab[t].silent \in {"none", "cooldown"}
         /\ ~Writes(tab[t]) /\ \A x : ~Seen(tab[t], x)
<1>1. /\ tab[t].inbox = <<>> /\ ~tab[t].sync /\ tab[t].pc # "read"
      /\ tab[t].pc \notin {"opening", "callback", "leaving", "signing out"}
      /\ tab[t].silent \in {"none", "cooldown"}
  BY DEF Settled, Pending
<1>2. tab[t] \in TabStates /\ Fits(tab[t], store)
  BY CalmHere
<1>3. tab[t].pc \in {"closed", "away", "here"}
  BY <1>1, <1>2 DEF TabStates, Pcs
<1> QED BY <1>1, <1>2, <1>3, NothingSeen DEF Writes

\* Each tab that shows the portal, however many there are, is left with a timer for the
\* newest token: whoever renewed has told it, and it set its timer again.
THEOREM ArmedAlways == Spec => []ArmedForNewest
<1>1. PortalInv => ArmedForNewest
  <2> SUFFICES ASSUME PortalInv, Settled, "renewing" \notin failed, ~raced,
                      NEW t \in Tabs, tab[t].pc = "here"
               PROVE  tab[t].armed = store /\ tab[t].armed # None
    BY DEF ArmedForNewest
  <2>1. PortalTypes /\ Calm
    BY DEF PortalInv
  <2>2. /\ Fits(tab[t], store) /\ tab[t].inbox = <<>> /\ ~tab[t].sync
        /\ \A u \in Tabs : tab[u].silent \in {"none", "cooldown"}
    BY <2>1, SettledTab
  <2>3. tab[t].user # None
    BY <2>2 DEF Fits, EffectsFit
  <2>4. tab[t].armed # None
    BY <2>1, <2>2, <2>3 DEF Calm, TimersComeBack, Waits, Held
  <2>5. tab[t].armed \in {None, store}
    BY <2>2 DEF Fits, UserFits
  <2> QED BY <2>4, <2>5
<1> QED BY <1>1, PortalAlways, PTL

\* Whatever the order in which the tabs write and remove the cookies they share, and however
\* often their effects run again, the last to write has the newest token, or its page heard
\* of a renewal only and has the user of before.
THEOREM CookieAlways == Spec => []CookieNewest
<1>1. PortalInv => CookieNewest
  <2> SUFFICES ASSUME PortalInv, Settled, ~raced PROVE cookie = store \/ OldCookie
    BY DEF CookieNewest, OldCookie
  <2>1. PortalTypes /\ Calm
    BY DEF PortalInv
  <2>2. \A t \in Tabs : ~Writes(tab[t]) /\ ~Seen(tab[t], "logout")
    BY <2>1, SettledTab
  <2> QED BY <2>1, <2>2 DEF Calm, CookiesFollow
<1> QED BY <1>1, PortalAlways, PTL

\* Once the stored user is gone and all is settled, no tab has a user, a timer or the
\* portal on its page, and the cookies are removed.
THEOREM LogoutAlways == Spec => []LogoutReachesAll
<1>1. PortalInv => LogoutReachesAll
  <2> SUFFICES ASSUME PortalInv, Settled, ~raced, store = None
               PROVE  /\ cookie = None
                      /\ \A t \in Tabs : /\ tab[t].user = None /\ tab[t].armed = None
                                         /\ tab[t].pc # "here"
    BY DEF LogoutReachesAll
  <2>1. PortalTypes /\ Calm
    BY DEF PortalInv
  <2>2. cookie = None
    <3>1. \A t \in Tabs : ~Writes(tab[t]) /\ ~Seen(tab[t], "logout")
      BY <2>1, SettledTab
    <3>2. ~OldCookie
      <4>1. cookie \in Nat
        BY <2>1, TypesSplit DEF Typed
      <4> QED BY <4>1 DEF OldCookie, None
    <3> QED BY <2>1, <3>1, <3>2 DEF Calm, CookiesFollow
  <2>3. ASSUME NEW t \in Tabs
        PROVE  tab[t].user = None /\ tab[t].armed = None /\ tab[t].pc # "here"
    <3>1. /\ Fits(tab[t], None) /\ tab[t].inbox = <<>> /\ ~tab[t].sync
          /\ tab[t].pc \in {"closed", "away", "here"}
          /\ tab[t].silent \in {"none", "cooldown"} /\ ~Seen(tab[t], "logout")
      BY <2>1, SettledTab
    <3>2. tab[t].user = None
      BY <3>1 DEF Fits, UserFits, Held
    <3>3. tab[t].armed = None
      BY <3>1 DEF Fits, UserFits
    <3>4. tab[t].pc # "here"
      BY <3>1, <3>2 DEF Fits, EffectsFit
    <3> QED BY <3>2, <3>3, <3>4
  <2> QED BY <2>2, <2>3
<1> QED BY <1>1, PortalAlways, PTL

\* Only a timer makes a tab renew.
LEMMA RenewalStarts ==
  ASSUME PortalTypes, [Next]_vars, NEW t \in Tabs,
         tab[t].silent # "renewing", tab'[t].silent = "renewing"
  PROVE  Expiring(t) /\ lock = NoTab
<1>1. CASE UNCHANGED vars
  BY <1>1 DEF vars
<1>2. ASSUME NEW u \in Tabs,
             \/ OpenPage(u) \/ ReadUser(u) \/ Initialised(u) \/ SilentSignIn(u)
             \/ SilentSignInFails(u) \/ Return(u) \/ SignedIn(u) \/ RenewFails(u)
             \/ CooldownEnds(u) \/ HearRenewal(u) \/ HearLogout(u) \/ SignOutFails(u)
      PROVE  FALSE
  <2>1. PICK r : /\ Becomes(u, r)
                 /\ r.silent \in {tab[u].silent, "none"}
    <3>1. tab[u] \in TabStates
      BY DEF PortalTypes
    <3>2. CASE OpenPage(u)
      <4>1. [tab[u] EXCEPT !.pc = "opening"].silent = tab[u].silent
        BY <3>1 DEF TabStates
      <4> QED BY <3>2, <4>1, Effects
    <3>3. CASE ReadUser(u)
      <4> DEFINE r == [tab[u] EXCEPT !.pc = "read", !.got = store,
                         !.armed = IF store = None THEN @ ELSE store]
      <4>1. r.silent = tab[u].silent
        BY <3>1 DEF TabStates
      <4>2. Becomes(u, r)
        BY <3>3, Effects
      <4> HIDE DEF r
      <4> QED BY <4>1, <4>2
    <3>4. CASE Initialised(u)
      <4> DEFINE r == [tab[u] EXCEPT !.pc = "here", !.user = tab[u].got, !.got = None,
                         !.sync = TRUE]
      <4>1. r.silent = tab[u].silent
        BY <3>1 DEF TabStates
      <4>2. Becomes(u, r)
        BY <3>4, Effects
      <4> HIDE DEF r
      <4> QED BY <4>1, <4>2
    <3>5. CASE SilentSignIn(u)
      <4> DEFINE r == [tab[u] EXCEPT !.user = serial', !.armed = serial', !.sync = TRUE,
                         !.silent = "none"]
      <4>1. r.silent = "none"
        BY <3>1 DEF TabStates
      <4>2. Becomes(u, r)
        BY <3>5, Effects
      <4> HIDE DEF r
      <4> QED BY <4>1, <4>2
    <3>6. CASE SilentSignInFails(u)
      <4> DEFINE r == [tab[u] EXCEPT !.silent = "none", !.pc = "leaving"]
      <4>1. r.silent = "none"
        BY <3>1 DEF TabStates
      <4>2. Becomes(u, r)
        BY <3>6, Effects
      <4> HIDE DEF r
      <4> QED BY <4>1, <4>2
    <3>7. CASE Return(u)
      <4> DEFINE r == [tab[u] EXCEPT !.pc = "callback"]
      <4>1. r.silent = tab[u].silent
        BY <3>1 DEF TabStates
      <4>2. Becomes(u, r)
        BY <3>7, Effects
      <4> HIDE DEF r
      <4> QED BY <4>1, <4>2
    <3>8. CASE SignedIn(u)
      <4> DEFINE r == [tab[u] EXCEPT !.pc = "read", !.got = serial', !.armed = serial',
                         !.mark = FALSE]
      <4>1. r.silent = tab[u].silent
        BY <3>1 DEF TabStates
      <4>2. Becomes(u, r)
        BY <3>8, Effects
      <4> HIDE DEF r
      <4> QED BY <4>1, <4>2
    <3>9. CASE RenewFails(u) \/ CooldownEnds(u)
      <4> DEFINE r == [tab[u] EXCEPT !.silent = "none"]
      <4>1. r.silent = "none"
        BY <3>1 DEF TabStates
      <4>2. Becomes(u, r)
        BY <3>9, Effects
      <4> HIDE DEF r
      <4> QED BY <4>1, <4>2
    <3>10. CASE HearRenewal(u)
      <4> DEFINE r == [tab[u] EXCEPT !.inbox = Tail(@),
                         !.armed = IF store = None THEN @ ELSE store]
      <4>1. r.silent = tab[u].silent
        BY <3>1 DEF TabStates
      <4>2. Becomes(u, r)
        BY <3>10, Effects
      <4> HIDE DEF r
      <4> QED BY <4>1, <4>2
    <3>11. CASE HearLogout(u)
      <4> DEFINE r == [tab[u] EXCEPT !.inbox = Tail(@), !.mark = TRUE, !.user = None,
                         !.armed = None, !.sync = TRUE]
      <4>1. r.silent = tab[u].silent
        BY <3>1 DEF TabStates
      <4>2. Becomes(u, r)
        BY <3>11, Effects
      <4> HIDE DEF r
      <4> QED BY <4>1, <4>2
    <3>12. CASE SignOutFails(u)
      <4> DEFINE r == [tab[u] EXCEPT !.pc = "leaving"]
      <4>1. r.silent = tab[u].silent
        BY <3>1 DEF TabStates
      <4>2. Becomes(u, r)
        BY <3>12, Effects
      <4> HIDE DEF r
      <4> QED BY <4>1, <4>2
    <3> QED BY <1>2, <3>2, <3>3, <3>4, <3>5, <3>6, <3>7, <3>8, <3>9, <3>10, <3>11, <3>12
  <2> QED BY <2>1 DEF Becomes
<1>3. ASSUME NEW u \in Tabs, Renew(u) \/ LogOut(u)
      PROVE  FALSE
  <2>1. PICK r, m : Tells(u, r, m) /\ r.silent \in {tab[u].silent, "cooldown"}
    <3>1. tab[u] \in TabStates
      BY DEF PortalTypes
    <3>2. CASE Renew(u)
      <4> DEFINE r == [tab[u] EXCEPT !.user = serial', !.armed = serial', !.sync = TRUE,
                         !.silent = "cooldown"]
      <4>1. r.silent = "cooldown"
        BY <3>1 DEF TabStates
      <4>2. Tells(u, r, "renewal")
        BY <3>2, Effects
      <4> HIDE DEF r
      <4> QED BY <4>1, <4>2
    <3>3. CASE LogOut(u)
      <4> DEFINE r == [tab[u] EXCEPT !.pc = "signing out", !.user = None, !.armed = None,
                         !.mark = TRUE, !.sync = TRUE]
      <4>1. r.silent = tab[u].silent
        BY <3>1 DEF TabStates
      <4>2. Tells(u, r, "logout")
        BY <3>3, Effects
      <4> HIDE DEF r
      <4> QED BY <4>1, <4>2
    <3> QED BY <1>3, <3>2, <3>3
  <2>2. tab[t] \in TabStates => Told(tab[t], m).silent = tab[t].silent
    BY DEF Told, TabStates
  <2> QED BY <2>1, <2>2 DEF Tells, PortalTypes
<1>4. ASSUME NEW u \in Tabs, RunEffects(u)
      PROVE  FALSE
  <2> DEFINE out == tab[u].pc = "here" /\ tab[u].user = None /\ tab[u].silent # "signing in"
             r == [tab[u] EXCEPT !.sync = FALSE,
                     !.pc = IF out /\ tab[u].mark THEN "leaving" ELSE @,
                     !.silent = IF out /\ ~tab[u].mark /\ @ = "none" THEN "signing in"
                                                                    ELSE @]
  <2>1. tab[u] \in TabStates
    BY DEF PortalTypes
  <2>2. r.silent \in {tab[u].silent, "signing in"}
    BY <2>1 DEF TabStates
  <2>3. Becomes(u, r)
    BY <1>4, EffectsOfChange
  <2> HIDE DEF r
  <2> QED BY <2>2, <2>3 DEF Becomes
<1>5. ASSUME NEW u \in Tabs, Leave(u) \/ Close(u) \/ SignOut(u)
      PROVE  FALSE
  <2>1. PICK p \in {"closed", "away"} : Unloaded(u, p)
    BY <1>5 DEF Leave, Close, SignOut
  <2>2. PICK m \in BOOLEAN : Becomes(u, [Closed EXCEPT !.pc = p, !.mark = m])
    BY <2>1, UnloadedBecomes
  <2>3. [Closed EXCEPT !.pc = p, !.mark = m].silent = "none"
    BY DEF Closed
  <2> QED BY <2>2, <2>3 DEF Becomes
<1>6. ASSUME NEW u \in Tabs, Expiring(u)
      PROVE  Expiring(t) /\ lock = NoTab
  <2> DEFINE r == [tab[u] EXCEPT !.armed = None,
                     !.silent = IF lock = NoTab THEN "renewing" ELSE @]
  <2>1. tab[u] \in TabStates
    BY DEF PortalTypes
  <2>2. lock # NoTab => r.silent = tab[u].silent
    BY <2>1 DEF TabStates
  <2>3. Becomes(u, r)
    BY <1>6, TimerFires
  <2> HIDE DEF r
  <2>4. u = t
    BY <2>3 DEF Becomes
  <2> QED BY <1>6, <2>2, <2>3, <2>4 DEF Becomes
<1> QED BY <1>1, <1>2, <1>3, <1>4, <1>5, <1>6 DEF Next

\* A tab that starts to renew has the lock, so no message of an earlier renewal is on its
\* way any more and its timer is the one of the newest token.
THEOREM NewestRenewed == Spec => RenewsNewest
<1>1. ASSUME PortalInv, [Next]_vars, NEW t \in Tabs,
             tab[t].silent # "renewing", tab'[t].silent = "renewing",
             ~raced', failed = {}
      PROVE  tab[t].armed = store
  <2>1. PortalTypes
    BY <1>1 DEF PortalInv
  <2>2. Expiring(t) /\ lock = NoTab
    BY <1>1, <2>1, RenewalStarts
  <2>3. ~raced /\ ~Seen(tab[t], "logout")
    BY <1>1, <2>2 DEF Expiring, Race, Unread, Seen
  <2>4. Calm
    BY <1>1, <2>3 DEF PortalInv
  <2>5. ~Seen(tab[t], "renewal")
    BY <1>1, <2>2, <2>4 DEF Calm, LockOutlasts
  <2>6. tab[t] \in TabStates /\ Fits(tab[t], store)
    BY <2>1, <2>4, CalmHere
  <2>7. tab[t].inbox = <<>>
    BY <2>3, <2>5, <2>6, SeenOrEmpty
  <2>8. tab[t].armed # None
    BY <2>2 DEF Expiring
  <2> QED BY <2>6, <2>7, <2>8 DEF Fits, UserFits
<1>2. PortalInv /\ [Next]_vars =>
        [\A t \in Tabs :
           tab[t].silent # "renewing" /\ tab'[t].silent = "renewing"
             /\ ~raced' /\ failed = {} => tab[t].armed = store]_vars
  BY <1>1
<1> QED BY <1>2, PortalAlways, PTL DEF Spec, RenewsNewest

=============================================================================

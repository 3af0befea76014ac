---------------------------- MODULE LogoutProofs ----------------------------
(***************************************************************************)
(* What holds of LogoutDialog for any number of sessions, pages of any size, *)
(* any number of calls at a time and any delay.                             *)
(***************************************************************************)
EXTENDS LogoutDialog, FiniteSetTheorems, SequenceTheorems, TLAPS

Busy == {"counting", "reading", "terminating"}

\* The countdown runs only when everything has been settled, and the user is logged out
\* only when nothing is under way.
TokensInv ==
  /\ dialog = [state |-> dialog.state, page |-> dialog.page, total |-> dialog.total]
  /\ seconds \in Int
  /\ seconds # -1 => dialog.state = "success"
  /\ TokensWhileEnding

\* The row says that s ended, or said so until a handler overwrote it.
Ended(s) == row[s] \in {"ended", "purged"} \/ s \in revived

\* As long as no call failed, the stream of a session that ended is over, or others left
\* it behind, and what the dialog shows is what the row says or said.
EndedInv ==
  /\ row \in [Sessions -> {"none", "alive", "ended", "purged"}]
  /\ result \in [Sessions -> {"none", "terminated", "failed"}]
  /\ failed \in Nat
  /\ leftover \subseteq Sessions /\ revived \subseteq AliveRows
  /\ failed = 0 => \A s \in Sessions : Ended(s) => s \notin nvcf \/ s \in leftover
  /\ \A s \in Sessions : result[s] = "terminated" => Ended(s)

\* What others do to a session.
Other(s) ==
  \/ EndsElsewhere(s) \/ MarkedElsewhere(s) \/ GoneElsewhere(s)
  \/ Revive(s) \/ StartsElsewhere(s) \/ Purge(s)

\* They leave the dialog alone.
LEMMA OthersKeepDialog ==
  ASSUME NEW s \in Sessions, Other(s)
  PROVE  UNCHANGED <<dialog, alive, job, result, failed, seconds, logout, auto, before>>
BY DEF Other, EndsElsewhere, MarkedElsewhere, GoneElsewhere, Revive, StartsElsewhere, Purge,
       Elsewhere

-----------------------------------------------------------------------------
(* The tokens *)

LEMMA TokensInit == Init => TokensInv
BY DEF Init, TokensInv, TokensWhileEnding

\* The calls leave the dialog and the logout alone.
LEMMA CallsKeepDialog ==
  ASSUME NEW i \in DOMAIN job, Call(i)
  PROVE  UNCHANGED <<dialog, seconds, logout>>
BY DEF Call, Ask, Receive, Deleted, Refused, NoAnswer, NotSent, DialogUnchanged

LEMMA TokensStep == TokensInv /\ [Next]_vars => TokensInv'
<1> SUFFICES ASSUME TokensInv, [Next]_vars PROVE TokensInv'
  OBVIOUS
<1> USE DEF TokensInv, TokensWhileEnding
<1>1. CASE EndSessions
  BY <1>1 DEF EndSessions
<1>2. CASE Listing
  <2>1. CASE CountRows
    BY <2>1 DEF CountRows
  <2>2. CASE ReadPage
    BY <2>2 DEF ReadPage
  <2>3. CASE ListFails
    BY <2>3 DEF ListFails
  <2> QED BY <1>2, <2>1, <2>2, <2>3 DEF Listing
<1>3. CASE \E i \in DOMAIN job : Call(i)
  BY <1>3, CallsKeepDialog
<1>4. CASE Leaving
  <2>1. CASE AllSettled
    <3>1. dialog' = [state |-> "success", page |-> dialog.page, total |-> dialog.total]
      BY <2>1 DEF AllSettled
    <3>2. seconds' \in Int
      BY <2>1, LogoutAssumption DEF AllSettled, LogoutAssumption
    <3> QED BY <3>1, <3>2
  <2>2. CASE Countdown
    BY <2>2 DEF Countdown
  <2>3. CASE Elapsed
    BY <2>3 DEF Elapsed
  <2>4. CASE RemoveUser
    BY <2>4 DEF RemoveUser
  <2> QED BY <1>4, <2>1, <2>2, <2>3, <2>4 DEF Leaving
<1>5. CASE ClickLogOut
  BY <1>5 DEF ClickLogOut
<1>6. CASE \E s \in Sessions : Other(s)
  BY <1>6, OthersKeepDialog
<1>7. CASE UNCHANGED vars
  BY <1>7 DEF vars
<1> QED BY <1>1, <1>2, <1>3, <1>4, <1>5, <1>6, <1>7 DEF Next, Other

\* No request of the dialog is made without the tokens, whatever is clicked and
\* whenever the timers fire.
THEOREM TokensStay == Spec => []TokensWhileEnding
<1>1. TokensInv => TokensWhileEnding
  BY DEF TokensInv
<1> QED BY <1>1, TokensInit, TokensStep, PTL DEF Spec

-----------------------------------------------------------------------------
(* What is shown *)

LEMMA EndedInit == Init => EndedInv
<1> SUFFICES ASSUME Init PROVE EndedInv
  OBVIOUS
<1>1. row \in [Sessions -> {"none", "alive", "ended", "purged"}]
  BY DEF Init
<1>2. leftover \subseteq Sessions /\ revived = {} /\ nvcf = AliveRows \union leftover
  BY DEF Init
<1>3. \A s \in Sessions : Ended(s) => s \notin nvcf \/ s \in leftover
  BY <1>2 DEF Ended, AliveRows
<1> QED BY <1>1, <1>2, <1>3 DEF Init, EndedInv

\* A call that failed is counted, and what it says is not that the session ended.
LEMMA SettleFailed ==
  ASSUME EndedInv, NEW i, Settle(i, "failed")
  PROVE  /\ failed' \in Nat /\ failed' # 0
         /\ result' \in [Sessions -> {"none", "terminated", "failed"}]
         /\ \A s \in Sessions : result'[s] = "terminated" => result[s] = "terminated"
<1>1. failed' = failed + 1
  BY DEF Settle
<1>2. result' = [result EXCEPT ![alive[i]] = "failed"]
  BY DEF Settle
<1>3. failed \in Nat /\ result \in [Sessions -> {"none", "terminated", "failed"}]
  BY DEF EndedInv
<1>4. failed' \in Nat /\ failed' # 0
  BY <1>1, <1>3
<1> QED BY <1>2, <1>3, <1>4

\* Nothing happened to the rows and the streams, or session s is over.
Ends(s) ==
  \/ SessionsUnchanged
  \/ EndRow(s) /\ (EndStream(s) \/ UNCHANGED <<nvcf, leftover>>)
  \/ EndStream(s) /\ UNCHANGED <<row, revived>>

\* What has ended stays so.
LEMMA EndsKeeps ==
  ASSUME EndedInv, NEW s \in Sessions, Ends(s)
  PROVE  /\ row' \in [Sessions -> {"none", "alive", "ended", "purged"}]
         /\ leftover' \subseteq Sessions /\ revived' \subseteq AliveRows'
         /\ \A r \in Sessions : Ended(r) => Ended(r)'
<1>1. /\ row \in [Sessions -> {"none", "alive", "ended", "purged"}]
      /\ leftover \subseteq Sessions /\ revived \subseteq AliveRows
  BY DEF EndedInv
<1>2. leftover' \subseteq Sessions
  BY <1>1 DEF Ends, SessionsUnchanged, EndStream
<1>3. CASE EndRow(s)
  <2>1. /\ row' = [row EXCEPT ![s] = IF @ = "purged" THEN @ ELSE "ended"]
        /\ revived' = revived \ {s}
    BY <1>3 DEF EndRow
  <2>2. /\ row' \in [Sessions -> {"none", "alive", "ended", "purged"}]
        /\ \A r \in Sessions : r # s => row'[r] = row[r]
        /\ row'[s] \in {"ended", "purged"}
    BY <1>1, <2>1
  <2>3. revived' \subseteq AliveRows'
    BY <1>1, <2>1, <2>2 DEF AliveRows
  <2>4. ASSUME NEW r \in Sessions, Ended(r)
        PROVE  Ended(r)'
    <3>1. CASE r = s
      BY <2>2, <3>1 DEF Ended
    <3>2. CASE r # s
      <4>1. row'[r] = row[r] /\ (r \in revived => r \in revived')
        BY <2>1, <2>2, <3>2
      <4> QED BY <2>4, <4>1 DEF Ended
    <3> QED BY <3>1, <3>2
  <2> QED BY <2>2, <2>3, <2>4, <1>2
<1>4. CASE UNCHANGED <<row, revived>>
  <2>1. row' = row /\ revived' = revived
    BY <1>4
  <2>2. AliveRows' = AliveRows
    BY <2>1 DEF AliveRows
  <2>3. \A r \in Sessions : Ended(r)' <=> Ended(r)
    BY <2>1 DEF Ended
  <2> QED BY <1>1, <1>2, <2>1, <2>2, <2>3
<1> QED BY <1>2, <1>3, <1>4 DEF Ends, SessionsUnchanged

LEMMA CallEnds ==
  ASSUME EndedInv, NEW i \in DOMAIN job, Call(i)
  PROVE  Ends(alive[i])
BY DEF Call, Ask, Receive, Deleted, Refused, NoAnswer, NotSent, Ends, SessionsUnchanged

\* A call that fails.
LEMMA EndedFails ==
  ASSUME EndedInv, NEW i \in DOMAIN job, alive[i] \in Sessions,
         Ends(alive[i]), Settle(i, "failed")
  PROVE  EndedInv'
<1>1. /\ failed' \in Nat /\ failed' # 0
      /\ result' \in [Sessions -> {"none", "terminated", "failed"}]
      /\ \A s \in Sessions : result'[s] = "terminated" => result[s] = "terminated"
  BY SettleFailed
<1>2. \A s \in Sessions : result[s] = "terminated" => Ended(s)
  BY DEF EndedInv
<1>3. /\ row' \in [Sessions -> {"none", "alive", "ended", "purged"}]
      /\ leftover' \subseteq Sessions /\ revived' \subseteq AliveRows'
      /\ \A r \in Sessions : Ended(r) => Ended(r)'
  BY EndsKeeps
<1>4. \A s \in Sessions : result'[s] = "terminated" => Ended(s)'
  BY <1>1, <1>2, <1>3
<1> QED BY <1>1, <1>3, <1>4 DEF EndedInv

\* Whatever becomes of one call.
LEMMA EndedCall ==
  ASSUME EndedInv, NEW i \in DOMAIN job, alive[i] \in Sessions, Call(i)
  PROVE  EndedInv'
<1>0. Ends(alive[i])
  BY CallEnds
<1>1. /\ row' \in [Sessions -> {"none", "alive", "ended", "purged"}]
      /\ leftover' \subseteq Sessions /\ revived' \subseteq AliveRows'
      /\ \A r \in Sessions : Ended(r) => Ended(r)'
  BY <1>0, EndsKeeps
<1>2. CASE UNCHANGED <<result, failed>> /\ SessionsUnchanged
  <2>1. UNCHANGED <<row, nvcf, leftover, revived, result, failed>>
    BY <1>2 DEF SessionsUnchanged
  <2> QED BY <2>1 DEF EndedInv, Ended, AliveRows
<1>3. CASE Settle(i, "failed")
  BY <1>0, <1>3, EndedFails
<1>4. CASE row[alive[i]] = "ended" /\ Settle(i, "ok") /\ SessionsUnchanged
  <2>1. UNCHANGED <<row, nvcf, leftover, revived, failed>>
    BY <1>4 DEF SessionsUnchanged, Settle
  <2>2. result' = [result EXCEPT ![alive[i]] = "terminated"]
    BY <1>4 DEF Settle
  <2>3. Ended(alive[i])
    BY <1>4 DEF Ended
  <2> QED BY <2>1, <2>2, <2>3 DEF EndedInv, Ended, AliveRows
<1>5. CASE Deleted(i)
  <2>1. /\ EndStream(alive[i]) /\ EndRow(alive[i]) /\ failed' = failed
        /\ result' = [result EXCEPT ![alive[i]] = "terminated"]
    BY <1>5 DEF Deleted, Settle
  <2>2. /\ nvcf' = nvcf \ {alive[i]} /\ leftover' = leftover \ {alive[i]}
    BY <2>1 DEF EndStream
  <2>3. /\ row' = [row EXCEPT ![alive[i]] = IF @ = "purged" THEN @ ELSE "ended"]
        /\ revived' = revived \ {alive[i]}
    BY <2>1 DEF EndRow
  <2>4. row \in [Sessions -> {"none", "alive", "ended", "purged"}]
    BY DEF EndedInv
  <2>5. /\ row'[alive[i]] \in {"ended", "purged"}
        /\ \A s \in Sessions : s # alive[i] => row'[s] = row[s]
    BY <2>3, <2>4
  <2>6. \A s \in Sessions : s # alive[i] => (Ended(s)' <=> Ended(s))
    BY <2>3, <2>5 DEF Ended
  <2>7. failed' = 0 => \A s \in Sessions : Ended(s)' => s \notin nvcf' \/ s \in leftover'
    BY <2>1, <2>2, <2>6 DEF EndedInv
  <2>8. alive' = alive /\ Ended(alive[i])'
    BY <1>5, <2>5 DEF Deleted, DialogUnchanged, Ended
  <2>9. /\ result' \in [Sessions -> {"none", "terminated", "failed"}]
        /\ \A s \in Sessions : s # alive[i] => result'[s] = result[s]
    BY <2>1 DEF EndedInv
  <2>10. \A s \in Sessions : result'[s] = "terminated" => Ended(s)'
    BY <1>1, <2>8, <2>9 DEF EndedInv
  <2> QED BY <1>1, <2>1, <2>7, <2>9, <2>10 DEF EndedInv
<1>6. Ask(i) \/ Receive(i) => \/ UNCHANGED <<result, failed>> /\ SessionsUnchanged
                              \/ Settle(i, "failed")
                              \/ row[alive[i]] = "ended" /\ Settle(i, "ok")
                                 /\ SessionsUnchanged
  <2>1. Ask(i) => UNCHANGED <<result, failed>> /\ SessionsUnchanged
    BY DEF Ask
  <2>2. CASE Receive(i)
    <3>1. SessionsUnchanged
      BY <2>2 DEF Receive
    <3>2. \/ Settle(i, "failed")
          \/ row[alive[i]] = "ended" /\ Settle(i, "ok")
          \/ UNCHANGED <<result, failed>>
      BY <2>2 DEF Receive
    <3> QED BY <3>1, <3>2
  <2> QED BY <2>1, <2>2
<1>7. Refused(i) \/ NoAnswer(i) \/ NotSent(i) => Settle(i, "failed")
  BY DEF Refused, NoAnswer, NotSent
<1> QED BY <1>2, <1>3, <1>4, <1>5, <1>6, <1>7 DEF Call

\* Whatever others do: only a session that was not there is started, and a stream is left
\* behind by no one else.
LEMMA EndedOther ==
  ASSUME EndedInv, NEW s \in Sessions, Other(s)
  PROVE  /\ EndedInv'
         /\ \A r \in Sessions : Ended(r) => Ended(r)'
<1>0. /\ row \in [Sessions -> {"none", "alive", "ended", "purged"}]
      /\ leftover \subseteq Sessions /\ revived \subseteq AliveRows
  BY DEF EndedInv
<1>1. result' = result /\ failed' = failed
  BY OthersKeepDialog
<1>2. /\ row' \in [Sessions -> {"none", "alive", "ended", "purged"}]
      /\ \A r \in Sessions : r # s => row'[r] = row[r]
      /\ \A r : r # s => (r \in revived' <=> r \in revived)
      /\ \A r : r # s => (r \in nvcf' <=> r \in nvcf) /\ (r \in leftover' <=> r \in leftover)
  BY <1>0 DEF Other, EndsElsewhere, MarkedElsewhere, GoneElsewhere, Revive, StartsElsewhere,
              Purge, EndRow, EndStream
<1>3. \A r \in Sessions : r # s => (Ended(r)' <=> Ended(r))
  BY <1>2 DEF Ended
<1>4. /\ s \in revived' => row'[s] = "alive"
      /\ Ended(s) => Ended(s)'
      /\ (Ended(s) => s \notin nvcf \/ s \in leftover) =>
           (Ended(s)' => s \notin nvcf' \/ s \in leftover')
  <2>1. CASE EndsElsewhere(s)
    BY <1>0, <2>1 DEF EndsElsewhere, EndRow, EndStream, Ended
  <2>2. CASE MarkedElsewhere(s)
    BY <1>0, <2>2 DEF MarkedElsewhere, EndRow, Ended
  <2>3. CASE GoneElsewhere(s)
    BY <1>0, <2>3 DEF GoneElsewhere, EndStream, Ended, AliveRows
  <2>4. CASE Revive(s)
    BY <1>0, <2>4 DEF Revive, Ended
  <2>5. CASE StartsElsewhere(s)
    <3>1. s \notin revived /\ row'[s] = "alive" /\ revived' = revived
      BY <1>0, <2>5 DEF StartsElsewhere, AliveRows
    <3>2. row[s] = "none"
      BY <2>5 DEF StartsElsewhere
    <3> QED BY <3>1, <3>2 DEF Ended
  <2>6. CASE Purge(s)
    BY <1>0, <2>6 DEF Purge, Ended, AliveRows
  <2> QED BY <2>1, <2>2, <2>3, <2>4, <2>5, <2>6 DEF Other
<1>5. leftover' \subseteq Sessions /\ revived' \subseteq AliveRows'
  BY <1>0, <1>2, <1>4 DEF AliveRows
<1>6. \A r \in Sessions : Ended(r) => Ended(r)'
  BY <1>3, <1>4
<1>7. failed' = 0 => \A r \in Sessions : Ended(r)' => r \notin nvcf' \/ r \in leftover'
  BY <1>1, <1>2, <1>3, <1>4 DEF EndedInv
<1>8. \A r \in Sessions : result'[r] = "terminated" => Ended(r)'
  BY <1>1, <1>6 DEF EndedInv
<1> QED BY <1>1, <1>2, <1>5, <1>6, <1>7, <1>8 DEF EndedInv

\* The steps that are neither a call nor those of others.
Alone == EndSessions \/ Listing \/ Leaving \/ ClickLogOut \/ UNCHANGED vars

LEMMA AloneKeeps ==
  ASSUME Alone
  PROVE  UNCHANGED <<row, nvcf, leftover, revived, result, failed>>
BY DEF Alone, EndSessions, Listing, CountRows, ReadPage, ListFails, Leaving, AllSettled,
       Countdown, Elapsed, RemoveUser, ClickLogOut, SessionsUnchanged, vars

\* The calls are of listed sessions.
ListTyped == \A i \in DOMAIN job : alive[i] \in Sessions

LEMMA EndedStep ==
  ASSUME EndedInv, ListTyped, [Next]_vars
  PROVE  EndedInv' /\ \A s \in Sessions : Ended(s) => Ended(s)'
<1>1. CASE Alone
  <2>1. UNCHANGED <<row, nvcf, leftover, revived, result, failed>>
    BY <1>1, AloneKeeps
  <2> QED BY <2>1 DEF EndedInv, Ended, AliveRows
<1>2. ASSUME NEW i \in DOMAIN job, Call(i)
      PROVE  EndedInv' /\ \A s \in Sessions : Ended(s) => Ended(s)'
  <2>1. alive[i] \in Sessions
    BY DEF ListTyped
  <2> QED BY <1>2, <2>1, EndedCall, CallEnds, EndsKeeps
<1>3. ASSUME NEW s \in Sessions, Other(s)
      PROVE  EndedInv' /\ \A r \in Sessions : Ended(r) => Ended(r)'
  BY <1>3, EndedOther
<1> QED BY <1>1, <1>2, <1>3 DEF Next, Alone, Other

-----------------------------------------------------------------------------
(* Pages *)

\* A finite set of numbers has an enumeration from the greatest to the least: the
\* number of elements that are at least x is the place of x.
LEMMA Enumerable ==
  ASSUME NEW S \in SUBSET Int, IsFiniteSet(S)
  PROVE  \E q \in [1 .. Cardinality(S) -> S] :
           \A i, j \in DOMAIN q : i < j => q[i] > q[j]
<1> DEFINE n == Cardinality(S)
           From(x) == {r \in S : r >= x}
           place == [x \in S |-> Cardinality(From(x))]
<1>0. \A x \in S : x \in Int
  OBVIOUS
<1>1. n \in Nat
  BY FS_CardinalityType
<1>2. ASSUME NEW x \in S
      PROVE  IsFiniteSet(From(x)) /\ place[x] \in 1 .. n
  <2>1. From(x) \in SUBSET S /\ x \in From(x)
    OBVIOUS
  <2>2. IsFiniteSet(From(x)) /\ Cardinality(From(x)) <= n
    BY <2>1, FS_Subset
  <2>3. Cardinality(From(x)) \in Nat /\ Cardinality(From(x)) # 0
    BY <2>1, <2>2, FS_CardinalityType, FS_EmptySet
  <2> QED BY <1>1, <2>2, <2>3
<1>3. ASSUME NEW x \in S, NEW y \in S, x < y
      PROVE  place[y] < place[x]
  <2>0. x \in Int /\ y \in Int /\ x < y
    BY <1>0, <1>3
  <2>1. From(y) \in SUBSET From(x) /\ x \in From(x) /\ x \notin From(y)
    <3>1. \A r \in S : r >= y => r >= x
      BY <1>0, <2>0
    <3>2. x >= x /\ ~(x >= y)
      BY <2>0
    <3> QED BY <3>1, <3>2
  <2>2. Cardinality(From(y)) <= Cardinality(From(x))
    BY <1>2, <2>1, FS_Subset
  <2>3. Cardinality(From(x)) # Cardinality(From(y))
    BY <1>2, <2>1, FS_Subset
  <2>4. Cardinality(From(x)) \in Nat /\ Cardinality(From(y)) \in Nat
    BY <1>2, FS_CardinalityType
  <2> QED BY <2>2, <2>3, <2>4
<1>4. place \in [S -> 1 .. n]
  BY <1>2
<1> HIDE DEF place, n
<1>5. \A x, y \in S : place[x] = place[y] => x = y
  BY <1>3, <1>4
<1>6. place \in Injection(S, 1 .. n)
  BY <1>4, <1>5 DEF Injection, IsInjective
<1>7. IsFiniteSet(1 .. n) /\ Cardinality(1 .. n) = n
  BY <1>1, FS_Interval
<1>8. place \in Surjection(S, 1 .. n)
  BY <1>6, <1>7, FS_Injection DEF n
<1>9. \A i \in 1 .. n : \E x \in S : place[x] = i
  BY <1>8 DEF Surjection
<1> DEFINE q == [i \in 1 .. n |-> CHOOSE x \in S : place[x] = i]
<1>10. \A i \in 1 .. n : q[i] \in S /\ place[q[i]] = i
  BY <1>9
<1>11. q \in [1 .. n -> S] /\ DOMAIN q = 1 .. n
  BY <1>10
<1> HIDE DEF q
<1>12. ASSUME NEW i \in 1 .. n, NEW j \in 1 .. n, i < j
       PROVE  q[i] > q[j]
  <2>1. q[i] \in S /\ q[j] \in S /\ place[q[i]] = i /\ place[q[j]] = j
    BY <1>10
  <2>2. q[i] # q[j]
    BY <2>1, <1>12
  <2>3. ~(q[i] < q[j])
    <3>1. q[i] < q[j] => place[q[j]] < place[q[i]]
      BY <2>1, <1>3
    <3>2. ~(j < i)
      BY <1>1, <1>12
    <3> QED BY <2>1, <3>1, <3>2
  <2>4. q[i] \in Int /\ q[j] \in Int
    BY <1>0, <2>1
  <2> QED BY <2>2, <2>3, <2>4
<1> QED BY <1>11, <1>12 DEF n

\* Descending is one, and it leaves out no element.
LEMMA DescendingIs ==
  ASSUME NEW S \in SUBSET Int, IsFiniteSet(S)
  PROVE  /\ Descending(S) \in [1 .. Cardinality(S) -> S]
         /\ \A s \in S : \E i \in 1 .. Cardinality(S) : Descending(S)[i] = s
<1> DEFINE n == Cardinality(S)
           q == Descending(S)
<1>1. q \in [1 .. n -> S] /\ \A i, j \in DOMAIN q : i < j => q[i] > q[j]
  BY Enumerable DEF Descending
<1>2. n \in Nat
  BY FS_CardinalityType
<1> HIDE DEF q
<1>3. ASSUME NEW i \in 1 .. n, NEW j \in 1 .. n, q[i] = q[j]
      PROVE  i = j
  <2>0. q[i] \in S /\ \A s \in S : s \in Int
    BY <1>1
  <2>1. q[i] \in Int /\ DOMAIN q = 1 .. n
    BY <1>1, <2>0
  <2>2. ~(i < j) /\ ~(j < i)
    BY <1>1, <1>3, <2>1
  <2>3. i \in Int /\ j \in Int
    BY <1>2
  <2> QED BY <2>2, <2>3
<1>4. q \in Injection(1 .. n, S)
  BY <1>1, <1>3 DEF Injection, IsInjective
<1>5. Cardinality(1 .. n) = n
  BY <1>2, FS_Interval
<1>6. q \in Surjection(1 .. n, S)
  BY <1>4, <1>5, FS_Injection
<1> QED BY <1>1, <1>6 DEF Surjection, q

-----------------------------------------------------------------------------
(* What the steps keep *)

JobStates == {"waiting", "asked", "deleting", "ok", "failed"}
DialogStates == {"idle", "counting", "reading", "terminating", "success", "error"}

Listed(s) == \E i \in 1 .. Len(alive) : alive[i] = s

DialogTypes ==
  /\ dialog \in [state : DialogStates, page : Nat \ {0}, total : Nat]
  /\ dialog.state = "idle" => dialog.page = 1
  /\ nvcf \subseteq Sessions
  /\ seconds \in -1 .. Delay
  /\ logout \in {"idle", "pending", "tokens removed"}
  /\ auto \in BOOLEAN /\ before \subseteq Sessions /\ shifted \in BOOLEAN

\* There is one call for each listed session; none begins before the list is complete,
\* none is left when the mutation has succeeded; failures are counted once, and a call
\* that succeeded is of a session that has ended.
CallsInv ==
  /\ alive \in Seq(Sessions)
  /\ job \in [1 .. Len(alive) -> JobStates]
  /\ failed = Cardinality(Jobs("failed"))
  /\ Cardinality(InFlight) <= Concurrency
  /\ dialog.state \notin {"terminating", "success"} =>
       \A i \in 1 .. Len(alive) : job[i] = "waiting"
  /\ dialog.state = "success" => \A i \in 1 .. Len(alive) : job[i] \in {"ok", "failed"}
  /\ \A i \in 1 .. Len(alive) : job[i] = "ok" => Ended(alive[i])

\* A session that was alive when the list was begun is listed or on a page not yet read;
\* what is alive when a page is read is on one of the pages counted.
ListInv ==
  ~shifted =>
    /\ dialog.state \in {"counting", "reading"} =>
         \A s \in before :
           /\ row[s] = "alive"
           /\ Listed(s) \/ Position(s) >= (dialog.page - 1) * PageSize
    /\ dialog.state = "reading" => Cardinality(AliveRows) <= dialog.total * PageSize
    /\ dialog.state \in {"terminating", "success"} => \A s \in before : Listed(s)

\* The dialog counts down, or logs out on its own, only when every call succeeded.
AutoInv == seconds # -1 \/ auto => dialog.state = "success" /\ failed = 0

LogoutInv == EndedInv /\ DialogTypes /\ CallsInv /\ ListInv /\ AutoInv

-----------------------------------------------------------------------------
(* The rows and the pages *)

LEMMA SessionsFinite ==
  ASSUME NEW S \in SUBSET Sessions
  PROVE  S \in SUBSET Int /\ IsFiniteSet(S) /\ Cardinality(S) \in Nat
<1>1. IsFiniteSet(Sessions)
  BY LogoutAssumption, FS_Interval DEF LogoutAssumption, Sessions
<1>2. IsFiniteSet(S)
  BY <1>1, FS_Subset
<1>3. Cardinality(S) \in Nat
  BY <1>2, FS_CardinalityType
<1>4. \A s \in S : s \in Int
  BY LogoutAssumption DEF LogoutAssumption, Sessions
<1> QED BY <1>2, <1>3, <1>4

\* Fewer rows are before one than there are.
LEMMA PositionBelow ==
  ASSUME NEW s \in AliveRows
  PROVE  Position(s) \in Nat /\ Position(s) < Cardinality(AliveRows)
<1> DEFINE B == {r \in AliveRows : r > s}
<1>1. AliveRows \in SUBSET Sessions
  BY DEF AliveRows
<1>2. B \in SUBSET AliveRows
  OBVIOUS
<1>3. s \in Int
  BY <1>1, SessionsFinite
<1>4. s \notin B
  BY <1>3
<1>5. IsFiniteSet(AliveRows) /\ Cardinality(AliveRows) \in Nat
  BY <1>1, SessionsFinite
<1>6. IsFiniteSet(B) /\ Cardinality(B) <= Cardinality(AliveRows)
      /\ Cardinality(B) # Cardinality(AliveRows)
  BY <1>2, <1>4, <1>5, FS_Subset
<1>7. Cardinality(B) \in Nat
  BY <1>6, FS_CardinalityType
<1> QED BY <1>5, <1>6, <1>7 DEF Position

\* A session that starts does not move another one to an earlier page.
LEMMA PositionGrows ==
  ASSUME AliveRows \subseteq AliveRows', NEW s \in Sessions
  PROVE  Position(s)' \in Nat /\ Position(s) \in Nat /\ Position(s)' >= Position(s)
<1> DEFINE B == {r \in AliveRows : r > s}
           C == {r \in AliveRows' : r > s}
<1>1. C \in SUBSET Sessions /\ B \in SUBSET C
  BY DEF AliveRows
<1>2. IsFiniteSet(C) /\ Cardinality(C) \in Nat
  BY <1>1, SessionsFinite
<1>3. IsFiniteSet(B) /\ Cardinality(B) <= Cardinality(C)
  BY <1>1, <1>2, FS_Subset
<1>4. Cardinality(B) \in Nat
  BY <1>3, FS_CardinalityType
<1>5. Position(s) = Cardinality(B) /\ Position(s)' = Cardinality(C)
  BY DEF Position
<1> HIDE DEF B, C
<1> QED BY <1>2, <1>3, <1>4, <1>5

\* Enough pages are counted.
LEMMA PagesEnough ==
  ASSUME NEW n \in Nat
  PROVE  /\ (n + PageSize - 1) \div PageSize \in Nat
         /\ n <= ((n + PageSize - 1) \div PageSize) * PageSize
BY LogoutAssumption DEF LogoutAssumption

\* Reading a page adds its rows to the list, and nothing else.
LEMMA PageListed ==
  ASSUME CallsInv, ReadPage
  PROVE  /\ alive' \in Seq(Sessions) /\ Len(alive') \in Nat
         /\ job' \in [1 .. Len(alive') -> {"waiting"}]
         /\ \A s : Listed(s) => Listed(s)'
         /\ \A s \in PageRows(dialog.page) : Listed(s)'
<1> DEFINE S == PageRows(dialog.page)
           q == Descending(S)
           n == Cardinality(S)
<1>1. S \in SUBSET Sessions
  BY DEF PageRows, AliveRows
<1>2. S \in SUBSET Int /\ IsFiniteSet(S) /\ n \in Nat
  BY <1>1, SessionsFinite
<1>3. q \in [1 .. n -> S] /\ \A s \in S : \E i \in 1 .. n : q[i] = s
  BY <1>2, DescendingIs
<1>4. alive' = alive \o q /\ job' = [i \in DOMAIN alive' |-> "waiting"]
  BY DEF ReadPage
<1> HIDE DEF S, q, n
<1>5. q \in [1 .. n -> Sessions]
  BY <1>1, <1>3
<1>6. q \in Seq(Sessions)
  BY <1>2, <1>5, SeqDef
<1>7. Len(q) = n
  BY <1>2, <1>5, <1>6, LenProperties
<1>8. alive \in Seq(Sessions) /\ Len(alive) \in Nat
  BY LenProperties DEF CallsInv
<1>9. /\ alive' \in Seq(Sessions) /\ Len(alive') = Len(alive) + n
      /\ \A i \in 1 .. Len(alive) + n :
           alive'[i] = IF i <= Len(alive) THEN alive[i] ELSE q[i - Len(alive)]
  BY <1>4, <1>6, <1>7, <1>8, ConcatProperties
<1>10. job' \in [1 .. Len(alive') -> {"waiting"}]
  <2>1. DOMAIN alive' = 1 .. Len(alive')
    BY <1>9, LenProperties
  <2> QED BY <1>4, <2>1
<1>11. ASSUME NEW s, Listed(s)
       PROVE  Listed(s)'
  <2>1. PICK i \in 1 .. Len(alive) : alive[i] = s
    BY <1>11 DEF Listed
  <2>2. i \in 1 .. Len(alive) + n /\ i <= Len(alive)
    BY <1>2, <1>8
  <2> QED BY <1>9, <2>1, <2>2 DEF Listed
<1>12. ASSUME NEW s \in S
       PROVE  Listed(s)'
  <2>1. PICK i \in 1 .. n : q[i] = s
    BY <1>3
  <2> DEFINE k == Len(alive) + i
  <2>2. k \in 1 .. Len(alive) + n /\ ~(k <= Len(alive)) /\ k - Len(alive) = i
    BY <1>2, <1>8
  <2> HIDE DEF k
  <2>3. alive'[k] = s /\ k \in 1 .. Len(alive')
    BY <1>9, <2>1, <2>2
  <2> QED BY <2>3 DEF Listed
<1>13. Len(alive') \in Nat
  BY <1>2, <1>8, <1>9
<1> QED BY <1>9, <1>10, <1>11, <1>12, <1>13 DEF S

-----------------------------------------------------------------------------
(* The types *)

\* What a call changes, whatever becomes of it: one job moves on.
CallTo(i, r) ==
  /\ job' = [job EXCEPT ![i] = r] /\ r \in JobStates \ {"waiting"}
  /\ job[i] \in {"waiting", "asked", "deleting"}
  /\ r = "asked" => job[i] = "waiting" /\ dialog.state = "terminating"
                    /\ Cardinality(InFlight) < Concurrency
  /\ r # "asked" => job[i] \in {"asked", "deleting"}
  /\ failed' = IF r = "failed" THEN failed + 1 ELSE failed
  /\ r = "ok" => Ended(alive[i])'
  /\ nvcf' \subseteq nvcf
  /\ UNCHANGED <<dialog, alive, seconds, logout, auto, before, shifted>>

LEMMA CallMoves ==
  ASSUME EndedInv, CallsInv, NEW i \in DOMAIN job, Call(i)
  PROVE  \E r : CallTo(i, r)
<1> USE DEF DialogUnchanged, JobStates
<1>0. alive[i] \in Sessions /\ row \in [Sessions -> {"none", "alive", "ended", "purged"}]
  <2>1. i \in 1 .. Len(alive) /\ alive \in Seq(Sessions)
    BY DEF CallsInv
  <2> QED BY <2>1, ElementOfSeq DEF EndedInv
<1>1. CASE Ask(i)
  <2>1. CallTo(i, "asked")
    BY <1>1 DEF Ask, SessionsUnchanged, CallTo
  <2> QED BY <2>1
<1>2. CASE Receive(i)
  <2>0. SessionsUnchanged
    BY <1>2 DEF Receive
  <2>1. CASE row[alive[i]] = "purged" /\ Settle(i, "failed")
    <3>1. CallTo(i, "failed")
      BY <1>2, <2>0, <2>1 DEF Receive, Settle, SessionsUnchanged, CallTo
    <3> QED BY <3>1
  <2>2. CASE row[alive[i]] = "ended" /\ Settle(i, "ok")
    <3>0. Ended(alive[i])'
      BY <2>0, <1>2, <2>2 DEF Receive, Ended, SessionsUnchanged
    <3>1. CallTo(i, "ok")
      BY <1>2, <2>0, <2>2, <3>0 DEF Receive, Settle, SessionsUnchanged, CallTo
    <3> QED BY <3>1
  <2>3. CASE job' = [job EXCEPT ![i] = "deleting"] /\ UNCHANGED <<result, failed>>
    <3>1. CallTo(i, "deleting")
      BY <1>2, <2>0, <2>3 DEF Receive, SessionsUnchanged, CallTo
    <3> QED BY <3>1
  <2> QED BY <1>2, <2>1, <2>2, <2>3 DEF Receive
<1>3. CASE Deleted(i)
  <2>1. row'[alive[i]] \in {"ended", "purged"}
    BY <1>0, <1>3 DEF Deleted, EndRow
  <2>2. Ended(alive[i])'
    BY <1>3, <2>1 DEF Deleted, Ended
  <2>3. CallTo(i, "ok")
    BY <1>3, <2>2 DEF Deleted, Settle, EndStream, CallTo
  <2> QED BY <2>3
<1>4. CASE Refused(i)
  <2>1. CallTo(i, "failed")
    BY <1>4 DEF Refused, Settle, CallTo
  <2> QED BY <2>1
<1>5. CASE NoAnswer(i)
  <2>1. CallTo(i, "failed")
    BY <1>5 DEF NoAnswer, Settle, EndStream, CallTo
  <2> QED BY <2>1
<1>6. CASE NotSent(i)
  <2>1. CallTo(i, "failed")
    BY <1>6 DEF NotSent, Settle, SessionsUnchanged, CallTo
  <2> QED BY <2>1
<1> QED BY <1>1, <1>2, <1>3, <1>4, <1>5, <1>6 DEF Call

\* There are calls only when the list is complete.
LEMMA CallsWhileTerminating ==
  ASSUME CallsInv, NEW i \in DOMAIN job, NEW r, CallTo(i, r)
  PROVE  dialog.state = "terminating"
<1>1. i \in 1 .. Len(alive)
  BY DEF CallsInv
<1>2. CASE r = "asked"
  BY <1>2 DEF CallTo
<1>3. CASE r # "asked"
  <2>1. job[i] \notin {"waiting", "ok", "failed"}
    BY <1>3 DEF CallTo
  <2> QED BY <1>1, <2>1 DEF CallsInv
<1> QED BY <1>2, <1>3

LEMMA TypesInit == Init => DialogTypes
<1> SUFFICES ASSUME Init PROVE DialogTypes
  OBVIOUS
<1>1. -1 \in -1 .. Delay
  BY LogoutAssumption DEF LogoutAssumption
<1>2. dialog = [state |-> "idle", page |-> 1, total |-> 1] /\ seconds = -1
  BY DEF Init
<1>3. dialog \in [state : DialogStates, page : Nat \ {0}, total : Nat] /\ dialog.page = 1
  BY <1>2 DEF DialogStates
<1>4. nvcf \subseteq Sessions /\ before \subseteq Sessions
  BY DEF Init, AliveRows
<1>5. logout = "idle" /\ auto = FALSE /\ shifted = FALSE
  BY DEF Init
<1> QED BY <1>1, <1>2, <1>3, <1>4, <1>5 DEF DialogTypes

LEMMA DialogNumbers ==
  ASSUME DialogTypes
  PROVE  /\ seconds \in Int /\ seconds >= -1 /\ seconds <= Delay /\ Delay \in Nat
         /\ dialog.page \in Nat \ {0} /\ dialog.total \in Nat
<1>1. Delay \in Nat
  BY LogoutAssumption DEF LogoutAssumption
<1>2. seconds \in -1 .. Delay
  BY DEF DialogTypes
<1>3. dialog.page \in Nat \ {0} /\ dialog.total \in Nat
  BY DEF DialogTypes
<1>4. seconds \in Int /\ seconds >= -1 /\ seconds <= Delay
  BY <1>1, <1>2
<1> QED BY <1>1, <1>3, <1>4

LEMMA TypesStep ==
  ASSUME EndedInv, CallsInv, DialogTypes, [Next]_vars
  PROVE  DialogTypes'
<1>0. dialog = [state |-> dialog.state, page |-> dialog.page, total |-> dialog.total]
  BY DEF DialogTypes
<1>00. /\ Delay \in Nat /\ seconds \in Int /\ seconds >= -1 /\ seconds <= Delay
        /\ dialog.page \in Nat
  BY DialogNumbers
<1>1. CASE EndSessions
  <2>1. before' \subseteq Sessions
    BY <1>1 DEF EndSessions, AliveRows
  <2> QED BY <1>1, <2>1 DEF EndSessions, SessionsUnchanged, DialogTypes, DialogStates
<1>2. CASE CountRows
  <2>1. Cardinality(AliveRows) \in Nat
    BY SessionsFinite DEF AliveRows
  <2>2. (Cardinality(AliveRows) + PageSize - 1) \div PageSize \in Nat
    BY <2>1, PagesEnough
  <2> DEFINE t == (Cardinality(AliveRows) + PageSize - 1) \div PageSize
  <2>3. t \in Nat /\ dialog' = [dialog EXCEPT !.state = "reading", !.total = t]
    BY <1>2, <2>2 DEF CountRows
  <2> HIDE DEF t
  <2>4. dialog' \in [state : DialogStates, page : Nat \ {0}, total : Nat]
        /\ dialog'.state = "reading"
    BY <2>3 DEF DialogTypes, DialogStates
  <2> QED BY <1>2, <2>4 DEF CountRows, SessionsUnchanged, DialogTypes
<1>3. CASE ReadPage
  <2>1. dialog.page + 1 \in Nat \ {0}
    BY <1>00
  <2> DEFINE st == IF dialog.page < dialog.total THEN "counting" ELSE "terminating"
             pg == dialog.page + 1
  <2>2. dialog' = [dialog EXCEPT !.page = pg, !.state = st]
    BY <1>3 DEF ReadPage
  <2>3. st \in DialogStates \ {"idle"} /\ pg \in Nat \ {0}
    BY <2>1 DEF DialogStates
  <2> HIDE DEF st, pg
  <2>4. dialog' \in [state : DialogStates, page : Nat \ {0}, total : Nat]
        /\ dialog'.state # "idle"
    BY <2>2, <2>3 DEF DialogTypes
  <2> QED BY <1>3, <2>4 DEF ReadPage, SessionsUnchanged, DialogTypes
<1>4. CASE ListFails
  BY <1>4 DEF ListFails, SessionsUnchanged, DialogTypes, DialogStates
<1>5. ASSUME NEW i \in DOMAIN job, Call(i)
      PROVE  DialogTypes'
  <2>1. PICK r : CallTo(i, r)
    BY <1>5, CallMoves
  <2> QED BY <2>1 DEF CallTo, DialogTypes
<1>6. CASE AllSettled
  <2>0. seconds' = Delay \/ seconds' = seconds
    BY <1>6 DEF AllSettled
  <2>1. seconds' \in -1 .. Delay
    BY <1>00, <2>0
  <2> QED BY <1>6, <2>1 DEF AllSettled, SessionsUnchanged, DialogTypes, DialogStates
<1>7. CASE Countdown
  <2>0. seconds > 0 /\ seconds' = seconds - 1
    BY <1>7 DEF Countdown
  <2>1. seconds' \in -1 .. Delay
    BY <1>00, <2>0
  <2> QED BY <1>7, <2>1 DEF Countdown, SessionsUnchanged, DialogTypes
<1>8. CASE Elapsed \/ ClickLogOut
  <2>0. seconds' = -1
    BY <1>8 DEF Elapsed, ClickLogOut
  <2>1. seconds' \in -1 .. Delay
    BY <1>00, <2>0
  <2> QED BY <1>8, <2>1 DEF Elapsed, ClickLogOut, SessionsUnchanged, DialogTypes
<1>9. CASE RemoveUser
  BY <1>9 DEF RemoveUser, SessionsUnchanged, DialogTypes
<1>10. ASSUME NEW s \in Sessions, Other(s)
       PROVE  DialogTypes'
  <2>1. UNCHANGED <<dialog, seconds, logout, auto, before>>
    BY <1>10, OthersKeepDialog
  <2>2. nvcf' \subseteq Sessions
    BY <1>10 DEF Other, EndsElsewhere, MarkedElsewhere, GoneElsewhere, Revive,
                 StartsElsewhere, Purge, EndStream, DialogTypes
  <2>3. shifted' \in BOOLEAN
    BY <1>10 DEF Other, EndsElsewhere, MarkedElsewhere, GoneElsewhere, Revive,
                 StartsElsewhere, Purge, ListShifts, DialogTypes
  <2> QED BY <2>1, <2>2, <2>3 DEF DialogTypes
<1>11. CASE UNCHANGED vars
  BY <1>11 DEF vars, DialogTypes
<1> QED BY <1>1, <1>2, <1>3, <1>4, <1>5, <1>6, <1>7, <1>8, <1>9, <1>10, <1>11
        DEF Next, Other, Listing, Leaving

-----------------------------------------------------------------------------
(* The calls *)

LEMMA JobsFinite ==
  ASSUME NEW S \in SUBSET (1 .. Len(alive)), Len(alive) \in Nat
  PROVE  IsFiniteSet(S) /\ Cardinality(S) \in Nat /\ Cardinality(S) <= Len(alive)
<1>1. IsFiniteSet(1 .. Len(alive)) /\ Cardinality(1 .. Len(alive)) = Len(alive)
  BY FS_Interval
<1>2. IsFiniteSet(S) /\ Cardinality(S) <= Len(alive)
  BY <1>1, FS_Subset
<1> QED BY <1>2, FS_CardinalityType

LEMMA CallsInit == Init => CallsInv
<1> SUFFICES ASSUME Init PROVE CallsInv
  OBVIOUS
<1>1. alive = <<>> /\ job = <<>> /\ failed = 0 /\ dialog.state = "idle"
  BY DEF Init
<1>2. alive \in Seq(Sessions) /\ Len(alive) = 0
  BY <1>1, EmptySeq
<1>3. 1 .. Len(alive) = {} /\ DOMAIN job = {}
  BY <1>1, <1>2
<1>4. job \in [1 .. Len(alive) -> JobStates]
  BY <1>1, <1>3
<1>5. Jobs("failed") = {} /\ InFlight = {}
  BY <1>3 DEF Jobs, InFlight
<1>6. Cardinality(Jobs("failed")) = 0 /\ Cardinality(InFlight) = 0
  BY <1>5, FS_EmptySet
<1>7. 0 <= Concurrency
  BY LogoutAssumption DEF LogoutAssumption
<1> QED BY <1>1, <1>2, <1>3, <1>4, <1>6, <1>7 DEF CallsInv

LEMMA CallsTyped == CallsInv => ListTyped
<1> SUFFICES ASSUME CallsInv, NEW i \in DOMAIN job PROVE alive[i] \in Sessions
  BY DEF ListTyped
<1>1. i \in 1 .. Len(alive) /\ alive \in Seq(Sessions)
  BY DEF CallsInv
<1> QED BY <1>1, ElementOfSeq

\* One call moves on: failures are counted, the limit is kept.
LEMMA CallsCounted ==
  ASSUME CallsInv, NEW i \in DOMAIN job, NEW r, CallTo(i, r)
  PROVE  /\ failed' = Cardinality(Jobs("failed")')
         /\ Cardinality(InFlight') <= Concurrency
<1> DEFINE L == 1 .. Len(alive)
           F == Jobs("failed")
           G == Jobs("failed")'
           A == InFlight
           B == InFlight'
<1>1. Len(alive) \in Nat /\ DOMAIN job = L /\ i \in L
  BY LenProperties DEF CallsInv
<1>2. DOMAIN job' = L
  BY <1>1 DEF CallTo
<1>3. \A j \in L : job'[j] = IF j = i THEN r ELSE job[j]
  BY <1>1 DEF CallTo
<1>4. job[i] # "failed"
  BY DEF CallTo
<1>5. F = {j \in L : job[j] = "failed"} /\ G = {j \in L : job'[j] = "failed"}
  BY <1>1, <1>2 DEF Jobs
<1>6. /\ A = {j \in L : job[j] \in {"asked", "deleting"}}
      /\ B = {j \in L : job'[j] \in {"asked", "deleting"}}
  BY <1>1, <1>2 DEF InFlight, Jobs
<1>7. failed = Cardinality(F) /\ Cardinality(A) <= Concurrency /\ Concurrency \in Nat
  BY LogoutAssumption DEF LogoutAssumption, CallsInv
<1>8. /\ F \in SUBSET L /\ A \in SUBSET L /\ B \in SUBSET L
  BY <1>5, <1>6
<1> HIDE DEF F, G, A, B
<1>9. /\ IsFiniteSet(F) /\ IsFiniteSet(A) /\ Cardinality(A) \in Nat
      /\ IsFiniteSet(B) /\ Cardinality(B) \in Nat
  BY <1>1, <1>8, JobsFinite
<1>10. failed' = Cardinality(G)
  <2>1. CASE r = "failed"
    <3>1. G = F \union {i} /\ i \notin F
      BY <1>1, <1>3, <1>4, <1>5, <2>1
    <3>2. Cardinality(G) = Cardinality(F) + 1
      BY <1>9, <3>1, FS_AddElement
    <3> QED BY <1>7, <2>1, <3>2 DEF CallTo
  <2>2. CASE r # "failed"
    <3>1. G = F
      BY <1>1, <1>3, <1>4, <1>5, <2>2
    <3> QED BY <1>7, <2>2, <3>1 DEF CallTo
  <2> QED BY <2>1, <2>2
<1>11. Cardinality(B) <= Concurrency
  <2>1. CASE r = "asked"
    <3>1. B = A \union {i} /\ i \notin A
      <4>1. job[i] = "waiting"
        BY <2>1 DEF CallTo
      <4> QED BY <1>1, <1>3, <1>6, <2>1, <4>1
    <3>2. Cardinality(B) = Cardinality(A) + 1
      BY <1>9, <3>1, FS_AddElement
    <3>3. Cardinality(A) < Concurrency
      BY <2>1 DEF CallTo, A
    <3> QED BY <1>7, <1>9, <3>2, <3>3
  <2>2. CASE r # "asked"
    <3>1. job[i] \in {"asked", "deleting"}
      BY <2>2 DEF CallTo
    <3>2. B \in SUBSET A
      BY <1>1, <1>3, <1>6, <3>1
    <3>3. Cardinality(B) <= Cardinality(A)
      BY <1>9, <3>2, FS_Subset
    <3> QED BY <1>7, <1>9, <3>3
  <2> QED BY <2>1, <2>2
<1> QED BY <1>10, <1>11 DEF G, B

\* The steps that leave the list and the calls alone.
ListKept ==
  /\ alive' = alive /\ job' = job /\ failed' = failed
  /\ \/ dialog'.state = dialog.state
     \/ /\ dialog'.state \notin {"terminating", "success"}
        /\ dialog.state \notin {"terminating", "success"}
     \/ /\ dialog'.state = "success" /\ dialog.state = "terminating"
        /\ \A i \in DOMAIN job : job[i] \in {"ok", "failed"}

LEMMA CallsKept ==
  ASSUME EndedInv, CallsInv, [Next]_vars, ListKept
  PROVE  CallsInv'
<1>1. Jobs("failed")' = Jobs("failed") /\ InFlight' = InFlight
  BY DEF ListKept, Jobs, InFlight
<1>2. \A i \in 1 .. Len(alive) : alive[i] \in Sessions
  BY ElementOfSeq DEF CallsInv
<1>3. \A i \in 1 .. Len(alive) : job[i] = "ok" => Ended(alive[i])'
  <2>1. alive' = alive
    BY DEF ListKept
  <2>2. \A s \in Sessions : Ended(s) => Ended(s)'
    BY CallsTyped, EndedStep
  <2>3. \A i \in 1 .. Len(alive) : job[i] = "ok" => Ended(alive[i])
    BY DEF CallsInv
  <2>4. ASSUME NEW i \in 1 .. Len(alive), job[i] = "ok"
        PROVE  Ended(alive[i])'
    <3>1. alive[i] \in Sessions /\ Ended(alive[i])
      BY <1>2, <2>3, <2>4
    <3> QED BY <2>1, <2>2, <3>1 DEF Ended
  <2> QED BY <2>4
<1>4. DOMAIN job = 1 .. Len(alive)
  BY DEF CallsInv
<1>5. dialog'.state \notin {"terminating", "success"} =>
        \A i \in 1 .. Len(alive) : job[i] = "waiting"
  BY DEF ListKept, CallsInv
<1>6. dialog'.state = "success" => \A i \in 1 .. Len(alive) : job[i] \in {"ok", "failed"}
  BY <1>4 DEF ListKept, CallsInv
<1> QED BY <1>1, <1>3, <1>5, <1>6 DEF ListKept, CallsInv

LEMMA CallsStep ==
  ASSUME EndedInv, DialogTypes, CallsInv, [Next]_vars
  PROVE  CallsInv'
<1>0. /\ dialog \in [state : DialogStates, page : Nat \ {0}, total : Nat]
      /\ alive \in Seq(Sessions) /\ Len(alive) \in Nat
      /\ job \in [1 .. Len(alive) -> JobStates]
  BY LenProperties DEF DialogTypes, CallsInv
<1>1. CASE EndSessions
  <2>1. alive' = alive /\ job' = job /\ failed' = failed
    BY <1>1 DEF EndSessions
  <2>2. /\ dialog.state \notin {"terminating", "success"}
        /\ dialog'.state \notin {"terminating", "success"}
    BY <1>0, <1>1 DEF EndSessions
  <2>3. ListKept
    BY <2>1, <2>2 DEF ListKept
  <2> QED BY <2>3, CallsKept
<1>2. CASE CountRows
  <2>1. alive' = alive /\ job' = job /\ failed' = failed
    BY <1>2 DEF CountRows
  <2>2. /\ dialog.state \notin {"terminating", "success"}
        /\ dialog'.state \notin {"terminating", "success"}
    BY <1>0, <1>2 DEF CountRows
  <2>3. ListKept
    BY <2>1, <2>2 DEF ListKept
  <2> QED BY <2>3, CallsKept
<1>3. CASE ReadPage
  <2>1. \A i \in 1 .. Len(alive) : job[i] = "waiting"
    BY <1>3 DEF CallsInv, ReadPage
  <2>2. Jobs("failed") = {} /\ InFlight = {}
    BY <1>0, <2>1 DEF Jobs, InFlight
  <2>3. failed' = 0
    BY <1>3, <2>2, FS_EmptySet DEF CallsInv, ReadPage
  <2>4. /\ alive' \in Seq(Sessions) /\ job' \in [1 .. Len(alive') -> {"waiting"}]
    BY <1>3, PageListed
  <2>5. Jobs("failed")' = {} /\ InFlight' = {}
    BY <2>4 DEF Jobs, InFlight
  <2>6. Cardinality(Jobs("failed")') = 0 /\ Cardinality(InFlight') = 0
    BY <2>5, FS_EmptySet
  <2>7. 0 <= Concurrency
    BY LogoutAssumption DEF LogoutAssumption
  <2>8. job' \in [1 .. Len(alive') -> JobStates]
        /\ \A i \in 1 .. Len(alive') : job'[i] = "waiting"
    BY <2>4 DEF JobStates
  <2>9. dialog'.state # "success"
    BY <1>0, <1>3 DEF ReadPage
  <2> QED BY <2>3, <2>4, <2>6, <2>7, <2>8, <2>9 DEF CallsInv
<1>4. CASE ListFails
  <2>1. alive' = alive /\ job' = job /\ failed' = failed
    BY <1>4 DEF ListFails
  <2>2. /\ dialog.state \notin {"terminating", "success"}
        /\ dialog'.state \notin {"terminating", "success"}
    BY <1>0, <1>4 DEF ListFails
  <2>3. ListKept
    BY <2>1, <2>2 DEF ListKept
  <2> QED BY <2>3, CallsKept
<1>5. ASSUME NEW i \in DOMAIN job, Call(i)
      PROVE  CallsInv'
  <2>1. PICK r : CallTo(i, r)
    BY <1>5, CallMoves
  <2>2. dialog' = dialog /\ alive' = alive /\ dialog.state = "terminating"
    BY <2>1, CallsWhileTerminating DEF CallTo
  <2>3. job' \in [1 .. Len(alive) -> JobStates]
    BY <1>0, <2>1 DEF CallTo
  <2>4. failed' = Cardinality(Jobs("failed")') /\ Cardinality(InFlight') <= Concurrency
    BY <2>1, CallsCounted
  <2>5. ASSUME NEW j \in 1 .. Len(alive), job'[j] = "ok"
        PROVE  Ended(alive[j])'
    <3>1. CASE j = i
      BY <1>0, <2>1, <2>5, <3>1 DEF CallTo
    <3>2. CASE j # i
      <4>1. job[j] = "ok" /\ alive[j] \in Sessions
        BY <1>0, <2>1, <2>5, <3>2, ElementOfSeq DEF CallTo
      <4>2. Ended(alive[j])
        BY <4>1 DEF CallsInv
      <4>3. \A s \in Sessions : Ended(s) => Ended(s)'
        BY CallsTyped, EndedStep
      <4> QED BY <2>2, <4>1, <4>2, <4>3 DEF Ended
    <3> QED BY <3>1, <3>2
  <2> QED BY <1>0, <2>2, <2>3, <2>4, <2>5 DEF CallsInv
<1>6. CASE AllSettled
  <2>1. alive' = alive /\ job' = job /\ failed' = failed
    BY <1>6 DEF AllSettled
  <2>2. /\ dialog'.state = "success" /\ dialog.state = "terminating"
        /\ \A i \in DOMAIN job : job[i] \in {"ok", "failed"}
    BY <1>0, <1>6 DEF AllSettled
  <2>3. ListKept
    BY <2>1, <2>2 DEF ListKept
  <2> QED BY <2>3, CallsKept
<1>7. CASE Countdown \/ Elapsed \/ RemoveUser \/ ClickLogOut \/ UNCHANGED vars
  <2>1. alive' = alive /\ job' = job /\ failed' = failed /\ dialog' = dialog
    BY <1>7 DEF Countdown, Elapsed, RemoveUser, ClickLogOut, SessionsUnchanged, vars
  <2>2. ListKept
    BY <2>1 DEF ListKept
  <2> QED BY <2>2, CallsKept
<1>8. CASE \E s \in Sessions : Other(s)
  <2>1. alive' = alive /\ job' = job /\ failed' = failed /\ dialog' = dialog
    BY <1>8, OthersKeepDialog
  <2>2. ListKept
    BY <2>1 DEF ListKept
  <2> QED BY <2>2, CallsKept
<1> QED BY <1>1, <1>2, <1>3, <1>4, <1>5, <1>6, <1>7, <1>8 DEF Next, Other, Listing, Leaving

-----------------------------------------------------------------------------
(* The list *)

\* The steps that leave the list alone; rows may change where it does not matter.
RowsKept ==
  /\ dialog' = dialog /\ alive' = alive /\ before' = before
  /\ shifted => shifted'
  /\ ~shifted' /\ dialog.state \in {"counting", "reading"} =>
       AliveRows \subseteq AliveRows'
  /\ ~shifted' /\ dialog.state = "reading" => AliveRows' = AliveRows

LEMMA PageStart ==
  ASSUME DialogTypes
  PROVE  (dialog.page - 1) * PageSize \in Int
<1>1. dialog.page - 1 \in Int /\ PageSize \in Int
  BY DialogNumbers, LogoutAssumption DEF LogoutAssumption
<1> QED BY <1>1

LEMMA ListKeeps ==
  ASSUME DialogTypes, ListInv, RowsKept,
         row' \in [Sessions -> {"none", "alive", "ended", "purged"}]
  PROVE  ListInv'
<1> SUFFICES ASSUME ~shifted' PROVE
    /\ dialog.state \in {"counting", "reading"} =>
         \A s \in before :
           row'[s] = "alive" /\ (Listed(s) \/ Position(s)' >= (dialog.page - 1) * PageSize)
    /\ dialog.state = "reading" => Cardinality(AliveRows)' <= dialog.total * PageSize
    /\ dialog.state \in {"terminating", "success"} => \A s \in before : Listed(s)
  BY DEF RowsKept, ListInv, Listed
<1>1. ~shifted
  BY DEF RowsKept
<1>2. ASSUME dialog.state \in {"counting", "reading"}, NEW s \in before
      PROVE  row'[s] = "alive" /\ (Listed(s) \/ Position(s)' >= (dialog.page - 1) * PageSize)
  <2>1. s \in Sessions
    BY DEF DialogTypes
  <2>2. row[s] = "alive" /\ (Listed(s) \/ Position(s) >= (dialog.page - 1) * PageSize)
    BY <1>1, <1>2 DEF ListInv
  <2>3. AliveRows \subseteq AliveRows'
    BY <1>2 DEF RowsKept
  <2>4. row'[s] = "alive"
    BY <2>1, <2>2, <2>3 DEF AliveRows
  <2>5. Position(s)' \in Nat /\ Position(s) \in Nat /\ Position(s)' >= Position(s)
    BY <2>1, <2>3, PositionGrows
  <2> DEFINE k == (dialog.page - 1) * PageSize
  <2>6. k \in Int
    BY PageStart
  <2> HIDE DEF k
  <2>7. Position(s) >= k => Position(s)' >= k
    BY <2>5, <2>6
  <2> QED BY <2>2, <2>4, <2>7 DEF k
<1>3. dialog.state = "reading" => Cardinality(AliveRows)' <= dialog.total * PageSize
  BY <1>1 DEF RowsKept, ListInv
<1>4. dialog.state \in {"terminating", "success"} => \A s \in before : Listed(s)
  BY <1>1 DEF ListInv
<1> QED BY <1>2, <1>3, <1>4

\* A page that is read leaves only sessions of later pages, the last page none.
LEMMA ListReads ==
  ASSUME DialogTypes, CallsInv, ListInv, ReadPage
  PROVE  ListInv'
<1> SUFFICES ASSUME ~shifted PROVE ListInv'
  BY DEF ListInv, ReadPage
<1> DEFINE pg == dialog.page
           t == dialog.total
<1>1. pg \in Nat \ {0} /\ t \in Nat /\ PageSize \in Nat \ {0}
  BY DialogNumbers, LogoutAssumption DEF LogoutAssumption
<1>2. /\ dialog \in [state : DialogStates, page : Nat \ {0}, total : Nat]
      /\ dialog.state = "reading"
  BY DEF DialogTypes, ReadPage
<1>3. /\ dialog'.page = pg + 1
      /\ dialog'.state = IF pg < t THEN "counting" ELSE "terminating"
  BY <1>2 DEF ReadPage
<1>4. row' = row /\ before' = before /\ shifted' = shifted
  BY DEF ReadPage, SessionsUnchanged
<1>5. \A s : Position(s)' = Position(s)
  BY <1>4 DEF Position, AliveRows
<1>6. ASSUME NEW s \in before
      PROVE  /\ row[s] = "alive"
             /\ Listed(s)' \/ Position(s) >= pg * PageSize
  <2>1. row[s] = "alive" /\ (Listed(s) \/ Position(s) >= (pg - 1) * PageSize)
    BY <1>2 DEF ListInv
  <2>2. s \in AliveRows
    BY <2>1 DEF AliveRows, DialogTypes
  <2>3. Position(s) \in Nat
    BY <2>2, PositionBelow
  <2>4. pg * PageSize \in Int
    BY <1>1
  <2>5. CASE Listed(s)
    BY <2>1, <2>5, PageListed
  <2>6. CASE Position(s) >= pg * PageSize
    BY <2>1, <2>6
  <2>7. CASE ~Listed(s) /\ ~(Position(s) >= pg * PageSize)
    <3>1. Position(s) < pg * PageSize
      BY <2>3, <2>4, <2>7
    <3>2. s \in PageRows(dialog.page)
      BY <2>1, <2>2, <2>7, <3>1 DEF PageRows
    <3> QED BY <2>1, <3>2, PageListed
  <2> QED BY <2>5, <2>6, <2>7
<1>7. ASSUME ~(pg < t), NEW s \in before
      PROVE  Listed(s)'
  <2>1. s \in AliveRows
    BY <1>6 DEF AliveRows, DialogTypes
  <2>2. Position(s) \in Nat /\ Position(s) < Cardinality(AliveRows)
    BY <2>1, PositionBelow
  <2>3. Cardinality(AliveRows) <= t * PageSize /\ Cardinality(AliveRows) \in Nat
    BY <1>2, SessionsFinite DEF ListInv, AliveRows
  <2>4. t <= pg
    BY <1>1, <1>7
  <2> HIDE DEF pg, t
  <2>5. t * PageSize <= pg * PageSize /\ t * PageSize \in Int /\ pg * PageSize \in Int
    BY <1>1, <2>4
  <2>6. ~(Position(s) >= pg * PageSize)
    BY <2>2, <2>3, <2>5
  <2> QED BY <1>6, <2>6
<1>8. (dialog'.page - 1) * PageSize = pg * PageSize
  <2>1. dialog'.page - 1 = pg
    BY <1>1, <1>3
  <2> QED BY <2>1
<1> HIDE DEF pg, t
<1>9. CASE pg < t
  <2>1. dialog'.state = "counting"
    BY <1>3, <1>9
  <2> QED BY <1>4, <1>5, <1>6, <1>8, <2>1 DEF ListInv
<1>10. CASE ~(pg < t)
  <2>1. dialog'.state = "terminating"
    BY <1>3, <1>10
  <2> QED BY <1>4, <1>7, <1>10, <2>1 DEF ListInv
<1> QED BY <1>9, <1>10

LEMMA ListStep ==
  ASSUME EndedInv, DialogTypes, CallsInv, ListInv, [Next]_vars
  PROVE  ListInv'
<1>0. /\ dialog \in [state : DialogStates, page : Nat \ {0}, total : Nat]
      /\ row \in [Sessions -> {"none", "alive", "ended", "purged"}]
  BY DEF DialogTypes, EndedInv
<1>00. row' \in [Sessions -> {"none", "alive", "ended", "purged"}]
  BY CallsTyped, EndedStep DEF EndedInv
<1>1. CASE EndSessions
  <2>1. /\ dialog'.state = "counting" /\ dialog'.page = 1 /\ before' = AliveRows
        /\ row' = row
    BY <1>0, <1>1 DEF EndSessions, SessionsUnchanged, DialogTypes
  <2>2. (dialog'.page - 1) * PageSize = 0
    <3>1. dialog'.page - 1 = 0 /\ PageSize \in Nat
      BY <2>1, LogoutAssumption DEF LogoutAssumption
    <3> QED BY <3>1
  <2>3. ASSUME NEW s \in before'
        PROVE  row'[s] = "alive" /\ Position(s)' >= (dialog'.page - 1) * PageSize
    <3>1. s \in AliveRows /\ row'[s] = "alive"
      BY <2>1, <2>3 DEF AliveRows
    <3>2. Position(s)' = Position(s)
      BY <2>1 DEF Position, AliveRows
    <3>3. Position(s) \in Nat
      BY <3>1, PositionBelow
    <3>4. Position(s) >= 0
      BY <3>3
    <3> QED BY <2>2, <3>1, <3>2, <3>4
  <2> QED BY <2>1, <2>3 DEF ListInv
<1>2. CASE CountRows
  <2> DEFINE t == (Cardinality(AliveRows) + PageSize - 1) \div PageSize
  <2>1. /\ dialog.state = "counting" /\ row' = row /\ alive' = alive
        /\ before' = before /\ shifted' = shifted
    BY <1>2 DEF CountRows, SessionsUnchanged
  <2>2. /\ dialog'.state = "reading" /\ dialog'.page = dialog.page /\ dialog'.total = t
    BY <1>0, <1>2 DEF CountRows
  <2>3. Cardinality(AliveRows) <= t * PageSize
    <3>1. Cardinality(AliveRows) \in Nat
      BY SessionsFinite DEF AliveRows
    <3> QED BY <3>1, PagesEnough
  <2> HIDE DEF t
  <2>4. Cardinality(AliveRows)' <= dialog'.total * PageSize
    BY <2>1, <2>2, <2>3 DEF AliveRows
  <2>5. \A s : (Listed(s)' <=> Listed(s)) /\ Position(s)' = Position(s)
    BY <2>1 DEF Listed, Position, AliveRows
  <2>6. ~shifted => \A s \in before :
          /\ row[s] = "alive"
          /\ Listed(s) \/ Position(s) >= (dialog.page - 1) * PageSize
    BY <2>1 DEF ListInv
  <2> QED BY <2>1, <2>2, <2>4, <2>5, <2>6 DEF ListInv
<1>3. CASE ReadPage
  BY <1>3, ListReads
<1>4. CASE ListFails
  <2>1. dialog'.state = "error"
    BY <1>0, <1>4 DEF ListFails
  <2> QED BY <2>1 DEF ListInv
<1>5. ASSUME NEW i \in DOMAIN job, Call(i)
      PROVE  ListInv'
  <2>1. PICK r : CallTo(i, r)
    BY <1>5, CallMoves
  <2>2. RowsKept
    BY <2>1, CallsWhileTerminating DEF CallTo, RowsKept
  <2> QED BY <1>00, <2>2, ListKeeps
<1>6. CASE AllSettled
  <2>1. /\ dialog.state = "terminating" /\ dialog'.state = "success"
        /\ alive' = alive /\ before' = before /\ shifted' = shifted
    BY <1>0, <1>6 DEF AllSettled
  <2> QED BY <2>1 DEF ListInv, Listed
<1>7. CASE Countdown \/ Elapsed \/ RemoveUser \/ ClickLogOut \/ UNCHANGED vars
  <2>1. row' = row /\ dialog' = dialog /\ alive' = alive /\ before' = before
        /\ shifted' = shifted
    BY <1>7 DEF Countdown, Elapsed, RemoveUser, ClickLogOut, SessionsUnchanged, vars
  <2>2. RowsKept
    BY <2>1 DEF RowsKept, AliveRows
  <2> QED BY <1>00, <2>2, ListKeeps
<1>8. ASSUME NEW s \in Sessions, Other(s)
      PROVE  ListInv'
  <2>1. dialog' = dialog /\ alive' = alive /\ before' = before
    BY <1>8, OthersKeepDialog
  <2>2. CASE EndsElsewhere(s) \/ MarkedElsewhere(s)
    <3>1. /\ shifted => shifted'
          /\ dialog.state \in {"counting", "reading"} => shifted'
      BY <2>2 DEF EndsElsewhere, MarkedElsewhere, ListShifts
    <3>2. RowsKept
      BY <2>1, <3>1 DEF RowsKept
    <3> QED BY <1>00, <3>2, ListKeeps
  <2>3. CASE StartsElsewhere(s) \/ Revive(s)
    <3>1. AliveRows \subseteq AliveRows'
      BY <1>0, <2>3 DEF StartsElsewhere, Revive, AliveRows
    <3>2. /\ shifted => shifted'
          /\ dialog.state = "reading" => shifted'
      BY <2>3 DEF StartsElsewhere, Revive, ListShifts
    <3>3. RowsKept
      BY <2>1, <3>1, <3>2 DEF RowsKept
    <3> QED BY <1>00, <3>3, ListKeeps
  <2>4. CASE Purge(s) \/ GoneElsewhere(s)
    <3>1. AliveRows' = AliveRows
      BY <1>0, <2>4 DEF Purge, GoneElsewhere, AliveRows
    <3>2. shifted' = shifted
      BY <2>4 DEF Purge, GoneElsewhere
    <3>3. RowsKept
      BY <2>1, <3>1, <3>2 DEF RowsKept
    <3> QED BY <1>00, <3>3, ListKeeps
  <2> QED BY <1>8, <2>2, <2>3, <2>4 DEF Other
<1> QED BY <1>1, <1>2, <1>3, <1>4, <1>5, <1>6, <1>7, <1>8 DEF Next, Other, Listing, Leaving

-----------------------------------------------------------------------------
(* Logging out on its own *)

LEMMA AutoStep ==
  ASSUME EndedInv, DialogTypes, CallsInv, AutoInv, [Next]_vars
  PROVE  AutoInv'
<1> USE DEF AutoInv
<1>0. /\ dialog \in [state : DialogStates, page : Nat \ {0}, total : Nat]
      /\ auto \in BOOLEAN
  BY DEF DialogTypes
<1>1. CASE EndSessions \/ CountRows \/ ListFails \/ ReadPage
  <2>1. dialog.state # "success" /\ seconds' = seconds /\ auto' = auto
    BY <1>1 DEF EndSessions, CountRows, ListFails, ReadPage
  <2> QED BY <2>1
<1>2. ASSUME NEW i \in DOMAIN job, Call(i)
      PROVE  AutoInv'
  <2>1. PICK r : CallTo(i, r)
    BY <1>2, CallMoves
  <2>2. dialog.state = "terminating" /\ seconds' = seconds /\ auto' = auto
    BY <2>1, CallsWhileTerminating DEF CallTo
  <2> QED BY <2>2
<1>3. CASE AllSettled
  <2>1. /\ dialog.state = "terminating" /\ dialog'.state = "success"
        /\ failed' = failed
    BY <1>0, <1>3 DEF AllSettled
  <2>2. CASE alive = <<>>
    <3>1. job \in [1 .. Len(alive) -> JobStates] /\ failed = Cardinality(Jobs("failed"))
      BY DEF CallsInv
    <3>2. Len(alive) = 0
      BY <2>2, EmptySeq
    <3>3. Jobs("failed") = {}
      BY <3>1, <3>2 DEF Jobs
    <3>4. failed = 0
      BY <3>1, <3>3, FS_EmptySet
    <3> QED BY <2>1, <3>4
  <2>3. CASE alive # <<>>
    <3>1. seconds = -1 /\ ~auto
      BY <2>1
    <3>2. auto' = auto /\ (failed = 0 \/ seconds' = seconds)
      BY <1>3, <2>3 DEF AllSettled
    <3> QED BY <2>1, <3>1, <3>2
  <2> QED BY <2>2, <2>3
<1>4. CASE Countdown \/ Elapsed
  <2>1. seconds # -1 /\ dialog' = dialog /\ failed' = failed
    BY <1>4, DialogNumbers DEF Countdown, Elapsed
  <2> QED BY <2>1
<1>5. CASE ClickLogOut
  BY <1>5 DEF ClickLogOut
<1>6. CASE RemoveUser \/ UNCHANGED vars
  BY <1>6 DEF RemoveUser, vars
<1>7. CASE \E s \in Sessions : Other(s)
  <2>1. seconds' = seconds /\ auto' = auto /\ dialog' = dialog /\ failed' = failed
    BY <1>7, OthersKeepDialog
  <2> QED BY <2>1
<1> QED BY <1>1, <1>2, <1>3, <1>4, <1>5, <1>6, <1>7 DEF Next, Other, Listing, Leaving

LEMMA LogoutInit == Init => LogoutInv
<1> SUFFICES ASSUME Init PROVE LogoutInv
  OBVIOUS
<1>1. dialog.state = "idle" /\ seconds = -1 /\ auto = FALSE
  BY DEF Init
<1>2. ListInv /\ AutoInv
  BY <1>1 DEF ListInv, AutoInv
<1> QED BY <1>2, EndedInit, TypesInit, CallsInit DEF LogoutInv

LEMMA LogoutStep == LogoutInv /\ [Next]_vars => LogoutInv'
<1> SUFFICES ASSUME LogoutInv, [Next]_vars PROVE LogoutInv'
  OBVIOUS
<1>1. EndedInv /\ DialogTypes /\ CallsInv /\ ListInv /\ AutoInv
  BY DEF LogoutInv
<1>2. EndedInv'
  BY <1>1, CallsTyped, EndedStep
<1>3. DialogTypes'
  BY <1>1, TypesStep
<1>4. CallsInv'
  BY <1>1, CallsStep
<1>5. ListInv'
  BY <1>1, ListStep
<1>6. AutoInv'
  BY <1>1, AutoStep
<1> QED BY <1>2, <1>3, <1>4, <1>5, <1>6 DEF LogoutInv

\* The list, the calls, what is shown of them and the countdown have their types, and no
\* more requests are under way at a time than terminateOwnSessions allows.
THEOREM LogoutTypes == Spec => []LogoutTypeOK
<1>1. LogoutInv => LogoutTypeOK
  <2> SUFFICES ASSUME LogoutInv PROVE LogoutTypeOK
    OBVIOUS
  <2>1. EndedInv /\ DialogTypes /\ CallsInv
    BY DEF LogoutInv
  <2>2. /\ dialog.state \in DialogStates /\ dialog.page \in Nat \ {0} /\ dialog.total \in Nat
    BY <2>1 DEF DialogTypes
  <2>3. alive \in Seq(Sessions) /\ job \in [1 .. Len(alive) -> JobStates]
    BY <2>1 DEF CallsInv
  <2>4. Len(alive) \in Nat
    BY <2>3, LenProperties
  <2>5. failed \in 0 .. Len(alive)
    <3>1. Jobs("failed") \in SUBSET (1 .. Len(alive))
      BY <2>3 DEF Jobs
    <3>2. Cardinality(Jobs("failed")) \in Nat /\ Cardinality(Jobs("failed")) <= Len(alive)
      BY <2>4, <3>1, JobsFinite
    <3>3. failed = Cardinality(Jobs("failed"))
      BY <2>1 DEF CallsInv
    <3> QED BY <2>4, <3>2, <3>3
  <2>6. InFlight = {i \in 1 .. Len(alive) : job[i] \in {"asked", "deleting"}}
    BY <2>3 DEF InFlight, Jobs
  <2>7. Cardinality({i \in 1 .. Len(alive) : job[i] \in {"asked", "deleting"}}) <= Concurrency
    BY <2>1, <2>6 DEF CallsInv
  <2>8. row \in [Sessions -> {"none", "alive", "ended", "purged"}]
        /\ result \in [Sessions -> {"none", "terminated", "failed"}]
        /\ leftover \subseteq Sessions /\ revived \subseteq Sessions
    BY <2>1 DEF EndedInv, AliveRows
  <2> QED BY <2>1, <2>2, <2>3, <2>5, <2>7, <2>8
          DEF LogoutTypeOK, DialogTypes, JobStates, DialogStates
<1> QED BY <1>1, LogoutInit, LogoutStep, PTL DEF Spec

\* What the dialog shows as ended is over, as long as no call failed, however the calls
\* interleave with the watchers, the other tabs and the websocket handlers, whether those
\* end a stream, only its row, or overwrite its end.
THEOREM ShownHasEnded == Spec => []ShownAsEnded
<1>1. LogoutInv => ShownAsEnded
  <2> SUFFICES ASSUME LogoutInv, NEW s \in Sessions, result[s] = "terminated", failed = 0
               PROVE  Over(s)
    BY DEF ShownAsEnded
  <2>1. EndedInv
    BY DEF LogoutInv
  <2>2. Ended(s) /\ (s \notin nvcf \/ s \in leftover)
    BY <2>1 DEF EndedInv
  <2> QED BY <2>2 DEF Over, Ended
<1> QED BY <1>1, LogoutInit, LogoutStep, PTL DEF Spec

\* When the dialog logs out on its own, the sessions that were alive when it began are
\* over, in the table and in NVCF, except for what others left running or overwrote, for
\* any number of sessions and pages of any size, unless rows changed places while the
\* list was read.
THEOREM AutoEnds == Spec => []AutoLogoutEnds
<1>1. LogoutInv => AutoLogoutEnds
  <2> SUFFICES ASSUME LogoutInv, auto, ~shifted, NEW s \in before
               PROVE  Over(s)
    BY DEF AutoLogoutEnds
  <2>1. EndedInv /\ DialogTypes /\ CallsInv /\ ListInv
    BY DEF LogoutInv
  <2>2. dialog.state = "success" /\ failed = 0
    BY DEF LogoutInv, AutoInv
  <2>3. PICK i \in 1 .. Len(alive) : alive[i] = s
    BY <2>1, <2>2 DEF ListInv, Listed
  <2>4. job \in [1 .. Len(alive) -> JobStates] /\ Len(alive) \in Nat
    BY <2>1, LenProperties DEF CallsInv
  <2>5. Jobs("failed") = {}
    <3>1. Jobs("failed") \in SUBSET (1 .. Len(alive))
      BY <2>4 DEF Jobs
    <3>2. IsFiniteSet(Jobs("failed")) /\ Cardinality(Jobs("failed")) = 0
      BY <2>1, <2>2, <2>4, <3>1, JobsFinite DEF CallsInv
    <3> QED BY <3>2, FS_EmptySet
  <2>6. job[i] = "ok"
    BY <2>1, <2>2, <2>4, <2>5 DEF CallsInv, Jobs
  <2>7. Ended(s)
    BY <2>1, <2>3, <2>6 DEF CallsInv
  <2>8. s \in Sessions
    BY <2>1 DEF DialogTypes
  <2>9. s \notin nvcf \/ s \in leftover
    BY <2>1, <2>2, <2>7, <2>8 DEF EndedInv
  <2> QED BY <2>7, <2>9 DEF Over, Ended
<1> QED BY <1>1, LogoutInit, LogoutStep, PTL DEF Spec

=============================================================================

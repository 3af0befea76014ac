---------------------------- MODULE BrokerProofs ----------------------------
(***************************************************************************)
(* What holds of McpBroker for any number of logins, of requests and of rows *)
(* and any times to live.                                                   *)
(***************************************************************************)
EXTENDS McpBroker, FiniteSetTheorems, TLAPS

Rows == codes \union access \union refresh

Requests == [pc : {"free", "transaction", "upstream", "mint", "loaded", "access", "refresh"},
             login : Logins, grant : 0 .. MaxRows, exp : Nat]

\* Names are given in order, and the second token of a pair is stamped like the first.
Numbered ==
  /\ \A x \in Rows : x.id <= serial /\ x.from <= serial
  /\ \A t \in Tasks : task[t].grant <= serial
  /\ \A t \in Tasks : task[t].pc = "refresh" => task[t].exp <= now

BrokerInv == BrokerTypeOK /\ Numbered

-----------------------------------------------------------------------------
(* Types *)

LEMMA IdleType ==
  Idle.login \in Logins /\ Idle = [pc |-> "free", login |-> Idle.login, grant |-> 0, exp |-> 0]
BY BrokerAssumption DEF BrokerAssumption, Idle

\* A new row is one of its table, and younger than all others.
LEMMA NewRowType ==
  ASSUME BrokerInv, serial < MaxRows, NEW l \in Logins, NEW from \in 0 .. MaxRows,
         NEW ttl \in Nat
  PROVE  /\ NewRow(l, from, ttl) \in Row(ttl)
         /\ NewRow(l, from, ttl) = [id |-> serial + 1, login |-> l, from |-> from,
                                    exp |-> now + ttl]
         /\ serial + 1 \in 0 .. MaxRows
BY BrokerAssumption DEF BrokerInv, BrokerTypeOK, BrokerAssumption, NewRow, Row

\* A request that ends, or moves on, is still one.
LEMMA RequestType ==
  ASSUME BrokerInv, NEW t \in Tasks,
         Ended(t) \/ \E p \in {"upstream", "mint", "access"} : Goto(t, p)
  PROVE  /\ task' \in [Tasks -> Requests]
         /\ \A u \in Tasks : task'[u].grant <= serial
         /\ \A u \in Tasks : task'[u].pc = "refresh" => task'[u].exp <= now
<1> USE DEF Requests
<1>1. task \in [Tasks -> Requests] /\ serial \in 0 .. MaxRows /\ now \in Nat
  BY BrokerAssumption DEF BrokerInv, BrokerTypeOK, BrokerAssumption
<1>2. CASE Ended(t)
  <2>1. Idle \in Requests /\ Idle.grant = 0 /\ Idle.pc = "free"
    BY IdleType, BrokerAssumption DEF BrokerAssumption
  <2>2. task' = [task EXCEPT ![t] = Idle] /\ 0 <= serial
    BY <1>1, <1>2, BrokerAssumption DEF Ended, BrokerAssumption
  <2> HIDE DEF Requests
  <2> QED BY <1>1, <2>1, <2>2 DEF BrokerInv, Numbered
<1>3. ASSUME NEW p \in {"upstream", "mint", "access"}, Goto(t, p)
      PROVE  /\ task' \in [Tasks -> Requests]
             /\ \A u \in Tasks : task'[u].grant <= serial
             /\ \A u \in Tasks : task'[u].pc = "refresh" => task'[u].exp <= now
  <2>1. task' = [task EXCEPT ![t].pc = p]
    BY <1>3 DEF Goto
  <2> QED BY <1>1, <2>1 DEF BrokerInv, Numbered
<1> QED BY <1>2, <1>3

LEMMA BrokerInit == Init => BrokerInv
<1> SUFFICES ASSUME Init PROVE BrokerInv
  OBVIOUS
<1> USE BrokerAssumption, IdleType DEF BrokerAssumption
<1>1. task \in [Tasks -> [pc : {"free"}, login : Logins, grant : {0}, exp : {0}]]
  BY DEF Init
<1>2. client \in [Logins -> [id : {0}, exp : {0}]]
  BY DEF Init, NoGrant
<1>3. purger \in [pc : {"sleeping"}, stamp : {0}]
  BY DEF Init
<1> QED BY <1>1, <1>2, <1>3 DEF Init, BrokerInv, BrokerTypeOK, Numbered, Rows

\* Requests that only move on, or end.
LEMMA BrokerMove ==
  ASSUME BrokerInv, NEW t \in Tasks,
         DeleteTransaction(t) \/ ExchangeUpstream(t) \/ SpendGrant(t) \/ TaskFails(t)
  PROVE  BrokerInv'
<1>1. Ended(t) \/ \E p \in {"upstream", "mint", "access"} : Goto(t, p)
  BY DEF DeleteTransaction, ExchangeUpstream, SpendGrant, TaskFails
<1>2. /\ task' \in [Tasks -> Requests]
      /\ \A u \in Tasks : task'[u].grant <= serial
      /\ \A u \in Tasks : task'[u].pc = "refresh" => task'[u].exp <= now
  BY <1>1, RequestType
<1>3. /\ trans' \subseteq trans /\ codes' \subseteq codes /\ refresh' \subseteq refresh
      /\ UNCHANGED <<now, begun, access, serial, client, purger, shared>>
      /\ faulty' \subseteq Logins
  BY DEF DeleteTransaction, ExchangeUpstream, SpendGrant, TaskFails, tables, Blame,
         BrokerInv, BrokerTypeOK
<1>4. /\ (trans \subseteq [login : begun, exp : 0 .. now + TransTTL])'
      /\ (codes \subseteq Row(CodeTTL))' /\ (access \subseteq Row(AccessTTL))'
      /\ (refresh \subseteq Row(RefreshTTL))'
  BY <1>3 DEF BrokerInv, BrokerTypeOK, Row
<1>5. BrokerTypeOK'
  BY <1>2, <1>3, <1>4 DEF BrokerInv, BrokerTypeOK, Requests
<1> QED BY <1>2, <1>3, <1>5 DEF BrokerInv, Numbered, Rows

\* Requests that begin.
LEMMA BrokerLoad ==
  ASSUME BrokerInv, NEW t \in Tasks, NEW l \in Logins,
         LoadTransaction(t, l) \/ LoadGrant(t, l)
  PROVE  BrokerInv'
<1>1. \E p \in {"transaction", "loaded"}, g \in 0 .. MaxRows, e \in Nat :
        /\ task' = [task EXCEPT ![t] = [pc |-> p, login |-> l, grant |-> g, exp |-> e]]
        /\ g <= serial
  <2>1. CASE LoadTransaction(t, l)
    <3>1. PICK x \in trans :
            task' = [task EXCEPT ![t] = [pc |-> "transaction", login |-> l, grant |-> 0,
                                         exp |-> x.exp]]
      BY <2>1 DEF LoadTransaction
    <3>2. x.exp \in Nat /\ 0 \in 0 .. MaxRows /\ 0 <= serial
      BY BrokerAssumption DEF BrokerInv, BrokerTypeOK, BrokerAssumption
    <3> QED BY <3>1, <3>2
  <2>2. CASE LoadGrant(t, l)
    <3>1. client[l].id \in 0 .. MaxRows /\ client[l].id <= serial /\ client[l].exp \in Nat
      BY BrokerAssumption DEF BrokerInv, BrokerTypeOK, BrokerAssumption
    <3> QED BY <2>2, <3>1 DEF LoadGrant
  <2> QED BY <2>1, <2>2
<1>2. /\ task' \in [Tasks -> Requests]
      /\ \A u \in Tasks : task'[u].grant <= serial
      /\ \A u \in Tasks : task'[u].pc = "refresh" => task'[u].exp <= now
  BY <1>1 DEF BrokerInv, BrokerTypeOK, Numbered, Requests
<1>3. /\ UNCHANGED <<now, begun, tables, serial, client, purger, faulty>>
      /\ shared' \subseteq Logins
  BY DEF LoadTransaction, LoadGrant, Shares, BrokerInv, BrokerTypeOK
<1> QED BY <1>2, <1>3 DEF BrokerInv, BrokerTypeOK, Numbered, Rows, Row, Requests, tables


\* The code: one row more, and the client may hold it.
LEMMA BrokerMint ==
  ASSUME BrokerInv, NEW t \in Tasks, MintCode(t)
  PROVE  BrokerInv'
<1> DEFINE l == task[t].login
           c == NewRow(l, 0, CodeTTL)
<1>1. l \in Logins /\ 0 \in 0 .. MaxRows /\ serial < MaxRows
  BY BrokerAssumption DEF BrokerInv, BrokerTypeOK, BrokerAssumption, MintCode
<1>2. /\ c \in Row(CodeTTL) /\ c.id = serial + 1 /\ c.from = 0 /\ c.exp \in Nat
      /\ serial + 1 \in 0 .. MaxRows
  <2>1. CodeTTL \in Nat /\ now \in Nat
    BY BrokerAssumption DEF BrokerInv, BrokerTypeOK, BrokerAssumption
  <2>2. /\ c \in Row(CodeTTL) /\ serial + 1 \in 0 .. MaxRows
        /\ c = [id |-> serial + 1, login |-> l, from |-> 0, exp |-> now + CodeTTL]
    BY <1>1, <2>1, NewRowType
  <2> QED BY <2>1, <2>2
<1> HIDE DEF c
<1>3. /\ serial' = serial + 1 /\ codes' = codes \union {c} /\ Ended(t)
      /\ client' \in {client, [client EXCEPT ![l] = [id |-> c.id, exp |-> c.exp]]}
      /\ faulty' \in {faulty, faulty \union {l}}
      /\ UNCHANGED <<now, begun, trans, access, refresh, purger, shared>>
  BY <1>2 DEF MintCode, Blame, c
<1>4. /\ task' \in [Tasks -> Requests]
      /\ \A u \in Tasks : task'[u].grant <= serial'
      /\ \A u \in Tasks : task'[u].pc = "refresh" => task'[u].exp <= now
  <2>1. /\ task' \in [Tasks -> Requests]
        /\ \A u \in Tasks : task'[u].grant <= serial
        /\ \A u \in Tasks : task'[u].pc = "refresh" => task'[u].exp <= now
    BY <1>3, RequestType
  <2>2. \A u \in Tasks : task'[u].grant \in Nat
    BY <2>1, BrokerAssumption DEF Requests, BrokerAssumption
  <2>3. serial \in Nat /\ serial' = serial + 1
    BY <1>3, BrokerAssumption DEF BrokerInv, BrokerTypeOK, BrokerAssumption
  <2> QED BY <2>1, <2>2, <2>3
<1>5. client' \in [Logins -> [id : 0 .. serial', exp : Nat]]
  <2> DEFINE Held == [id : 0 .. serial', exp : Nat]
  <2>1. serial \in Nat /\ serial' = serial + 1
    BY <1>3, BrokerAssumption DEF BrokerInv, BrokerTypeOK, BrokerAssumption
  <2>2. client \in [Logins -> Held]
    BY <2>1 DEF BrokerInv, BrokerTypeOK
  <2>3. [id |-> c.id, exp |-> c.exp] \in Held
    BY <1>2, <2>1
  <2> HIDE DEF Held
  <2>4. client' \in [Logins -> Held]
    BY <1>3, <2>2, <2>3
  <2> QED BY <2>4 DEF Held
<1>6. (codes \subseteq Row(CodeTTL))' /\ serial' \in 0 .. MaxRows
  BY <1>2, <1>3 DEF BrokerInv, BrokerTypeOK, Row
<1>7. BrokerTypeOK'
  BY <1>1, <1>3, <1>4, <1>5, <1>6 DEF BrokerInv, BrokerTypeOK, Row, Requests
<1>8. \A x \in Rows' : x.id <= serial' /\ x.from <= serial'
  BY <1>2, <1>3 DEF BrokerInv, BrokerTypeOK, Numbered, Rows, Row
<1> QED BY <1>3, <1>4, <1>7, <1>8 DEF BrokerInv, Numbered

\* The access token.
LEMMA BrokerAccess ==
  ASSUME BrokerInv, NEW t \in Tasks, IssueAccess(t)
  PROVE  BrokerInv'
<1> DEFINE x == NewRow(task[t].login, task[t].grant, AccessTTL)
<1>1. task[t].login \in Logins /\ task[t].grant \in 0 .. MaxRows /\ serial < MaxRows
  BY DEF BrokerInv, BrokerTypeOK, IssueAccess
<1>2. /\ x \in Row(AccessTTL) /\ x.id = serial + 1 /\ x.from = task[t].grant
      /\ serial + 1 \in 0 .. MaxRows
  BY <1>1, NewRowType, BrokerAssumption DEF BrokerAssumption
<1> HIDE DEF x
<1>3. /\ serial' = serial + 1 /\ access' = access \union {x}
      /\ task' = [task EXCEPT ![t].pc = "refresh", ![t].exp = now]
      /\ UNCHANGED <<now, begun, trans, codes, refresh, client, purger, shared, faulty>>
  BY <1>2 DEF IssueAccess, x
<1>4. /\ task' \in [Tasks -> Requests]
      /\ \A u \in Tasks : task'[u].grant <= serial'
      /\ \A u \in Tasks : task'[u].pc = "refresh" => task'[u].exp <= now
  <2>1. /\ task \in [Tasks -> Requests] /\ now \in Nat /\ now <= now
        /\ serial <= serial' /\ serial \in Nat
    BY <1>3, BrokerAssumption
    DEF BrokerInv, BrokerTypeOK, Requests, BrokerAssumption
  <2>2. \A u \in Tasks : task[u].grant \in Nat /\ task[u].grant <= serial
    BY BrokerAssumption DEF BrokerInv, BrokerTypeOK, Numbered, BrokerAssumption
  <2>3. /\ task'[t] = [task[t] EXCEPT !.pc = "refresh", !.exp = now]
        /\ \A u \in Tasks \ {t} : task'[u] = task[u]
        /\ task' = [u \in Tasks |-> task'[u]]
    BY <1>3, <2>1 DEF Requests
  <2>4. task'[t] \in Requests /\ task'[t].grant = task[t].grant /\ task'[t].exp = now
    <3>1. \A q \in Requests : LET r == [q EXCEPT !.pc = "refresh", !.exp = now] IN
            r \in Requests /\ r.grant = q.grant /\ r.exp = now
      BY <2>1 DEF Requests
    <3>2. task[t] \in Requests
      BY <2>1
    <3> QED BY <2>3, <3>1, <3>2
  <2>5. \A u \in Tasks : task'[u] \in Requests
    BY <2>1, <2>3, <2>4
  <2>6. \A u \in Tasks : task'[u].grant = task[u].grant
    BY <2>3, <2>4
  <2>7. \A u \in Tasks : task'[u].pc = "refresh" => task'[u].exp <= now
    BY <2>1, <2>3, <2>4 DEF BrokerInv, Numbered
  <2>8. task' \in [Tasks -> Requests]
    BY <2>3, <2>5
  <2>9. \A u \in Tasks : task'[u].grant <= serial'
    BY <1>3, <2>1, <2>2, <2>6
  <2> QED BY <2>7, <2>8, <2>9
<1>5. (access \subseteq Row(AccessTTL))' /\ serial' \in 0 .. MaxRows
  BY <1>2, <1>3 DEF BrokerInv, BrokerTypeOK, Row
<1>6. client' \in [Logins -> [id : 0 .. serial', exp : Nat]]
  BY <1>3, BrokerAssumption DEF BrokerInv, BrokerTypeOK, BrokerAssumption
<1>7. BrokerTypeOK'
  BY <1>3, <1>4, <1>5, <1>6 DEF BrokerInv, BrokerTypeOK, Row, Requests
<1>8. \A y \in Rows' : y.id <= serial' /\ y.from <= serial'
  BY <1>2, <1>3, BrokerAssumption
  DEF BrokerInv, BrokerTypeOK, Numbered, Rows, Row, BrokerAssumption
<1> QED BY <1>3, <1>4, <1>7, <1>8 DEF BrokerInv, Numbered

\* The refresh token, stamped like the access token.
LEMMA BrokerRefresh ==
  ASSUME BrokerInv, NEW t \in Tasks, IssueRefresh(t)
  PROVE  BrokerInv'
<1> DEFINE l == task[t].login
           x == [NewRow(l, task[t].grant, 0) EXCEPT !.exp = task[t].exp + RefreshTTL]
<1>1. /\ l \in Logins /\ task[t].grant \in 0 .. MaxRows /\ serial < MaxRows
      /\ task[t].exp \in 0 .. now
  BY BrokerAssumption DEF BrokerInv, BrokerTypeOK, Numbered, IssueRefresh, BrokerAssumption
<1>2. /\ x \in Row(RefreshTTL) /\ x.id = serial + 1 /\ x.from = task[t].grant
      /\ x.exp \in Nat /\ serial + 1 \in 0 .. MaxRows
  <2>1. /\ NewRow(l, task[t].grant, 0) = [id |-> serial + 1, login |-> l,
                                          from |-> task[t].grant, exp |-> now + 0]
        /\ serial + 1 \in 0 .. MaxRows
    BY <1>1, NewRowType
  <2>2. x = [id |-> serial + 1, login |-> l, from |-> task[t].grant,
             exp |-> task[t].exp + RefreshTTL]
    BY <2>1
  <2> QED BY <1>1, <2>1, <2>2, BrokerAssumption
          DEF BrokerInv, BrokerTypeOK, BrokerAssumption, Row
<1> HIDE DEF x
<1>3. /\ serial' = serial + 1 /\ refresh' = refresh \union {x} /\ Ended(t)
      /\ client' \in {client, [client EXCEPT ![l] = [id |-> x.id, exp |-> x.exp]]}
      /\ faulty' \in {faulty, faulty \union {l}}
      /\ UNCHANGED <<now, begun, trans, codes, access, purger, shared>>
  BY <1>2 DEF IssueRefresh, Blame, x
<1>4. /\ task' \in [Tasks -> Requests]
      /\ \A u \in Tasks : task'[u].grant <= serial'
      /\ \A u \in Tasks : task'[u].pc = "refresh" => task'[u].exp <= now
  <2>1. /\ task' \in [Tasks -> Requests]
        /\ \A u \in Tasks : task'[u].grant <= serial
        /\ \A u \in Tasks : task'[u].pc = "refresh" => task'[u].exp <= now
    BY <1>3, RequestType
  <2>2. \A u \in Tasks : task'[u].grant \in Nat
    BY <2>1, BrokerAssumption DEF Requests, BrokerAssumption
  <2>3. serial \in Nat /\ serial' = serial + 1
    BY <1>3, BrokerAssumption DEF BrokerInv, BrokerTypeOK, BrokerAssumption
  <2> QED BY <2>1, <2>2, <2>3
<1>5. client' \in [Logins -> [id : 0 .. serial', exp : Nat]]
  <2> DEFINE Held == [id : 0 .. serial', exp : Nat]
  <2>1. serial \in Nat /\ serial' = serial + 1
    BY <1>3, BrokerAssumption DEF BrokerInv, BrokerTypeOK, BrokerAssumption
  <2>2. client \in [Logins -> Held]
    BY <2>1 DEF BrokerInv, BrokerTypeOK
  <2>3. [id |-> x.id, exp |-> x.exp] \in Held
    BY <1>2, <2>1
  <2> HIDE DEF Held
  <2>4. client' \in [Logins -> Held]
    BY <1>3, <2>2, <2>3
  <2> QED BY <2>4 DEF Held
<1>6. (refresh \subseteq Row(RefreshTTL))' /\ serial' \in 0 .. MaxRows
  BY <1>2, <1>3 DEF BrokerInv, BrokerTypeOK, Row
<1>7. BrokerTypeOK'
  BY <1>1, <1>3, <1>4, <1>5, <1>6 DEF BrokerInv, BrokerTypeOK, Row, Requests
<1>8. \A y \in Rows' : y.id <= serial' /\ y.from <= serial'
  BY <1>2, <1>3, BrokerAssumption
  DEF BrokerInv, BrokerTypeOK, Numbered, Rows, Row, BrokerAssumption
<1> QED BY <1>3, <1>4, <1>7, <1>8 DEF BrokerInv, Numbered

\* Requests of one step, the watcher, and the clock.
LEMMA BrokerRest ==
  ASSUME BrokerInv,
         \/ Tick \/ RefuseAccess \/ Purge \/ PurgeDies \/ PurgeRestarts
         \/ \E l \in Logins : Authorize(l) \/ Revoke(l)
         \/ UNCHANGED vars
  PROVE  BrokerInv'
<1>0. now \in Nat /\ serial \in Nat
  BY BrokerAssumption DEF BrokerInv, BrokerTypeOK, BrokerAssumption
<1>1. CASE Tick
  <2>1. now' = now + 1 /\ now' \in 0 .. MaxNow
    BY <1>0, <1>1, BrokerAssumption DEF Tick, BrokerInv, BrokerTypeOK, BrokerAssumption
  <2>2. UNCHANGED <<begun, trans, codes, access, refresh, serial, task, client, purger,
                    shared, faulty>>
    BY <1>1 DEF Tick, tables
  <2>3. \A ttl \in Nat : 0 .. now + ttl \subseteq 0 .. now' + ttl
    BY <1>0, <2>1
  <2>4. /\ (trans \subseteq [login : begun, exp : 0 .. now + TransTTL])'
        /\ (codes \subseteq Row(CodeTTL))' /\ (access \subseteq Row(AccessTTL))'
        /\ (refresh \subseteq Row(RefreshTTL))'
    BY <2>2, <2>3, BrokerAssumption DEF BrokerInv, BrokerTypeOK, Row, BrokerAssumption
  <2>5. (purger \in [pc : {"sleeping", "transactions", "codes", "access", "refresh",
                           "dead"}, stamp : 0 .. now])'
    BY <1>0, <2>1, <2>2 DEF BrokerInv, BrokerTypeOK
  <2>6. BrokerTypeOK'
    BY <2>1, <2>2, <2>4, <2>5 DEF BrokerInv, BrokerTypeOK
  <2>7. \A t \in Tasks : task[t].pc = "refresh" => task[t].exp <= now'
    <3>1. \A t \in Tasks : task[t].exp \in Nat
      BY DEF BrokerInv, BrokerTypeOK
    <3> QED BY <1>0, <2>1, <3>1 DEF BrokerInv, Numbered
  <2> QED BY <2>2, <2>6, <2>7 DEF BrokerInv, Numbered, Rows
<1>2. CASE RefuseAccess \/ Purge \/ PurgeDies \/ PurgeRestarts
  <2>1. /\ trans' \subseteq trans /\ codes' \subseteq codes
        /\ access' \subseteq access /\ refresh' \subseteq refresh
        /\ UNCHANGED <<now, begun, serial, task, client, shared, faulty>>
    BY <1>2 DEF RefuseAccess, Purge, PurgeBegins, PurgeStep, PurgeTo, Kept, PurgeDies,
                PurgeRestarts, tables
  <2>2. purger' \in [pc : {"sleeping", "transactions", "codes", "access", "refresh",
                           "dead"}, stamp : 0 .. now]
    BY <1>0, <1>2 DEF RefuseAccess, Purge, PurgeBegins, PurgeStep, PurgeTo, PurgeDies,
                PurgeRestarts, BrokerInv, BrokerTypeOK
  <2>3. BrokerTypeOK'
    BY <2>1, <2>2 DEF BrokerInv, BrokerTypeOK, Row
  <2> QED BY <2>1, <2>3 DEF BrokerInv, Numbered, Rows
<1>3. ASSUME NEW l \in Logins, Authorize(l)
      PROVE  BrokerInv'
  <2>1. /\ begun' = begun \union {l}
        /\ trans' = trans \union {[login |-> l, exp |-> now + TransTTL]}
        /\ UNCHANGED <<now, codes, access, refresh, serial, task, client, purger, shared,
                       faulty>>
    BY <1>3 DEF Authorize
  <2>2. now + TransTTL \in 0 .. now + TransTTL
    BY <1>0, BrokerAssumption DEF BrokerAssumption
  <2>3. (trans \subseteq [login : begun, exp : 0 .. now + TransTTL])'
    BY <2>1, <2>2 DEF BrokerInv, BrokerTypeOK
  <2>4. BrokerTypeOK'
    BY <2>1, <2>3 DEF BrokerInv, BrokerTypeOK, Row
  <2> QED BY <2>1, <2>4 DEF BrokerInv, Numbered, Rows
<1>4. ASSUME NEW l \in Logins, Revoke(l)
      PROVE  BrokerInv'
  <2>1. /\ access' \subseteq access /\ refresh' \subseteq refresh
        /\ UNCHANGED <<now, begun, trans, codes, serial, task, purger, shared, faulty>>
    BY <1>4 DEF Revoke
  <2>2. client' = client \/ client' = [client EXCEPT ![l] = NoGrant]
    BY <1>4 DEF Revoke, BrokerInv, BrokerTypeOK
  <2>3. client' \in [Logins -> [id : 0 .. serial, exp : Nat]]
    BY <1>0, <2>2 DEF NoGrant, BrokerInv, BrokerTypeOK
  <2>4. BrokerTypeOK'
    BY <2>1, <2>3 DEF BrokerInv, BrokerTypeOK, Row
  <2> QED BY <2>1, <2>4 DEF BrokerInv, Numbered, Rows
<1>5. CASE UNCHANGED vars
  BY <1>5 DEF vars, tables, BrokerInv, BrokerTypeOK, Numbered, Rows, Row
<1> QED BY <1>1, <1>2, <1>3, <1>4, <1>5

LEMMA BrokerStep == BrokerInv /\ [Next]_vars => BrokerInv'
BY BrokerMove, BrokerLoad, BrokerMint, BrokerAccess, BrokerRefresh, BrokerRest DEF Next

\* The tables, the requests and the clients hold what they may, whatever overlaps.
THEOREM BrokerTypes == Spec => []BrokerTypeOK
<1>1. BrokerInv => BrokerTypeOK
  BY DEF BrokerInv
<1> QED BY <1>1, BrokerInit, BrokerStep, PTL DEF Spec

-----------------------------------------------------------------------------
(* A grant is gone before anything is made from it *)

\* Who issues tokens has spent the grant, and no later row has its name.
SpentInv ==
  /\ SpentBeforeIssued
  /\ \A t \in Tasks : task[t].pc \in {"access", "refresh"} =>
       \A g \in Grants : g.id # task[t].grant

LEMMA SpentInit == Init => SpentInv
BY DEF Init, SpentInv, SpentBeforeIssued, Idle, Grants

\* The table of a request is that of a function: what one step writes of it.
LEMMA TaskAt ==
  ASSUME BrokerInv, NEW t \in Tasks, NEW q, task' = [task EXCEPT ![t] = q]
  PROVE  task'[t] = q /\ \A u \in Tasks \ {t} : task'[u] = task[u]
BY DEF BrokerInv, BrokerTypeOK

\* Steps after which there are no other grants and no other tokens.
LEMMA SpentShrinks ==
  ASSUME SpentInv, codes' \subseteq codes, refresh' \subseteq refresh,
         access' \subseteq access,
         \A t \in Tasks : task'[t].pc \in {"access", "refresh"} => task'[t] = task[t]
  PROVE  SpentInv'
BY DEF SpentInv, SpentBeforeIssued, Grants

LEMMA SpentStep == BrokerInv /\ SpentInv /\ [Next]_vars => SpentInv'
<1> SUFFICES ASSUME BrokerInv, SpentInv, [Next]_vars PROVE SpentInv'
  OBVIOUS
<1>0. /\ task \in [Tasks -> Requests] /\ serial \in Nat
      /\ \A t \in Tasks : task[t].grant \in Nat /\ task[t].grant <= serial
      /\ \A x \in Rows : x.id \in Nat /\ x.from \in Nat /\ x.id <= serial /\ x.from <= serial
  BY BrokerAssumption
  DEF BrokerInv, BrokerTypeOK, Numbered, Requests, Rows, Row, BrokerAssumption
<1>1. ASSUME NEW t \in Tasks, NEW l \in Logins, LoadTransaction(t, l) \/ LoadGrant(t, l)
      PROVE  SpentInv'
  <2>1. \E p \in {"transaction", "loaded"} : \E g, e :
          task' = [task EXCEPT ![t] = [pc |-> p, login |-> l, grant |-> g, exp |-> e]]
    BY <1>1 DEF LoadTransaction, LoadGrant
  <2>2. \A u \in Tasks : task'[u].pc \in {"access", "refresh"} => task'[u] = task[u]
    BY <2>1, TaskAt
  <2>3. UNCHANGED tables
    BY <1>1 DEF LoadTransaction, LoadGrant
  <2> QED BY <2>2, <2>3, SpentShrinks DEF tables
<1>2. ASSUME NEW t \in Tasks, DeleteTransaction(t) \/ ExchangeUpstream(t) \/ TaskFails(t)
      PROVE  SpentInv'
  <2>1. Ended(t) \/ \E p \in {"upstream", "mint"} : Goto(t, p)
    BY <1>2 DEF DeleteTransaction, ExchangeUpstream, TaskFails
  <2>2. \A u \in Tasks : task'[u].pc \in {"access", "refresh"} => task'[u] = task[u]
    BY <1>0, <2>1 DEF Ended, Goto, Idle, Requests
  <2>3. UNCHANGED <<codes, access, refresh>>
    BY <1>2 DEF DeleteTransaction, ExchangeUpstream, TaskFails, tables
  <2> QED BY <2>2, <2>3, SpentShrinks
<1>3. ASSUME NEW t \in Tasks, MintCode(t)
      PROVE  SpentInv'
  <2> DEFINE c == NewRow(task[t].login, 0, CodeTTL)
  <2>1. c.id = serial + 1
    BY DEF NewRow
  <2> HIDE DEF c
  <2>2. codes' = codes \union {c} /\ Ended(t) /\ UNCHANGED <<access, refresh>>
    BY <1>3 DEF MintCode, c
  <2>3. \A g \in Grants' : g \in Grants \/ g.id = serial + 1
    BY <2>1, <2>2 DEF Grants
  <2>4. \A u \in Tasks : task'[u].pc \in {"access", "refresh"} => task'[u] = task[u]
    BY <1>0, <2>2 DEF Ended, Idle
  <2>5. \A x \in access \union refresh : x.from # serial + 1
    BY <1>0 DEF Rows
  <2>6. \A u \in Tasks : task[u].grant # serial + 1
    BY <1>0
  <2> QED BY <2>2, <2>3, <2>4, <2>5, <2>6 DEF SpentInv, SpentBeforeIssued
<1>4. ASSUME NEW t \in Tasks, SpendGrant(t)
      PROVE  SpentInv'
  <2>1. /\ task'[t].grant = task[t].grant
        /\ \A u \in Tasks \ {t} : task'[u] = task[u]
    BY <1>0, <1>4 DEF SpendGrant, Goto, Requests
  <2>2. \A g \in Grants' : g \in Grants /\ g.id # task[t].grant
    BY <1>4 DEF SpendGrant, Grants
  <2>3. access' = access /\ refresh' \subseteq refresh
    BY <1>4 DEF SpendGrant
  <2> QED BY <2>1, <2>2, <2>3 DEF SpentInv, SpentBeforeIssued
<1>5. ASSUME NEW t \in Tasks, IssueAccess(t)
      PROVE  SpentInv'
  <2>1. \E x : x.from = task[t].grant /\ access' = access \union {x}
    BY <1>5 DEF IssueAccess, NewRow
  <2>2. /\ task'[t].grant = task[t].grant /\ task[t].pc = "access"
        /\ \A u \in Tasks \ {t} : task'[u] = task[u]
    BY <1>0, <1>5 DEF IssueAccess, Requests
  <2>3. UNCHANGED <<codes, refresh>>
    BY <1>5 DEF IssueAccess
  <2> QED BY <2>1, <2>2, <2>3 DEF SpentInv, SpentBeforeIssued, Grants
<1>6. ASSUME NEW t \in Tasks, IssueRefresh(t)
      PROVE  SpentInv'
  <2> DEFINE x == [NewRow(task[t].login, task[t].grant, 0)
                     EXCEPT !.exp = task[t].exp + RefreshTTL]
  <2>1. x.id = serial + 1 /\ x.from = task[t].grant
    BY DEF NewRow
  <2> HIDE DEF x
  <2>2. refresh' = refresh \union {x} /\ Ended(t) /\ UNCHANGED <<access, codes>>
    BY <1>6 DEF IssueRefresh, x
  <2>3. \A g \in Grants' : g \in Grants \/ g.id = serial + 1
    BY <2>1, <2>2 DEF Grants
  <2>4. \A u \in Tasks : task'[u].pc \in {"access", "refresh"} => task'[u] = task[u]
    BY <1>0, <2>2 DEF Ended, Idle
  <2>5. \A y \in access \union refresh : y.from # serial + 1
    BY <1>0 DEF Rows
  <2>6. \A u \in Tasks : task[u].grant # serial + 1
    BY <1>0
  <2>7. \A g \in Grants : g.id # task[t].grant
    BY <1>6 DEF IssueRefresh, SpentInv
  <2>8. \A y \in (access \union refresh)' : y \in access \union refresh \/ y = x
    BY <2>2
  <2>9. SpentBeforeIssued'
    BY <2>1, <2>3, <2>5, <2>6, <2>7, <2>8 DEF SpentInv, SpentBeforeIssued
  <2> QED BY <2>3, <2>4, <2>6, <2>9 DEF SpentInv
<1>7. CASE \/ Tick \/ RefuseAccess \/ Purge \/ PurgeDies \/ PurgeRestarts
           \/ \E l \in Logins : Authorize(l) \/ Revoke(l)
           \/ UNCHANGED vars
  <2>1. /\ codes' \subseteq codes /\ access' \subseteq access /\ refresh' \subseteq refresh
        /\ UNCHANGED task
    BY <1>7 DEF Tick, RefuseAccess, Purge, PurgeBegins, PurgeStep, PurgeTo, Kept, PurgeDies,
                PurgeRestarts, Authorize, Revoke, tables, vars
  <2> QED BY <2>1, SpentShrinks
<1> QED BY <1>1, <1>2, <1>3, <1>4, <1>5, <1>6, <1>7 DEF Next

\* A client never has both the grant and something made from it, wherever a request
\* stops and however many overlap.
THEOREM SpentFirst == Spec => []SpentBeforeIssued
<1>1. Init => BrokerInv /\ SpentInv
  BY BrokerInit, SpentInit
<1>2. BrokerInv /\ SpentInv /\ [Next]_vars => (BrokerInv /\ SpentInv)'
  BY BrokerStep, SpentStep
<1>3. SpentInv => SpentBeforeIssued
  BY DEF SpentInv
<1> QED BY <1>1, <1>2, <1>3, PTL DEF Spec

-----------------------------------------------------------------------------
(* One grant for each login *)

Of(l) == {x \in Grants : x.login = l}
Working(l) == {t \in Tasks : task[t].pc # "free" /\ task[t].login = l}
Pending(l) == {x \in trans : x.login = l}

\* A login is in one place at a time: a transaction, one request, or one grant, and a
\* request may stand beside the grant only before it has spent it.
Single(l) ==
  /\ \A t, u \in Working(l) : t = u
  /\ \A x, y \in Of(l) : x = y
  /\ Pending(l) # {} => Of(l) = {} /\ \A t \in Working(l) : task[t].pc = "transaction"
  /\ \A t \in Working(l) : task[t].pc # "loaded" => Of(l) = {}
  /\ \A t \in Working(l) : task[t].pc = "loaded" => \A x \in Of(l) : x.id = task[t].grant
  /\ \A t \in Working(l) : task[t].pc = "transaction" => task[t].grant = 0
  /\ l \notin begun => Of(l) = {} /\ Working(l) = {} /\ Pending(l) = {}

\* What the client of a login holds was made for that login.
HeldIsOwn == \A l \in Logins : \A x \in Grants : x.id = client[l].id => x.login = l

OneInv == HeldIsOwn /\ \A l \in Logins \ shared : Single(l)

LEMMA OneInit == Init => OneInv
<1> SUFFICES ASSUME Init PROVE OneInv
  OBVIOUS
<1>1. /\ Grants = {} /\ trans = {} /\ \A t \in Tasks : task[t].pc = "free"
  BY IdleType DEF Init, Grants
<1> QED BY <1>1 DEF OneInv, HeldIsOwn, Single, Of, Working, Pending

\* A login of which things only disappear stays single.
LEMMA SingleShrinks ==
  ASSUME NEW l, Single(l), Of(l)' \subseteq Of(l), Pending(l)' \subseteq Pending(l),
         \A t \in Working(l)' : t \in Working(l) /\ task'[t] = task[t],
         begun \subseteq begun'
  PROVE  Single(l)'
<1>1. Working(l)' \subseteq Working(l)
  OBVIOUS
<1>2. /\ Of(l) = {} => Of(l)' = {}
      /\ Pending(l)' # {} => Pending(l) # {}
      /\ l \notin begun' => l \notin begun
  OBVIOUS
<1> QED BY <1>1, <1>2 DEF Single

\* The names of new rows are new to the clients as well.
LEMMA HeldStep ==
  ASSUME BrokerInv, HeldIsOwn, [Next]_vars
  PROVE  HeldIsOwn'
<1>0. /\ serial \in Nat /\ client \in [Logins -> [id : 0 .. serial, exp : Nat]]
      /\ \A x \in Grants : x.id \in Nat /\ x.id # 0 /\ x.id <= serial
  BY BrokerAssumption
  DEF BrokerInv, BrokerTypeOK, Numbered, Rows, Row, Grants, BrokerAssumption
<1>1. ASSUME NEW l \in Logins, NEW x, x.id = serial + 1, x.login = l,
             Grants' = Grants \union {x},
             NEW e, client' \in {client, [client EXCEPT ![l] = [id |-> x.id, exp |-> e]]}
      PROVE  HeldIsOwn'
  <2>1. SUFFICES ASSUME NEW m \in Logins, NEW y \in Grants', y.id = client'[m].id
                 PROVE  y.login = m
    BY DEF HeldIsOwn
  <2>2. client[m].id \in 0 .. serial
    BY <1>0
  <2>3. client'[m] = client[m] \/ (m = l /\ client'[m].id = serial + 1)
    BY <1>0, <1>1
  <2>4. y \in Grants \/ y = x
    BY <1>1
  <2> QED BY <1>0, <1>1, <2>1, <2>2, <2>3, <2>4 DEF HeldIsOwn
<1>2. ASSUME NEW t \in Tasks, MintCode(t)
      PROVE  HeldIsOwn'
  <2> DEFINE c == NewRow(task[t].login, 0, CodeTTL)
  <2>1. c.id = serial + 1 /\ c.login = task[t].login /\ task[t].login \in Logins
    BY DEF NewRow, BrokerInv, BrokerTypeOK
  <2> HIDE DEF c
  <2>2. /\ codes' = codes \union {c} /\ refresh' = refresh
        /\ client' \in {client, [client EXCEPT ![task[t].login] =
                                   [id |-> c.id, exp |-> c.exp]]}
    BY <1>2 DEF MintCode, c
  <2>3. Grants' = Grants \union {c}
    BY <2>2 DEF Grants
  <2> QED BY <1>1, <2>1, <2>2, <2>3
<1>3. ASSUME NEW t \in Tasks, IssueRefresh(t)
      PROVE  HeldIsOwn'
  <2> DEFINE x == [NewRow(task[t].login, task[t].grant, 0)
                     EXCEPT !.exp = task[t].exp + RefreshTTL]
  <2>1. x.id = serial + 1 /\ x.login = task[t].login /\ task[t].login \in Logins
    BY DEF NewRow, BrokerInv, BrokerTypeOK
  <2> HIDE DEF x
  <2>2. /\ refresh' = refresh \union {x} /\ codes' = codes
        /\ client' \in {client, [client EXCEPT ![task[t].login] =
                                   [id |-> x.id, exp |-> x.exp]]}
    BY <1>3 DEF IssueRefresh, x
  <2>3. Grants' = Grants \union {x}
    BY <2>2 DEF Grants
  <2> QED BY <1>1, <2>1, <2>2, <2>3
<1>4. ASSUME NEW l \in Logins, Revoke(l)
      PROVE  HeldIsOwn'
  <2>1. Grants' \subseteq Grants
    BY <1>4 DEF Revoke, Grants
  <2>2. \A m \in Logins : client'[m] = client[m] \/ client'[m].id = 0
    BY <1>0, <1>4 DEF Revoke, NoGrant
  <2> QED BY <1>0, <2>1, <2>2 DEF HeldIsOwn
<1>5. ASSUME NEW t \in Tasks,
             \/ \E l \in Logins : LoadTransaction(t, l) \/ LoadGrant(t, l)
             \/ DeleteTransaction(t) \/ ExchangeUpstream(t) \/ SpendGrant(t)
             \/ IssueAccess(t) \/ TaskFails(t)
      PROVE  HeldIsOwn'
  <2>1. Grants' \subseteq Grants /\ client' = client
    BY <1>5 DEF LoadTransaction, LoadGrant, DeleteTransaction, ExchangeUpstream, SpendGrant,
                IssueAccess, TaskFails, tables, Grants
  <2> QED BY <2>1 DEF HeldIsOwn
<1>6. CASE \/ Tick \/ RefuseAccess \/ Purge \/ PurgeDies \/ PurgeRestarts
           \/ \E l \in Logins : Authorize(l)
           \/ UNCHANGED vars
  <2>1. Grants' \subseteq Grants /\ client' = client
    BY <1>6 DEF Tick, RefuseAccess, Purge, PurgeBegins, PurgeStep, PurgeTo, Kept, PurgeDies,
                PurgeRestarts, Authorize, tables, vars, Grants
  <2> QED BY <2>1 DEF HeldIsOwn
<1> QED BY <1>2, <1>3, <1>4, <1>5, <1>6 DEF Next

\* What a step of request t does to other logins: nothing.
LEMMA OthersKeep ==
  ASSUME BrokerInv, NEW t \in Tasks, NEW q, NEW l,
         task' = [task EXCEPT ![t] = q],
         task[t].pc # "free" => task[t].login # l,
         q.pc # "free" => q.login # l
  PROVE  \A u \in Working(l)' : u \in Working(l) /\ task'[u] = task[u]
<1>1. task'[t] = q /\ \A u \in Tasks \ {t} : task'[u] = task[u]
  BY TaskAt
<1> QED BY <1>1 DEF Working

\* A request of login l that is alone takes the place q.
LEMMA AloneMoves ==
  ASSUME BrokerInv, NEW t \in Tasks, NEW q, NEW l,
         task' = [task EXCEPT ![t] = q],
         \A u \in Working(l) : u = t
  PROVE  /\ \A u \in Working(l)' : u = t
         /\ q.pc = "free" => Working(l)' = {}
         /\ task'[t] = q
<1>1. task'[t] = q /\ \A u \in Tasks \ {t} : task'[u] = task[u]
  BY TaskAt
<1> QED BY <1>1 DEF Working

\* complete_authorization and the exchange begin.
LEMMA SingleLoads ==
  ASSUME BrokerInv, OneInv, NEW t \in Tasks, NEW l \in Logins,
         LoadTransaction(t, l) \/ LoadGrant(t, l),
         NEW m \in Logins \ shared'
  PROVE  Single(m)'
<1> DEFINE Loads(p, g, e) ==
      /\ p \in {"transaction", "loaded"}
      /\ task' = [task EXCEPT ![t] = [pc |-> p, login |-> l, grant |-> g, exp |-> e]]
      /\ p = "transaction" => g = 0 /\ Pending(l) # {}
      /\ p = "loaded" => \E x \in Of(l) : x.id = g
      /\ Shares(p, l, g)
<1>1. PICK p, g, e : Loads(p, g, e)
  <2>1. CASE LoadTransaction(t, l)
    <3>1. PICK x \in trans :
            /\ x.login = l
            /\ task' = [task EXCEPT ![t] = [pc |-> "transaction", login |-> l, grant |-> 0,
                                           exp |-> x.exp]]
      BY <2>1 DEF LoadTransaction
    <3>2. Shares("transaction", l, 0) /\ Pending(l) # {}
      BY <2>1, <3>1 DEF LoadTransaction, Pending
    <3>3. Loads("transaction", 0, x.exp)
      BY <3>1, <3>2
    <3> HIDE DEF Loads
    <3> QED BY <3>3
  <2>2. CASE LoadGrant(t, l)
    <3>1. \E x \in Of(l) : x.id = client[l].id
      BY <2>2 DEF LoadGrant, OneInv, HeldIsOwn, Of
    <3>2. Loads("loaded", client[l].id, client[l].exp)
      BY <2>2, <3>1 DEF LoadGrant
    <3> HIDE DEF Loads
    <3> QED BY <3>2
  <2> QED BY <2>1, <2>2
<1> DEFINE q == [pc |-> p, login |-> l, grant |-> g, exp |-> e]
<1>2. UNCHANGED <<begun, trans, codes, refresh>> /\ task[t].pc = "free"
  BY DEF LoadTransaction, LoadGrant, tables
<1>3. m \notin shared /\ Single(m)
  BY <1>1 DEF Shares, OneInv
<1>4. Of(m)' = Of(m) /\ Pending(m)' = Pending(m)
  BY <1>2 DEF Of, Grants, Pending
<1>5. CASE m # l
  <2>1. \A u \in Working(m)' : u \in Working(m) /\ task'[u] = task[u]
    <3>1. task' = [task EXCEPT ![t] = q] /\ q.login # m
      BY <1>1, <1>5
    <3> HIDE DEF q
    <3> QED BY <1>2, <3>1, OthersKeep
  <2> QED BY <1>2, <1>3, <1>4, <2>1, SingleShrinks
<1>6. CASE m = l
  <2>1. Working(l) = {}
    <3>1. SUFFICES ASSUME NEW u \in Working(l) PROVE FALSE
      OBVIOUS
    <3>2. task[u].pc = p /\ task[u].grant = g /\ task[u].login = l
      BY <1>1, <1>3, <1>6, <3>1 DEF Single, Working
    <3>3. l \in shared'
      BY <1>1, <3>1, <3>2 DEF Shares, At, Working
    <3> QED BY <1>6, <3>3
  <2>2. /\ \A u \in Working(l)' : u = t
        /\ task'[t] = q
    <3>1. task' = [task EXCEPT ![t] = q] /\ \A u \in Working(l) : u = t
      BY <1>1, <2>1
    <3> HIDE DEF q
    <3> QED BY <3>1, AloneMoves
  <2>3. q.pc = p /\ q.grant = g
    OBVIOUS
  <2>4. l \in begun
    BY <1>1, <1>3, <1>6 DEF Single
  <2>5. p = "transaction" => Of(l) = {}
    BY <1>1, <1>3, <1>6 DEF Single
  <2>6. p = "loaded" => Pending(l) = {} /\ \A x \in Of(l) : x.id = g
    BY <1>1, <1>3, <1>6 DEF Single
  <2>7. \A x, y \in Of(l) : x = y
    BY <1>3, <1>6 DEF Single
  <2> QED BY <1>1, <1>2, <1>4, <1>6, <2>2, <2>3, <2>4, <2>5, <2>6, <2>7 DEF Single
<1> QED BY <1>5, <1>6

\* A request of the login moves on: it leaves what Single asks of its new place.
LEMMA SingleMoves ==
  ASSUME BrokerInv, NEW t \in Tasks, NEW l \in Logins, Single(l), t \in Working(l),
         begun' = begun, NEW q, task' = [task EXCEPT ![t] = q],
         q.pc \in {"free", "upstream", "mint", "access", "refresh"},
         Pending(l)' = {},
         \A x, y \in Of(l)' : x = y,
         q.pc # "free" => Of(l)' = {}
  PROVE  Single(l)'
<1>1. \A u \in Working(l) : u = t
  BY DEF Single
<1>2. /\ \A u \in Working(l)' : u = t
      /\ q.pc = "free" => Working(l)' = {}
      /\ task'[t] = q
  BY <1>1, AloneMoves
<1>3. l \in begun
  BY DEF Single
<1>4. Working(l)' # {} => q.pc # "free"
  BY <1>2
<1> QED BY <1>2, <1>3, <1>4 DEF Single

\* The request moves to place q; what becomes of other logins and of its own.
LEMMA SingleWorks ==
  ASSUME BrokerInv, OneInv, NEW t \in Tasks, NEW q, NEW l, l = task[t].login,
         task[t].pc # "free", q.pc # "free" => q.login = l,
         q.pc \in {"free", "upstream", "mint", "access", "refresh"},
         task' = [task EXCEPT ![t] = q], begun' = begun, shared' = shared,
         \A k \in Logins : k # l =>
           Of(k)' \subseteq Of(k) /\ Pending(k)' \subseteq Pending(k),
         Single(l) =>
           /\ Pending(l)' = {} /\ \A x, y \in Of(l)' : x = y
           /\ q.pc # "free" => Of(l)' = {},
         NEW m \in Logins \ shared'
  PROVE  Single(m)'
<1>1. Single(m)
  BY DEF OneInv
<1>2. CASE m # l
  <2>1. task'[t] = q /\ \A u \in Tasks \ {t} : task'[u] = task[u]
    BY TaskAt
  <2>2. \A u \in Working(m)' : u \in Working(m) /\ task'[u] = task[u]
    BY <1>2, <2>1 DEF Working
  <2>3. Of(m)' \subseteq Of(m) /\ Pending(m)' \subseteq Pending(m) /\ begun \subseteq begun'
    BY <1>2
  <2> QED BY <1>1, <2>2, <2>3, SingleShrinks
<1>3. CASE m = l
  <2>1. t \in Working(m)
    BY <1>3 DEF Working
  <2>2. /\ Pending(m)' = {} /\ \A x, y \in Of(m)' : x = y
        /\ q.pc # "free" => Of(m)' = {}
    BY <1>1, <1>3
  <2> QED BY <1>1, <2>1, <2>2, SingleMoves
<1> QED BY <1>2, <1>3

\* A request that has something to do keeps its kind of place.
LEMMA GotoAt ==
  ASSUME BrokerInv, NEW t \in Tasks, NEW p, Goto(t, p)
  PROVE  \E q : task' = [task EXCEPT ![t] = q] /\ q.pc = p /\ q.login = task[t].login
<1>1. task' = [task EXCEPT ![t] = [task[t] EXCEPT !.pc = p]]
  BY DEF Goto
<1>2. \A r \in Requests : [r EXCEPT !.pc = p].pc = p /\ [r EXCEPT !.pc = p].login = r.login
  BY DEF Requests
<1>3. task[t] \in Requests
  BY DEF BrokerInv, BrokerTypeOK, Requests
<1> QED BY <1>1, <1>2, <1>3

LEMMA EndedAt ==
  ASSUME NEW t \in Tasks, Ended(t)
  PROVE  \E q : task' = [task EXCEPT ![t] = q] /\ q.pc = "free"
<1>1. Idle.pc = "free"
  BY DEF Idle
<1> QED BY <1>1 DEF Ended

\* What Single says of the login of a request at work.
LEMMA SingleAt ==
  ASSUME NEW t \in Tasks, NEW l, l = task[t].login, task[t].pc # "free", Single(l)
  PROVE  /\ task[t].pc # "transaction" => Pending(l) = {}
         /\ task[t].pc # "loaded" => Of(l) = {}
         /\ task[t].pc = "loaded" => \A x \in Of(l) : x.id = task[t].grant
         /\ \A x, y \in Of(l) : x = y
<1>1. t \in Working(l)
  BY DEF Working
<1> QED BY <1>1 DEF Single

LEMMA SingleTransaction ==
  ASSUME BrokerInv, OneInv, NEW t \in Tasks, DeleteTransaction(t) \/ ExchangeUpstream(t),
         NEW m \in Logins \ shared'
  PROVE  Single(m)'
<1>0. PICK l : l = task[t].login
  OBVIOUS
<1>1. PICK q : /\ task' = [task EXCEPT ![t] = q]
               /\ q.pc \in {"free", "upstream", "mint"}
               /\ q.pc # "free" => q.login = l
  BY <1>0, GotoAt, EndedAt DEF DeleteTransaction, ExchangeUpstream
<1>2. /\ UNCHANGED <<begun, shared, codes, refresh>> /\ trans' \subseteq trans
      /\ task[t].pc \in {"transaction", "upstream"}
      /\ task[t].pc = "transaction" => Pending(l)' = {}
  BY <1>0 DEF DeleteTransaction, ExchangeUpstream, Pending, tables
<1>3. \A k : Of(k)' = Of(k) /\ Pending(k)' \subseteq Pending(k)
  BY <1>2 DEF Of, Grants, Pending
<1>4. ASSUME Single(l)
      PROVE  Pending(l)' = {} /\ Of(l)' = {}
  <2>1. /\ task[t].pc # "transaction" => Pending(l) = {}
        /\ task[t].pc # "loaded" => Of(l) = {}
        /\ task[t].pc = "loaded" => \A x \in Of(l) : x.id = task[t].grant
    BY <1>0, <1>2, <1>4, SingleAt
  <2> QED BY <1>0, <1>2, <1>3, <2>1
<1> QED BY <1>0, <1>1, <1>2, <1>3, <1>4, SingleWorks

LEMMA SingleSpends ==
  ASSUME BrokerInv, OneInv, NEW t \in Tasks, SpendGrant(t), NEW m \in Logins \ shared'
  PROVE  Single(m)'
<1>0. PICK l : l = task[t].login
  OBVIOUS
<1>1. PICK q : task' = [task EXCEPT ![t] = q] /\ q.pc = "access" /\ q.login = l
  BY <1>0, GotoAt DEF SpendGrant
<1>2. UNCHANGED <<begun, shared, trans>> /\ task[t].pc = "loaded"
  BY DEF SpendGrant
<1>3. \A k : /\ \A x \in Of(k)' : x \in Of(k) /\ x.id # task[t].grant
             /\ Pending(k)' = Pending(k)
  BY <1>2 DEF SpendGrant, Of, Grants, Pending
<1>4. ASSUME Single(l)
      PROVE  Pending(l)' = {} /\ Of(l)' = {}
  <2>1. /\ task[t].pc # "transaction" => Pending(l) = {}
        /\ task[t].pc # "loaded" => Of(l) = {}
        /\ task[t].pc = "loaded" => \A x \in Of(l) : x.id = task[t].grant
    BY <1>0, <1>2, <1>4, SingleAt
  <2> QED BY <1>0, <1>2, <1>3, <2>1
<1> QED BY <1>0, <1>1, <1>2, <1>3, <1>4, SingleWorks

LEMMA SingleAccess ==
  ASSUME BrokerInv, OneInv, NEW t \in Tasks, IssueAccess(t), NEW m \in Logins \ shared'
  PROVE  Single(m)'
<1>0. PICK l : l = task[t].login
  OBVIOUS
<1>1. PICK q : task' = [task EXCEPT ![t] = q] /\ q.pc = "refresh" /\ q.login = l
  <2>1. task' = [task EXCEPT ![t] = [task[t] EXCEPT !.pc = "refresh", !.exp = now]]
    BY DEF IssueAccess, BrokerInv, BrokerTypeOK
  <2>2. \A r \in Requests : LET n == [r EXCEPT !.pc = "refresh", !.exp = now] IN
          n.pc = "refresh" /\ n.login = r.login
    BY DEF Requests
  <2>3. task[t] \in Requests
    BY DEF BrokerInv, BrokerTypeOK, Requests
  <2> QED BY <1>0, <2>1, <2>2, <2>3
<1>2. UNCHANGED <<begun, shared, trans, codes, refresh>> /\ task[t].pc = "access"
  BY DEF IssueAccess
<1>3. \A k : Of(k)' = Of(k) /\ Pending(k)' = Pending(k)
  BY <1>2 DEF Of, Grants, Pending
<1>4. ASSUME Single(l)
      PROVE  Pending(l)' = {} /\ Of(l)' = {}
  <2>1. /\ task[t].pc # "transaction" => Pending(l) = {}
        /\ task[t].pc # "loaded" => Of(l) = {}
        /\ task[t].pc = "loaded" => \A x \in Of(l) : x.id = task[t].grant
    BY <1>0, <1>2, <1>4, SingleAt
  <2> QED BY <1>0, <1>2, <1>3, <2>1
<1> QED BY <1>0, <1>1, <1>2, <1>3, <1>4, SingleWorks

\* The code, and the refresh token.
LEMMA SingleIssues ==
  ASSUME BrokerInv, OneInv, NEW t \in Tasks, MintCode(t) \/ IssueRefresh(t),
         NEW m \in Logins \ shared'
  PROVE  Single(m)'
<1>0. PICK l : l = task[t].login
  OBVIOUS
<1>1. PICK q : task' = [task EXCEPT ![t] = q] /\ q.pc = "free"
  BY EndedAt DEF MintCode, IssueRefresh
<1>2. UNCHANGED <<begun, shared, trans>> /\ task[t].pc \in {"mint", "refresh"}
  BY DEF MintCode, IssueRefresh
<1>3. PICK x : x.login = l /\ Grants' = Grants \union {x}
  <2>1. CASE MintCode(t)
    <3>1. codes' = codes \union {NewRow(l, 0, CodeTTL)} /\ refresh' = refresh
      BY <1>0, <2>1 DEF MintCode
    <3>2. NewRow(l, 0, CodeTTL).login = l
      BY DEF NewRow
    <3> QED BY <3>1, <3>2 DEF Grants
  <2>2. CASE IssueRefresh(t)
    <3> DEFINE r == [NewRow(l, task[t].grant, 0) EXCEPT !.exp = task[t].exp + RefreshTTL]
    <3>1. refresh' = refresh \union {r} /\ codes' = codes
      BY <1>0, <2>2 DEF IssueRefresh
    <3>2. r.login = l
      BY DEF NewRow
    <3> HIDE DEF r
    <3> QED BY <3>1, <3>2 DEF Grants
  <2> QED BY <2>1, <2>2
<1>4. \A k : Pending(k)' = Pending(k)
  BY <1>2 DEF Pending
<1>5. \A k : k # l => Of(k)' = Of(k)
  BY <1>3 DEF Of
<1>6. Single(l) => Pending(l)' = {} /\ \A y, z \in Of(l)' : y = z
  <2>1. Of(l)' = Of(l) \union {x}
    BY <1>3 DEF Of
  <2>2. ASSUME Single(l)
        PROVE  Pending(l) = {} /\ Of(l) = {}
    BY <1>0, <1>2, <2>2, SingleAt
  <2> QED BY <1>4, <2>1, <2>2
<1>7. /\ task[t].pc # "free" /\ begun' = begun /\ shared' = shared
      /\ \A k \in Logins : k # l =>
           Of(k)' \subseteq Of(k) /\ Pending(k)' \subseteq Pending(k)
  BY <1>2, <1>4, <1>5
<1>8. /\ q.pc \in {"free", "upstream", "mint", "access", "refresh"}
      /\ q.pc # "free" => q.login = l
      /\ Single(l) => /\ Pending(l)' = {} /\ \A y, z \in Of(l)' : y = z
                      /\ q.pc # "free" => Of(l)' = {}
  BY <1>1, <1>6
<1>9. task' = [task EXCEPT ![t] = q]
  BY <1>1
<1> QED BY <1>0, <1>7, <1>8, <1>9, SingleWorks

\* Steps that only take away, and the start of a login.
LEMMA SingleRest ==
  ASSUME BrokerInv, OneInv,
         \/ Tick \/ RefuseAccess \/ Purge \/ PurgeDies \/ PurgeRestarts
         \/ \E l \in Logins : Authorize(l) \/ Revoke(l)
         \/ \E t \in Tasks : TaskFails(t)
         \/ UNCHANGED vars,
         NEW m \in Logins \ shared'
  PROVE  Single(m)'
<1>1. ASSUME NEW l \in Logins, Authorize(l)
      PROVE  Single(m)'
  <2>1. /\ l \notin begun /\ begun' = begun \union {l} /\ m \notin shared
        /\ UNCHANGED <<codes, refresh, task>>
    BY <1>1 DEF Authorize
  <2>2. Single(m) /\ Of(m)' = Of(m) /\ Working(m)' = Working(m)
    BY <2>1 DEF OneInv, Of, Grants, Working
  <2>3. CASE m # l
    <3>1. Pending(m)' = Pending(m)
      BY <1>1, <2>3 DEF Authorize, Pending
    <3> QED BY <2>1, <2>2, <3>1, SingleShrinks
  <2>4. CASE m = l
    <3>1. Of(m)' = {} /\ Working(m)' = {}
      BY <2>1, <2>2, <2>4 DEF Single
    <3> QED BY <2>1, <2>4, <3>1 DEF Single
  <2> QED BY <2>3, <2>4
<1>2. ASSUME NEW t \in Tasks, TaskFails(t)
      PROVE  Single(m)'
  <2>1. UNCHANGED <<begun, trans, codes, refresh, shared>>
    BY <1>2 DEF TaskFails, tables
  <2>2. Single(m) /\ Of(m)' = Of(m) /\ Pending(m)' = Pending(m)
    BY <2>1 DEF OneInv, Of, Grants, Pending
  <2>3. \A u \in Working(m)' : u \in Working(m) /\ task'[u] = task[u]
    <3>1. PICK q : task' = [task EXCEPT ![t] = q] /\ q.pc = "free"
      BY <1>2, EndedAt DEF TaskFails
    <3>2. task'[t] = q /\ \A u \in Tasks \ {t} : task'[u] = task[u]
      BY <3>1, TaskAt
    <3> QED BY <3>1, <3>2 DEF Working
  <2> QED BY <2>1, <2>2, <2>3, SingleShrinks
<1>3. CASE \/ Tick \/ RefuseAccess \/ Purge \/ PurgeDies \/ PurgeRestarts
           \/ \E l \in Logins : Revoke(l)
           \/ UNCHANGED vars
  <2>1. /\ codes' \subseteq codes /\ refresh' \subseteq refresh /\ trans' \subseteq trans
        /\ UNCHANGED <<begun, task, shared>>
    BY <1>3 DEF Tick, RefuseAccess, Purge, PurgeBegins, PurgeStep, PurgeTo, Kept, PurgeDies,
                PurgeRestarts, Revoke, tables, vars
  <2>2. /\ Single(m) /\ Of(m)' \subseteq Of(m) /\ Pending(m)' \subseteq Pending(m)
        /\ \A u \in Working(m)' : u \in Working(m) /\ task'[u] = task[u]
    BY <2>1 DEF OneInv, Of, Grants, Pending, Working
  <2> QED BY <2>1, <2>2, SingleShrinks
<1> QED BY <1>1, <1>2, <1>3

LEMMA OneStep == BrokerInv /\ OneInv /\ [Next]_vars => OneInv'
<1> SUFFICES ASSUME BrokerInv, OneInv, [Next]_vars PROVE OneInv'
  OBVIOUS
<1>1. HeldIsOwn'
  BY HeldStep DEF OneInv
<1>2. ASSUME NEW m \in Logins \ shared'
      PROVE  Single(m)'
  BY SingleLoads, SingleTransaction, SingleSpends, SingleAccess, SingleIssues, SingleRest
  DEF Next
<1> QED BY <1>1, <1>2 DEF OneInv

\* One grant for each login, however often its callback is called, whatever fails and
\* wherever requests stop, unless two of them read the same row.
THEOREM OneGrant == Spec => []OneGrantPerLogin
<1>1. Init => BrokerInv /\ OneInv
  BY BrokerInit, OneInit
<1>2. BrokerInv /\ OneInv /\ [Next]_vars => (BrokerInv /\ OneInv)'
  BY BrokerStep, OneStep
<1>3. OneInv => OneGrantPerLogin
  <2>1. SUFFICES ASSUME OneInv, NEW l \in Logins \ shared
                 PROVE  /\ Cardinality(Of(l)) <= 1
                        /\ Pending(l) # {} => Of(l) = {}
    BY DEF OneGrantPerLogin, Of, Pending
  <2>2. Of(l) = {} \/ \E x : Of(l) = {x}
    <3>1. \A x, y \in Of(l) : x = y
      BY <2>1 DEF OneInv, Single
    <3> QED BY <3>1, Zenon
  <2>3. Cardinality(Of(l)) \in {0, 1}
    BY <2>2, FS_EmptySet, FS_Singleton
  <2> QED BY <2>1, <2>3 DEF OneInv, Single
<1> QED BY <1>1, <1>2, <1>3, PTL DEF Spec

-----------------------------------------------------------------------------
(* What a client holds works *)

Exchanging(t, g) == task[t].pc \in {"access", "refresh"} /\ task[t].grant = g

\* The client knows how long its grant lives, and only requests of its login spend it.
HeldInv ==
  /\ HeldIsOwn
  /\ \A l \in Logins : \A x \in Grants : x.id = client[l].id => x.exp = client[l].exp
  /\ \A l \in Logins, t \in Tasks :
       /\ task[t].pc \in {"loaded", "access", "refresh"}
       /\ client[l].id # 0 /\ task[t].grant = client[l].id
       => task[t].login = l
  /\ HeldGrantWorks

LEMMA HeldInit == Init => HeldInv
<1> SUFFICES ASSUME Init PROVE HeldInv
  OBVIOUS
<1>1. /\ Grants = {} /\ (\A t \in Tasks : task[t].pc = "free")
      /\ \A l \in Logins : client[l].id = 0
  BY IdleType DEF Init, Grants, NoGrant
<1> QED BY <1>1 DEF HeldInv, HeldIsOwn, HeldGrantWorks, Exchanging

\* The numbers that the proofs compare.
LEMMA HeldNumbers ==
  ASSUME BrokerInv
  PROVE  /\ serial \in Nat /\ now \in Nat /\ purger.stamp \in Nat /\ purger.stamp <= now
         /\ \A l \in Logins : /\ client[l].id \in Nat /\ client[l].id <= serial
                              /\ client[l].exp \in Nat
         /\ \A t \in Tasks : task[t].grant \in Nat /\ task[t].grant <= serial
         /\ \A x \in Grants : x.id \in Nat /\ x.id <= serial /\ x.exp \in Nat
BY BrokerAssumption
   DEF BrokerInv, BrokerTypeOK, Numbered, Rows, Row, Grants, BrokerAssumption

\* Requests that begin, and callbacks that move on.
LEMMA HeldMoves ==
  ASSUME BrokerInv, HeldInv, HeldIsOwn', NEW t \in Tasks,
         \/ \E l \in Logins : LoadTransaction(t, l) \/ LoadGrant(t, l)
         \/ DeleteTransaction(t) \/ ExchangeUpstream(t)
  PROVE  HeldInv'
<1>1. /\ Grants' = Grants /\ UNCHANGED <<now, client, faulty>>
      /\ task[t].pc \notin {"access", "refresh"}
  BY DEF LoadTransaction, LoadGrant, DeleteTransaction, ExchangeUpstream, tables, Grants
<1>2. PICK q : /\ task' = [task EXCEPT ![t] = q]
               /\ q.pc \notin {"access", "refresh"}
               /\ q.pc = "loaded" =>
                    \E x \in Grants : x.id = q.grant /\ q.grant = client[q.login].id
                                      /\ q.login \in Logins
  <2>1. CASE DeleteTransaction(t) \/ ExchangeUpstream(t)
    BY <2>1, GotoAt, EndedAt DEF DeleteTransaction, ExchangeUpstream
  <2>2. ASSUME NEW l \in Logins, LoadTransaction(t, l)
        PROVE  \E e : task' = [task EXCEPT ![t] = [pc |-> "transaction", login |-> l,
                                                   grant |-> 0, exp |-> e]]
    BY <2>2 DEF LoadTransaction
  <2>3. ASSUME NEW l \in Logins, LoadGrant(t, l)
        PROVE  /\ task' = [task EXCEPT ![t] = [pc |-> "loaded", login |-> l,
                             grant |-> client[l].id, exp |-> client[l].exp]]
               /\ \E x \in Grants : x.id = client[l].id
    BY <2>3 DEF LoadGrant
  <2>4. ASSUME NEW l, NEW g, NEW e, NEW p, NEW q,
               q = [pc |-> p, login |-> l, grant |-> g, exp |-> e]
        PROVE  q.pc = p /\ q.login = l /\ q.grant = g
    BY <2>4
  <2>5. CASE \E l \in Logins : LoadTransaction(t, l)
    <3>1. PICK l \in Logins : LoadTransaction(t, l)
      BY <2>5
    <3>2. PICK e : task' = [task EXCEPT ![t] = [pc |-> "transaction", login |-> l,
                                                grant |-> 0, exp |-> e]]
      BY <2>2, <3>1
    <3> DEFINE q == [pc |-> "transaction", login |-> l, grant |-> 0, exp |-> e]
    <3>3. q.pc = "transaction"
      OBVIOUS
    <3>4. task' = [task EXCEPT ![t] = q]
      BY <3>2
    <3> HIDE DEF q
    <3> QED BY <3>3, <3>4
  <2>6. CASE \E l \in Logins : LoadGrant(t, l)
    <3>1. PICK l \in Logins : LoadGrant(t, l)
      BY <2>6
    <3> DEFINE q == [pc |-> "loaded", login |-> l, grant |-> client[l].id,
                     exp |-> client[l].exp]
    <3>2. task' = [task EXCEPT ![t] = q] /\ \E x \in Grants : x.id = client[l].id
      BY <2>3, <3>1
    <3>3. q.pc = "loaded" /\ q.login = l /\ q.grant = client[l].id
      BY <2>4
    <3> HIDE DEF q
    <3> QED BY <3>2, <3>3
  <2> QED BY <2>1, <2>5, <2>6
<1>3. task'[t] = q /\ \A u \in Tasks \ {t} : task'[u] = task[u]
  BY <1>2, TaskAt
<1>4. \A g, u : u \in Tasks => (Exchanging(u, g)' <=> Exchanging(u, g))
  BY <1>1, <1>2, <1>3 DEF Exchanging
<1>5. HeldGrantWorks'
  BY <1>1, <1>4 DEF HeldInv, HeldGrantWorks, Exchanging
<1>6. ASSUME NEW l \in Logins, NEW u \in Tasks,
             task'[u].pc \in {"loaded", "access", "refresh"},
             client[l].id # 0, task'[u].grant = client[l].id
      PROVE  task'[u].login = l
  <2>1. CASE u = t
    <3>1. q.pc = "loaded" /\ q.grant = client[l].id
      BY <1>1, <1>2, <1>3, <1>6, <2>1 DEF Exchanging
    <3>2. q.login = l
      BY <1>2, <3>1 DEF HeldInv, HeldIsOwn
    <3> QED BY <1>3, <2>1, <3>2
  <2>2. CASE u # t
    BY <1>1, <1>3, <1>4, <1>6, <2>2 DEF HeldInv
  <2> QED BY <2>1, <2>2
<1> QED BY <1>1, <1>5, <1>6 DEF HeldInv

\* A request that fails before it has given back what it spent is blamed for it.
LEMMA HeldFails ==
  ASSUME BrokerInv, HeldInv, HeldIsOwn', NEW t \in Tasks, TaskFails(t)
  PROVE  HeldInv'
<1>1. /\ Grants' = Grants /\ UNCHANGED <<now, client>>
      /\ faulty' = faulty \union {task[t].login}
  BY DEF TaskFails, tables, Grants, Blame
<1>2. task'[t].pc = "free" /\ \A u \in Tasks \ {t} : task'[u] = task[u]
  BY EndedAt, TaskAt DEF TaskFails
<1>3. HeldGrantWorks'
  <2> SUFFICES ASSUME NEW l \in Logins \ faulty', client[l].id # 0, now <= client[l].exp
               PROVE  \/ \E x \in Grants : x.id = client[l].id
                      \/ \E u \in Tasks : Exchanging(u, client[l].id)'
    BY <1>1 DEF HeldGrantWorks, Exchanging
  <2>1. l \notin faulty /\ task[t].login # l
    BY <1>1
  <2>2. ~Exchanging(t, client[l].id)
    BY <2>1 DEF HeldInv, Exchanging
  <2>3. \/ \E x \in Grants : x.id = client[l].id
        \/ \E u \in Tasks : Exchanging(u, client[l].id)
    BY <2>1 DEF HeldInv, HeldGrantWorks, Exchanging
  <2> QED BY <1>1, <1>2, <2>2, <2>3 DEF Exchanging
<1> QED BY <1>1, <1>2, <1>3 DEF HeldInv, Exchanging

\* The request that spends a grant will answer for it.
LEMMA HeldSpends ==
  ASSUME BrokerInv, HeldInv, HeldIsOwn', NEW t \in Tasks, SpendGrant(t) \/ IssueAccess(t)
  PROVE  HeldInv'
<1>1. /\ UNCHANGED <<now, client, faulty>> /\ task[t].pc \in {"loaded", "access"}
      /\ \A x \in Grants' : x \in Grants
      /\ \A x \in Grants : x \notin Grants' =>
           task[t].pc = "loaded" /\ x.id = task[t].grant
  BY DEF SpendGrant, IssueAccess, Grants
<1>2. PICK r : /\ task' = [task EXCEPT ![t] = r] /\ r.pc \in {"access", "refresh"}
               /\ r.grant = task[t].grant /\ r.login = task[t].login
  <2>1. task[t] \in Requests
    BY DEF BrokerInv, BrokerTypeOK, Requests
  <2>2. CASE SpendGrant(t)
    <3>1. task' = [task EXCEPT ![t] = [task[t] EXCEPT !.pc = "access"]]
      BY <2>2 DEF SpendGrant, Goto
    <3>2. \A r \in Requests : LET n == [r EXCEPT !.pc = "access"] IN
            n.pc = "access" /\ n.login = r.login /\ n.grant = r.grant
      BY DEF Requests
    <3> QED BY <2>1, <3>1, <3>2
  <2>3. CASE IssueAccess(t)
    <3>1. task' = [task EXCEPT ![t] = [task[t] EXCEPT !.pc = "refresh", !.exp = now]]
      BY <2>3 DEF IssueAccess, BrokerInv, BrokerTypeOK
    <3>2. \A r \in Requests : LET n == [r EXCEPT !.pc = "refresh", !.exp = now] IN
            n.pc = "refresh" /\ n.login = r.login /\ n.grant = r.grant
      BY DEF Requests
    <3> QED BY <2>1, <3>1, <3>2
  <2> QED BY <2>2, <2>3
<1>3. task'[t] = r /\ \A u \in Tasks \ {t} : task'[u] = task[u]
  BY <1>2, TaskAt
<1>4. Exchanging(t, task[t].grant)'
  BY <1>2, <1>3 DEF Exchanging
<1>5. \A g, u : u \in Tasks /\ Exchanging(u, g) => Exchanging(u, g)'
  BY <1>2, <1>3 DEF Exchanging
<1>6. HeldGrantWorks'
  <2> SUFFICES ASSUME NEW l \in Logins \ faulty, client[l].id # 0, now <= client[l].exp
               PROVE  \/ \E x \in Grants' : x.id = client[l].id
                      \/ \E u \in Tasks : Exchanging(u, client[l].id)'
    BY <1>1 DEF HeldGrantWorks, Exchanging
  <2>1. \/ \E x \in Grants : x.id = client[l].id
        \/ \E u \in Tasks : Exchanging(u, client[l].id)
    BY DEF HeldInv, HeldGrantWorks, Exchanging
  <2>2. ASSUME NEW x \in Grants, x.id = client[l].id, x \notin Grants'
        PROVE  Exchanging(t, client[l].id)'
    BY <1>1, <1>2, <1>3, <2>2 DEF Exchanging
  <2>3. CASE \E x \in Grants : x.id = client[l].id
    BY <2>2, <2>3
  <2>4. CASE \E u \in Tasks : Exchanging(u, client[l].id)
    BY <1>1, <1>5, <2>4 DEF Exchanging
  <2> QED BY <2>1, <2>3, <2>4
<1>7. ASSUME NEW l \in Logins, NEW u \in Tasks,
             task'[u].pc \in {"loaded", "access", "refresh"},
             client[l].id # 0, task'[u].grant = client[l].id
      PROVE  task'[u].login = l
  <2>1. CASE u = t
    <3>1. task[t].grant = client[l].id /\ task'[t].login = task[t].login
      BY <1>2, <1>3, <1>7, <2>1
    <3> QED BY <1>1, <1>7, <2>1, <3>1 DEF HeldInv
  <2>2. CASE u # t
    BY <1>3, <1>7, <2>2 DEF HeldInv, Exchanging
  <2> QED BY <2>1, <2>2
<1> QED BY <1>1, <1>6, <1>7 DEF HeldInv

\* The answer takes the place of what was spent, or is lost.
LEMMA HeldAnswers ==
  ASSUME BrokerInv, HeldInv, HeldIsOwn', NEW t \in Tasks, MintCode(t) \/ IssueRefresh(t)
  PROVE  HeldInv'
<1>0. PICK l : l = task[t].login
  OBVIOUS
<1>1. PICK x : /\ x.id = serial + 1 /\ Grants' = Grants \union {x}
               /\ \/ /\ client' = [client EXCEPT ![l] = [id |-> x.id, exp |-> x.exp]]
                     /\ faulty' = faulty
                  \/ client' = client /\ faulty' = faulty \union {l}
  <2>1. CASE MintCode(t)
    <3> DEFINE c == NewRow(l, 0, CodeTTL)
    <3>1. c.id = serial + 1
      BY DEF NewRow
    <3>2. /\ codes' = codes \union {c} /\ refresh' = refresh
          /\ \/ /\ client' = [client EXCEPT ![l] = [id |-> c.id, exp |-> c.exp]]
                /\ faulty' = faulty
             \/ client' = client /\ faulty' = faulty \union {l}
      BY <1>0, <2>1 DEF MintCode, Blame
    <3> HIDE DEF c
    <3> QED BY <3>1, <3>2 DEF Grants
  <2>2. CASE IssueRefresh(t)
    <3> DEFINE x == [NewRow(l, task[t].grant, 0) EXCEPT !.exp = task[t].exp + RefreshTTL]
    <3>1. x.id = serial + 1
      BY DEF NewRow
    <3>2. /\ refresh' = refresh \union {x} /\ codes' = codes
          /\ \/ /\ client' = [client EXCEPT ![l] = [id |-> x.id, exp |-> x.exp]]
                /\ faulty' = faulty
             \/ client' = client /\ faulty' = faulty \union {l}
      BY <1>0, <2>2 DEF IssueRefresh, Blame
    <3> HIDE DEF x
    <3> QED BY <3>1, <3>2 DEF Grants
  <2> QED BY <2>1, <2>2
<1>2. task'[t].pc = "free" /\ \A u \in Tasks \ {t} : task'[u] = task[u]
  BY EndedAt, TaskAt DEF MintCode, IssueRefresh
<1>3. \A m \in Logins :
        \/ client'[m] = client[m] /\ (m = l => m \in faulty')
        \/ m = l /\ client'[m].id = serial + 1 /\ client'[m].exp = x.exp
  <2>1. client \in [Logins -> [id : 0 .. serial, exp : Nat]]
    BY DEF BrokerInv, BrokerTypeOK
  <2>2. \A m \in Logins :
          client' = [client EXCEPT ![l] = [id |-> x.id, exp |-> x.exp]] =>
            client'[m] = IF m = l THEN [id |-> x.id, exp |-> x.exp] ELSE client[m]
    BY <2>1
  <2> QED BY <1>1, <2>2
<1>4. /\ serial \in Nat
      /\ \A m \in Logins : client[m].id # serial + 1
      /\ \A u \in Tasks : task[u].grant # serial + 1
      /\ \A y \in Grants : y.id # serial + 1
  BY HeldNumbers
<1>5. \A m \in Logins : \A y \in Grants' : y.id = client'[m].id => y.exp = client'[m].exp
  BY <1>1, <1>3, <1>4 DEF HeldInv
<1>6. \A m \in Logins, u \in Tasks :
        /\ task'[u].pc \in {"loaded", "access", "refresh"}
        /\ client'[m].id # 0 /\ task'[u].grant = client'[m].id
        => task'[u].login = m
  <2> SUFFICES ASSUME NEW m \in Logins, NEW u \in Tasks,
                      task'[u].pc \in {"loaded", "access", "refresh"},
                      client'[m].id # 0, task'[u].grant = client'[m].id
               PROVE  task'[u].login = m
    BY DEF Exchanging
  <2>1. task'[u] = task[u] /\ client'[m] = client[m]
    BY <1>2, <1>3, <1>4
  <2> QED BY <2>1 DEF HeldInv, Exchanging
<1>7. HeldGrantWorks'
  <2> SUFFICES ASSUME NEW m \in Logins \ faulty', client'[m].id # 0, now <= client'[m].exp
               PROVE  \/ \E y \in Grants' : y.id = client'[m].id
                      \/ \E u \in Tasks : Exchanging(u, client[m].id)'
    <3>1. now' = now
      BY DEF MintCode, IssueRefresh
    <3> QED BY <3>1 DEF HeldGrantWorks, Exchanging
  <2>1. CASE client'[m].id = serial + 1
    BY <1>1, <2>1
  <2>2. CASE client'[m].id # serial + 1
    <3>1. client'[m] = client[m] /\ m # l /\ m \notin faulty
      BY <1>1, <1>3, <2>2
    <3>2. ~Exchanging(t, client[m].id)
      BY <1>0, <3>1 DEF HeldInv, Exchanging
    <3>3. \/ \E y \in Grants : y.id = client[m].id
          \/ \E u \in Tasks : Exchanging(u, client[m].id)
      BY <3>1 DEF HeldInv, HeldGrantWorks, Exchanging
    <3> QED BY <1>1, <1>2, <3>1, <3>2, <3>3 DEF Exchanging
  <2> QED BY <2>1, <2>2
<1> QED BY <1>5, <1>6, <1>7 DEF HeldInv, Exchanging

\* A client that revokes what it holds knows; the purge takes only what has expired.
LEMMA HeldRest ==
  ASSUME BrokerInv, HeldInv, HeldIsOwn',
         \/ Tick \/ RefuseAccess \/ Purge \/ PurgeDies \/ PurgeRestarts
         \/ \E l \in Logins : Authorize(l) \/ Revoke(l)
         \/ UNCHANGED vars
  PROVE  HeldInv'
<1>1. /\ task' = task /\ faulty' = faulty /\ Grants' \subseteq Grants
      /\ now' = now \/ now' = now + 1
  BY DEF Tick, RefuseAccess, Purge, PurgeBegins, PurgeStep, PurgeTo, Kept, PurgeDies,
         PurgeRestarts, Authorize, Revoke, tables, vars, Grants
<1>2. \A l \in Logins : client'[l] = client[l] \/ client'[l].id = 0
  <2>1. client \in [Logins -> [id : 0 .. serial, exp : Nat]] /\ NoGrant.id = 0
    BY DEF BrokerInv, BrokerTypeOK, NoGrant
  <2>2. client' = client \/ \E l \in Logins : client' \in {client, [client EXCEPT ![l] = NoGrant]}
    BY <2>1 DEF Tick, RefuseAccess, Purge, PurgeBegins, PurgeStep, PurgeDies,
         PurgeRestarts, Authorize, Revoke, tables, vars
  <2> QED BY <2>1, <2>2
<1>3. \A x \in Grants : x.id # 0
  BY BrokerAssumption
  DEF BrokerInv, BrokerTypeOK, Rows, Row, Grants, BrokerAssumption
<1>4. ASSUME NEW l \in Logins, NEW x \in Grants, x.id = client[l].id, x \notin Grants',
             now' <= client'[l].exp
      PROVE  client'[l].id = 0
  <2>1. CASE \E m \in Logins : Revoke(m)
    <3>1. PICK m \in Logins, y \in access \union refresh :
            /\ y.login = m /\ refresh' = refresh \ {y} /\ codes' = codes
            /\ client' = [client EXCEPT ![m] = IF y.id = @.id THEN NoGrant ELSE @]
      BY <2>1 DEF Revoke
    <3>2. x = y /\ x.login = l
      BY <1>4, <3>1 DEF Grants, HeldInv, HeldIsOwn
    <3>3. client' = [client EXCEPT ![l] = NoGrant]
      BY <1>4, <3>1, <3>2
    <3>4. client'[l] = NoGrant
      BY <3>3 DEF BrokerInv, BrokerTypeOK
    <3> QED BY <3>4 DEF NoGrant
  <2>2. CASE Purge
    <3>1. Expired(x, purger.stamp) /\ UNCHANGED <<client, now>>
      BY <1>4, <2>2 DEF Purge, PurgeBegins, PurgeStep, PurgeTo, Kept, Grants, tables
    <3>2. x.exp = client[l].exp
      BY <1>4 DEF HeldInv
    <3>3. FALSE
      <4>1. /\ x.exp \in Nat /\ now \in Nat /\ purger.stamp \in Nat /\ purger.stamp <= now
        BY HeldNumbers
      <4>2. x.exp < purger.stamp /\ now <= x.exp
        BY <1>4, <3>1, <3>2 DEF Expired
      <4> QED BY <4>1, <4>2
    <3> QED BY <3>3
  <2>3. CASE \/ Tick \/ RefuseAccess \/ PurgeDies \/ PurgeRestarts
             \/ (\E m \in Logins : Authorize(m)) \/ UNCHANGED vars
    <3>1. Grants' = Grants
      BY <2>3 DEF Tick, RefuseAccess, PurgeDies, PurgeRestarts, Authorize, tables, vars,
                  Grants
    <3> QED BY <1>4, <3>1
  <2> QED BY <2>1, <2>2, <2>3
<1>5. HeldGrantWorks'
  <2> SUFFICES ASSUME NEW l \in Logins \ faulty, client'[l].id # 0, now' <= client'[l].exp
               PROVE  \/ \E x \in Grants' : x.id = client'[l].id
                      \/ \E t \in Tasks : Exchanging(t, client'[l].id)
    BY <1>1 DEF HeldGrantWorks, Exchanging
  <2>1. client'[l] = client[l]
    BY <1>2
  <2>2. now <= client[l].exp
    <3>1. now \in Nat /\ client[l].exp \in Nat
      BY HeldNumbers
    <3> QED BY <1>1, <2>1, <3>1
  <2>3. \/ \E x \in Grants : x.id = client[l].id
        \/ \E t \in Tasks : Exchanging(t, client[l].id)
    BY <2>1, <2>2 DEF HeldInv, HeldGrantWorks, Exchanging
  <2> QED BY <1>4, <2>1, <2>3
<1>6. \A l \in Logins : \A x \in Grants' : x.id = client'[l].id => x.exp = client'[l].exp
  BY <1>1, <1>2, <1>3 DEF HeldInv
<1>7. \A l \in Logins, t \in Tasks :
        /\ task[t].pc \in {"loaded", "access", "refresh"}
        /\ client'[l].id # 0 /\ task[t].grant = client'[l].id
        => task[t].login = l
  BY <1>2 DEF HeldInv, Exchanging
<1> QED BY <1>1, <1>5, <1>6, <1>7 DEF HeldInv, Exchanging

LEMMA HeldWorksStep == BrokerInv /\ HeldInv /\ [Next]_vars => HeldInv'
<1> SUFFICES ASSUME BrokerInv, HeldInv, [Next]_vars PROVE HeldInv'
  OBVIOUS
<1>1. HeldIsOwn'
  BY HeldStep DEF HeldInv
<1> QED BY <1>1, HeldMoves, HeldFails, HeldSpends, HeldAnswers, HeldRest DEF Next

\* What a client was given last works as long as it lives, whatever requests overlap and
\* whenever the purge runs, unless a request of its own fails.
THEOREM HeldWorks == Spec => []HeldGrantWorks
<1>1. Init => BrokerInv /\ HeldInv
  BY BrokerInit, HeldInit
<1>2. BrokerInv /\ HeldInv /\ [Next]_vars => (BrokerInv /\ HeldInv)'
  BY BrokerStep, HeldWorksStep
<1>3. HeldInv => HeldGrantWorks
  BY DEF HeldInv
<1> QED BY <1>1, <1>2, <1>3, PTL DEF Spec

=============================================================================

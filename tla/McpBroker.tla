------------------------------ MODULE McpBroker ------------------------------
(***************************************************************************)
(* The OAuth broker for MCP clients: mcp/oauth.py.                          *)
(*                                                                         *)
(* A login starts with a transaction, which a callback turns into a code,    *)
(* which the client exchanges for an access and a refresh token; a refresh   *)
(* token is exchanged the same way.  Each is a row of its own table, read,    *)
(* deleted and created by separate statements, without a transaction, by      *)
(* requests that may overlap in one process or in several replicas.          *)
(***************************************************************************)
EXTENDS Naturals, FiniteSets

CONSTANTS
  Logins,      \* logins, each with its client
  Tasks,       \* requests being served at a time
  TransTTL, CodeTTL, AccessTTL, RefreshTTL,
  MaxNow,      \* bound: last instant
  MaxRows      \* bound: how many codes and tokens are created

ASSUME BrokerAssumption ==
  /\ TransTTL \in Nat /\ CodeTTL \in Nat /\ AccessTTL \in Nat /\ RefreshTTL \in Nat
  /\ MaxNow \in Nat /\ MaxRows \in Nat /\ Logins # {}

VARIABLES
  now,        \* the clock
  begun,      \* logins that have started
  trans,      \* McpAuthTransactionModel
  codes,      \* McpAuthCodeModel
  access,     \* McpAccessTokenModel
  refresh,    \* McpRefreshTokenModel
  serial,     \* number of codes and tokens created: their names
  task,       \* the requests
  client,     \* the grant the client of a login holds
  purger,     \* watch_mcp_data_purge
  shared,     \* logins of which two requests read the same row
  faulty      \* logins with a request that failed or whose answer was lost

tables == <<trans, codes, access, refresh>>
vars == <<now, begun, tables, serial, task, client, purger, shared, faulty>>

\* A row of one of the last three tables, and the grant it was made from.
Row(ttl) == [id : 1 .. MaxRows, login : Logins, from : 0 .. MaxRows, exp : 0 .. now + ttl]

NoGrant == [id |-> 0, exp |-> 0]
Idle == [pc |-> "free", login |-> CHOOSE l \in Logins : TRUE, grant |-> 0, exp |-> 0]

BrokerTypeOK ==
  /\ now \in 0 .. MaxNow
  /\ begun \subseteq Logins
  /\ trans \subseteq [login : begun, exp : 0 .. now + TransTTL]
  /\ codes \subseteq Row(CodeTTL)
  /\ access \subseteq Row(AccessTTL)
  /\ refresh \subseteq Row(RefreshTTL)
  /\ serial \in 0 .. MaxRows
  /\ task \in [Tasks -> [pc : {"free", "transaction", "upstream", "mint",
                               "loaded", "access", "refresh"},
                         login : Logins, grant : 0 .. MaxRows, exp : Nat]]
  /\ client \in [Logins -> [id : 0 .. serial, exp : Nat]]
  /\ purger \in [pc : {"sleeping", "transactions", "codes", "access", "refresh", "dead"},
                 stamp : 0 .. now]
  /\ shared \subseteq Logins /\ faulty \subseteq Logins

-----------------------------------------------------------------------------
(* Helpers *)

ExpiredBug(x, t) == x.exp <= t   \* off by one

Expired(x, t) == x.exp < t

\* The token a grant is exchanged for is an access and a refresh token; a code too is
\* found by its name.
Grants == codes \union refresh

At(p) == {t \in Tasks : task[t].pc = p}

Ended(t) == task' = [task EXCEPT ![t] = Idle]

Goto(t, p) == task' = [task EXCEPT ![t].pc = p]

Blame(l) == faulty' = faulty \union {l}

\* Another request read the same row and has not deleted it yet.
Shares(p, l, g) ==
  shared' = IF \E u \in At(p) : task[u].login = l /\ task[u].grant = g
            THEN shared \union {l} ELSE shared

NewRow(l, from, ttl) == [id |-> serial + 1, login |-> l, from |-> from, exp |-> now + ttl]

Init ==
  /\ now = 0 /\ begun = {} /\ trans = {} /\ codes = {} /\ access = {} /\ refresh = {}
  /\ serial = 0 /\ task = [t \in Tasks |-> Idle]
  /\ client = [l \in Logins |-> NoGrant]
  /\ purger = [pc |-> "sleeping", stamp |-> 0]
  /\ shared = {} /\ faulty = {}

-----------------------------------------------------------------------------
(* Logins *)

\* authorize: the browser goes on to the identity provider, which may send it back any
\* number of times (the user signs in again, the page is loaded again).
Authorize(l) ==
  /\ l \notin begun /\ begun' = begun \union {l}
  /\ trans' = trans \union {[login |-> l, exp |-> now + TransTTL]}
  /\ UNCHANGED <<now, codes, access, refresh, serial, task, client, purger, shared,
                 faulty>>

\* complete_authorization finds the transaction.  When it does not, the request ends
\* with an error and changes nothing.
LoadTransaction(t, l) ==
  /\ task[t].pc = "free"
  /\ \E x \in trans : x.login = l /\
       task' = [task EXCEPT ![t] = [pc |-> "transaction", login |-> l, grant |-> 0,
                                    exp |-> x.exp]]
  /\ Shares("transaction", l, 0)
  /\ UNCHANGED <<now, begun, tables, serial, client, purger, faulty>>

DeleteTransactionBug(t) ==   \* only an expired transaction is deleted
  /\ task[t].pc = "transaction"
  /\ IF Expired(task[t], now)
     THEN trans' = {x \in trans : x.login # task[t].login} /\ Ended(t)
     ELSE UNCHANGED trans /\ Goto(t, "upstream")
  /\ UNCHANGED <<now, begun, codes, access, refresh, serial, client, purger, shared,
                 faulty>>

\* It deletes the transaction whatever becomes of the login, then looks at its age.
\* Nobody asks whether a row was deleted.
DeleteTransaction(t) ==
  /\ task[t].pc = "transaction"
  /\ trans' = {x \in trans : x.login # task[t].login}
  /\ IF Expired(task[t], now) THEN Ended(t) ELSE Goto(t, "upstream")
  /\ UNCHANGED <<now, begun, codes, access, refresh, serial, client, purger, shared,
                 faulty>>

\* exchange_upstream_code succeeds; see TaskFails for when it does not.
ExchangeUpstream(t) ==
  /\ task[t].pc = "upstream" /\ Goto(t, "mint")
  /\ UNCHANGED <<now, begun, tables, serial, client, purger, shared, faulty>>

\* The code is created and the browser takes it to the client.
MintCode(t) ==
  LET l == task[t].login  c == NewRow(l, 0, CodeTTL) IN
  /\ task[t].pc = "mint" /\ serial < MaxRows /\ serial' = c.id
  /\ codes' = codes \union {c}
  /\ Ended(t)
  /\ \/ client' = [client EXCEPT ![l] = [id |-> c.id, exp |-> c.exp]] /\ UNCHANGED faulty
     \/ Blame(l) /\ UNCHANGED client
  /\ UNCHANGED <<now, begun, trans, access, refresh, purger, shared>>

-----------------------------------------------------------------------------
(* Tokens *)

\* load_authorization_code or load_refresh_token finds what the client sends, and the
\* library sees that it has not expired.  A client may repeat a request.
LoadGrant(t, l) ==
  /\ task[t].pc = "free"
  /\ \E x \in Grants : x.id = client[l].id /\ ~Expired(x, now)
  /\ task' = [task EXCEPT ![t] = [pc |-> "loaded", login |-> l, grant |-> client[l].id,
                                  exp |-> client[l].exp]]
  /\ Shares("loaded", l, client[l].id)
  /\ UNCHANGED <<now, begun, tables, serial, client, purger, faulty>>

SpendGrantBug(t) ==   \* a refresh token stays until it expires
  /\ task[t].pc = "loaded" /\ Goto(t, "access")
  /\ codes' = {x \in codes : x.id # task[t].grant}
  /\ UNCHANGED <<now, begun, trans, access, refresh, serial, client, purger, shared,
                 faulty>>

\* exchange_authorization_code, exchange_refresh_token: the grant goes first.
SpendGrant(t) ==
  /\ task[t].pc = "loaded" /\ Goto(t, "access")
  /\ codes' = {x \in codes : x.id # task[t].grant}
  /\ refresh' = {x \in refresh : x.id # task[t].grant}
  /\ UNCHANGED <<now, begun, trans, access, serial, client, purger, shared, faulty>>

IssueAccessBug(t) ==   \* the wrong time to live
  LET x == NewRow(task[t].login, task[t].grant, RefreshTTL) IN
  /\ task[t].pc = "access" /\ serial < MaxRows /\ serial' = x.id
  /\ access' = access \union {x}
  /\ task' = [task EXCEPT ![t].pc = "refresh", ![t].exp = now]
  /\ UNCHANGED <<now, begun, trans, codes, refresh, client, purger, shared, faulty>>

\* _issue_tokens reads the clock once, for both tokens.
IssueAccess(t) ==
  LET x == NewRow(task[t].login, task[t].grant, AccessTTL) IN
  /\ task[t].pc = "access" /\ serial < MaxRows /\ serial' = x.id
  /\ access' = access \union {x}
  /\ task' = [task EXCEPT ![t].pc = "refresh", ![t].exp = now]
  /\ UNCHANGED <<now, begun, trans, codes, refresh, client, purger, shared, faulty>>

\* The answer goes to the client, which may not get it.
IssueRefresh(t) ==
  LET l == task[t].login
      x == [NewRow(l, task[t].grant, 0) EXCEPT !.exp = task[t].exp + RefreshTTL] IN
  /\ task[t].pc = "refresh" /\ serial < MaxRows /\ serial' = x.id
  /\ refresh' = refresh \union {x} /\ Ended(t)
  /\ \/ client' = [client EXCEPT ![l] = [id |-> x.id, exp |-> x.exp]] /\ UNCHANGED faulty
     \/ Blame(l) /\ UNCHANGED client
  /\ UNCHANGED <<now, begun, trans, codes, access, purger, shared>>

\* load_access_token deletes a token that has expired.
RefuseAccess ==
  /\ \E x \in access : Expired(x, now) /\ access' = access \ {x}
  /\ UNCHANGED <<now, begun, trans, codes, refresh, serial, task, client, purger,
                 shared, faulty>>

\* revoke_token: this token only, from whichever table has it.
Revoke(l) ==
  \E x \in access \union refresh :
    /\ x.login = l
    /\ access' = access \ {x} /\ refresh' = refresh \ {x}
    /\ client' = [client EXCEPT ![l] = IF x.id = @.id THEN NoGrant ELSE @]
    /\ UNCHANGED <<now, begun, trans, codes, serial, task, purger, shared, faulty>>

\* A statement or a call fails, or the replica ends: what was done stays done.
TaskFails(t) ==
  /\ task[t].pc # "free" /\ Ended(t) /\ Blame(task[t].login)
  /\ UNCHANGED <<now, begun, tables, serial, client, purger, shared>>

-----------------------------------------------------------------------------
(* watch_mcp_data_purge *)

PurgeBeginsBug ==   \* the time of the first round is kept
  /\ purger.pc = "sleeping"
  /\ purger' = [purger EXCEPT !.pc = "transactions"]
  /\ UNCHANGED <<now, begun, tables, serial, task, client, shared, faulty>>

\* purge_expired reads the clock once.
PurgeBegins ==
  /\ purger.pc = "sleeping"
  /\ purger' = [pc |-> "transactions", stamp |-> now]
  /\ UNCHANGED <<now, begun, tables, serial, task, client, shared, faulty>>

Kept(table) == {x \in table : ~Expired(x, purger.stamp)}

PurgeTo(p, q) == purger.pc = p /\ purger' = [purger EXCEPT !.pc = q]

\* One statement per table.
PurgeStep ==
  /\ \/ /\ PurgeTo("transactions", "codes") /\ trans' = Kept(trans)
        /\ UNCHANGED <<codes, access, refresh>>
     \/ /\ PurgeTo("codes", "access") /\ codes' = Kept(codes)
        /\ UNCHANGED <<trans, access, refresh>>
     \/ /\ PurgeTo("access", "refresh") /\ access' = Kept(access)
        /\ UNCHANGED <<trans, codes, refresh>>
     \/ /\ PurgeTo("refresh", "sleeping") /\ refresh' = Kept(refresh)
        /\ UNCHANGED <<trans, codes, access>>
  /\ UNCHANGED <<now, begun, serial, task, client, shared, faulty>>

\* A statement fails: nothing catches it, and the task is not started again.
PurgeDies ==
  /\ purger.pc \notin {"sleeping", "dead"} /\ purger' = [purger EXCEPT !.pc = "dead"]
  /\ UNCHANGED <<now, begun, tables, serial, task, client, shared, faulty>>

\* ... until the process is.
PurgeRestarts ==
  /\ purger.pc = "dead" /\ purger' = [purger EXCEPT !.pc = "sleeping"]
  /\ UNCHANGED <<now, begun, tables, serial, task, client, shared, faulty>>

Tick ==
  /\ now < MaxNow /\ now' = now + 1
  /\ UNCHANGED <<begun, tables, serial, task, client, purger, shared, faulty>>

-----------------------------------------------------------------------------
Purge == PurgeBegins \/ PurgeStep

Next ==
  \/ Tick \/ RefuseAccess \/ Purge \/ PurgeDies \/ PurgeRestarts
  \/ \E l \in Logins : Authorize(l) \/ Revoke(l)
  \/ \E t \in Tasks :
       \/ \E l \in Logins : LoadTransaction(t, l) \/ LoadGrant(t, l)
       \/ DeleteTransaction(t) \/ ExchangeUpstream(t) \/ MintCode(t)
       \/ SpendGrant(t) \/ IssueAccess(t) \/ IssueRefresh(t) \/ TaskFails(t)

Spec == Init /\ [][Next]_vars

\* The watcher goes round as long as it lives.  Nothing else has to happen.
FairSpec == Spec /\ WF_vars(Purge)

-----------------------------------------------------------------------------
(* Properties *)

\* A code or a refresh token is gone before anything made from it exists: a replica
\* that ends at any point leaves the client with the old grant, with the new ones or
\* with none, never with both.
SpentBeforeIssued ==
  \A x \in access \union refresh : \A g \in Grants : g.id # x.from

\* A login has at most one grant that can still be exchanged, however often its
\* callback is called and whatever fails, unless two requests read the same row before
\* either deleted it: the deletes do not report that the row is gone already.
OneGrantPerLogin ==
  \A l \in Logins \ shared :
    /\ Cardinality({x \in Grants : x.login = l}) <= 1
    /\ (\E x \in trans : x.login = l) => \A x \in Grants : x.login # l

\* What the client of a login was given last, it can exchange until the last instant of
\* its life, or a request that has spent it is about to answer with what comes next, as
\* long as none of its requests fails and no answer is lost, however they overlap.
HeldGrantWorks ==
  \A l \in Logins \ faulty :
    client[l].id # 0 /\ now <= client[l].exp =>
      \/ \E x \in Grants : x.id = client[l].id
      \/ \E t \in Tasks : /\ task[t].pc \in {"access", "refresh"}
                          /\ task[t].grant = client[l].id

\* Expired rows disappear from all four tables, unless the watcher dies again and again
\* or for good.
ExpiredPurged ==
  \/ []<>(purger.pc = "dead")
  \/ <>[](\A x \in trans \union codes \union access \union refresh : ~Expired(x, now))

=============================================================================

------------------------------- MODULE Catalog -------------------------------
(***************************************************************************)
(* The application catalogue: routers/apps.py, routers/pages.py and the two  *)
(* caches of nvcf.py.                                                       *)
(*                                                                         *)
(* asyncache takes no lock: a coroutine that misses the cache fetches and    *)
(* stores what it gets, however late.  A result is modelled by the time at   *)
(* which NVCF looked (an empty result of a refused call too); what it says   *)
(* does not matter here.                                                    *)
(***************************************************************************)
EXTENDS Naturals

CONSTANTS
  Requests,   \* requests; each is served once
  Names,      \* page names
  NoPage,     \* the order of a page that is not in the table or in a list
  Lists,      \* the lists an administrator may send
  TTL,        \* nvcf_cache_ttl
  MaxLoad,    \* bound: how long a call to NVCF takes at most
  MaxQuery,   \* bound: how long a statement waits for the database at most
  MaxNow      \* bound: last instant

Orders == {1, 2}
Tables == [Names -> Orders \union {NoPage}]

ASSUME CatalogAssumption ==
  /\ NoPage \notin Orders
  /\ Lists \subseteq Tables
  /\ TTL \in Nat \ {0} /\ MaxLoad \in Nat /\ MaxQuery \in Nat /\ MaxNow \in Nat

VARIABLES
  now,      \* the clock
  app,      \* whether the application is published
  cache,    \* the two caches: nvcf_function_cache, nvcf_deployment_cache
  req,      \* the requests
  pages,    \* the table of pages: the order of each
  setter,   \* the request that deleted all pages last, or those before
  rivals    \* the requests that were still inserting pages when it did

vars == <<now, app, cache, req, pages, setter, rivals>>

Times == 0 .. MaxNow
Caches == {"functions", "deployment"}
Kinds == {"list", "info", "publish", "delete", "pages"}
Missing == [at |-> 0, stored |-> 0, in |-> FALSE]

Idle == [kind |-> "none", pc |-> "free", query |-> "none", since |-> 0, at |-> 0,
         list |-> [n \in Names |-> NoPage], todo |-> {}]

CatalogTypeOK ==
  /\ now \in Times
  /\ app \in BOOLEAN
  /\ cache \in [Caches -> [at : Times, stored : Times, in : BOOLEAN]]
  /\ req \in [Requests -> [kind : Kinds \union {"none"},
        pc : {"free", "database", "lookup", "sent", "answered", "gathering", "details",
              "details sent", "details answered", "inserting", "done", "failed"},
        query : {"none", "open", "failed"}, since : Times, at : Times, list : Lists \union {Idle.list},
        todo : SUBSET Names]]
  /\ pages \in Tables
  /\ setter \subseteq Requests /\ rivals \subseteq Requests

-----------------------------------------------------------------------------
(* Helpers *)

Goto(r, p) == req' = [req EXCEPT ![r].pc = p]

FreshBug(k) == cache[k].in   \* entries do not expire

\* The cache has an entry that has not expired.
Fresh(k) == cache[k].in /\ now < cache[k].stored + TTL

ClearedBug == [k \in {"functions"} |-> Missing]   \* the deployments are forgotten

Cleared == [k \in Caches |-> Missing]

Named(t) == {n \in Names : t[n] # NoPage}

Sending(r) == req[r].pc \in {"sent", "answered", "details sent", "details answered"}

Key(r) == IF req[r].pc \in {"details", "details sent", "details answered"}
          THEN "deployment" ELSE "functions"

\* Where a request goes once the functions and its query are there.
Gathered(r) == IF req[r].kind = "info" THEN "details" ELSE "done"

\* Where a request goes once it has its functions or its deployment details: gather
\* waits for the query, and has raised already when the query failed.
After(r) == IF Key(r) = "deployment" THEN "done"
            ELSE CASE req[r].query = "open" -> "gathering"
                   [] req[r].query = "failed" -> "failed"
                   [] OTHER -> Gathered(r)

Init ==
  /\ now = 0 /\ app \in BOOLEAN /\ cache = Cleared
  /\ req = [r \in Requests |-> Idle]
  /\ pages \in Lists /\ setter = {} /\ rivals = {}

-----------------------------------------------------------------------------
(* Requests *)

\* A request arrives.  get_apps and get_app_info send a query and ask for the functions
\* at the same time; the other requests send a statement first.
Arrive(r) ==
  /\ req[r].pc = "free"
  /\ \E k \in Kinds, l \in Lists : LET gathers == k \in {"list", "info"} IN
       req' = [req EXCEPT ![r] =
                 [kind |-> k, pc |-> IF gathers THEN "lookup" ELSE "database",
                  query |-> IF gathers THEN "open" ELSE "none", since |-> now, at |-> 0,
                  list |-> IF k = "pages" THEN l ELSE Idle.list, todo |-> {}]]
  /\ UNCHANGED <<now, app, cache, pages, setter, rivals>>

\* The database answers the query that was sent with the call for the functions.
QueryAnswers(r) ==
  /\ req[r].query = "open" /\ (req[r].kind = "info" => app)
  /\ req' = [req EXCEPT ![r].query = "none",
                        ![r].pc = IF @ = "gathering" THEN Gathered(r) ELSE @]
  /\ UNCHANGED <<now, app, cache, pages, setter, rivals>>

\* There is no such application, or the query fails: the answer is an error, and the
\* call for the functions goes on.
QueryFails(r) ==
  /\ req[r].query = "open"
  /\ req' = [req EXCEPT ![r].query = "failed", ![r].pc = IF @ = "gathering" THEN "failed" ELSE @]
  /\ UNCHANGED <<now, app, cache, pages, setter, rivals>>

PublishBug(r) ==   \* the caches are left alone
  /\ req[r].kind = "publish" /\ req[r].pc = "database"
  /\ app' = TRUE
  /\ IF Fresh("functions")
     THEN req' = [req EXCEPT ![r].pc = "done", ![r].at = cache["functions"].at]
     ELSE req' = [req EXCEPT ![r].pc = "sent", ![r].since = now]
  /\ UNCHANGED <<now, cache, pages, setter, rivals>>

\* publish_app writes the row, clears both caches and asks for the functions, with no
\* await between the last two: its own lookup misses.
Publish(r) ==
  /\ req[r].kind = "publish" /\ req[r].pc = "database"
  /\ app' = TRUE /\ cache' = Cleared
  /\ req' = [req EXCEPT ![r].pc = "sent", ![r].since = now]
  /\ UNCHANGED <<now, pages, setter, rivals>>

\* delete_app: 404 when there is nothing to delete, and the caches stay.
Delete(r) ==
  /\ req[r].kind = "delete" /\ req[r].pc = "database"
  /\ app' = FALSE /\ cache' = IF app THEN Cleared ELSE cache
  /\ Goto(r, "done")
  /\ UNCHANGED <<now, pages, setter, rivals>>

\* cached: a hit.
Hit(r) ==
  /\ req[r].pc \in {"lookup", "details"} /\ Fresh(Key(r))
  /\ req' = [req EXCEPT ![r].pc = After(r),
                        ![r].at = IF Key(r) = "functions" THEN cache["functions"].at ELSE @]
  /\ UNCHANGED <<now, app, cache, pages, setter, rivals>>

\* cached: a miss.
Miss(r) ==
  /\ req[r].pc \in {"lookup", "details"} /\ ~Fresh(Key(r))
  /\ req' = [req EXCEPT ![r].pc = IF @ = "lookup" THEN "sent" ELSE "details sent",
                        ![r].since = now]
  /\ UNCHANGED <<now, app, cache, pages, setter, rivals>>

\* NVCF looks at its functions, at some time between the call and the answer.
NvcfLooks(r) ==
  /\ req[r].pc \in {"sent", "details sent"}
  /\ req' = [req EXCEPT ![r].pc = IF @ = "sent" THEN "answered" ELSE "details answered",
                        ![r].at = IF Key(r) = "functions" THEN now ELSE @]
  /\ UNCHANGED <<now, app, cache, pages, setter, rivals>>

\* The answer arrives and is stored over whatever the cache holds by now: also when it
\* is older, or when the cache has been cleared since.  An answer other than 200 is
\* stored as an empty result.  The age of deployment details is not followed.
Store(r) ==
  /\ req[r].pc \in {"answered", "details answered"}
  /\ cache' = [cache EXCEPT ![Key(r)] =
                 [at |-> IF Key(r) = "functions" THEN req[r].at ELSE 0,
                  stored |-> now, in |-> TRUE]]
  /\ Goto(r, After(r))
  /\ UNCHANGED <<now, app, pages, setter, rivals>>

\* The call raises: nothing is stored, the request fails and its query is not waited for.
CallBreaks(r) ==
  /\ Sending(r) /\ req' = [req EXCEPT ![r].pc = "failed", ![r].query = "none"]
  /\ UNCHANGED <<now, app, cache, pages, setter, rivals>>

-----------------------------------------------------------------------------
(* set_pages: one statement for all rows, then one per row, without a transaction *)

Inserting == {r \in Requests : req[r].pc = "inserting"}

DeletePagesBug(r) ==   \* the old pages stay
  /\ req[r].kind = "pages" /\ req[r].pc = "database"
  /\ req' = [req EXCEPT ![r].pc = "inserting", ![r].todo = Named(req[r].list)]
  /\ setter' = {r} /\ rivals' = Inserting
  /\ UNCHANGED <<now, app, cache, pages>>

DeletePages(r) ==
  /\ req[r].kind = "pages" /\ req[r].pc = "database"
  /\ pages' = [n \in Names |-> NoPage]
  /\ req' = [req EXCEPT ![r].pc = "inserting", ![r].todo = Named(req[r].list)]
  /\ setter' = {r} /\ rivals' = Inserting
  /\ UNCHANGED <<now, app, cache>>

PutPage(r) ==
  /\ req[r].pc = "inserting"
  /\ \E n \in req[r].todo :
       /\ pages' = [pages EXCEPT ![n] = req[r].list[n]]
       /\ req' = [req EXCEPT ![r].todo = @ \ {n}]
  /\ UNCHANGED <<now, app, cache, setter, rivals>>

\* All rows are written; get_pages only reads.
PagesDone(r) ==
  /\ req[r].pc = "inserting" /\ req[r].todo = {} /\ Goto(r, "done")
  /\ UNCHANGED <<now, app, cache, pages, setter, rivals>>

\* A statement fails, or the process ends: the rows written so far stay.
PagesFail(r) ==
  /\ req[r].pc = "inserting" /\ Goto(r, "failed")
  /\ UNCHANGED <<now, app, cache, pages, setter, rivals>>

-----------------------------------------------------------------------------
\* A statement waits: on SQLite for the transaction of start_stream, which stays open
\* for as long as its POST to NVCF.
Querying(r) == req[r].query = "open" \/ req[r].pc = "database"

\* Nothing but time; a call to NVCF does not outlast MaxLoad and a statement MaxQuery,
\* and a look into the cache takes no time.
Tick ==
  /\ now < MaxNow /\ now' = now + 1
  /\ \A r \in Requests : /\ Sending(r) => now < req[r].since + MaxLoad
                         /\ Querying(r) => now < req[r].since + MaxQuery
                         /\ req[r].pc \notin {"lookup", "details"}
  /\ UNCHANGED <<app, cache, req, pages, setter, rivals>>

Serve(r) == \/ Arrive(r) \/ QueryAnswers(r) \/ QueryFails(r) \/ Publish(r) \/ Delete(r)
            \/ Hit(r) \/ Miss(r) \/ NvcfLooks(r) \/ Store(r) \/ CallBreaks(r)
            \/ DeletePages(r) \/ PutPage(r) \/ PagesDone(r) \/ PagesFail(r)

Next == Tick \/ \E r \in Requests : Serve(r)

Spec == Init /\ [][Next]_vars

-----------------------------------------------------------------------------
(* Properties *)

Answered(r) == req[r].pc # "done" /\ req'[r].pc = "done"

\* Whatever order answers come in, a status that is shown is not older than the time
\* to live, the call that filled the cache and what the request waited for since it
\* looked: the gathered query and, in get_app_info, the call for the deployment that
\* follows.  The time to live counts from the store, not from when NVCF looked, so TTL
\* alone is not enough (nvcf.py:47 names it alone).
OldestStatus(kind) == TTL + MaxLoad + MaxQuery + (IF kind = "info" THEN MaxLoad ELSE 0)

StatusAge ==
  [][\A r \in Requests : Answered(r) /\ req[r].kind \in {"list", "info", "publish"} =>
       now < req'[r].at + OldestStatus(req[r].kind)]_vars

\* publish_app never answers with a status from before its write: late answers to
\* other requests may fill the cache it cleared, but not its answer.
PublishAnswersFresh ==
  [][\A r \in Requests : Answered(r) /\ req[r].kind = "publish" =>
       req'[r].at >= req[r].since]_vars

\* After the last set_pages to delete the rows has finished, the table has all pages
\* of its list and no others than those of its list and of the requests it overlapped
\* with; without an overlap it is the list.
PagesAsSent ==
  \A r \in setter : req[r].pc = "done" =>
    /\ Named(req[r].list) \subseteq Named(pages)
    /\ \A n \in Named(pages) : \E q \in {r} \union rivals : pages[n] = req[q].list[n]

=============================================================================

--------------------------- MODULE CatalogProofs ---------------------------
(***************************************************************************)
(* What holds of Catalog for any number of requests, of pages and of lists   *)
(* and any times.                                                           *)
(***************************************************************************)
EXTENDS Catalog, TLAPS

Pcs == {"free", "database", "lookup", "sent", "answered", "gathering", "details",
        "details sent", "details answered", "inserting", "done", "failed"}

Queries == {"none", "open", "failed"}

\* One entry of the table of requests, with each field named.
Served == [kind : Kinds \union {"none"}, pc : Pcs, query : Queries, since : Times, at : Times,
           list : Lists \union {Idle.list}, todo : SUBSET Names]

LEMMA IdleType == Idle \in Served
BY CatalogAssumption DEF Idle, Served, Pcs, Queries, Kinds, Times, CatalogAssumption

LEMMA TypeUnfolded ==
  CatalogTypeOK <=>
    /\ now \in Times /\ app \in BOOLEAN
    /\ cache \in [Caches -> [at : Times, stored : Times, in : BOOLEAN]]
    /\ req \in [Requests -> Served]
    /\ pages \in Tables
    /\ setter \subseteq Requests /\ rivals \subseteq Requests
BY DEF CatalogTypeOK, Served, Pcs, Queries

\* Which kind of request can be where.
Kinded(r) ==
  /\ req[r].pc \in {"details", "details sent", "details answered"} => req[r].kind = "info"
  /\ req[r].pc \in {"lookup", "gathering"} => req[r].kind \in {"list", "info"}
  /\ req[r].pc = "sent" \/ req[r].pc = "answered" => req[r].kind \in {"list", "info", "publish"}
  /\ req[r].pc = "inserting" => req[r].kind = "pages"
  /\ req[r].query # "none" => req[r].kind \in {"list", "info"}
  /\ req[r].query = "open" => req[r].pc \in {"lookup", "sent", "answered", "gathering"}

CatalogInv == CatalogTypeOK /\ \A r \in Requests : Kinded(r)

-----------------------------------------------------------------------------
(* Types *)

LEMMA CatalogInit == Init => CatalogInv
<1> SUFFICES ASSUME Init PROVE CatalogInv
  OBVIOUS
<1>1. now \in Times /\ app \in BOOLEAN /\ setter \subseteq Requests /\ rivals \subseteq Requests
  BY CatalogAssumption DEF Init, Times, CatalogAssumption
<1>2. cache \in [Caches -> [at : Times, stored : Times, in : BOOLEAN]]
  BY CatalogAssumption DEF Init, Cleared, Missing, Times, CatalogAssumption
<1>3. req \in [Requests -> Served]
  BY IdleType DEF Init
<1>4. pages \in Tables
  BY CatalogAssumption DEF Init, CatalogAssumption
<1>5. \A r \in Requests : Kinded(r)
  BY DEF Init, Idle, Kinded
<1> QED BY <1>1, <1>2, <1>3, <1>4, <1>5, TypeUnfolded DEF CatalogInv

\* What a step of one request leaves to show.
LEMMA ServedStep ==
  ASSUME CatalogInv, NEW r \in Requests, NEW x \in Served,
         req' = [req EXCEPT ![r] = x], Kinded(r)'
  PROVE  req' \in [Requests -> Served] /\ \A q \in Requests : Kinded(q)'
<1>1. req' \in [Requests -> Served]
  BY TypeUnfolded DEF CatalogInv
<1>2. ASSUME NEW q \in Requests, q # r
      PROVE  Kinded(q)'
  BY <1>2, TypeUnfolded DEF CatalogInv, Kinded
<1> QED BY <1>1, <1>2

\* A request with some of its fields changed.
Moved(r, p, g, s, a, T) ==
  [kind |-> req[r].kind, pc |-> p, query |-> g, since |-> s, at |-> a, list |-> req[r].list,
   todo |-> T]

\* Each step that moves a request, in terms of all of its fields.
MovesTo(r, p, g, s, a, T) ==
  /\ p \in Pcs /\ g \in Queries /\ s \in Times /\ a \in Times /\ T \in SUBSET Names
  /\ req' = [req EXCEPT ![r] = Moved(r, p, g, s, a, T)]

LEMMA GotoMoves ==
  ASSUME CatalogInv, NEW r \in Requests, NEW p \in Pcs, NEW s \in Times, NEW a \in Times,
         NEW T \in SUBSET Names,
         \/ req' = [req EXCEPT ![r].pc = p] /\ s = req[r].since /\ a = req[r].at /\ T = req[r].todo
         \/ req' = [req EXCEPT ![r].pc = p, ![r].since = s] /\ a = req[r].at /\ T = req[r].todo
         \/ req' = [req EXCEPT ![r].pc = p, ![r].at = a] /\ s = req[r].since /\ T = req[r].todo
         \/ req' = [req EXCEPT ![r].pc = p, ![r].todo = T] /\ s = req[r].since /\ a = req[r].at
         \/ req' = [req EXCEPT ![r].todo = T] /\ p = req[r].pc /\ s = req[r].since /\ a = req[r].at
  PROVE  MovesTo(r, p, req[r].query, s, a, T)
<1>1. req \in [Requests -> Served]
  BY TypeUnfolded DEF CatalogInv
<1>2. req[r] \in Served
  BY <1>1
<1> QED BY <1>1, <1>2 DEF MovesTo, Moved, Served

LEMMA QueryMoves ==
  ASSUME CatalogInv, NEW r \in Requests, NEW p \in Pcs, NEW g \in Queries,
         req' = [req EXCEPT ![r].pc = p, ![r].query = g]
  PROVE  MovesTo(r, p, g, req[r].since, req[r].at, req[r].todo)
<1>1. req \in [Requests -> Served]
  BY TypeUnfolded DEF CatalogInv
<1>2. req[r] \in Served
  BY <1>1
<1>3. [req[r] EXCEPT !.pc = p, !.query = g]
        = Moved(r, p, g, req[r].since, req[r].at, req[r].todo)
  <2>1. PICK x \in Served : x = req[r]
    BY <1>2
  <2>2. PICK w \in Served : w = [x EXCEPT !.pc = p, !.query = g]
    BY DEF Served
  <2>3. w.pc = p /\ w.query = g /\ w.kind = x.kind /\ w.since = x.since /\ w.at = x.at
    BY <2>2 DEF Served
  <2>4. w.list = x.list /\ w.todo = x.todo
    BY <2>2 DEF Served
  <2>5. w = [kind |-> x.kind, pc |-> p, query |-> g, since |-> x.since, at |-> x.at,
             list |-> x.list, todo |-> x.todo]
    BY <2>3, <2>4 DEF Served
  <2> QED BY <2>1, <2>2, <2>5 DEF Moved
<1>4. req' = [req EXCEPT ![r] = [req[r] EXCEPT !.pc = p, !.query = g]]
  BY <1>1, <1>2 DEF Served
<1>5. req[r].since \in Times /\ req[r].at \in Times /\ req[r].todo \in SUBSET Names
  BY <1>2 DEF Served
<1> QED BY <1>3, <1>4, <1>5 DEF MovesTo

LEMMA MovesType ==
  ASSUME CatalogInv, NEW r \in Requests, NEW p, NEW g, NEW s, NEW a, NEW T, MovesTo(r, p, g, s, a, T),
         p \in {"details", "details sent", "details answered"} => req[r].kind = "info",
         p \in {"lookup", "gathering"} => req[r].kind \in {"list", "info"},
         p = "sent" \/ p = "answered" => req[r].kind \in {"list", "info", "publish"},
         p = "inserting" => req[r].kind = "pages",
         g # "none" => req[r].kind \in {"list", "info"},
         g = "open" => p \in {"lookup", "sent", "answered", "gathering"}
  PROVE  req' \in [Requests -> Served] /\ \A q \in Requests : Kinded(q)'
<1> DEFINE x == Moved(r, p, g, s, a, T)
<1>1. req \in [Requests -> Served]
  BY TypeUnfolded DEF CatalogInv
<1>2. x \in Served
  BY <1>1 DEF Served, Moved, MovesTo
<1>3. req' = [req EXCEPT ![r] = x]
  BY DEF MovesTo
<1>4. x.pc = p /\ x.kind = req[r].kind /\ x.query = g
  BY DEF Moved
<1>5. req'[r] = x
  BY <1>1, <1>3
<1> HIDE DEF x
<1>6. Kinded(r)'
  BY <1>4, <1>5 DEF Kinded
<1> QED BY <1>2, <1>3, <1>6, ServedStep

LEMMA MovesRead ==
  ASSUME CatalogInv, NEW r \in Requests, NEW p, NEW g, NEW s, NEW a, NEW T, MovesTo(r, p, g, s, a, T)
  PROVE  /\ req'[r].kind = req[r].kind /\ req'[r].pc = p /\ req'[r].query = g /\ req'[r].since = s
         /\ req'[r].at = a /\ req'[r].list = req[r].list /\ req'[r].todo = T
         /\ \A q \in Requests : q # r => req'[q] = req[q]
BY TypeUnfolded DEF CatalogInv, MovesTo, Moved

LEMMA FieldTypes ==
  ASSUME CatalogInv, NEW r \in Requests
  PROVE  /\ req[r].kind \in Kinds \union {"none"} /\ req[r].pc \in Pcs
         /\ req[r].query \in Queries /\ req[r].since \in Times /\ req[r].at \in Times
         /\ req[r].list \in Lists \union {Idle.list} /\ req[r].todo \subseteq Names
         /\ Kinded(r)
<1> req[r] \in Served
  BY TypeUnfolded DEF CatalogInv
<1> QED BY DEF Served, CatalogInv

LEMMA CacheTypes ==
  ASSUME CatalogInv, NEW k \in Caches
  PROVE  cache[k].at \in Times /\ cache[k].stored \in Times
BY TypeUnfolded DEF CatalogInv

-----------------------------------------------------------------------------
(* Where each step takes a request *)

LEMMA AfterPc == \A r \in Requests :
  /\ After(r) \in {"done", "details", "gathering", "failed"}
  /\ Key(r) = "deployment" => After(r) = "done"
  /\ Key(r) # "deployment" =>
       /\ req[r].query = "open" => After(r) = "gathering"
       /\ req[r].query = "failed" => After(r) = "failed"
       /\ req[r].query \notin {"open", "failed"} => After(r) = Gathered(r)
  /\ Gathered(r) \in {"done", "details"}
  /\ Gathered(r) = "details" => req[r].kind = "info"
BY DEF After, Gathered

LEMMA AnswersMoves ==
  ASSUME CatalogInv, NEW r \in Requests, QueryAnswers(r)
  PROVE  MovesTo(r, IF req[r].pc = "gathering" THEN Gathered(r) ELSE req[r].pc, "none",
                 req[r].since, req[r].at, req[r].todo)
<1> DEFINE p == IF req[r].pc = "gathering" THEN Gathered(r) ELSE req[r].pc
<1>1. p \in Pcs /\ "none" \in Queries
  BY FieldTypes, AfterPc DEF Pcs, Queries
<1>2. req \in [Requests -> Served]
  BY TypeUnfolded DEF CatalogInv
<1>3. req' = [req EXCEPT ![r].pc = p, ![r].query = "none"]
  BY <1>2 DEF QueryAnswers, Served
<1> QED BY <1>1, <1>3, QueryMoves

LEMMA MissingMoves ==
  ASSUME CatalogInv, NEW r \in Requests, QueryFails(r)
  PROVE  MovesTo(r, IF req[r].pc = "gathering" THEN "failed" ELSE req[r].pc, "failed",
                 req[r].since, req[r].at, req[r].todo)
<1> DEFINE p == IF req[r].pc = "gathering" THEN "failed" ELSE req[r].pc
<1>1. p \in Pcs /\ "failed" \in Queries
  BY FieldTypes DEF Pcs, Queries
<1>2. req \in [Requests -> Served]
  BY TypeUnfolded DEF CatalogInv
<1>3. req' = [req EXCEPT ![r].pc = p, ![r].query = "failed"]
  BY <1>2 DEF QueryFails, Served
<1> QED BY <1>1, <1>3, QueryMoves

LEMMA BreakMoves ==
  ASSUME CatalogInv, NEW r \in Requests, CallBreaks(r)
  PROVE  MovesTo(r, "failed", "none", req[r].since, req[r].at, req[r].todo)
BY QueryMoves DEF CallBreaks, Pcs, Queries

LEMMA PublishMoves ==
  ASSUME CatalogInv, NEW r \in Requests, Publish(r)
  PROVE  MovesTo(r, "sent", req[r].query, now, req[r].at, req[r].todo)
BY FieldTypes, GotoMoves, TypeUnfolded DEF Publish, Pcs, CatalogInv

LEMMA DeleteMoves ==
  ASSUME CatalogInv, NEW r \in Requests, Delete(r)
  PROVE  MovesTo(r, "done", req[r].query, req[r].since, req[r].at, req[r].todo)
BY FieldTypes, GotoMoves DEF Delete, Goto, Pcs

\* The status a hit answers with.
Found(r) == IF Key(r) = "functions" THEN cache["functions"].at ELSE req[r].at

LEMMA HitMoves ==
  ASSUME CatalogInv, NEW r \in Requests, Hit(r)
  PROVE  MovesTo(r, After(r), req[r].query, req[r].since, Found(r), req[r].todo)
<1>1. After(r) \in Pcs
  BY AfterPc DEF Pcs
<1>2. Found(r) \in Times
  BY FieldTypes, CacheTypes DEF Found, Caches
<1>3. req \in [Requests -> Served]
  BY TypeUnfolded DEF CatalogInv
<1>4. req' = [req EXCEPT ![r].pc = After(r), ![r].at = Found(r)]
  BY <1>3 DEF Hit, Found, Served
<1> QED BY <1>1, <1>2, <1>4, FieldTypes, GotoMoves

LEMMA MissMoves ==
  ASSUME CatalogInv, NEW r \in Requests, Miss(r)
  PROVE  MovesTo(r, IF req[r].pc = "lookup" THEN "sent" ELSE "details sent", req[r].query,
                 now, req[r].at, req[r].todo)
<1> DEFINE p == IF req[r].pc = "lookup" THEN "sent" ELSE "details sent"
<1>1. req \in [Requests -> Served] /\ now \in Times
  BY TypeUnfolded DEF CatalogInv
<1>2. req' = [req EXCEPT ![r].pc = p, ![r].since = now]
  BY <1>1 DEF Miss, Served
<1>3. p \in Pcs
  BY DEF Pcs
<1> QED BY <1>1, <1>2, <1>3, FieldTypes, GotoMoves

LEMMA LooksMoves ==
  ASSUME CatalogInv, NEW r \in Requests, NvcfLooks(r)
  PROVE  MovesTo(r, IF req[r].pc = "sent" THEN "answered" ELSE "details answered",
                 req[r].query, req[r].since, IF Key(r) = "functions" THEN now ELSE req[r].at, req[r].todo)
<1> DEFINE p == IF req[r].pc = "sent" THEN "answered" ELSE "details answered"
           a == IF Key(r) = "functions" THEN now ELSE req[r].at
<1>1. req \in [Requests -> Served] /\ now \in Times
  BY TypeUnfolded DEF CatalogInv
<1>2. req' = [req EXCEPT ![r].pc = p, ![r].at = a]
  BY <1>1 DEF NvcfLooks, Served
<1>3. p \in Pcs /\ a \in Times
  BY <1>1, FieldTypes DEF Pcs
<1> QED BY <1>2, <1>3, FieldTypes, GotoMoves

LEMMA StoreMoves ==
  ASSUME CatalogInv, NEW r \in Requests, Store(r)
  PROVE  MovesTo(r, After(r), req[r].query, req[r].since, req[r].at, req[r].todo)
<1>1. After(r) \in Pcs
  BY AfterPc DEF Pcs
<1> QED BY <1>1, FieldTypes, GotoMoves DEF Store, Goto

LEMMA FailMoves ==
  ASSUME CatalogInv, NEW r \in Requests, PagesFail(r)
  PROVE  MovesTo(r, "failed", req[r].query, req[r].since, req[r].at, req[r].todo)
BY FieldTypes, GotoMoves DEF PagesFail, Goto, Pcs

LEMMA DeletePagesMoves ==
  ASSUME CatalogInv, NEW r \in Requests, DeletePages(r)
  PROVE  MovesTo(r, "inserting", req[r].query, req[r].since, req[r].at, Named(req[r].list))
<1>1. Named(req[r].list) \in SUBSET Names /\ "inserting" \in Pcs
  BY DEF Named, Pcs
<1> QED BY <1>1, FieldTypes, GotoMoves DEF DeletePages

LEMMA PutPageMoves ==
  ASSUME CatalogInv, NEW r \in Requests, NEW n \in req[r].todo,
         req' = [req EXCEPT ![r].todo = @ \ {n}]
  PROVE  MovesTo(r, req[r].pc, req[r].query, req[r].since, req[r].at, req[r].todo \ {n})
<1>1. req \in [Requests -> Served]
  BY TypeUnfolded DEF CatalogInv
<1>2. req' = [req EXCEPT ![r].todo = req[r].todo \ {n}]
  BY <1>1 DEF Served
<1>3. req[r].todo \ {n} \in SUBSET Names
  BY FieldTypes
<1> QED BY <1>2, <1>3, FieldTypes, GotoMoves

LEMMA DoneMoves ==
  ASSUME CatalogInv, NEW r \in Requests, PagesDone(r)
  PROVE  MovesTo(r, "done", req[r].query, req[r].since, req[r].at, req[r].todo)
BY FieldTypes, GotoMoves DEF PagesDone, Goto, Pcs

\* A request that arrives has every field of its own.
LEMMA ArriveReads ==
  ASSUME CatalogInv, NEW r \in Requests, Arrive(r)
  PROVE  /\ req'[r] \in Served /\ Kinded(r)' /\ req' = [req EXCEPT ![r] = req'[r]]
         /\ req'[r].kind \in Kinds /\ req'[r].todo = {}
         /\ req'[r].pc = "lookup" \/ req'[r].pc = "database"
         /\ req'[r].since = now
<1>1. req \in [Requests -> Served] /\ now \in Times
  BY TypeUnfolded DEF CatalogInv
<1>2. PICK k \in Kinds, l \in Lists :
        req' = [req EXCEPT ![r] =
                 [kind |-> k, pc |-> IF k \in {"list", "info"} THEN "lookup" ELSE "database",
                  query |-> IF k \in {"list", "info"} THEN "open" ELSE "none",
                  since |-> now, at |-> 0, list |-> IF k = "pages" THEN l ELSE Idle.list,
                  todo |-> {}]]
  BY DEF Arrive
<1> DEFINE p == IF k \in {"list", "info"} THEN "lookup" ELSE "database"
           g == IF k \in {"list", "info"} THEN "open" ELSE "none"
           x == [kind |-> k, pc |-> p, query |-> g, since |-> now, at |-> 0,
                 list |-> IF k = "pages" THEN l ELSE Idle.list, todo |-> {}]
<1>3. req' = [req EXCEPT ![r] = x]
  BY <1>2
<1>4. x \in Served
  <2>1. p \in Pcs /\ g \in Queries /\ 0 \in Times /\ {} \in SUBSET Names
    BY CatalogAssumption DEF Pcs, Queries, Times, CatalogAssumption
  <2> QED BY <1>1, <2>1 DEF Served
<1>5. req'[r] = x
  BY <1>1, <1>3
<1>6. x.kind = k /\ x.pc = p /\ x.query = g /\ x.todo = {} /\ x.since = now
  OBVIOUS
<1> HIDE DEF x
<1>7. Kinded(r)'
  BY <1>5, <1>6 DEF Kinded
<1> QED BY <1>3, <1>4, <1>5, <1>6, <1>7

-----------------------------------------------------------------------------
(* Every step keeps the types *)

LEMMA PutPages ==
  ASSUME CatalogInv, NEW r \in Requests, NEW n \in req[r].todo,
         req[r].todo \subseteq Named(req[r].list),
         pages' = [pages EXCEPT ![n] = req[r].list[n]]
  PROVE  pages' \in Tables
<1>1. req[r].list \in [Names -> Orders \union {NoPage}]
  BY FieldTypes, CatalogAssumption DEF CatalogAssumption, Tables, Idle
<1> QED BY <1>1, TypeUnfolded DEF CatalogInv, Tables, Named

\* A request inserts pages of its own list.
Todo == \A r \in Requests : req[r].todo \subseteq Named(req[r].list)

\* A request that has its functions or its details goes where its kind may be.
LEMMA AfterFits ==
  ASSUME CatalogInv, NEW r \in Requests, NEW s, NEW a,
         MovesTo(r, After(r), req[r].query, s, a, req[r].todo),
         req[r].pc \in {"lookup", "answered", "details", "details answered"}
  PROVE  req' \in [Requests -> Served] /\ \A q \in Requests : Kinded(q)'
<1>1. Kinded(r)
  BY FieldTypes
<1>2. Key(r) = "deployment" => req[r].query # "open"
  BY <1>1 DEF Kinded, Key
<1>3. req[r].query = "open" => After(r) = "gathering"
  BY <1>2, AfterPc
<1>4. After(r) = "details" => req[r].kind = "info"
  BY AfterPc
<1>5. After(r) = "gathering" => req[r].kind \in {"list", "info"}
  BY <1>1, AfterPc DEF Kinded
<1>6. After(r) \in {"done", "details", "gathering", "failed"}
  BY AfterPc
<1> QED BY <1>1, <1>3, <1>4, <1>5, <1>6, MovesType DEF Kinded

LEMMA ServeType ==
  ASSUME CatalogInv, Todo, NEW r \in Requests, Serve(r)
  PROVE  req' \in [Requests -> Served] /\ \A q \in Requests : Kinded(q)'
<1>1. CASE Arrive(r)
  BY <1>1, ArriveReads, ServedStep
<1>2. CASE Publish(r)
  BY <1>2, PublishMoves, MovesType, FieldTypes DEF Publish, Kinded
<1>3. CASE Delete(r)
  BY <1>3, DeleteMoves, MovesType, FieldTypes DEF Delete, Kinded
<1>4. CASE Hit(r)
  BY <1>4, HitMoves, AfterFits DEF Hit
<1>5. CASE Miss(r)
  BY <1>5, MissMoves, MovesType, FieldTypes DEF Miss, Kinded
<1>6. CASE NvcfLooks(r)
  BY <1>6, LooksMoves, MovesType, FieldTypes DEF NvcfLooks, Kinded
<1>7. CASE Store(r)
  BY <1>7, StoreMoves, AfterFits DEF Store
<1>8. CASE CallBreaks(r)
  BY <1>8, BreakMoves, MovesType
<1>12. CASE PagesFail(r)
  BY <1>12, FailMoves, MovesType, FieldTypes DEF PagesFail, Kinded
<1>13. CASE QueryAnswers(r)
  BY <1>13, AnswersMoves, AfterPc, MovesType, FieldTypes DEF QueryAnswers, Kinded
<1>14. CASE QueryFails(r)
  BY <1>14, MissingMoves, MovesType, FieldTypes DEF QueryFails, Kinded
<1>9. CASE DeletePages(r)
  BY <1>9, DeletePagesMoves, MovesType, FieldTypes DEF DeletePages, Kinded
<1>10. CASE PutPage(r)
  <2>1. PICK n \in req[r].todo : req' = [req EXCEPT ![r].todo = @ \ {n}]
    BY <1>10 DEF PutPage
  <2> QED BY <1>10, <2>1, PutPageMoves, MovesType, FieldTypes DEF PutPage, Kinded
<1>11. CASE PagesDone(r)
  BY <1>11, DoneMoves, MovesType, FieldTypes DEF PagesDone, Kinded
<1> QED BY <1>1, <1>2, <1>3, <1>4, <1>5, <1>6, <1>7, <1>8, <1>9, <1>10, <1>11, <1>12,
           <1>13, <1>14 DEF Serve

LEMMA StoreCache ==
  ASSUME CatalogInv, NEW r \in Requests, Store(r)
  PROVE  cache' \in [Caches -> [at : Times, stored : Times, in : BOOLEAN]]
<1>1. 0 \in Times /\ now \in Times /\ req[r].at \in Times
  BY FieldTypes, TypeUnfolded, CatalogAssumption DEF CatalogInv, Times, CatalogAssumption
<1> QED BY <1>1, TypeUnfolded DEF CatalogInv, Store, Caches

LEMMA OthersType ==
  ASSUME CatalogInv, Todo, NEW r \in Requests, Serve(r)
  PROVE  /\ now' \in Times /\ app' \in BOOLEAN
         /\ cache' \in [Caches -> [at : Times, stored : Times, in : BOOLEAN]]
         /\ pages' \in Tables
         /\ setter' \subseteq Requests /\ rivals' \subseteq Requests
<1>0. Cleared \in [Caches -> [at : Times, stored : Times, in : BOOLEAN]]
  BY CatalogAssumption DEF Cleared, Missing, Times, CatalogAssumption
<1>1. [n \in Names |-> NoPage] \in Tables
  BY DEF Tables
<1>2. Inserting \subseteq Requests
  BY DEF Inserting
<1> USE TypeUnfolded DEF CatalogInv
<1>3. CASE Arrive(r) \/ QueryAnswers(r) \/ QueryFails(r) \/ Hit(r) \/ Miss(r) \/ NvcfLooks(r)
            \/ CallBreaks(r) \/ PagesDone(r) \/ PagesFail(r)
  BY <1>3 DEF Arrive, QueryAnswers, QueryFails, Hit, Miss, NvcfLooks, CallBreaks, PagesDone, PagesFail
<1>4. CASE Publish(r) \/ Delete(r)
  BY <1>0, <1>4 DEF Publish, Delete
<1>5. CASE Store(r)
  BY <1>5, StoreCache DEF Store
<1>6. CASE DeletePages(r)
  BY <1>1, <1>2, <1>6 DEF DeletePages
<1>7. CASE PutPage(r)
  <2>1. PICK n \in req[r].todo : pages' = [pages EXCEPT ![n] = req[r].list[n]]
    BY <1>7 DEF PutPage
  <2>2. pages' \in Tables
    BY <2>1, PutPages DEF Todo
  <2> QED BY <1>7, <2>2 DEF PutPage
<1> QED BY <1>3, <1>4, <1>5, <1>6, <1>7 DEF Serve

LEMMA TickType == CatalogInv /\ Tick => CatalogInv'
<1> SUFFICES ASSUME CatalogInv, Tick PROVE CatalogInv'
  OBVIOUS
<1>1. now' \in Times
  BY TypeUnfolded, CatalogAssumption DEF CatalogInv, Tick, Times, CatalogAssumption
<1> QED BY <1>1 DEF CatalogInv, CatalogTypeOK, Tick, Kinded

LEMMA ServeKeeps ==
  ASSUME CatalogInv, Todo, NEW r \in Requests, Serve(r)
  PROVE  CatalogInv'
<1>1. CatalogTypeOK'
  BY ServeType, OthersType DEF CatalogTypeOK, Served, Pcs, Queries
<1> QED BY <1>1, ServeType DEF CatalogInv

-----------------------------------------------------------------------------
(* The pages *)

Touched == {"inserting", "done", "failed"}

\* The pages in the table are those of the last request to delete them, as far as it
\* has got, and of requests it overlapped with.
PagesInv ==
  /\ Todo
  /\ \A r \in Requests : req[r].pc = "inserting" => r \in setter \union rivals
  /\ \A r \in setter \union rivals : req[r].pc \in Touched
  /\ \A r, q \in setter : r = q
  /\ \A r \in setter : req[r].pc = "done" => req[r].todo = {}
  /\ \A r \in setter : req[r].pc # "failed" =>
       Named(req[r].list) \ req[r].todo \subseteq Named(pages)
  /\ \A r \in setter : \A n \in Named(pages) :
       \E q \in {r} \union rivals : pages[n] = req[q].list[n]

LEMMA PagesInit == Init => PagesInv
BY DEF Init, PagesInv, Todo, Idle

LEMMA PagesOutside ==
  ASSUME CatalogInv, PagesInv, NEW r \in Requests,
         req[r].pc \notin Touched, req'[r].pc # "inserting",
         req'[r].todo \subseteq Named(req'[r].list),
         \A q \in Requests : q # r => req'[q] = req[q],
         UNCHANGED <<pages, setter, rivals>>
  PROVE  PagesInv'
<1>1. r \notin setter \union rivals
  BY DEF PagesInv
<1>2. \A q \in setter \union rivals : req'[q] = req[q]
  BY <1>1, TypeUnfolded DEF CatalogInv
<1>3. Todo'
  BY DEF PagesInv, Todo, Named
<1> QED BY <1>1, <1>2, <1>3 DEF PagesInv, Named

LEMMA PagesMoved ==
  ASSUME CatalogInv, PagesInv, NEW r \in Requests, NEW p, NEW g, NEW s, NEW a,
         MovesTo(r, p, g, s, a, req[r].todo), req[r].pc \notin Touched, p # "inserting",
         UNCHANGED <<pages, setter, rivals>>
  PROVE  PagesInv'
<1>1. /\ req'[r].list = req[r].list /\ req'[r].todo = req[r].todo /\ req'[r].pc = p
      /\ \A q \in Requests : q # r => req'[q] = req[q]
  BY MovesRead
<1>2. req[r].todo \subseteq Named(req[r].list)
  BY DEF PagesInv, Todo
<1> QED BY <1>1, <1>2, PagesOutside

LEMMA PagesFinish ==
  ASSUME CatalogInv, PagesInv, NEW r \in Requests, PagesDone(r) \/ PagesFail(r)
  PROVE  PagesInv'
<1>1. /\ req'[r].list = req[r].list /\ req'[r].todo = req[r].todo
      /\ req'[r].pc \in {"done", "failed"}
      /\ req'[r].pc = "done" => req[r].todo = {}
      /\ \A q \in Requests : q # r => req'[q] = req[q]
  BY DoneMoves, FailMoves, MovesRead DEF PagesDone
<1>2. req[r].pc = "inserting" /\ UNCHANGED <<pages, setter, rivals>>
  BY DEF PagesDone, PagesFail
<1>3. \A q \in Requests : req'[q].list = req[q].list /\ req'[q].todo = req[q].todo
  BY <1>1
<1>4. \A q \in setter \union rivals : q \in Requests
  BY TypeUnfolded DEF CatalogInv
<1>5. Todo'
  BY <1>3 DEF PagesInv, Todo, Named
<1>6. \A q \in setter \union rivals : req'[q].pc \in Touched
  BY <1>1, <1>4 DEF PagesInv, Touched
<1> QED BY <1>1, <1>2, <1>3, <1>4, <1>5, <1>6 DEF PagesInv, Named

LEMMA PagesDeleted ==
  ASSUME CatalogInv, PagesInv, NEW r \in Requests, DeletePages(r)
  PROVE  PagesInv'
<1>1. /\ req'[r].list = req[r].list /\ req'[r].todo = Named(req[r].list)
      /\ req'[r].pc = "inserting"
      /\ \A q \in Requests : q # r => req'[q] = req[q]
  BY DeletePagesMoves, MovesRead
<1>2. setter' = {r} /\ rivals' = Inserting /\ pages' = [n \in Names |-> NoPage]
  BY DEF DeletePages
<1>3. Named(pages') = {}
  BY <1>2 DEF Named
<1>4. \A q \in rivals' : q \in Requests /\ q # r /\ req'[q].pc = "inserting"
  BY <1>1, <1>2 DEF Inserting, DeletePages
<1>5. \A q \in Requests : req'[q].pc = "inserting" => q \in setter' \union rivals'
  BY <1>1, <1>2 DEF Inserting
<1>6. Todo'
  BY <1>1 DEF PagesInv, Todo, Named
<1>7. Named(req'[r].list) \ req'[r].todo = {}
  BY <1>1
<1> QED BY <1>1, <1>2, <1>3, <1>4, <1>5, <1>6, <1>7 DEF PagesInv, Named, Touched

LEMMA PagesPut ==
  ASSUME CatalogInv, PagesInv, NEW r \in Requests, PutPage(r)
  PROVE  PagesInv'
<1>1. PICK n \in req[r].todo : /\ pages' = [pages EXCEPT ![n] = req[r].list[n]]
                               /\ req' = [req EXCEPT ![r].todo = @ \ {n}]
  BY DEF PutPage
<1>2. /\ req'[r].list = req[r].list /\ req'[r].todo = req[r].todo \ {n}
      /\ req'[r].pc = req[r].pc
      /\ \A q \in Requests : q # r => req'[q] = req[q]
  <2>1. MovesTo(r, req[r].pc, req[r].query, req[r].since, req[r].at, req[r].todo \ {n})
    BY <1>1, PutPageMoves
  <2> QED BY <2>1, MovesRead
<1>3. n \in Names /\ req[r].list[n] # NoPage
  BY FieldTypes DEF PagesInv, Todo, Named
<1>4. pages \in [Names -> Orders \union {NoPage}]
  BY TypeUnfolded DEF CatalogInv, Tables
<1>5. Named(pages') = Named(pages) \union {n} /\ pages'[n] = req[r].list[n]
  BY <1>1, <1>3, <1>4 DEF Named
<1>6. \A m \in Named(pages) : m # n => pages'[m] = pages[m]
  BY <1>1, <1>4 DEF Named
<1>7. req[r].pc = "inserting" /\ UNCHANGED <<setter, rivals>>
  BY DEF PutPage
<1>8. r \in setter \union rivals
  BY <1>7 DEF PagesInv
<1>9. \A q \in Requests : /\ req'[q].list = req[q].list /\ req'[q].pc = req[q].pc
                          /\ req'[q].todo \subseteq req[q].todo
                          /\ req[q].todo \subseteq req'[q].todo \union {n}
  BY <1>2
<1>10. \A q \in setter \union rivals : q \in Requests
  BY TypeUnfolded DEF CatalogInv
<1>11. Todo'
  BY <1>9 DEF PagesInv, Todo, Named
<1>12. ASSUME NEW q \in setter, NEW m \in Named(pages')
       PROVE  \E p \in {q} \union rivals : pages'[m] = req'[p].list[m]
  <2>1. CASE m = n
    BY <1>2, <1>5, <1>8, <2>1 DEF PagesInv
  <2>2. CASE m # n
    <3>1. m \in Named(pages) /\ pages'[m] = pages[m]
      BY <1>5, <1>6, <2>2
    <3>2. PICK p \in {q} \union rivals : pages[m] = req[p].list[m]
      BY <3>1 DEF PagesInv
    <3> QED BY <1>9, <1>10, <3>1, <3>2
  <2> QED BY <2>1, <2>2
<1>13. \A q \in setter : req'[q].pc # "failed" =>
         Named(req'[q].list) \ req'[q].todo \subseteq Named(pages')
  BY <1>5, <1>9, <1>10 DEF PagesInv
<1>14. \A q \in setter : req'[q].pc = "done" => req'[q].todo = {}
  BY <1>9, <1>10 DEF PagesInv
<1>15. \A q \in setter \union rivals : req'[q].pc \in Touched
  BY <1>9, <1>10 DEF PagesInv
<1>16. \A q \in Requests : req'[q].pc = "inserting" => q \in setter \union rivals
  BY <1>9 DEF PagesInv
<1> QED BY <1>7, <1>11, <1>12, <1>13, <1>14, <1>15, <1>16 DEF PagesInv

LEMMA PagesServe ==
  ASSUME CatalogInv, PagesInv, NEW r \in Requests, Serve(r)
  PROVE  PagesInv'
<1> USE DEF Touched
<1>1. CASE Arrive(r)
  <2>1. /\ req'[r].todo = {} /\ req'[r].pc # "inserting"
        /\ \A q \in Requests : q # r => req'[q] = req[q]
    BY <1>1, ArriveReads, TypeUnfolded DEF CatalogInv
  <2> QED BY <1>1, <2>1, PagesOutside DEF Arrive
<1>2. CASE Publish(r)
  BY <1>2, PublishMoves, PagesMoved DEF Publish
<1>3. CASE Delete(r)
  BY <1>3, DeleteMoves, PagesMoved DEF Delete
<1>4. CASE Hit(r)
  BY <1>4, HitMoves, AfterPc, PagesMoved DEF Hit
<1>5. CASE Miss(r)
  BY <1>5, MissMoves, PagesMoved DEF Miss
<1>6. CASE NvcfLooks(r)
  BY <1>6, LooksMoves, PagesMoved DEF NvcfLooks
<1>7. CASE Store(r)
  BY <1>7, StoreMoves, AfterPc, PagesMoved DEF Store
<1>8. CASE CallBreaks(r)
  BY <1>8, BreakMoves, PagesMoved DEF CallBreaks, Sending
<1>9. CASE QueryAnswers(r)
  BY <1>9, AnswersMoves, AfterPc, PagesMoved, FieldTypes DEF QueryAnswers, Kinded
<1>10. CASE QueryFails(r)
  BY <1>10, MissingMoves, PagesMoved, FieldTypes DEF QueryFails, Kinded
<1> QED BY <1>1, <1>2, <1>3, <1>4, <1>5, <1>6, <1>7, <1>8, <1>9, <1>10, PagesDeleted, PagesPut,
           PagesFinish DEF Serve

LEMMA CatalogStep == CatalogInv /\ PagesInv /\ [Next]_vars => (CatalogInv /\ PagesInv)'
<1> SUFFICES ASSUME CatalogInv, PagesInv, [Next]_vars
             PROVE  (CatalogInv /\ PagesInv)'
  OBVIOUS
<1>1. ASSUME NEW r \in Requests, Serve(r)
      PROVE  (CatalogInv /\ PagesInv)'
  BY <1>1, ServeKeeps, PagesServe DEF PagesInv
<1>2. CASE Tick
  <2>1. UNCHANGED <<req, pages, setter, rivals>>
    BY <1>2 DEF Tick
  <2>2. PagesInv'
    BY <2>1 DEF PagesInv, Todo, Named
  <2> QED BY <1>2, <2>2, TickType
<1>3. CASE UNCHANGED vars
  <2>1. CatalogInv'
    BY <1>3 DEF vars, CatalogInv, CatalogTypeOK, Kinded
  <2>2. PagesInv'
    BY <1>3 DEF vars, PagesInv, Todo, Named
  <2> QED BY <2>1, <2>2
<1> QED BY <1>1, <1>2, <1>3 DEF Next

\* The caches, the requests and the table of pages hold what they may.
THEOREM CatalogTypes == Spec => []CatalogTypeOK
<1>1. CatalogInv => CatalogTypeOK
  BY DEF CatalogInv
<1> QED BY <1>1, CatalogInit, PagesInit, CatalogStep, PTL DEF Spec

\* However many lists are sent at a time and wherever they fail, the table that the last
\* one leaves has all of its pages, and others only of lists it overlapped with.
THEOREM PagesAreSent == Spec => []PagesAsSent
<1>1. PagesInv => PagesAsSent
  BY DEF PagesInv, PagesAsSent
<1> QED BY <1>1, CatalogInit, PagesInit, CatalogStep, PTL DEF Spec

-----------------------------------------------------------------------------
(* Ages *)

\* How old what a request has in hand may be.
Aged(r) ==
  /\ Sending(r) => req[r].since <= now /\ now <= req[r].since + MaxLoad
  /\ req[r].query = "open" => req[r].since <= now /\ now <= req[r].since + MaxQuery
  /\ req[r].pc = "lookup" => req[r].since = now
  /\ req[r].pc = "answered" => req[r].since <= req[r].at
  /\ req[r].pc = "gathering" =>
       req[r].query = "open" /\ req[r].since < req[r].at + TTL + MaxLoad
  /\ req[r].pc = "details" => now < req[r].at + TTL + MaxLoad + MaxQuery
  /\ req[r].pc \in {"details sent", "details answered"} =>
       req[r].since < req[r].at + TTL + MaxLoad + MaxQuery

CacheAged ==
  cache["functions"].in => cache["functions"].stored <= cache["functions"].at + MaxLoad

AgeInv == CacheAged /\ \A r \in Requests : Aged(r)

LEMMA Numbers ==
  ASSUME CatalogInv
  PROVE  /\ now \in Nat /\ TTL \in Nat \ {0} /\ MaxLoad \in Nat /\ MaxQuery \in Nat
         /\ \A r \in Requests : req[r].since \in Nat /\ req[r].at \in Nat
         /\ \A k \in Caches : cache[k].at \in Nat /\ cache[k].stored \in Nat
<1>1. Times \subseteq Nat
  BY CatalogAssumption DEF Times, CatalogAssumption
<1> QED BY <1>1, FieldTypes, CacheTypes, TypeUnfolded, CatalogAssumption
        DEF CatalogInv, CatalogAssumption

LEMMA AgeInit == Init => AgeInv
<1> SUFFICES ASSUME Init PROVE AgeInv
  OBVIOUS
<1>1. \A r \in Requests : req[r].pc = "free" /\ req[r].query = "none"
  BY DEF Init, Idle
<1>2. ~cache["functions"].in
  BY DEF Init, Cleared, Missing, Caches
<1> QED BY <1>1, <1>2 DEF AgeInv, CacheAged, Aged, Sending

LEMMA AgeOthers ==
  ASSUME AgeInv, NEW r \in Requests, \A q \in Requests : q # r => req'[q] = req[q],
         now' = now, Aged(r)'
  PROVE  \A q \in Requests : Aged(q)'
<1>1. ASSUME NEW q \in Requests, q # r
      PROVE  Aged(q)'
  <2>1. Aged(q) /\ req'[q] = req[q] /\ now' = now
    BY <1>1 DEF AgeInv
  <2> QED BY <2>1 DEF Aged, Sending
<1> QED BY <1>1

LEMMA Longer ==
  \A x, y, u, v, w \in Nat : x < y + u + v => x < y + u + v + w
OBVIOUS

\* What StatusAge says of one request.
Young(r) ==
  Answered(r) /\ req[r].kind \in {"list", "info", "publish"} =>
    now < req'[r].at + OldestStatus(req[r].kind)

LEMMA YoungBound ==
  ASSUME CatalogInv, NEW r \in Requests, req'[r].at \in Nat,
         \/ now < req'[r].at + TTL + MaxLoad + MaxQuery
         \/ req[r].kind = "info" /\ now < req'[r].at + TTL + MaxLoad + MaxQuery + MaxLoad
  PROVE  Young(r)
<1>1. now \in Nat /\ TTL \in Nat /\ MaxLoad \in Nat /\ MaxQuery \in Nat
  BY Numbers
<1>2. now < req'[r].at + (TTL + MaxLoad + MaxQuery + (IF req[r].kind = "info" THEN MaxLoad ELSE 0))
  BY <1>1
<1> QED BY <1>2 DEF Young, OldestStatus

\* A request that has its functions or its details, by where it goes with them.
LEMMA AfterAge ==
  ASSUME CatalogInv, AgeInv, NEW r \in Requests, now' = now,
         req[r].pc \in {"lookup", "answered", "details", "details answered"},
         req'[r].pc = After(r), req'[r].query = req[r].query,
         req'[r].since = req[r].since, req'[r].at \in Nat,
         Key(r) = "functions" => /\ req[r].since < req'[r].at + TTL + MaxLoad
                                 /\ now < req'[r].at + TTL + MaxLoad,
         Key(r) = "deployment" => now < req'[r].at + TTL + MaxLoad + MaxQuery + MaxLoad
  PROVE  Aged(r)' /\ Young(r)
<1>1. /\ now \in Nat /\ TTL \in Nat \ {0} /\ MaxLoad \in Nat /\ MaxQuery \in Nat
      /\ req[r].since \in Nat
  BY Numbers
<1>2. Key(r) \in {"functions", "deployment"}
  BY DEF Key
<1>3. CASE Key(r) = "deployment"
  <2>1. req[r].kind = "info" /\ req[r].query # "open"
    BY <1>3, FieldTypes DEF Kinded, Key
  <2>2. req'[r].pc = "done"
    BY <1>3, AfterPc
  <2>3. Aged(r)'
    BY <2>1, <2>2 DEF Aged, Sending
  <2> QED BY <1>3, <2>1, <2>3, YoungBound
<1>4. CASE Key(r) = "functions"
  <2>0. now < req'[r].at + TTL + MaxLoad /\ req'[r].at \in Nat
    BY <1>4
  <2>1. now < req'[r].at + TTL + MaxLoad + MaxQuery
    <3>1. PICK a \in Nat : a = req'[r].at
      BY <2>0
    <3>2. now < a + TTL + MaxLoad
      BY <2>0, <3>1
    <3>3. now < a + TTL + MaxLoad + MaxQuery
      BY <1>1, <3>2, Longer
    <3> QED BY <3>1, <3>3
  <2>2. req'[r].pc \in {"done", "details", "gathering", "failed"}
    BY AfterPc
  <2>3. req'[r].pc = "gathering" => req[r].query = "open"
    <3>1. req[r].query # "open" => After(r) # "gathering"
      BY <1>4, AfterPc, FieldTypes
    <3> QED BY <3>1
  <2>4. req[r].query = "open" => req[r].since <= now /\ now <= req[r].since + MaxQuery
    BY DEF AgeInv, Aged
  <2>5. Aged(r)'
    BY <1>4, <2>1, <2>2, <2>3, <2>4 DEF Aged, Sending
  <2> QED BY <2>1, <2>5, YoungBound
<1> QED BY <1>2, <1>3, <1>4

LEMMA HitAge ==
  ASSUME CatalogInv, AgeInv, NEW r \in Requests, Hit(r)
  PROVE  Aged(r)' /\ Young(r)
<1>1. /\ req'[r].pc = After(r) /\ req'[r].query = req[r].query
      /\ req'[r].since = req[r].since /\ req'[r].at = Found(r)
  BY HitMoves, MovesRead
<1>2. now' = now /\ Found(r) \in Nat
  BY HitMoves, Numbers DEF Hit, Found, Caches
<1>3. CASE req[r].pc = "details"
  <2>1. Key(r) = "deployment" /\ Found(r) = req[r].at
    BY <1>3 DEF Found, Key
  <2>2. now < req[r].at + TTL + MaxLoad + MaxQuery
    BY <1>3 DEF AgeInv, Aged
  <2>3. now < req[r].at + TTL + MaxLoad + MaxQuery + MaxLoad
    BY <2>2, Numbers
  <2> QED BY <1>1, <1>2, <1>3, <2>1, <2>3, AfterAge
<1>4. CASE req[r].pc = "lookup"
  <2>1. Key(r) = "functions" /\ Found(r) = cache["functions"].at
    BY <1>4 DEF Found, Key
  <2>2. now < cache["functions"].stored + TTL
    BY <2>1 DEF Hit, Fresh
  <2>3. cache["functions"].stored <= cache["functions"].at + MaxLoad
    BY <2>1 DEF Hit, Fresh, AgeInv, CacheAged
  <2>4. /\ now \in Nat /\ TTL \in Nat \ {0} /\ MaxLoad \in Nat
        /\ cache["functions"].at \in Nat /\ cache["functions"].stored \in Nat
    BY Numbers DEF Caches
  <2>5. now < Found(r) + TTL + MaxLoad
    BY <2>1, <2>2, <2>3, <2>4
  <2>6. req[r].since = now
    BY <1>4 DEF AgeInv, Aged
  <2> QED BY <1>1, <1>2, <1>4, <2>1, <2>5, <2>6, AfterAge
<1> QED BY <1>3, <1>4 DEF Hit

LEMMA StoreAge ==
  ASSUME CatalogInv, AgeInv, NEW r \in Requests, Store(r)
  PROVE  /\ Aged(r)' /\ CacheAged' /\ Young(r)
         /\ Answered(r) /\ req[r].kind = "publish" => req'[r].at >= req[r].since
<1>1. /\ req'[r].pc = After(r) /\ req'[r].query = req[r].query
      /\ req'[r].since = req[r].since /\ req'[r].at = req[r].at
  BY StoreMoves, MovesRead
<1>2. now' = now /\ now <= req[r].since + MaxLoad
  BY DEF Store, AgeInv, Aged, Sending
<1>3. /\ now \in Nat /\ TTL \in Nat \ {0} /\ MaxLoad \in Nat /\ MaxQuery \in Nat
      /\ req[r].since \in Nat /\ req[r].at \in Nat
  BY Numbers
<1>4. req[r].pc = "answered" => req[r].since <= req[r].at
  BY DEF AgeInv, Aged
<1>5. CASE req[r].pc = "answered"
  <2>1. Key(r) = "functions"
    BY <1>5 DEF Key
  <2>2. req[r].since < req[r].at + TTL + MaxLoad /\ now < req[r].at + TTL + MaxLoad
    BY <1>2, <1>3, <1>4, <1>5
  <2>3. cache'["functions"] = [at |-> req[r].at, stored |-> now, in |-> TRUE]
    BY <2>1, TypeUnfolded DEF Store, CatalogInv, Caches
  <2>4. CacheAged'
    BY <1>2, <1>3, <1>4, <1>5, <2>3 DEF CacheAged
  <2>5. Aged(r)' /\ Young(r)
    BY <1>1, <1>2, <1>3, <1>5, <2>1, <2>2, AfterAge
  <2> QED BY <1>1, <1>4, <1>3, <1>5, <2>4, <2>5
<1>6. CASE req[r].pc = "details answered"
  <2>1. Key(r) = "deployment" /\ req[r].kind # "publish"
    BY <1>6, FieldTypes DEF Key, Kinded
  <2>2. req[r].since < req[r].at + TTL + MaxLoad + MaxQuery
    BY <1>6 DEF AgeInv, Aged
  <2>3. now < req[r].at + TTL + MaxLoad + MaxQuery + MaxLoad
    BY <1>2, <1>3, <2>2
  <2>4. cache'["functions"] = cache["functions"]
    BY <2>1, TypeUnfolded DEF Store, CatalogInv, Caches
  <2>5. CacheAged'
    BY <2>4 DEF AgeInv, CacheAged
  <2>6. Aged(r)' /\ Young(r)
    BY <1>1, <1>2, <1>3, <1>6, <2>1, <2>3, AfterAge
  <2> QED BY <2>1, <2>5, <2>6
<1> QED BY <1>5, <1>6 DEF Store

\* The query is there or has failed, and the request goes on if it waited for nothing else.
LEMMA QueryAge ==
  ASSUME CatalogInv, AgeInv, NEW r \in Requests, QueryAnswers(r) \/ QueryFails(r)
  PROVE  Aged(r)' /\ Young(r) /\ req[r].kind # "publish"
<1>0. now' = now /\ req[r].query = "open"
  BY DEF QueryAnswers, QueryFails
<1>1. req[r].kind # "publish"
  BY <1>0, FieldTypes DEF Kinded
<1>2. /\ req'[r].query # "open" /\ req'[r].since = req[r].since /\ req'[r].at = req[r].at
      /\ req[r].pc # "gathering" => req'[r].pc = req[r].pc
      /\ req[r].pc = "gathering" => req'[r].pc \in {"done", "details", "failed"}
  <2>1. CASE QueryAnswers(r)
    <3> DEFINE p == IF req[r].pc = "gathering" THEN Gathered(r) ELSE req[r].pc
    <3>1. MovesTo(r, p, "none", req[r].since, req[r].at, req[r].todo)
      BY <2>1, AnswersMoves
    <3>2. /\ req[r].pc # "gathering" => p = req[r].pc
          /\ req[r].pc = "gathering" => p \in {"done", "details"}
      BY AfterPc
    <3> HIDE DEF p
    <3> QED BY <3>1, <3>2, MovesRead
  <2>2. CASE QueryFails(r)
    <3> DEFINE p == IF req[r].pc = "gathering" THEN "failed" ELSE req[r].pc
    <3>1. MovesTo(r, p, "failed", req[r].since, req[r].at, req[r].todo)
      BY <2>2, MissingMoves
    <3>2. /\ req[r].pc # "gathering" => p = req[r].pc
          /\ req[r].pc = "gathering" => p = "failed"
      OBVIOUS
    <3> HIDE DEF p
    <3> QED BY <3>1, <3>2, MovesRead
  <2> QED BY <2>1, <2>2
<1>3. /\ now \in Nat /\ TTL \in Nat \ {0} /\ MaxLoad \in Nat /\ MaxQuery \in Nat
      /\ req[r].since \in Nat /\ req[r].at \in Nat
  BY Numbers
<1>4. CASE req[r].pc = "gathering"
  <2>1. req[r].since < req[r].at + TTL + MaxLoad /\ now <= req[r].since + MaxQuery
    BY <1>0, <1>4 DEF AgeInv, Aged
  <2>2. now < req[r].at + TTL + MaxLoad + MaxQuery
    BY <1>3, <2>1
  <2>3. Aged(r)'
    BY <1>0, <1>2, <1>4, <2>2 DEF Aged, Sending
  <2> QED BY <1>1, <1>2, <1>3, <2>2, <2>3, YoungBound
<1>5. CASE req[r].pc # "gathering"
  <2>1. Aged(r)'
    BY <1>0, <1>2, <1>5 DEF AgeInv, Aged, Sending
  <2>2. req[r].pc # "done"
    BY <1>0, FieldTypes DEF Kinded
  <2> QED BY <1>1, <1>2, <1>5, <2>1, <2>2 DEF Young, Answered
<1> QED BY <1>4, <1>5

LEMMA SendAge ==
  ASSUME CatalogInv, AgeInv, NEW r \in Requests, Publish(r) \/ Miss(r) \/ NvcfLooks(r)
  PROVE  Aged(r)' /\ ~Answered(r)
<1>1. CASE Publish(r)
  <2>1. req'[r].pc = "sent" /\ req'[r].since = now /\ req'[r].query # "open" /\ now' = now
    <3>1. MovesTo(r, "sent", req[r].query, now, req[r].at, req[r].todo)
      BY <1>1, PublishMoves
    <3>2. now' = now
      BY <1>1 DEF Publish
    <3>3. req[r].query # "open"
      BY <1>1, FieldTypes DEF Publish, Kinded
    <3> QED BY <3>1, <3>2, <3>3, MovesRead
  <2> QED BY <2>1, Numbers DEF Aged, Sending, Answered
<1>2. CASE Miss(r)
  <2>1. /\ req'[r].pc = IF req[r].pc = "lookup" THEN "sent" ELSE "details sent"
        /\ req'[r].since = now /\ req'[r].at = req[r].at /\ now' = now
        /\ req'[r].query = req[r].query
    <3> DEFINE p == IF req[r].pc = "lookup" THEN "sent" ELSE "details sent"
    <3>1. MovesTo(r, p, req[r].query, now, req[r].at, req[r].todo)
      BY <1>2, MissMoves
    <3> HIDE DEF p
    <3>2. /\ req'[r].pc = p /\ req'[r].since = now /\ req'[r].at = req[r].at
          /\ req'[r].query = req[r].query
      BY <3>1, MovesRead
    <3> QED BY <1>2, <3>2 DEF Miss, p
  <2>2. req[r].pc # "lookup" => now < req[r].at + TTL + MaxLoad + MaxQuery
    BY <1>2 DEF Miss, AgeInv, Aged
  <2>3. req'[r].pc = "sent" \/ (req'[r].pc = "details sent" /\ req[r].pc # "lookup")
    BY <2>1
  <2>4. now \in Nat /\ MaxLoad \in Nat /\ MaxQuery \in Nat
    BY Numbers
  <2>5. req'[r].since = now /\ req'[r].at = req[r].at /\ now' = now
    BY <2>1
  <2>6. now <= now /\ now <= now + MaxLoad /\ now <= now + MaxQuery
    BY <2>4
  <2> QED BY <2>2, <2>3, <2>5, <2>6 DEF Aged, Sending, Answered
<1>3. CASE NvcfLooks(r)
  <2>1. /\ req'[r].pc = IF req[r].pc = "sent" THEN "answered" ELSE "details answered"
        /\ req'[r].since = req[r].since /\ req'[r].query = req[r].query
        /\ req'[r].at = IF Key(r) = "functions" THEN now ELSE req[r].at
        /\ now' = now
    <3> DEFINE p == IF req[r].pc = "sent" THEN "answered" ELSE "details answered"
               a == IF Key(r) = "functions" THEN now ELSE req[r].at
    <3>1. MovesTo(r, p, req[r].query, req[r].since, a, req[r].todo)
      BY <1>3, LooksMoves
    <3> HIDE DEF p, a
    <3>2. /\ req'[r].pc = p /\ req'[r].since = req[r].since /\ req'[r].at = a
          /\ req'[r].query = req[r].query
      BY <3>1, MovesRead
    <3> QED BY <1>3, <3>2 DEF NvcfLooks, p, a
  <2>2. req[r].pc = "sent" => Key(r) = "functions"
    BY DEF Key
  <2>3. req[r].pc = "details sent" => Key(r) = "deployment"
    BY DEF Key
  <2>4. req[r].since <= now /\ now <= req[r].since + MaxLoad
    BY <1>3 DEF NvcfLooks, AgeInv, Aged, Sending
  <2>5. /\ req[r].pc = "details sent" => req[r].since < req[r].at + TTL + MaxLoad + MaxQuery
        /\ req[r].query = "open" => now <= req[r].since + MaxQuery
    BY DEF AgeInv, Aged
  <2>6. req[r].pc = "sent" \/ req[r].pc = "details sent"
    BY <1>3 DEF NvcfLooks
  <2> QED BY <2>1, <2>2, <2>3, <2>4, <2>5, <2>6, Numbers DEF Aged, Sending, Answered
<1> QED BY <1>1, <1>2, <1>3

\* The steps that neither look at a cache nor send.
LEMMA RestAge ==
  ASSUME CatalogInv, AgeInv, PagesInv, NEW r \in Requests,
         \/ Arrive(r) \/ Delete(r) \/ CallBreaks(r)
         \/ DeletePages(r) \/ PutPage(r) \/ PagesDone(r) \/ PagesFail(r)
  PROVE  /\ Aged(r)'
         /\ Answered(r) => req[r].kind \in {"delete", "pages"}
<1>0. Kinded(r)
  BY FieldTypes
<1>1. CASE Arrive(r)
  <2>1. now \in Nat /\ MaxQuery \in Nat
    BY Numbers
  <2>2. now' = now /\ now <= now + MaxQuery
    BY <1>1, <2>1 DEF Arrive
  <2>3. /\ req'[r].pc = "lookup" \/ req'[r].pc = "database"
        /\ req'[r].since = now
    BY <1>1, ArriveReads
  <2>4. ~Answered(r) /\ req'[r].pc \notin {"sent", "answered", "gathering", "details",
                                            "details sent", "details answered"}
    BY <2>3 DEF Answered
  <2>5. req'[r].since <= now' /\ now' <= req'[r].since + MaxQuery /\ req'[r].since = now'
    BY <2>1, <2>2, <2>3
  <2>6. Aged(r)'
    BY <2>4, <2>5 DEF Aged, Sending
  <2> QED BY <2>4, <2>6
<1>2. CASE Delete(r)
  <2>8. req'[r].query = req[r].query \/ req'[r].query = "none"
    BY <1>2, DeleteMoves, MovesRead
  <2>9. req[r].query # "open" \/ req'[r].query = "none"
    BY <1>0, <1>2, MovesRead DEF Delete, Kinded
  <2>1. req'[r].pc = "done" /\ req'[r].query # "open"
    BY <1>2, <2>8, <2>9, DeleteMoves, MovesRead
  <2> QED BY <1>2, <2>1 DEF Aged, Sending, Answered, Delete
<1>3. CASE CallBreaks(r)
  <2>1. req'[r].pc = "failed" /\ req'[r].query = "none"
    BY <1>3, BreakMoves, MovesRead
  <2> QED BY <2>1 DEF Aged, Sending, Answered
<1>7. CASE PagesFail(r)
  <2>1. req'[r].pc = "failed" /\ req'[r].query = req[r].query
    BY <1>7, FailMoves, MovesRead
  <2>2. req[r].query # "open"
    BY <1>0, <1>7 DEF PagesFail, Kinded
  <2> QED BY <2>1, <2>2 DEF Aged, Sending, Answered
<1>4. CASE DeletePages(r)
  <2>8. req'[r].query = req[r].query \/ req'[r].query = "none"
    BY <1>4, DeletePagesMoves, MovesRead
  <2>9. req[r].query # "open" \/ req'[r].query = "none"
    BY <1>0, <1>4, MovesRead DEF DeletePages, Kinded
  <2>1. req'[r].pc = "inserting" /\ req'[r].query # "open"
    BY <1>4, <2>8, <2>9, DeletePagesMoves, MovesRead
  <2> QED BY <2>1 DEF Aged, Sending, Answered
<1>5. CASE PutPage(r)
  <2>1. PICK n \in req[r].todo : req' = [req EXCEPT ![r].todo = @ \ {n}]
    BY <1>5 DEF PutPage
  <2>2. MovesTo(r, req[r].pc, req[r].query, req[r].since, req[r].at, req[r].todo \ {n})
    BY <2>1, PutPageMoves
  <2>8. req'[r].query = req[r].query \/ req'[r].query = "none"
    BY <1>5, <2>2, MovesRead
  <2>9. req[r].query # "open" \/ req'[r].query = "none"
    BY <1>0, <1>5, MovesRead DEF PutPage, Kinded
  <2>3. req'[r].pc = "inserting" /\ req'[r].query # "open"
    BY <1>5, <2>8, <2>9, <2>2, MovesRead DEF PutPage
  <2> QED BY <2>3 DEF Aged, Sending, Answered
<1>6. CASE PagesDone(r)
  <2>8. req'[r].query = req[r].query \/ req'[r].query = "none"
    BY <1>6, DoneMoves, MovesRead
  <2>9. req[r].query # "open" \/ req'[r].query = "none"
    BY <1>0, <1>6, MovesRead DEF PagesDone, Kinded
  <2>1. req'[r].pc = "done" /\ req'[r].query # "open"
    BY <1>6, <2>8, <2>9, DoneMoves, MovesRead
  <2> QED BY <1>6, <2>1, FieldTypes DEF Aged, Sending, Answered, PagesDone, Kinded
<1> QED BY <1>1, <1>2, <1>3, <1>4, <1>5, <1>6, <1>7

LEMMA OthersStay ==
  ASSUME CatalogInv, NEW r \in Requests, Serve(r)
  PROVE  /\ \A q \in Requests : q # r => req'[q] = req[q]
         /\ ~Arrive(r) => req'[r].kind = req[r].kind
<1>1. CASE Arrive(r)
  BY <1>1, ArriveReads, TypeUnfolded DEF CatalogInv
<1>2. CASE PutPage(r)
  <2>1. PICK n \in req[r].todo : req' = [req EXCEPT ![r].todo = @ \ {n}]
    BY <1>2 DEF PutPage
  <2>2. MovesTo(r, req[r].pc, req[r].query, req[r].since, req[r].at, req[r].todo \ {n})
    BY <2>1, PutPageMoves
  <2> QED BY <2>2, MovesRead
<1>3. CASE Publish(r)
  <2>1. MovesTo(r, "sent", req[r].query, now, req[r].at, req[r].todo)
    BY <1>3, PublishMoves
  <2> QED BY <2>1, MovesRead
<1>4. CASE Delete(r)
  BY <1>4, DeleteMoves, MovesRead
<1>5. CASE Hit(r)
  <2>1. MovesTo(r, After(r), req[r].query, req[r].since, Found(r), req[r].todo)
    BY <1>5, HitMoves
  <2> QED BY <2>1, MovesRead
<1>6. CASE Miss(r)
  <2> DEFINE p == IF req[r].pc = "lookup" THEN "sent" ELSE "details sent"
  <2>1. MovesTo(r, p, req[r].query, now, req[r].at, req[r].todo)
    BY <1>6, MissMoves
  <2> HIDE DEF p
  <2> QED BY <2>1, MovesRead
<1>7. CASE NvcfLooks(r)
  <2> DEFINE p == IF req[r].pc = "sent" THEN "answered" ELSE "details answered"
             a == IF Key(r) = "functions" THEN now ELSE req[r].at
  <2>1. MovesTo(r, p, req[r].query, req[r].since, a, req[r].todo)
    BY <1>7, LooksMoves
  <2> HIDE DEF p, a
  <2> QED BY <2>1, MovesRead
<1>8. CASE Store(r)
  <2>1. MovesTo(r, After(r), req[r].query, req[r].since, req[r].at, req[r].todo)
    BY <1>8, StoreMoves
  <2> QED BY <2>1, MovesRead
<1>9. CASE CallBreaks(r) \/ PagesFail(r)
  BY <1>9, BreakMoves, FailMoves, MovesRead
<1>10. CASE DeletePages(r)
  BY <1>10, DeletePagesMoves, MovesRead
<1>11. CASE PagesDone(r)
  BY <1>11, DoneMoves, MovesRead
<1>12. CASE QueryAnswers(r)
  BY <1>12, AnswersMoves, MovesRead
<1>13. CASE QueryFails(r)
  BY <1>13, MissingMoves, MovesRead
<1> QED BY <1>1, <1>2, <1>3, <1>4, <1>5, <1>6, <1>7, <1>8, <1>9, <1>10, <1>11, <1>12, <1>13
        DEF Serve

LEMMA ServeAge ==
  ASSUME CatalogInv, PagesInv, AgeInv, NEW r \in Requests, Serve(r)
  PROVE  /\ AgeInv' /\ Young(r)
         /\ Answered(r) /\ req[r].kind = "publish" => req'[r].at >= req[r].since
<1>0. now' = now
  BY DEF Serve, Arrive, QueryAnswers, QueryFails, Publish, Delete, Hit, Miss, NvcfLooks, Store, CallBreaks,
         DeletePages, PutPage, PagesDone, PagesFail
<1>1. ASSUME Aged(r)', CacheAged'
      PROVE  AgeInv'
  BY <1>0, <1>1, OthersStay, AgeOthers DEF AgeInv
<1>2. CASE Hit(r)
  <2>1. CacheAged'
    BY <1>2 DEF Hit, AgeInv, CacheAged
  <2>2. req[r].kind # "publish"
    BY <1>2, FieldTypes DEF Hit, Kinded
  <2> QED BY <1>1, <1>2, <2>1, <2>2, HitAge
<1>3. CASE Store(r)
  BY <1>1, <1>3, StoreAge
<1>4. CASE Publish(r) \/ Miss(r) \/ NvcfLooks(r)
  <2>1. cache'["functions"] = cache["functions"] \/ cache'["functions"] = Missing
    BY <1>4 DEF Publish, Miss, NvcfLooks, Cleared, Caches
  <2>2. CacheAged'
    BY <2>1 DEF AgeInv, CacheAged, Missing
  <2> QED BY <1>1, <1>4, <2>2, SendAge DEF Young
<1>5. CASE \/ Arrive(r) \/ Delete(r) \/ CallBreaks(r)
           \/ DeletePages(r) \/ PutPage(r) \/ PagesDone(r) \/ PagesFail(r)
  <2>1. cache' = cache \/ cache' = Cleared
    BY <1>5 DEF Arrive, Delete, CallBreaks, DeletePages, PutPage, PagesDone, PagesFail
  <2>2. CacheAged'
    <3>1. cache'["functions"] = cache["functions"] \/ cache'["functions"] = Missing
      BY <2>1 DEF Cleared, Caches
    <3> QED BY <3>1 DEF AgeInv, CacheAged, Missing
  <2>3. ~(Answered(r) /\ req[r].kind \in {"list", "info", "publish"})
    BY <1>5, RestAge
  <2> QED BY <1>1, <1>5, <2>2, <2>3, RestAge DEF Young
<1>6. CASE QueryAnswers(r) \/ QueryFails(r)
  <2>1. CacheAged'
    BY <1>6 DEF QueryAnswers, QueryFails, AgeInv, CacheAged
  <2> QED BY <1>1, <1>6, <2>1, QueryAge
<1> QED BY <1>2, <1>3, <1>4, <1>5, <1>6 DEF Serve

LEMMA AgeStep == CatalogInv /\ PagesInv /\ AgeInv /\ [Next]_vars => AgeInv'
<1> SUFFICES ASSUME CatalogInv, PagesInv, AgeInv, [Next]_vars
             PROVE  AgeInv'
  OBVIOUS
<1>1. ASSUME NEW r \in Requests, Serve(r)
      PROVE  AgeInv'
  BY <1>1, ServeAge
<1>2. CASE Tick
  <2>1. now' = now + 1 /\ req' = req /\ cache' = cache
    BY <1>2 DEF Tick
  <2>2. \A r \in Requests : /\ Sending(r) => now < req[r].since + MaxLoad
                            /\ req[r].query = "open" => now < req[r].since + MaxQuery
    BY <1>2 DEF Tick, Querying
  <2>3. \A r \in Requests : req[r].pc # "details" /\ req[r].pc # "lookup"
    BY <1>2 DEF Tick
  <2>4. ASSUME NEW r \in Requests
        PROVE  Aged(r)'
    <3>1. now \in Nat /\ MaxLoad \in Nat /\ MaxQuery \in Nat /\ req[r].since \in Nat
      BY Numbers
    <3>2. Aged(r) /\ req'[r] = req[r] /\ req[r].pc # "details" /\ req[r].pc # "lookup"
      BY <2>1, <2>3 DEF AgeInv
    <3>3. /\ Sending(r) => now < req[r].since + MaxLoad /\ req[r].since <= now
          /\ req[r].query = "open" => now < req[r].since + MaxQuery /\ req[r].since <= now
      BY <2>2, <3>2 DEF Aged
    <3>4. /\ Sending(r) => now' <= req[r].since + MaxLoad /\ req[r].since <= now'
          /\ req[r].query = "open" => now' <= req[r].since + MaxQuery /\ req[r].since <= now'
      BY <2>1, <3>1, <3>3
    <3> QED BY <3>2, <3>4 DEF Aged, Sending
  <2> QED BY <2>1, <2>4 DEF AgeInv, CacheAged
<1>3. CASE UNCHANGED vars
  BY <1>3 DEF vars, AgeInv, CacheAged, Aged, Sending
<1> QED BY <1>1, <1>2, <1>3 DEF Next

\* One step, seen by every request: only the one that is served can be answered.
LEMMA AnswerStep ==
  ASSUME CatalogInv, PagesInv, AgeInv, [Next]_vars, NEW r \in Requests, Answered(r)
  PROVE  /\ Young(r)
         /\ req[r].kind = "publish" => req'[r].at >= req[r].since
<1>1. CASE UNCHANGED req
  BY <1>1 DEF Answered
<1>2. ASSUME NEW q \in Requests, Serve(q)
      PROVE  q = r
  BY <1>2, OthersStay DEF Answered
<1> QED BY <1>1, <1>2, ServeAge DEF Next, Tick, vars

\* A status that is shown is not older than the time to live, the call that filled the
\* cache, the gathered query and, in get_app_info, the call for the deployment, in
\* whatever order the answers of any number of requests, and of the database, arrive.
THEOREM StatusIsYoung == Spec => StatusAge
<1>1. CatalogInv /\ PagesInv /\ AgeInv /\ [Next]_vars =>
        [\A r \in Requests : Answered(r) /\ req[r].kind \in {"list", "info", "publish"} =>
           now < req'[r].at + OldestStatus(req[r].kind)]_vars
  BY AnswerStep DEF Young
<1> QED BY <1>1, CatalogInit, PagesInit, AgeInit, CatalogStep, AgeStep, PTL DEF Spec, StatusAge

\* The answer of publish_app is never from before its write.
THEOREM PublishIsFresh == Spec => PublishAnswersFresh
<1>1. CatalogInv /\ PagesInv /\ AgeInv /\ [Next]_vars =>
        [\A r \in Requests : Answered(r) /\ req[r].kind = "publish" =>
           req'[r].at >= req[r].since]_vars
  <2> SUFFICES ASSUME CatalogInv, PagesInv, AgeInv, [Next]_vars, NEW r \in Requests,
                      Answered(r), req[r].kind = "publish"
               PROVE  req'[r].at >= req[r].since
    OBVIOUS
  <2> QED BY AnswerStep
<1> QED BY <1>1, CatalogInit, PagesInit, AgeInit, CatalogStep, AgeStep, PTL
        DEF Spec, PublishAnswersFresh
=============================================================================

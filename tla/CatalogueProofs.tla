--------------------------- MODULE CatalogueProofs ---------------------------
(***************************************************************************)
(* Theorems about Catalogue, for all tables, queries, page sizes, browsers *)
(* and quotes.                                                             *)
(***************************************************************************)
EXTENDS Catalogue, GoldCurrencyProofs, FiniteSetTheorems, WellFoundedInduction

-----------------------------------------------------------------------------
(***************************************************************************)
(* The lists and the prices together take no step that the prices alone    *)
(* would not: what is proved of GoldCurrency holds of Catalogue.           *)
(***************************************************************************)
LEMMA GoldSteps == [Next]_vars => [GoldNext]_gold
<1> SUFFICES ASSUME [Next]_vars PROVE [GoldNext]_gold
  OBVIOUS
<1> USE BrowsersAssumption
<1>1. CASE PriceStep
  BY <1>1 DEF PriceStep, GoldNext
<1>2. CASE TableStep
  BY <1>2 DEF TableStep, CreateRow, DropRow, MoveRow
<1>3. ASSUME NEW b \in Browsers, NEW q \in Queries, OpenList(b, q)
      PROVE  [GoldNext]_gold
  BY <1>3 DEF OpenList, Requests, GoldNext
<1>4. ASSUME NEW b \in Browsers, MoreRows(b)
      PROVE  [GoldNext]_gold
  BY <1>4 DEF MoreRows, Requests, GoldNext
<1>5. ASSUME NEW b \in Browsers, Query(b)
      PROVE  Reply(b) \/ UNCHANGED gold
  BY <1>5 DEF Query, Reply
<1>6. ASSUME NEW b \in Browsers, ListFails(b)
      PROVE  Reply(b)
  BY <1>6 DEF ListFails, Reply
<1>7. ASSUME NEW b \in Browsers, PickIds(b)
      PROVE  UNCHANGED gold
  BY <1>7 DEF PickIds
<1>8. CASE UNCHANGED vars
  BY <1>8 DEF vars
<1>9. QED
  BY <1>1, <1>2, <1>3, <1>4, <1>5, <1>6, <1>7, <1>8 DEF Next, GoldNext

\* Pages of products take their prices as the price service gives them to any caller.
THEOREM PricesApart == Spec => GoldSpec
<1>1. Init => GoldInit
  BY DEF Init
<1>2. QED
  BY <1>1, GoldSteps, PTL DEF Spec, GoldSpec

\* Hence prices keep their order, and grams agree, also while lists are read.
THEOREM PricesOfLists == Spec => PricesInOrder /\ []OneGramPrice
<1>1. QED
  BY PricesApart, PricesKeepOrder, GramsAgree, PTL

-----------------------------------------------------------------------------
(***************************************************************************)
(* Type correctness.                                                       *)
(***************************************************************************)
TableTypeOK ==
  /\ table \subseteq Attributes /\ Identified(table)
  /\ {r.id : r \in table} \subseteq made /\ made \subseteq Rids

\* A request waits for prices, or has them, exactly when it is one for products.
Linked(b) == fetch[b].at # "idle" <=> walk[b].at \in {"asked", "picked"}
                                      /\ walk[b].q.list = "products"

WalkTypeOK == /\ walk \in [Browsers -> Walks]
              /\ \A b \in Browsers : walk[b].at # "none" => walk[b].q \in Queries

AllLinked == \A b \in Browsers : Linked(b)

LEMMA TypeParts ==
  /\ TypeOK <=> /\ GoldTypeOK /\ events \in 0..MaxEvents
                /\ TableTypeOK /\ WalkTypeOK /\ AllLinked
  /\ TypeOK' <=> /\ GoldTypeOK' /\ events' \in 0..MaxEvents
                 /\ TableTypeOK' /\ WalkTypeOK' /\ AllLinked'
BY DEF TypeOK, TableTypeOK, WalkTypeOK, AllLinked, Linked

\* A walk that is begun, before its first page.
LEMMA OpenedType ==
  ASSUME NEW q \in Queries, NEW there \in SUBSET Rids
  PROVE  /\ [NoWalk EXCEPT !.q = q, !.there = there, !.at = "asked"] \in Walks
         /\ NoWalk \in Walks
<1>1. [i \in Rids |-> 0] \in [Rids -> Nat]
  OBVIOUS
<1>2. NoCursor \in Cursors
  BY DEF Cursors
<1>3. QED
  BY <1>1, <1>2 DEF NoWalk, Walks

LEMMA InitType == Init => TypeOK
<1> SUFFICES ASSUME Init PROVE TypeOK
  OBVIOUS
<1>1. GoldTypeOK /\ events \in 0..MaxEvents
  BY GoldInitType, GoldBounds DEF Init, GoldInit
<1>2. TableTypeOK
  BY TablesAssumption DEF Init, TableTypeOK, Attributes
<1>3. WalkTypeOK
  <2>1. [i \in Rids |-> 0] \in [Rids -> Nat] /\ NoCursor \in Cursors
    BY DEF Cursors
  <2>2. NoWalk \in Walks /\ NoWalk.at = "none"
    BY <2>1 DEF NoWalk, Walks
  <2>3. QED
    BY <2>2 DEF Init, WalkTypeOK
<1>4. AllLinked
  BY BrowsersAssumption DEF Init, GoldInit, NoFetch, NoWalk, AllLinked, Linked
<1>5. QED
  BY <1>1, <1>2, <1>3, <1>4, TypeParts

\* How many rows of a page have an id: one or none.
LEMMA CountOnPage ==
  ASSUME NEW page \in SUBSET Attributes, Identified(page), NEW i
  PROVE  /\ (\E r \in page : r.id = i) => Cardinality({r \in page : r.id = i}) = 1
         /\ (~ \E r \in page : r.id = i) => Cardinality({r \in page : r.id = i}) = 0
         /\ Cardinality({r \in page : r.id = i}) \in {0, 1}
<1>1. ASSUME NEW r \in page, r.id = i
      PROVE  Cardinality({s \in page : s.id = i}) = 1
  <2>1. {s \in page : s.id = i} = {r}
    BY <1>1 DEF Identified
  <2>2. QED
    BY <2>1, FS_Singleton
<1>2. ASSUME ~ \E r \in page : r.id = i
      PROVE  Cardinality({r \in page : r.id = i}) = 0
  <2>1. {r \in page : r.id = i} = {}
    BY <1>2
  <2>2. QED
    BY <2>1, FS_EmptySet
<1>3. QED
  BY <1>1, <1>2

\* A page consists of rows of the table.
LEMMA PageOfTable ==
  ASSUME TableTypeOK, NEW b
  PROVE  PageOf(b) \in SUBSET table /\ PageOf(b) \in SUBSET Attributes /\ Identified(PageOf(b))
<1>1. PageOf(b) \subseteq table
  BY DEF PageOf, Matching, Found, Fitting
<1>2. QED
  BY <1>1 DEF TableTypeOK, Identified

\* What a query makes of a walk.
Counted(times, page) ==
  [i \in Rids |-> times[i] + Cardinality({r \in page : r.id = i})]

Queried(w, v, page) ==
  /\ w.at = "picked" /\ v \in Walks
  /\ v.torn = (w.torn \/ page # w.picked)
  /\ v.q = w.q /\ v.there = w.there /\ v.moved = w.moved /\ v.page = page
  /\ v.times = Counted(w.times, page)
  /\ v.restarted = (w.restarted \/ (w.cursor # NoCursor /\ w.cursor.value = NoValue))
  /\ \/ v.at = "end" /\ v.cursor = NoCursor /\ ~Full(page)
     \/ v.at = "shown" /\ \E r \in page : IsLast(r, page, w.q.dir) /\ v.cursor = CursorAt(r)

LEMMA QueryWalk ==
  ASSUME TableTypeOK, WalkTypeOK, NEW b \in Browsers, Query(b)
  PROVE  \E v : walk' = [walk EXCEPT ![b] = v] /\ Queried(walk[b], v, PageOf(b))
<1> DEFINE w == walk[b]
           page == PageOf(b)
           restarted == w.restarted \/ (w.cursor # NoCursor /\ w.cursor.value = NoValue)
           torn == w.torn \/ page # w.picked
           seen == [w EXCEPT !.page = page, !.picked = {}, !.times = Counted(w.times, page),
                             !.restarted = restarted, !.torn = torn]
<1>1. w \in Walks /\ w.at = "picked"
  BY DEF WalkTypeOK, Query
<1>2. page \in SUBSET Attributes /\ Identified(page)
      /\ restarted \in BOOLEAN /\ torn \in BOOLEAN
  BY <1>1, PageOfTable DEF Walks
<1>3. Counted(w.times, page) \in [Rids -> Nat]
  <2>1. w.times \in [Rids -> Nat]
    BY <1>1 DEF Walks
  <2>2. \A i \in Rids : Cardinality({r \in page : r.id = i}) \in {0, 1}
    BY <1>2, CountOnPage
  <2>3. QED
    BY <2>1, <2>2 DEF Counted
<1>4. IF Full(page)
      THEN \E r \in page :
             /\ IsLast(r, page, w.q.dir)
             /\ walk' = [walk EXCEPT ![b] = [seen EXCEPT !.at = "shown", !.cursor = CursorAt(r)]]
      ELSE walk' = [walk EXCEPT ![b] = [seen EXCEPT !.at = "end", !.cursor = NoCursor]]
  BY <1>1 DEF Query, Counted
<1> HIDE DEF w, page, restarted, torn
<1>5. CASE Full(page)
  <2>1. PICK r \in page :
          /\ IsLast(r, page, w.q.dir)
          /\ walk' = [walk EXCEPT ![b] = [seen EXCEPT !.at = "shown", !.cursor = CursorAt(r)]]
    BY <1>4, <1>5
  <2>2. CursorAt(r) \in Cursors
    BY <1>2 DEF CursorAt, Cursors, Attributes
  <2> DEFINE v == [seen EXCEPT !.at = "shown", !.cursor = CursorAt(r)]
  <2>3. v \in Walks
    BY <1>1, <1>2, <1>3, <2>2 DEF Walks
  <2>4. /\ v.at = "shown" /\ v.cursor = CursorAt(r) /\ v.q = w.q /\ v.moved = w.moved
        /\ v.there = w.there /\ v.page = page /\ v.times = Counted(w.times, page)
        /\ v.restarted = restarted /\ v.torn = torn
    BY <1>1 DEF Walks
  <2> HIDE DEF v
  <2>5. Queried(w, v, page)
    BY <1>1, <2>1, <2>3, <2>4 DEF Queried, restarted, torn
  <2>6. walk' = [walk EXCEPT ![b] = v]
    BY <2>1 DEF v
  <2>7. QED
    BY <2>5, <2>6 DEF w, page
<1>6. CASE ~Full(page)
  <2> DEFINE v == [seen EXCEPT !.at = "end", !.cursor = NoCursor]
  <2>1. walk' = [walk EXCEPT ![b] = v]
    BY <1>4, <1>6
  <2>2. NoCursor \in Cursors
    BY DEF Cursors
  <2>3. v \in Walks
    BY <1>1, <1>2, <1>3, <2>2 DEF Walks
  <2>4. /\ v.at = "end" /\ v.cursor = NoCursor /\ v.q = w.q /\ v.moved = w.moved
        /\ v.there = w.there /\ v.page = page /\ v.times = Counted(w.times, page)
        /\ v.restarted = restarted /\ v.torn = torn
    BY <1>1 DEF Walks
  <2> HIDE DEF v
  <2>5. Queried(w, v, page)
    BY <1>1, <1>6, <2>3, <2>4 DEF Queried, restarted, torn
  <2>6. QED
    BY <2>1, <2>5 DEF w, page
<1>7. QED
  BY <1>5, <1>6

\* What a step does to the walks: it opens one, asks for a page, picks its ids, gets
\* it or fails.
Opened(w, v)  == w.at \notin {"asked", "picked"} /\ v \in Walks /\ v.at = "asked" /\ v.q \in Queries
                 /\ v.cursor = NoCursor /\ v.times = [i \in Rids |-> 0]
                 /\ v.there = {r.id : r \in table}
Asked(w, v)   == w.at = "shown" /\ v \in Walks /\ v = [w EXCEPT !.at = "asked"]
Picked(w, v, rows) ==
  w.at = "asked" /\ v \in Walks /\ v = [w EXCEPT !.at = "picked", !.picked = rows]
Failed(w, v)  == w.at = "asked" /\ v \in Walks /\ v = [w EXCEPT !.at = "shown"]

LEMMA OpenWalk ==
  ASSUME TableTypeOK, WalkTypeOK, NEW b \in Browsers, NEW q \in Queries, OpenList(b, q)
  PROVE  \E v : walk' = [walk EXCEPT ![b] = v] /\ Opened(walk[b], v) /\ v.q = q
<1> DEFINE v == [NoWalk EXCEPT !.q = q, !.there = {r.id : r \in table}, !.at = "asked"]
<1>1. walk' = [walk EXCEPT ![b] = v] /\ walk[b].at \notin {"asked", "picked"}
  BY DEF OpenList, Requests
<1>2. {r.id : r \in table} \in SUBSET Rids
  BY DEF TableTypeOK
<1>3. v \in Walks
  BY <1>2, OpenedType
<1>4. /\ v.at = "asked" /\ v.q = q /\ v.cursor = NoCursor /\ v.times = [i \in Rids |-> 0]
      /\ v.there = {r.id : r \in table}
  BY DEF NoWalk
<1> HIDE DEF v
<1>5. QED
  BY <1>1, <1>3, <1>4 DEF Opened

LEMMA MoreWalk ==
  ASSUME WalkTypeOK, NEW b \in Browsers, MoreRows(b)
  PROVE  \E v : walk' = [walk EXCEPT ![b] = v] /\ Asked(walk[b], v)
<1> DEFINE v == [walk[b] EXCEPT !.at = "asked"]
<1>1. walk' = [walk EXCEPT ![b] = v] /\ walk[b].at = "shown"
  BY DEF MoreRows, Requests
<1>2. v \in Walks
  BY DEF WalkTypeOK, Walks
<1>3. QED
  BY <1>1, <1>2 DEF Asked

\* The rows that the first statement picks.
PickOf(b) == FirstOf(Matching(b), walk[b].q.dir)

LEMMA PickWalk ==
  ASSUME TableTypeOK, WalkTypeOK, NEW b \in Browsers, PickIds(b)
  PROVE  \E v : walk' = [walk EXCEPT ![b] = v] /\ Picked(walk[b], v, PickOf(b))
<1> DEFINE v == [walk[b] EXCEPT !.at = "picked", !.picked = PickOf(b)]
<1>1. walk' = [walk EXCEPT ![b] = v] /\ walk[b].at = "asked"
  BY DEF PickIds, PickOf
<1>2. PickOf(b) \in SUBSET Attributes
  BY DEF PickOf, FirstOf, Matching, Found, Fitting, TableTypeOK
<1>3. v \in Walks
  BY <1>2 DEF WalkTypeOK, Walks
<1>4. QED
  BY <1>1, <1>3 DEF Picked

LEMMA FailWalk ==
  ASSUME WalkTypeOK, NEW b \in Browsers, ListFails(b)
  PROVE  \E v : walk' = [walk EXCEPT ![b] = v] /\ Failed(walk[b], v)
<1> DEFINE v == [walk[b] EXCEPT !.at = "shown"]
<1>1. walk' = [walk EXCEPT ![b] = v] /\ walk[b].at = "asked"
  BY DEF ListFails, WalkTypeOK
<1>2. v \in Walks
  BY DEF WalkTypeOK, Walks
<1>3. QED
  BY <1>1, <1>2 DEF Failed

\* A browser's step, whichever it is.
BrowserStep(b) ==
  \/ \E q \in Queries : OpenList(b, q)
  \/ MoreRows(b) \/ PickIds(b) \/ Query(b) \/ ListFails(b)

WalkMoved(b, v) ==
  /\ walk' = [walk EXCEPT ![b] = v]
  /\ \/ Opened(walk[b], v) \/ Asked(walk[b], v) \/ Failed(walk[b], v)
     \/ Picked(walk[b], v, PickOf(b)) \/ Queried(walk[b], v, PageOf(b))

LEMMA BrowserWalks ==
  ASSUME TableTypeOK, WalkTypeOK, NEW b \in Browsers, BrowserStep(b)
  PROVE  (\E v : WalkMoved(b, v)) /\ UNCHANGED <<table, made>>
<1>1. UNCHANGED <<table, made>>
  BY DEF BrowserStep, OpenList, MoreRows, Requests, PickIds, Query, ListFails
<1>2. QED
  BY <1>1, OpenWalk, MoreWalk, PickWalk, FailWalk, QueryWalk DEF BrowserStep, WalkMoved

LEMMA WalkMovedType ==
  ASSUME WalkTypeOK, NEW b \in Browsers, NEW v, WalkMoved(b, v)
  PROVE  WalkTypeOK'
<1>1. walk[b] \in Walks /\ (walk[b].at # "none" => walk[b].q \in Queries)
  BY DEF WalkTypeOK
<1>2. v \in Walks /\ v.q \in Queries
  BY <1>1 DEF WalkMoved, Opened, Asked, Picked, Failed, Queried, Walks
<1>3. QED
  BY <1>2 DEF WalkTypeOK, WalkMoved

\* Rows of the table after a step of the table.
LEMMA TableStepType ==
  ASSUME TableTypeOK, WalkTypeOK, TableStep
  PROVE  TableTypeOK' /\ WalkTypeOK'
<1>1. ASSUME NEW a \in NewRows, CreateRow(a)
      PROVE  TableTypeOK'
  <2>1. PICK i \in Rids \ made :
          table' = table \cup {[a EXCEPT !.id = i]} /\ made' = made \cup {i}
    BY <1>1 DEF CreateRow
  <2> DEFINE r == [a EXCEPT !.id = i]
  <2>2. r \in Attributes /\ r.id = i
    BY TablesAssumption DEF Attributes
  <2> HIDE DEF r
  <2>3. table' = table \cup {r}
    BY <2>1 DEF r
  <2>4. table' \subseteq Attributes
    BY <2>2, <2>3 DEF TableTypeOK
  <2>5. \A s \in table : s.id # r.id
    BY <2>1, <2>2 DEF TableTypeOK
  <2>6. Identified(table')
    BY <2>3, <2>5 DEF TableTypeOK, Identified
  <2>7. {s.id : s \in table'} \subseteq made' /\ made' \subseteq Rids
    BY <2>1, <2>2, <2>3 DEF TableTypeOK
  <2>8. QED
    BY <2>4, <2>6, <2>7 DEF TableTypeOK, Identified
<1>2. ASSUME NEW r \in table, DropRow(r)
      PROVE  TableTypeOK'
  BY <1>2 DEF DropRow, TableTypeOK, Identified
<1>3. ASSUME NEW r \in table, NEW k \in Keys, MoveRow(r, k)
      PROVE  TableTypeOK' /\ WalkTypeOK'
  <2> DEFINE m == [r EXCEPT !.key = k]
  <2>1. k \in Nat /\ r \in Attributes /\ r.id \in Rids
    BY TablesAssumption DEF Keys, Attributes, TableTypeOK
  <2>2. m \in Attributes /\ m.id = r.id
    BY <2>1 DEF Attributes
  <2> HIDE DEF m
  <2>3. table' = (table \ {r}) \cup {m} /\ made' = made
    BY <1>3 DEF MoveRow, m
  <2>4. table' \subseteq Attributes /\ {s.id : s \in table'} \subseteq made'
    BY <2>2, <2>3 DEF TableTypeOK
  <2>5. \A s \in table \ {r} : s.id # m.id
    BY <2>2 DEF TableTypeOK, Identified
  <2>6. Identified(table')
    BY <2>3, <2>5 DEF TableTypeOK, Identified
  <2>7. TableTypeOK'
    BY <2>3, <2>4, <2>6 DEF TableTypeOK, Identified
  <2>8. walk' = [b \in Browsers |-> [walk[b] EXCEPT !.moved = @ \cup {r.id}]]
    BY <1>3 DEF MoveRow
  <2>9. ASSUME NEW b \in Browsers
        PROVE  /\ [walk[b] EXCEPT !.moved = @ \cup {r.id}] \in Walks
               /\ walk'[b].at = walk[b].at /\ walk'[b].q = walk[b].q
    BY <2>1, <2>8 DEF WalkTypeOK, Walks
  <2>10. WalkTypeOK'
    BY <2>8, <2>9 DEF WalkTypeOK
  <2>11. QED
    BY <2>7, <2>10
<1>4. (\E a \in NewRows : CreateRow(a)) \/ (\E r \in table : DropRow(r)) => UNCHANGED walk
  BY DEF CreateRow, DropRow
<1>5. QED
  BY <1>1, <1>2, <1>3, <1>4 DEF TableStep, WalkTypeOK

\* Waiting for prices: what each kind of step does to the link of a browser.
LEMMA PriceStepLinks ==
  ASSUME TypeOK, PriceStep, UNCHANGED lists, NEW b \in Browsers
  PROVE  Linked(b)'
<1>1. Linked(b) /\ fetch \in [Callers -> Fetches] /\ b \in Callers
  BY BrowsersAssumption, TypeParts DEF AllLinked, GoldTypeOK
<1>2. walk' = walk
  BY DEF lists
<1>3. fetch'[b].at # "idle" <=> fetch[b].at # "idle"
  <2>1. CASE World
    BY <2>1 DEF World, TabanPublishes, BrsPublishes, Tick
  <2>2. ASSUME NEW c \in Callers, Fetching(c)
        PROVE  fetch'[b].at # "idle" <=> fetch[b].at # "idle"
    BY <1>1, <2>2 DEF Fetching, TabanReplied, BrsReplied, Store, FetchFails, NoFetch, Fetches
  <2>3. ASSUME NEW c \in Callers \ Browsers, Ask(c) \/ Reply(c)
        PROVE  fetch'[b].at # "idle" <=> fetch[b].at # "idle"
    BY <1>1, <2>3 DEF Ask, Reply, Takes
  <2>4. QED
    BY <2>1, <2>2, <2>3 DEF PriceStep
<1>4. QED
  BY <1>1, <1>2, <1>3 DEF Linked

\* A request for a page: those for products ask for the prices, the others do not.
LEMMA RequestsLinks ==
  ASSUME GoldTypeOK, AllLinked, WalkTypeOK, NEW b \in Browsers, NEW w, NEW v,
         Requests(b, v.q, w), walk' = [walk EXCEPT ![b] = v],
         walk[b].at \notin {"asked", "picked"}, v.at = "asked"
  PROVE  AllLinked'
<1>1. fetch[b].at = "idle" /\ fetch \in [Callers -> Fetches] /\ b \in Callers
  BY BrowsersAssumption DEF AllLinked, Linked, GoldTypeOK
<1>2. \A d \in Browsers : d # b => fetch'[d] = fetch[d] /\ walk'[d] = walk[d]
  BY <1>1, BrowsersAssumption DEF Requests, Ask, gold, WalkTypeOK
<1>3. walk'[b] = v
  BY DEF WalkTypeOK
<1>4. fetch'[b].at # "idle" <=> v.q.list = "products"
  <2>1. CASE v.q.list = "products"
    BY <1>1, <2>1 DEF Requests, Ask, NoFetch
  <2>2. CASE v.q.list # "products"
    BY <1>1, <2>2 DEF Requests, gold
  <2>3. QED
    BY <2>1, <2>2
<1>5. QED
  BY <1>2, <1>3, <1>4 DEF AllLinked, Linked

LEMMA BrowserLinks ==
  ASSUME TypeOK, NEW b \in Browsers, BrowserStep(b)
  PROVE  AllLinked'
<1>1. /\ GoldTypeOK /\ TableTypeOK /\ WalkTypeOK /\ AllLinked
      /\ fetch \in [Callers -> Fetches] /\ b \in Callers /\ walk \in [Browsers -> Walks]
  BY TypeParts, BrowsersAssumption DEF GoldTypeOK, WalkTypeOK
<1>2. ASSUME NEW q \in Queries, OpenList(b, q)
      PROVE  AllLinked'
  <2>1. PICK v : walk' = [walk EXCEPT ![b] = v] /\ Opened(walk[b], v) /\ v.q = q
    BY <1>1, <1>2, OpenWalk
  <2>2. PICK w : Requests(b, v.q, w)
    BY <1>2, <2>1 DEF OpenList
  <2>3. QED
    BY <1>1, <2>1, <2>2, RequestsLinks DEF Opened
<1>3. ASSUME MoreRows(b)
      PROVE  AllLinked'
  <2>1. PICK v : walk' = [walk EXCEPT ![b] = v] /\ Asked(walk[b], v)
    BY <1>1, <1>3, MoreWalk
  <2>2. v.at = "asked" /\ v.q = walk[b].q
    BY <1>1, <2>1 DEF Asked, Walks
  <2>3. Requests(b, v.q, walk[b])
    BY <1>3, <2>2 DEF MoreRows
  <2>4. QED
    BY <1>1, <2>1, <2>2, <2>3, RequestsLinks DEF Asked
<1>4. ASSUME NEW v, walk' = [walk EXCEPT ![b] = v], v.at \notin {"asked", "picked"},
             Takes(b) \/ (UNCHANGED gold /\ walk[b].q.list # "products")
      PROVE  AllLinked'
  <2>1. \A d \in Browsers : d # b => fetch'[d] = fetch[d] /\ walk'[d] = walk[d]
    BY <1>1, <1>4, BrowsersAssumption DEF Takes, gold
  <2>2. walk'[b] = v /\ fetch'[b].at = "idle"
    BY <1>1, <1>4 DEF Takes, NoFetch, gold, AllLinked, Linked
  <2>3. QED
    BY <1>1, <1>4, <2>1, <2>2 DEF AllLinked, Linked
<1>5. ASSUME Query(b)
      PROVE  AllLinked'
  <2>1. PICK v : walk' = [walk EXCEPT ![b] = v] /\ Queried(walk[b], v, PageOf(b))
    BY <1>1, <1>5, QueryWalk
  <2>2. Takes(b) \/ (UNCHANGED gold /\ walk[b].q.list # "products")
    BY <1>5 DEF Query
  <2>3. QED
    BY <1>4, <2>1, <2>2 DEF Queried
<1>6. ASSUME ListFails(b)
      PROVE  AllLinked'
  <2>1. PICK v : walk' = [walk EXCEPT ![b] = v] /\ Failed(walk[b], v)
    BY <1>1, <1>6, FailWalk
  <2>2. v.at = "shown"
    BY <1>1, <2>1 DEF Failed, Walks
  <2>3. QED
    BY <1>4, <1>6, <2>1, <2>2 DEF ListFails
<1>7. ASSUME PickIds(b)
      PROVE  AllLinked'
  <2>1. PICK v : walk' = [walk EXCEPT ![b] = v] /\ Picked(walk[b], v, PickOf(b))
    BY <1>1, <1>7, PickWalk
  <2>2. v.at = "picked" /\ v.q = walk[b].q /\ walk[b].at = "asked"
    BY <1>1, <2>1 DEF Picked, Walks
  <2>3. /\ fetch' = fetch /\ walk'[b] = v
        /\ \A d \in Browsers : d # b => walk'[d] = walk[d]
    BY <1>1, <1>7, <2>1 DEF PickIds, gold
  <2>4. QED
    BY <1>1, <2>2, <2>3 DEF AllLinked, Linked
<1>8. QED
  BY <1>2, <1>3, <1>5, <1>6, <1>7 DEF BrowserStep

LEMMA EventsType == events \in 0..MaxEvents /\ [Next]_vars => events' \in 0..MaxEvents
<1> SUFFICES ASSUME events \in 0..MaxEvents, [Next]_vars PROVE events' \in 0..MaxEvents
  OBVIOUS
<1>1. Happens => events' \in 0..MaxEvents
  BY GoldBounds DEF Happens
<1>2. CASE PriceStep
  BY <1>1, <1>2 DEF PriceStep, World, TabanPublishes, BrsPublishes, Tick, Fetching,
     TabanReplied, BrsReplied, Store, FetchFails, Ask, Reply
<1>3. CASE TableStep
  BY <1>1, <1>3 DEF TableStep, CreateRow, DropRow, MoveRow
<1>4. ASSUME NEW b \in Browsers, BrowserStep(b)
      PROVE  events' \in 0..MaxEvents
  BY <1>1, <1>4 DEF BrowserStep, OpenList, MoreRows, Requests, Ask, PickIds, Query, ListFails
<1>5. CASE UNCHANGED vars
  BY <1>5 DEF vars
<1>6. QED
  BY <1>2, <1>3, <1>4, <1>5 DEF Next, BrowserStep

LEMMA TypeStep == TypeOK /\ [Next]_vars => TypeOK'
<1> SUFFICES ASSUME TypeOK, [Next]_vars PROVE TypeOK'
  OBVIOUS
<1>1. GoldTypeOK' /\ events' \in 0..MaxEvents
  BY GoldSteps, GoldTypeStep, EventsType, TypeParts
<1>2. TableTypeOK /\ WalkTypeOK /\ AllLinked
  BY TypeParts
<1>3. CASE PriceStep /\ UNCHANGED lists
  <2>1. AllLinked'
    BY <1>3, PriceStepLinks DEF AllLinked
  <2>2. TableTypeOK' /\ WalkTypeOK'
    BY <1>2, <1>3 DEF lists, TableTypeOK, WalkTypeOK, Identified
  <2>3. QED
    BY <1>1, <2>1, <2>2, TypeParts
<1>4. CASE TableStep
  <2>1. TableTypeOK' /\ WalkTypeOK'
    BY <1>2, <1>4, TableStepType
  <2>2. \A b \in Browsers : walk'[b].at = walk[b].at /\ walk'[b].q = walk[b].q
    BY <1>2, <1>4 DEF TableStep, CreateRow, DropRow, MoveRow, WalkTypeOK, Walks
  <2>3. fetch' = fetch
    BY <1>4 DEF TableStep, CreateRow, DropRow, MoveRow, gold
  <2>4. AllLinked'
    BY <1>2, <2>2, <2>3 DEF AllLinked, Linked
  <2>5. QED
    BY <1>1, <2>1, <2>4, TypeParts
<1>5. ASSUME NEW b \in Browsers, BrowserStep(b)
      PROVE  TypeOK'
  <2>1. PICK v : WalkMoved(b, v)
    BY <1>2, <1>5, BrowserWalks
  <2>2. WalkTypeOK'
    BY <1>2, <2>1, WalkMovedType
  <2>3. TableTypeOK'
    BY <1>2, <1>5, BrowserWalks DEF TableTypeOK, Identified
  <2>4. AllLinked'
    BY <1>5, BrowserLinks
  <2>5. QED
    BY <1>1, <2>2, <2>3, <2>4, TypeParts
<1>6. CASE UNCHANGED vars
  BY <1>1, <1>2, <1>6, TypeParts
     DEF vars, gold, lists, TableTypeOK, WalkTypeOK, AllLinked, Linked, Identified
<1>7. QED
  BY <1>3, <1>4, <1>5, <1>6 DEF Next, BrowserStep

\* Every variable keeps its type, for all tables, queries and quotes; and a browser that
\* waits for a page of products, and no other, has a request for prices under way.
THEOREM TypeCorrect == Spec => []TypeOK
<1>1. QED
  BY InitType, TypeStep, PTL DEF Spec

-----------------------------------------------------------------------------
(***************************************************************************)
(* No row is shown twice.  A cursor divides the table in the order of the  *)
(* list: what was shown and has kept its sort field lies before it, and    *)
(* what a query finds lies after it.                                       *)
(***************************************************************************)
\* The row lies after the cursor in the order of the list.
AfterCursor(dir, cursor, r) ==
  \/ After(dir, r.key, cursor.value)
  \/ r.key = cursor.value /\ After(dir, r.id, cursor.id)

\* A query whose filters leave the cursor alone finds only rows after it.
LEMMA FoundAfter ==
  ASSUME NEW rows, NEW q, NEW cursor, NEW r \in Found(rows, q, cursor),
         CursorKept(q), cursor.value # NoValue
  PROVE  AfterCursor(q.dir, cursor, r)
<1>1. PICK path \in Searched(q.list), alt \in MakeSortCondition(cursor) :
        Passes(InGroup(alt, q, path), q.dir, r, cursor)
  BY DEF Found
<1>2. InGroup(alt, q, path) = [key |-> alt.key, id |-> alt.id /\ ~Priced(q)]
  BY DEF InGroup, Replaced, CursorKept
<1>3. ~Priced(q)
  BY DEF CursorKept
<1>4. CASE alt = [key |-> "after", id |-> FALSE]
  BY <1>1, <1>2, <1>4 DEF Passes, KeyAfter, AfterCursor
<1>5. CASE alt = [key |-> "equal", id |-> TRUE]
  <2>1. InGroup(alt, q, path) = [key |-> "equal", id |-> TRUE /\ ~Priced(q)]
    BY <1>2, <1>5, Zenon
  <2>2. Passes([key |-> "equal", id |-> TRUE /\ ~Priced(q)], q.dir, r, cursor)
    BY <1>1, <2>1, Zenon
  <2>3. r.key = cursor.value /\ After(q.dir, r.id, cursor.id)
    BY <1>3, <2>2 DEF Passes
  <2>4. QED
    BY <2>3 DEF AfterCursor
<1>6. QED
  BY <1>4, <1>5 DEF MakeSortCondition

\* What lies before a cursor lies before every row after it.
LEMMA BeforeStays ==
  ASSUME NEW dir, NEW r \in Attributes, NEW last \in Attributes, NEW cursor \in Cursors,
         cursor # NoCursor, AfterCursor(dir, cursor, last), ~AfterCursor(dir, cursor, r)
  PROVE  ~AfterCursor(dir, CursorAt(last), r)
<1>1. /\ r.key \in Nat /\ last.key \in Nat /\ cursor.value \in Nat
      /\ r.id \in Nat /\ last.id \in Nat /\ cursor.id \in Nat
  BY RidsAssumption DEF Attributes, Cursors
<1>2. CursorAt(last).value = last.key /\ CursorAt(last).id = last.id
  BY DEF CursorAt
<1>3. CASE dir = "asc"
  BY <1>1, <1>2, <1>3 DEF AfterCursor, After
<1>4. CASE dir # "asc"
  BY <1>1, <1>2, <1>4 DEF AfterCursor, After
<1>5. QED
  BY <1>3, <1>4

\* The walks that the property is about.
Watched(w) == w.at # "none" /\ CursorKept(w.q) /\ ~w.restarted

\* Ids that were shown exist; before the first page nothing was shown; then what was
\* shown and has not moved lies before the cursor.
WalkInv(w, rows, ids) ==
  /\ \A i \in Rids : w.times[i] > 0 => i \in ids
  /\ Watched(w) =>
       /\ ~ShownTwice(w)
       /\ w.at # "end" /\ w.cursor = NoCursor => \A i \in Rids : w.times[i] = 0
       /\ w.at # "end" /\ w.cursor.value # NoValue =>
            \A r \in rows : w.times[r.id] > 0 /\ r.id \notin w.moved
                            => ~AfterCursor(w.q.dir, w.cursor, r)

WalksInv == \A b \in Browsers : WalkInv(walk[b], table, made)

LEMMA OpenedInv ==
  ASSUME TableTypeOK, NEW w, NEW v, Opened(w, v)
  PROVE  WalkInv(v, table, made)
BY DEF Opened, WalkInv, ShownTwice, NoCursor, NoValue, TableTypeOK

\* Asking, picking and failing show nothing.
LEMMA StageInv ==
  ASSUME NEW w \in Walks, WalkInv(w, table, made), NEW v,
         Asked(w, v) \/ Failed(w, v) \/ \E rows : Picked(w, v, rows)
  PROVE  WalkInv(v, table, made)
<1>1. /\ w.at \in {"asked", "shown"} /\ v.at \in {"asked", "picked", "shown"}
      /\ v.times = w.times /\ v.q = w.q /\ v.cursor = w.cursor
      /\ v.moved = w.moved /\ v.restarted = w.restarted
  BY DEF Asked, Picked, Failed, Walks
<1>2. QED
  BY <1>1 DEF WalkInv, Watched, ShownTwice

\* A page that lies after the cursor shows nothing a second time.
LEMMA QueriedInv ==
  ASSUME TableTypeOK, NEW b, walk[b] \in Walks, WalkInv(walk[b], table, made),
         NEW v, Queried(walk[b], v, PageOf(b))
  PROVE  WalkInv(v, table, made)
<1> DEFINE w == walk[b]
           page == PageOf(b)
<1>1. page \in SUBSET table /\ page \in SUBSET Attributes /\ Identified(page)
  BY PageOfTable
<1>2. /\ w \in Walks /\ WalkInv(w, table, made) /\ Queried(w, v, page)
      /\ page \subseteq Found(Fitting(b), w.q, w.cursor)
  BY DEF PageOf, Matching
<1> HIDE DEF w, page
<1>3. \A i \in Rids :
        /\ (\E r \in page : r.id = i) => v.times[i] = w.times[i] + 1
        /\ (~ \E r \in page : r.id = i) => v.times[i] = w.times[i]
        /\ w.times[i] \in Nat
  <2> TAKE i \in Rids
  <2>1. v.times[i] = w.times[i] + Cardinality({r \in page : r.id = i}) /\ w.times[i] \in Nat
    BY <1>2 DEF Queried, Counted, Walks
  <2>2. /\ (\E r \in page : r.id = i) => Cardinality({r \in page : r.id = i}) = 1
        /\ (~ \E r \in page : r.id = i) => Cardinality({r \in page : r.id = i}) = 0
    BY <1>1, CountOnPage
  <2>3. QED
    BY <2>1, <2>2
<1>4. \A i \in Rids : v.times[i] > 0 => i \in made
  BY <1>1, <1>2, <1>3 DEF WalkInv, TableTypeOK
<1>5. ASSUME Watched(v)
      PROVE  Watched(w) /\ (w.cursor = NoCursor \/ w.cursor.value # NoValue) /\ CursorKept(w.q)
  BY <1>2, <1>5 DEF Watched, Queried, Walks
<1>6. ASSUME Watched(v), NEW r \in page, r.id \notin w.moved
      PROVE  w.times[r.id] = 0
  <2>1. r.id \in Rids /\ r \in table
    BY <1>1 DEF Attributes
  <2>2. CASE w.cursor = NoCursor
    BY <1>2, <1>5, <1>6, <2>1, <2>2 DEF WalkInv, Queried
  <2>3. CASE w.cursor.value # NoValue
    <3>1. AfterCursor(w.q.dir, w.cursor, r)
      BY <1>2, <1>5, <1>6, <2>3, FoundAfter
    <3>2. ~(w.times[r.id] > 0)
      BY <1>2, <1>5, <1>6, <2>1, <2>3, <3>1 DEF WalkInv, Queried
    <3>3. QED
      BY <1>3, <2>1, <3>2
  <2>4. QED
    BY <1>5, <1>6, <2>2, <2>3
<1>7. ASSUME Watched(v)
      PROVE  ~ShownTwice(v)
  <2> SUFFICES ASSUME NEW i \in Rids, i \notin v.moved PROVE ~(v.times[i] > 1)
    BY DEF ShownTwice
  <2>1. v.moved = w.moved /\ ~(w.times[i] > 1)
    BY <1>2, <1>5, <1>7 DEF Queried, WalkInv, ShownTwice
  <2>2. CASE \E r \in page : r.id = i
    BY <1>3, <1>6, <1>7, <2>1, <2>2
  <2>3. CASE ~ \E r \in page : r.id = i
    BY <1>3, <2>1, <2>3
  <2>4. QED
    BY <2>2, <2>3
<1>8. ASSUME v.at # "end", v.cursor = NoCursor
      PROVE  FALSE
  <2>1. PICK r \in page : v.cursor = CursorAt(r)
    BY <1>2, <1>8 DEF Queried
  <2>2. r.id \in Nat \ {0}
    BY <1>1, RidsAssumption DEF Attributes
  <2>3. QED
    BY <1>8, <2>1, <2>2 DEF CursorAt, NoCursor
<1>9. ASSUME Watched(v), v.at # "end", NEW r \in table, v.times[r.id] > 0, r.id \notin v.moved
      PROVE  ~AfterCursor(v.q.dir, v.cursor, r)
  <2>1. PICK last \in page : IsLast(last, page, w.q.dir) /\ v.cursor = CursorAt(last)
    BY <1>2, <1>9 DEF Queried
  <2>2. v.q = w.q /\ v.moved = w.moved /\ r \in Attributes /\ last \in Attributes /\ r.id \in Rids
    BY <1>1, <1>2 DEF Queried, TableTypeOK, Attributes
  <2>3. CASE \E s \in page : s.id = r.id
    <3>1. r \in page
      BY <1>1, <2>3 DEF TableTypeOK, Identified
    <3>2. ~Precedes(w.q.dir, last, r)
      BY <2>1, <3>1 DEF IsLast
    <3>3. QED
      BY <2>1, <2>2, <3>2 DEF Precedes, AfterCursor, CursorAt
  <2>4. CASE ~ \E s \in page : s.id = r.id
    <3>1. w.times[r.id] > 0
      BY <1>3, <1>9, <2>2, <2>4
    <3>2. w.cursor # NoCursor /\ w.cursor.value # NoValue
      BY <1>2, <1>3, <1>5, <1>9, <2>2, <3>1 DEF WalkInv, Queried
    <3>3. ~AfterCursor(w.q.dir, w.cursor, r)
      BY <1>2, <1>5, <1>9, <2>2, <3>1, <3>2 DEF WalkInv, Queried
    <3>4. AfterCursor(w.q.dir, w.cursor, last)
      BY <1>2, <1>5, <1>9, <3>2, FoundAfter
    <3>5. w.cursor \in Cursors
      BY <1>2 DEF Walks
    <3>6. QED
      BY <2>1, <2>2, <3>2, <3>3, <3>4, <3>5, BeforeStays
  <2>5. QED
    BY <2>3, <2>4
<1>10. QED
  BY <1>4, <1>7, <1>8, <1>9 DEF WalkInv

LEMMA TableStepInv ==
  ASSUME TableTypeOK, WalkTypeOK, WalksInv, TableStep
  PROVE  WalksInv'
<1> SUFFICES ASSUME NEW b \in Browsers PROVE WalkInv(walk'[b], table', made')
  BY DEF WalksInv
<1>1. walk[b] \in Walks /\ WalkInv(walk[b], table, made)
  BY DEF WalkTypeOK, WalksInv
<1>2. ASSUME NEW a \in NewRows, CreateRow(a)
      PROVE  WalkInv(walk'[b], table', made')
  <2>1. PICK i \in Rids \ made :
          table' = table \cup {[a EXCEPT !.id = i]} /\ made' = made \cup {i} /\ walk' = walk
    BY <1>2 DEF CreateRow
  <2>2. [a EXCEPT !.id = i].id = i
    BY TablesAssumption DEF Attributes
  <2>3. ~(walk[b].times[i] > 0)
    BY <1>1, <2>1 DEF WalkInv
  <2>4. \A r \in table' : walk[b].times[r.id] > 0 => r \in table
    BY <2>1, <2>2, <2>3
  <2>5. QED
    BY <1>1, <2>1, <2>4 DEF WalkInv
<1>3. ASSUME NEW r \in table, DropRow(r)
      PROVE  WalkInv(walk'[b], table', made')
  BY <1>1, <1>3 DEF DropRow, WalkInv
<1>4. ASSUME NEW r \in table, NEW k \in Keys, MoveRow(r, k)
      PROVE  WalkInv(walk'[b], table', made')
  <2> DEFINE v == [walk[b] EXCEPT !.moved = @ \cup {r.id}]
             m == [r EXCEPT !.key = k]
  <2>1. /\ walk'[b] = v /\ table' = (table \ {r}) \cup {m} /\ made' = made
        /\ m.id = r.id
    BY <1>4 DEF MoveRow, TableTypeOK, Attributes
  <2>2. /\ v.moved = walk[b].moved \cup {r.id} /\ v.at = walk[b].at /\ v.q = walk[b].q
        /\ v.cursor = walk[b].cursor /\ v.times = walk[b].times
        /\ v.restarted = walk[b].restarted
    BY <1>1 DEF Walks
  <2> HIDE DEF v, m
  <2>3. \A s \in table' : s.id \notin v.moved => s \in table /\ s.id \notin walk[b].moved
    BY <2>1, <2>2
  <2>4. ShownTwice(v) => ShownTwice(walk[b])
    BY <2>2 DEF ShownTwice
  <2>5. WalkInv(v, table', made')
    BY <1>1, <2>1, <2>2, <2>3, <2>4 DEF WalkInv, Watched
  <2>6. QED
    BY <2>1, <2>5
<1>5. QED
  BY <1>2, <1>3, <1>4 DEF TableStep

LEMMA WalksInit == Init => WalksInv
BY DEF Init, WalksInv, WalkInv, Watched, NoWalk

LEMMA WalksStep == TypeOK /\ WalksInv /\ [Next]_vars => WalksInv'
<1> SUFFICES ASSUME TypeOK, WalksInv, [Next]_vars PROVE WalksInv'
  OBVIOUS
<1>1. TableTypeOK /\ WalkTypeOK
  BY TypeParts
<1>2. CASE UNCHANGED lists
  BY <1>2 DEF lists, WalksInv
<1>3. ASSUME NEW b \in Browsers, BrowserStep(b)
      PROVE  WalksInv'
  <2>1. PICK v : WalkMoved(b, v)
    BY <1>1, <1>3, BrowserWalks
  <2>2. table' = table /\ made' = made
    BY <1>1, <1>3, BrowserWalks
  <2>3. walk[b] \in Walks /\ WalkInv(walk[b], table, made)
    BY <1>1 DEF WalkTypeOK, WalksInv
  <2>4. WalkInv(v, table, made)
    BY <1>1, <2>1, <2>3, OpenedInv, StageInv, QueriedInv DEF WalkMoved
  <2>5. \A d \in Browsers : walk'[d] = IF d = b THEN v ELSE walk[d]
    BY <1>1, <2>1 DEF WalkMoved, WalkTypeOK
  <2>6. QED
    BY <2>2, <2>4, <2>5 DEF WalksInv
<1>4. CASE UNCHANGED vars
  BY <1>2, <1>4 DEF vars
<1>5. QED
  BY <1>1, <1>2, <1>3, <1>4, TableStepInv DEF Next, BrowserStep

\* No walk shows a row twice, whatever is created, dropped and moved meanwhile, for all
\* tables, page sizes and queries whose filters leave the cursor as it is.
THEOREM NothingTwice == Spec => []NoRowTwice
<1>1. WalksInv => NoRowTwice
  BY DEF WalksInv, WalkInv, Watched, NoRowTwice
<1>2. QED
  BY <1>1, InitType, TypeStep, WalksInit, WalksStep, PTL DEF Spec
-----------------------------------------------------------------------------
(***************************************************************************)
(* No row is left out.  A page that is full takes the first rows found,    *)
(* and one that is not takes all; so the rows asked for that a walk has    *)
(* not shown lie after its cursor, and there are none after the last page. *)
(* Between the statements of a page the rows picked are that page, as long *)
(* as it is not torn, and what is left lies after it.                      *)
(***************************************************************************)
\* Of the numbers for which something fails there is a first.
LEMMA LeastNumber ==
  ASSUME NEW T, T \subseteq Nat, T # {}
  PROVE  \E x \in T : \A y \in T : x <= y
<1> DEFINE R == OpToRel(<, Nat)
<1>1. IsWellFoundedOn(R, Nat)
  BY NatLessThanWellFounded
<1>2. \A x, y \in Nat : <<y, x>> \notin R => x <= y
  BY DEF OpToRel
<1> HIDE DEF R
<1>3. PICK x \in T : \A y \in T : <<y, x>> \notin R
  BY <1>1, WFMin
<1> QED
  BY <1>2, <1>3

\* The rows of a set that come before a row in the order of a list.
RowsBefore(found, dir, r) == {a \in found : Precedes(dir, a, r)}

\* The order of a list is one.
LEMMA OrderOfRows ==
  ASSUME NEW dir, NEW a \in Attributes, NEW b \in Attributes
  PROVE  /\ ~Precedes(dir, a, a)
         /\ a.id # b.id => Precedes(dir, a, b) \/ Precedes(dir, b, a)
         /\ \A c \in Attributes : Precedes(dir, a, b) /\ Precedes(dir, b, c)
                                  => Precedes(dir, a, c)
<1>1. \A r \in Attributes : r.key \in Nat /\ r.id \in Nat
  BY RidsAssumption DEF Attributes
<1>2. CASE dir = "asc"
  BY <1>1, <1>2 DEF Precedes, After
<1>3. CASE dir # "asc"
  BY <1>1, <1>3 DEF Precedes, After
<1> QED
  BY <1>2, <1>3

\* The later a row, the more come before it.
LEMMA MoreBefore ==
  ASSUME NEW found, IsFiniteSet(found), found \subseteq Attributes, NEW dir,
         NEW a \in found, NEW b \in found, Precedes(dir, a, b)
  PROVE  /\ Cardinality(RowsBefore(found, dir, a)) \in Nat
         /\ Cardinality(RowsBefore(found, dir, b)) \in Nat
         /\ Cardinality(RowsBefore(found, dir, a)) < Cardinality(RowsBefore(found, dir, b))
<1> DEFINE A == RowsBefore(found, dir, a)
           B == RowsBefore(found, dir, b)
<1>1. IsFiniteSet(A) /\ IsFiniteSet(B)
  BY FS_Subset DEF RowsBefore
<1>2. A \subseteq B
  BY OrderOfRows DEF RowsBefore
<1>3. a \in B /\ a \notin A
  BY OrderOfRows DEF RowsBefore
<1> HIDE DEF A, B
<1>4. Cardinality(A) \in Nat /\ Cardinality(B) \in Nat /\ Cardinality(A) < Cardinality(B)
  BY <1>1, <1>2, <1>3, FS_Subset, FS_CardinalityType
<1> QED
  BY <1>4 DEF A, B

\* Whatever does not come after a row of the page is on the page.
LEMMA PageHasEarlier ==
  ASSUME NEW found, IsFiniteSet(found), found \subseteq Attributes, Identified(found), NEW dir,
         NEW last \in FirstOf(found, dir), NEW r \in found, ~Precedes(dir, last, r)
  PROVE  r \in FirstOf(found, dir)
<1>1. last \in found /\ Cardinality(RowsBefore(found, dir, last)) < Limit
  BY DEF FirstOf, RowsBefore
<1>2. CASE r = last
  BY <1>2
<1>3. CASE r # last
  <2>1. r.id # last.id /\ r \in Attributes /\ last \in Attributes
    BY <1>1, <1>3 DEF Identified
  <2>2. Precedes(dir, r, last)
    BY <2>1, OrderOfRows
  <2>3. Cardinality(RowsBefore(found, dir, r)) < Limit
    BY <1>1, <2>2, MoreBefore, ListsAssumption
  <2> QED
    BY <2>3 DEF FirstOf, RowsBefore
<1> QED
  BY <1>2, <1>3

\* A page has no more than Limit rows: all but its last come before that.
LEMMA PageWithinLimit ==
  ASSUME NEW found, IsFiniteSet(found), found \subseteq Attributes, Identified(found), NEW dir
  PROVE  IsFiniteSet(FirstOf(found, dir)) /\ Cardinality(FirstOf(found, dir)) \in 0..Limit
<1> DEFINE page == FirstOf(found, dir)
           Rank(r) == Cardinality(RowsBefore(found, dir, r))
<1>1. page \subseteq found /\ \A r \in page : Rank(r) < Limit
  BY DEF FirstOf, RowsBefore
<1>2. \A r \in found : Rank(r) \in Nat /\ IsFiniteSet(RowsBefore(found, dir, r))
  BY FS_Subset, FS_CardinalityType DEF RowsBefore
<1>3. \A a, b \in found : Precedes(dir, a, b) => Rank(a) < Rank(b)
  BY MoreBefore
<1>4. IsFiniteSet(page) /\ Cardinality(page) \in Nat
  BY <1>1, FS_Subset, FS_CardinalityType
<1>5. \A a, r \in found : a \in RowsBefore(found, dir, r) <=> Precedes(dir, a, r)
  BY DEF RowsBefore
<1> HIDE DEF page, Rank
<1>6. CASE page = {}
  BY <1>6, FS_EmptySet, ListsAssumption DEF page
<1>7. CASE page # {}
  <2> DEFINE T == {Limit - Rank(r) : r \in page}
  <2>1. T \subseteq Nat /\ T # {}
    BY <1>1, <1>2, <1>7, ListsAssumption
  <2>2. PICK n \in T : \A m \in T : n <= m
    <3> HIDE DEF T
    <3> QED
      BY <2>1, LeastNumber
  <2>3. PICK last \in page : n = Limit - Rank(last)
    OBVIOUS
  <2>4. \A r \in page : Rank(r) <= Rank(last)
    BY <1>1, <1>2, <2>2, <2>3, ListsAssumption
  <2>5. ASSUME NEW r \in page, r # last
        PROVE  r \in RowsBefore(found, dir, last)
    <3>1. r \in found /\ last \in found /\ r.id # last.id
      BY <1>1, <2>5 DEF Identified
    <3>2. ~Precedes(dir, last, r)
      BY <1>2, <1>3, <2>4, <3>1
    <3>3. Precedes(dir, r, last)
      BY <3>1, <3>2, OrderOfRows
    <3> QED
      BY <1>5, <3>1, <3>3
  <2>6. page \subseteq RowsBefore(found, dir, last) \cup {last}
    BY <2>5
  <2>7. last \notin RowsBefore(found, dir, last) /\ last \in found
    BY <1>1, OrderOfRows DEF RowsBefore
  <2>8. /\ IsFiniteSet(RowsBefore(found, dir, last) \cup {last})
        /\ Cardinality(RowsBefore(found, dir, last) \cup {last}) = Rank(last) + 1
    BY <1>2, <2>7, FS_AddElement DEF Rank
  <2>9. Cardinality(page) <= Rank(last) + 1
    BY <2>6, <2>8, FS_Subset
  <2> QED
    BY <1>1, <1>2, <1>4, <2>7, <2>9, ListsAssumption DEF page
<1> QED
  BY <1>6, <1>7

\* A page that is not full has all that was found: before the first row it lacks
\* there would be Limit rows, all of them on the page.
LEMMA PageHasAll ==
  ASSUME NEW found, IsFiniteSet(found), found \subseteq Attributes, Identified(found), NEW dir,
         ~Full(FirstOf(found, dir))
  PROVE  FirstOf(found, dir) = found
<1> DEFINE page == FirstOf(found, dir)
           Rank(r) == Cardinality(RowsBefore(found, dir, r))
<1>1. page \subseteq found /\ \A r \in found \ page : ~(Rank(r) < Limit)
  BY DEF FirstOf, RowsBefore
<1>2. \A r \in found : Rank(r) \in Nat
  BY FS_Subset, FS_CardinalityType DEF RowsBefore
<1>3. \A a, b \in found : Precedes(dir, a, b) => Rank(a) < Rank(b)
  BY MoreBefore
<1>4. IsFiniteSet(page) /\ Cardinality(page) \in 0..Limit /\ Cardinality(page) # Limit
  BY PageWithinLimit DEF Full
<1>5. \A r \in found : RowsBefore(found, dir, r) = {a \in found : Precedes(dir, a, r)}
  BY DEF RowsBefore
<1> SUFFICES ASSUME found \ page # {} PROVE FALSE
  BY <1>1
<1> HIDE DEF page
<1> DEFINE T == {Rank(r) : r \in found \ page}
<1>6. T \subseteq Nat /\ T # {}
  BY <1>2
<1>7. PICK n \in T : \A m \in T : n <= m
  <2> HIDE DEF T
  <2> QED
    BY <1>6, LeastNumber
<1>8. PICK next \in found \ page : n = Rank(next)
  OBVIOUS
<1>9. RowsBefore(found, dir, next) \subseteq page
  <2> SUFFICES ASSUME NEW a \in RowsBefore(found, dir, next), a \notin page PROVE FALSE
    OBVIOUS
  <2>1. a \in found \ page /\ Precedes(dir, a, next)
    BY <1>5, <1>8
  <2>2. Rank(a) < Rank(next) /\ Rank(next) <= Rank(a) /\ Rank(a) \in Nat /\ Rank(next) \in Nat
    <3>1. Rank(a) \in T
      BY <2>1
    <3> QED
      BY <1>2, <1>3, <1>7, <1>8, <2>1, <3>1
  <2> HIDE DEF Rank
  <2> QED
    BY <2>2
<1>10. Rank(next) <= Cardinality(page)
  BY <1>4, <1>9, FS_Subset
<1>11. Rank(next) \in Nat /\ ~(Rank(next) < Limit)
  BY <1>1, <1>2, <1>8 DEF page
<1> HIDE DEF Rank
<1> QED
  BY <1>4, <1>10, <1>11, ListsAssumption

\* The two alternatives that do not ask for the id.
LEMMA PassesWithoutId ==
  ASSUME NEW alt, NEW dir, NEW row, NEW cursor, ~alt.id,
         \/ alt.key = "any"
         \/ alt.key = "after" /\ KeyAfter(dir, row.key, cursor.value)
  PROVE  Passes(alt, dir, row, cursor)
<1>1. CASE alt.key = "any"
  <2>1. alt.key # "after" /\ alt.key # "equal"
    BY <1>1
  <2> QED
    BY <2>1, Zenon DEF Passes
<1>2. CASE alt.key = "after" /\ KeyAfter(dir, row.key, cursor.value)
  <2>1. alt.key # "equal"
    BY <1>2
  <2> QED
    BY <1>2, <2>1, Zenon DEF Passes
<1> QED
  BY <1>1, <1>2

\* A query whose filters leave the cursor alone finds every row asked for after it.
LEMMA WantedFound ==
  ASSUME NEW rows, NEW q, NEW cursor, NEW r \in rows, CursorKept(q), Wanted(r, q),
         r.key # NoValue,
         \/ cursor = NoCursor
         \/ cursor.value # NoValue /\ AfterCursor(q.dir, cursor, r)
  PROVE  r \in Found(rows, q, cursor)
<1>1. PICK path \in Searched(q.list) \cap r.hits : TRUE
  BY DEF Wanted
<1>2. \A alt : InGroup(alt, q, path) = [key |-> alt.key, id |-> alt.id /\ ~Priced(q)]
  BY <1>1 DEF InGroup, Replaced, CursorKept
<1>3. ~Priced(q) /\ InRanges(r, q)
  BY DEF CursorKept, Wanted
<1> SUFFICES \E alt \in MakeSortCondition(cursor) : Passes(InGroup(alt, q, path), q.dir, r, cursor)
  BY <1>1, <1>3 DEF Found
<1>4. CASE cursor.value = NoValue
  <2> DEFINE alt == [key |-> "any", id |-> FALSE]
  <2>1. alt \in MakeSortCondition(cursor)
    BY <1>4 DEF MakeSortCondition
  <2>2. InGroup(alt, q, path).key = "any" /\ ~InGroup(alt, q, path).id
    BY <1>1 DEF InGroup, Replaced, CursorKept
  <2> QED
    BY <2>1, <2>2, PassesWithoutId
<1>5. CASE cursor.value # NoValue /\ After(q.dir, r.key, cursor.value)
  <2> DEFINE alt == [key |-> "after", id |-> FALSE]
  <2>1. alt \in MakeSortCondition(cursor)
    BY <1>5 DEF MakeSortCondition
  <2>2. InGroup(alt, q, path).key = "after" /\ ~InGroup(alt, q, path).id
    BY <1>1 DEF InGroup, Replaced, CursorKept
  <2>3. KeyAfter(q.dir, r.key, cursor.value)
    BY <1>5 DEF KeyAfter
  <2> QED
    BY <2>1, <2>2, <2>3, PassesWithoutId
<1>6. CASE cursor.value # NoValue /\ r.key = cursor.value /\ After(q.dir, r.id, cursor.id)
  <2> DEFINE alt == [key |-> "equal", id |-> TRUE]
  <2>1. alt \in MakeSortCondition(cursor)
    BY <1>6 DEF MakeSortCondition
  <2>2. Passes(InGroup(alt, q, path), q.dir, r, cursor)
    BY <1>2, <1>6 DEF Passes
  <2> QED
    BY <2>1, <2>2
<1> QED
  BY <1>4, <1>5, <1>6 DEF AfterCursor, NoCursor

\* What a walk ought to have shown: a row asked for that was there from the start,
\* has kept its sort field, and lies before the cursor or the end.
Due(w, r) == r.id \in w.there \ w.moved /\ r.key # NoValue /\ Wanted(r, w.q)
Passed(w, r) == \/ w.at = "end"
                \/ w.cursor # NoCursor /\ ~AfterCursor(w.q.dir, w.cursor, r)
\* What is left for it to show: the rows after the cursor, or all.
Ahead(w, r)  == \/ w.cursor = NoCursor
                \/ w.cursor.value # NoValue /\ AfterCursor(w.q.dir, w.cursor, r)
\* Between the two statements a row due is picked, or comes after a full page.
PickedOrLater(w, r) ==
  \/ r \in w.picked
  \/ Full(w.picked) /\ \A a \in w.picked : Precedes(w.q.dir, a, r)
SeenInv(w, rows, ids) ==
  /\ w.there \subseteq ids
  /\ Watched(w) /\ ~w.torn =>
       \A r \in rows : Due(w, r) =>
         /\ Passed(w, r) => w.times[r.id] > 0
         /\ w.at = "picked" /\ Ahead(w, r) => PickedOrLater(w, r)

AllSeen == \A b \in Browsers : SeenInv(walk[b], table, made)
SkipInv == IsFiniteSet(table) /\ AllSeen

\* Opening, asking and failing show nothing, and bring no row before the cursor.
LEMMA StageSeen ==
  ASSUME TableTypeOK, NEW w \in Walks, SeenInv(w, table, made), NEW v,
         Opened(w, v) \/ Asked(w, v) \/ Failed(w, v)
  PROVE  SeenInv(v, table, made)
<1>1. CASE Opened(w, v)
  BY <1>1 DEF Opened, SeenInv, Passed, TableTypeOK
<1>2. CASE Asked(w, v) \/ Failed(w, v)
  <2>1. /\ w.at \in {"asked", "shown"} /\ v.at \in {"asked", "shown"}
        /\ v.times = w.times /\ v.q = w.q /\ v.cursor = w.cursor /\ v.there = w.there
        /\ v.moved = w.moved /\ v.restarted = w.restarted /\ v.torn = w.torn
    BY <1>2 DEF Asked, Failed, Walks
  <2> QED
    BY <2>1 DEF SeenInv, Watched, Due, Passed
<1> QED
  BY <1>1, <1>2

\* The first statement picks the rows due that come first.
LEMMA PickedSeen ==
  ASSUME TableTypeOK, IsFiniteSet(table), NEW b, walk[b] \in Walks,
         SeenInv(walk[b], table, made), NEW v, Picked(walk[b], v, PickOf(b))
  PROVE  SeenInv(v, table, made)
<1> DEFINE w     == walk[b]
           found == Matching(b)
           page  == PickOf(b)
<1>1. /\ w \in Walks /\ SeenInv(w, table, made)
      /\ page = FirstOf(found, w.q.dir) /\ found \subseteq table
      /\ ~Priced(w.q) => found = Found(table, w.q, w.cursor)
  BY DEF PickOf, Matching, Found, Fitting
<1>2. /\ w.at = "asked" /\ v.at = "picked" /\ v.picked = page
      /\ v.times = w.times /\ v.q = w.q /\ v.cursor = w.cursor /\ v.there = w.there
      /\ v.moved = w.moved /\ v.restarted = w.restarted /\ v.torn = w.torn
  BY DEF Picked, Walks
<1>3. IsFiniteSet(found) /\ found \subseteq Attributes /\ Identified(found)
  BY <1>1, FS_Subset DEF TableTypeOK, Identified
<1>4. \A r \in table : CursorKept(w.q) /\ Wanted(r, w.q) /\ r.key # NoValue /\ Ahead(w, r)
                       => r \in found
  BY <1>1, WantedFound DEF Ahead, CursorKept
<1> HIDE DEF w, page, found
<1> SUFFICES ASSUME Watched(v), ~v.torn, NEW r \in table, Due(v, r)
             PROVE  /\ Passed(v, r) => v.times[r.id] > 0
                    /\ Ahead(v, r) => PickedOrLater(v, r)
  BY <1>1, <1>2 DEF SeenInv
<1>5. Watched(w) /\ ~w.torn /\ Due(w, r) /\ CursorKept(w.q)
  BY <1>2 DEF Watched, Due
<1>6. Passed(v, r) => v.times[r.id] > 0
  BY <1>1, <1>2, <1>5 DEF SeenInv, Passed
<1>7. ASSUME Ahead(v, r), r \notin page
      PROVE  Full(page) /\ \A a \in page : Precedes(w.q.dir, a, r)
  <2>1. r \in found
    BY <1>2, <1>4, <1>5, <1>7 DEF Ahead, Due
  <2>2. Full(page)
    BY <1>1, <1>3, <1>7, <2>1, PageHasAll
  <2> QED
    BY <1>1, <1>3, <1>7, <2>1, <2>2, PageHasEarlier
<1> QED
  BY <1>2, <1>6, <1>7 DEF PickedOrLater

\* A page shows the rows due up to its last, or all that are left.
LEMMA QueriedSeen ==
  ASSUME TableTypeOK, NEW b, walk[b] \in Walks,
         SeenInv(walk[b], table, made), NEW v, Queried(walk[b], v, PageOf(b))
  PROVE  SeenInv(v, table, made)
<1> DEFINE w     == walk[b]
           page  == PageOf(b)
<1>1. /\ w \in Walks /\ SeenInv(w, table, made) /\ Queried(w, v, page)
      /\ page \in SUBSET Attributes /\ Identified(page)
  BY PageOfTable
<1> HIDE DEF w, page
<1>2. v.there \subseteq made
  BY <1>1 DEF SeenInv, Queried
<1>3. v.at \in {"shown", "end"}
  BY <1>1 DEF Queried
<1> SUFFICES ASSUME Watched(v), ~v.torn, NEW r \in table, Due(v, r), Passed(v, r)
             PROVE  v.times[r.id] > 0
  BY <1>2, <1>3 DEF SeenInv
<1>4. /\ Watched(w) /\ ~w.torn /\ Due(w, r) /\ w.at = "picked"
      /\ w.cursor = NoCursor \/ w.cursor.value # NoValue
      /\ page = w.picked
  BY <1>1 DEF Watched, Queried, Walks, Due
<1>5. r \in Attributes /\ r.id \in Rids
  BY DEF TableTypeOK, Attributes
<1>6. /\ w.times[r.id] \in Nat
      /\ v.times[r.id] = w.times[r.id] + Cardinality({a \in page : a.id = r.id})
  BY <1>1, <1>5 DEF Queried, Counted, Walks
<1>7. Cardinality({a \in page : a.id = r.id}) \in {0, 1}
  BY <1>1, CountOnPage
<1>8. CASE w.cursor # NoCursor /\ ~AfterCursor(w.q.dir, w.cursor, r)
  <2>1. w.times[r.id] > 0
    BY <1>1, <1>4, <1>8 DEF SeenInv, Passed
  <2> QED
    BY <1>6, <1>7, <2>1
<1>9. CASE w.cursor = NoCursor \/ AfterCursor(w.q.dir, w.cursor, r)
  <2>1. PickedOrLater(w, r)
    BY <1>1, <1>4, <1>9 DEF SeenInv, Ahead
  <2>2. r \in page
    <3> SUFFICES ASSUME r \notin page PROVE FALSE
      OBVIOUS
    <3>1. Full(page) /\ \A a \in page : Precedes(w.q.dir, a, r)
      BY <1>4, <2>1 DEF PickedOrLater
    <3>2. v.at = "shown" /\ v.q = w.q
      BY <1>1, <3>1 DEF Queried
    <3>3. PICK last \in page : v.cursor = CursorAt(last)
      BY <1>1, <3>2 DEF Queried
    <3>4. ~AfterCursor(w.q.dir, CursorAt(last), r)
      BY <3>2, <3>3 DEF Passed
    <3>5. ~Precedes(w.q.dir, last, r)
      BY <3>4 DEF AfterCursor, CursorAt, Precedes
    <3> QED
      BY <3>1, <3>5
  <2>3. Cardinality({a \in page : a.id = r.id}) = 1
    BY <1>1, <2>2, CountOnPage
  <2> QED
    BY <1>6, <2>3
<1> QED
  BY <1>8, <1>9

\* The table stays finite, and what it gets or moves is not due.
LEMMA TableStepSeen ==
  ASSUME TableTypeOK, WalkTypeOK, SkipInv, TableStep
  PROVE  SkipInv'
<1>1. ASSUME NEW a \in NewRows, CreateRow(a)
      PROVE  SkipInv'
  <2>1. PICK i \in Rids \ made :
          table' = table \cup {[a EXCEPT !.id = i]} /\ made' = made \cup {i} /\ walk' = walk
    BY <1>1 DEF CreateRow
  <2>2. [a EXCEPT !.id = i].id = i
    BY TablesAssumption DEF Attributes
  <2>3. IsFiniteSet(table')
    BY <2>1, FS_AddElement DEF SkipInv
  <2>4. ASSUME NEW b \in Browsers
        PROVE  SeenInv(walk[b], table', made')
    <3>1. SeenInv(walk[b], table, made) /\ i \notin walk[b].there
      BY <2>1 DEF SkipInv, AllSeen, SeenInv
    <3>2. \A r \in table' : Due(walk[b], r) => r \in table
      BY <2>1, <2>2, <3>1 DEF Due
    <3> QED
      BY <2>1, <3>1, <3>2 DEF SeenInv
  <2> QED
    BY <2>1, <2>3, <2>4 DEF SkipInv, AllSeen
<1>2. ASSUME NEW r \in table, DropRow(r)
      PROVE  SkipInv'
  <2>1. table' = table \ {r} /\ made' = made /\ walk' = walk
    BY <1>2 DEF DropRow
  <2>2. IsFiniteSet(table')
    BY <2>1, FS_Subset DEF SkipInv
  <2> QED
    BY <2>1, <2>2 DEF SkipInv, AllSeen, SeenInv
<1>3. ASSUME NEW r \in table, NEW k \in Keys, MoveRow(r, k)
      PROVE  SkipInv'
  <2> DEFINE m == [r EXCEPT !.key = k]
             v(b) == [walk[b] EXCEPT !.moved = @ \cup {r.id}]
  <2>1. /\ table' = (table \ {r}) \cup {m} /\ made' = made
        /\ \A b \in Browsers : walk'[b] = v(b)
        /\ m.id = r.id
    BY <1>3 DEF MoveRow, TableTypeOK, Attributes
  <2>2. IsFiniteSet(table')
    <3> HIDE DEF m
    <3> QED
      BY <2>1, FS_Subset, FS_AddElement DEF SkipInv
  <2>3. ASSUME NEW b \in Browsers
        PROVE  SeenInv(v(b), table', made')
    <3>1. walk[b] \in Walks /\ SeenInv(walk[b], table, made)
      BY DEF WalkTypeOK, SkipInv, AllSeen
    <3>2. /\ v(b).moved = walk[b].moved \cup {r.id} /\ v(b).at = walk[b].at
          /\ v(b).q = walk[b].q /\ v(b).cursor = walk[b].cursor /\ v(b).times = walk[b].times
          /\ v(b).there = walk[b].there /\ v(b).restarted = walk[b].restarted
          /\ v(b).picked = walk[b].picked /\ v(b).torn = walk[b].torn
      BY <3>1 DEF Walks
    <3> HIDE DEF v, m
    <3>3. \A s \in table' : Due(v(b), s) => s \in table /\ Due(walk[b], s)
      BY <2>1, <3>2 DEF Due
    <3>4. Watched(v(b)) => Watched(walk[b])
      BY <3>2 DEF Watched
    <3>5. \A s : /\ Passed(v(b), s) => Passed(walk[b], s)
                 /\ Ahead(v(b), s) => Ahead(walk[b], s)
                 /\ PickedOrLater(walk[b], s) => PickedOrLater(v(b), s)
      BY <3>2 DEF Passed, Ahead, PickedOrLater
    <3> QED
      BY <2>1, <3>1, <3>2, <3>3, <3>4, <3>5 DEF SeenInv
  <2> HIDE DEF v, m
  <2>4. \A b \in Browsers : SeenInv(walk'[b], table', made')
    BY <2>1, <2>3
  <2> QED
    BY <2>2, <2>4 DEF SkipInv, AllSeen
<1> QED
  BY <1>1, <1>2, <1>3 DEF TableStep

LEMMA SkipInit == Init => SkipInv
BY TablesAssumption DEF Init, SkipInv, AllSeen, SeenInv, Watched, NoWalk

LEMMA SkipStep == TypeOK /\ SkipInv /\ [Next]_vars => SkipInv'
<1> SUFFICES ASSUME TypeOK, SkipInv, [Next]_vars PROVE SkipInv'
  OBVIOUS
<1>1. TableTypeOK /\ WalkTypeOK
  BY TypeParts
<1>2. CASE UNCHANGED lists
  BY <1>2 DEF lists, SkipInv, AllSeen
<1>3. ASSUME NEW b \in Browsers, BrowserStep(b)
      PROVE  SkipInv'
  <2>1. PICK v : WalkMoved(b, v)
    BY <1>1, <1>3, BrowserWalks
  <2>2. table' = table /\ made' = made
    BY <1>1, <1>3, BrowserWalks
  <2>3. walk[b] \in Walks /\ SeenInv(walk[b], table, made) /\ IsFiniteSet(table)
    BY <1>1 DEF WalkTypeOK, SkipInv, AllSeen
  <2>4. SeenInv(v, table, made)
    BY <1>1, <2>1, <2>3, StageSeen, PickedSeen, QueriedSeen DEF WalkMoved
  <2>5. \A d \in Browsers : walk'[d] = IF d = b THEN v ELSE walk[d]
    BY <1>1, <2>1 DEF WalkMoved, WalkTypeOK
  <2> QED
    BY <2>2, <2>3, <2>4, <2>5 DEF SkipInv, AllSeen
<1>4. CASE UNCHANGED vars
  BY <1>2, <1>4 DEF vars
<1> QED
  BY <1>1, <1>2, <1>3, <1>4, TableStepSeen DEF Next, BrowserStep

\* When a walk reaches its last page it has shown every row asked for that was there
\* all the time and has not moved, for all tables, page sizes and queries whose filters
\* leave the cursor as it is, unless a page of it was torn: changed between its two
\* statements.
THEOREM NothingSkipped == Spec => []NoneSkipped
<1>1. SkipInv => NoneSkipped
  BY DEF SkipInv, AllSeen, SeenInv, Watched, Due, Passed, NoneSkipped
<1>2. QED
  BY <1>1, TypeCorrect, SkipInit, SkipStep, PTL DEF Spec

-----------------------------------------------------------------------------
(***************************************************************************)
(* A page filtered by price shows what was asked for.  The database takes  *)
(* a rounded quotient of the karats where the clients divide and round     *)
(* down what they calculate, so the bounds of a range are carried over     *)
(* both roundings; and both must know a price: a source that quotes 0, or  *)
(* a product that weighs nothing, costs the clients 0 and the database its *)
(* accessories.                                                            *)
(***************************************************************************)
Weighs(r)       == r.karat > 0 /\ r.weight > 0
AllPriced(data) == \A s \in Symbols : data[s].price > 0
Priceable ==
  /\ \A t \in TabanQuotes, b \in BrsQuotes : AllPriced(Merge(t, b))
  /\ \A rows \in FirstTables : \A r \in rows : Weighs(r)
  /\ \A a \in NewRows : Weighs(a)

\* A quotient, rounded down.
LEMMA Quotient ==
  ASSUME NEW x \in Int, NEW p \in Nat \ {0}
  PROVE  x \div p \in Int /\ (x \div p) * p <= x /\ x < ((x \div p) + 1) * p
OBVIOUS

LEMMA Products ==
  /\ \A a, b \in Int : a * b \in Int
  /\ \A a, b \in Nat : a * b \in Nat
  /\ \A a, b \in Nat \ {0} : a * b \in Nat \ {0}
  /\ \A a, b \in Int, t \in Nat : a <= b => a * t <= b * t
  /\ \A a, b \in Int, t \in Nat \ {0} : a < b => a * t < b * t
OBVIOUS

\* The bounds of a range are carried from the price of the database (value times
\* ratio / s over h, with n added) to that of the clients (value times k / c over h,
\* off by slip parts at most and rounded down), where ratio / s is off / (c * s) from
\* k / c at most.
LEMMA CostBounds ==
  ASSUME NEW k \in Nat, NEW c \in Nat \ {0}, NEW s \in Nat \ {0}, NEW h \in Nat \ {0},
         NEW value \in Nat, NEW ratio \in Nat, NEW off \in Nat, NEW slip \in Nat,
         NEW e \in -slip..slip, NEW n \in Nat, NEW m \in Int,
         k * s <= ratio * c + off, ratio * c <= k * s + off
  PROVE  LET whole == c * h * s
             cost  == ((k * value + e) \div (c * h)) + n
         IN  /\ cost \in Int
             /\ m * (s * h) <= ratio * value + n * (s * h)
                  => m * whole < (cost + 1) * whole + (off * value + slip * s)
             /\ ratio * value + n * (s * h) <= m * (s * h)
                  => cost * whole <= m * whole + (off * value + slip * s)
<1> DEFINE part  == c * h
           whole == part * s
           sum   == k * value + e
           d     == sum \div part
           x     == k * value * s
           y     == ratio * value * c
           slack == off * value
           slips == slip * s
<1>1. part \in Nat \ {0} /\ whole \in Nat \ {0}
  BY Products
<1>2. sum \in Int /\ x \in Nat /\ y \in Nat /\ slack \in Nat /\ slips \in Nat /\ e \in Int
  BY Products
<1>3. d \in Int /\ d * part <= sum /\ sum < (d + 1) * part
  <2> HIDE DEF sum, part
  <2> QED
    BY <1>1, <1>2, Quotient
<1>4. sum * s <= x + slips /\ x - slips <= sum * s
  <2>1. sum * s = x + e * s
    BY <1>2
  <2>2. e * s <= slip * s /\ (-slip) * s <= e * s
    BY <1>2, Products
  <2>3. (-slip) * s = -(slip * s) /\ e * s \in Int
    BY <1>2
  <2> HIDE DEF sum, x
  <2> QED
    BY <1>2, <2>1, <2>2, <2>3
<1>5. x <= y + slack /\ y <= x + slack
  <2>1. /\ (k * s) * value <= (ratio * c + off) * value
        /\ (ratio * c) * value <= (k * s + off) * value
    BY Products
  <2>2. /\ (k * s) * value = x /\ (ratio * c + off) * value = y + slack
        /\ (ratio * c) * value = y /\ (k * s + off) * value = x + slack
    OBVIOUS
  <2> QED
    BY <2>1, <2>2
<1>6. d * whole <= x + slips /\ x - slips < (d + 1) * whole
  <2>1. (d * part) * s <= sum * s /\ sum * s < ((d + 1) * part) * s
    <3>1. d * part \in Int /\ (d + 1) * part \in Int
      BY <1>1, <1>3
    <3> HIDE DEF d, part, sum
    <3> QED
      BY <1>2, <1>3, <3>1, Products
  <2>2. (d * part) * s = d * whole /\ ((d + 1) * part) * s = (d + 1) * whole
    <3> HIDE DEF d, part
    <3> QED
      BY <1>1, <1>3
  <2>3. d * whole \in Int /\ (d + 1) * whole \in Int /\ sum * s \in Int
    <3> HIDE DEF d, whole, sum
    <3> QED
      BY <1>1, <1>2, <1>3
  <2> HIDE DEF d, whole, sum, part, x, slips
  <2> QED
    BY <1>2, <1>4, <2>1, <2>2, <2>3
<1>7. /\ m * whole = (m * (s * h)) * c /\ m * whole \in Int
      /\ (ratio * value + n * (s * h)) * c = y + n * whole
      /\ n * whole \in Nat
  BY <1>1, Products
<1>8. /\ (d + n) * whole = d * whole + n * whole
      /\ (d + n + 1) * whole = (d + 1) * whole + n * whole
      /\ d * whole \in Int /\ (d + 1) * whole \in Int
  <2> HIDE DEF d, whole
  <2> QED
    BY <1>1, <1>3
<1>9. /\ m * (s * h) \in Int /\ ratio * value + n * (s * h) \in Int
  BY Products
<1>10. ASSUME m * (s * h) <= ratio * value + n * (s * h)
       PROVE  m * whole < (d + n + 1) * whole + (slack + slips)
  <2>1. (m * (s * h)) * c <= (ratio * value + n * (s * h)) * c
    BY <1>9, <1>10, Products
  <2>2. m * whole <= y + n * whole
    BY <1>7, <2>1
  <2> HIDE DEF d, whole, x, y, slack, slips
  <2> QED
    BY <1>2, <1>5, <1>6, <1>7, <1>8, <2>2
<1>11. ASSUME ratio * value + n * (s * h) <= m * (s * h)
       PROVE  (d + n) * whole <= m * whole + (slack + slips)
  <2>1. (ratio * value + n * (s * h)) * c <= (m * (s * h)) * c
    BY <1>9, <1>11, Products
  <2>2. y + n * whole <= m * whole
    BY <1>7, <2>1
  <2> HIDE DEF d, whole, x, y, slack, slips
  <2> QED
    BY <1>2, <1>5, <1>6, <1>7, <1>8, <2>2
<1> QED
  BY <1>3, <1>10, <1>11

\* The quotient of the karats as the database has it, and how far it is off.
LEMMA RatioTypes ==
  ASSUME NEW k \in Nat, NEW c \in Nat \ {0}
  PROVE  /\ Ratio(k, c) \in Nat /\ Rounded(k, c) \in Nat
         /\ k * Scale <= Ratio(k, c) * c + Rounded(k, c)
         /\ Ratio(k, c) * c <= k * Scale + Rounded(k, c)
<1>1. /\ 2 * k * Scale + c \in Nat /\ 2 * c \in Nat \ {0}
      /\ k * Scale \in Nat
  BY ArithmeticAssumption
<1>2. \A x \in Nat, p \in Nat \ {0} : x \div p \in Nat
  OBVIOUS
<1>3. Ratio(k, c) \in Nat
  BY <1>1, <1>2 DEF Ratio
<1>4. Ratio(k, c) * c \in Nat
  BY <1>3
<1> QED
  BY <1>1, <1>3, <1>4 DEF Rounded, Distance

\* What a product costs, in parts, is no less than nothing; by the union tariff it is
\* no more than the charges with the tax on all of them.
LEMMA CostTypes ==
  ASSUME NEW r \in Attributes, NEW price \in Nat
  PROVE  /\ ConventionalPrice(r, price) \in Nat /\ UnionPrice(r, price) \in Nat
         /\ Charged(r, price) * (Hundred + r.vat) \in Nat
         /\ UnionPrice(r, price) <= Charged(r, price) * (Hundred + r.vat)
<1> DEFINE worth   == Worth(r, price)
           charged == Charged(r, price)
<1>1. /\ r.weight \in Nat /\ r.makingChargeSell \in Nat
      /\ r.profit \in Nat /\ r.vat \in Nat
  BY DEF Attributes
<1>2. worth \in Nat
  BY <1>1, Products DEF Worth
<1>3. /\ Hundred \in Nat /\ Hundred + r.makingChargeSell \in Nat /\ Hundred + r.profit \in Nat
      /\ Hundred + r.vat \in Nat /\ Hundred + Conventional \in Nat
  BY <1>1, ListsAssumption DEF Conventional
<1>4. charged = worth * (Hundred + r.makingChargeSell) * (Hundred + r.profit) /\ charged \in Nat
  BY <1>2, <1>3, Products DEF Charged
<1>5. ConventionalPrice(r, price) \in Nat
  BY <1>3, <1>4, Products DEF ConventionalPrice
<1> HIDE DEF worth
<1>6. worth * Hundred * Hundred <= charged
  <2>1. worth * Hundred <= worth * (Hundred + r.makingChargeSell)
    BY <1>1, <1>2, <1>3
  <2>2. worth * Hundred * Hundred <= worth * (Hundred + r.makingChargeSell) * Hundred
    BY <1>2, <1>3, <2>1, Products
  <2>3. /\ worth * (Hundred + r.makingChargeSell) \in Nat
        /\ worth * Hundred * Hundred \in Nat
    BY <1>2, <1>3, Products
  <2>4. \A a, b, p \in Nat : a * b <= a * (b + p)
    OBVIOUS
  <2>5. worth * (Hundred + r.makingChargeSell) * Hundred
          <= worth * (Hundred + r.makingChargeSell) * (Hundred + r.profit)
    BY <1>1, <1>3, <2>3, <2>4
  <2>6. worth * (Hundred + r.makingChargeSell) * Hundred \in Nat
    BY <1>3, <2>3, Products
  <2> HIDE DEF charged
  <2> QED
    BY <1>4, <2>2, <2>3, <2>5, <2>6
<1> HIDE DEF charged
<1>7. /\ worth * r.vat * Hundred * Hundred \in Nat /\ charged * (Hundred + r.vat) \in Nat
  BY <1>1, <1>2, <1>3, <1>4, Products
<1>8. worth * r.vat * Hundred * Hundred <= charged * (Hundred + r.vat)
  <2>1. worth * Hundred * Hundred \in Nat
    BY <1>2, <1>3, Products
  <2>2. (worth * Hundred * Hundred) * r.vat <= charged * r.vat
    BY <1>1, <1>4, <1>6, <2>1, Products
  <2>3. (worth * Hundred * Hundred) * r.vat = worth * r.vat * Hundred * Hundred
    BY <1>1, <1>2, <1>3
  <2>4. charged * (Hundred + r.vat) = charged * Hundred + charged * r.vat
    BY <1>1, <1>3, <1>4
  <2>5. charged * Hundred \in Nat /\ charged * r.vat \in Nat
    BY <1>1, <1>3, <1>4, Products
  <2> QED
    BY <1>7, <2>2, <2>3, <2>4, <2>5
<1> QED
  BY <1>5, <1>7, <1>8 DEF UnionPrice, worth, charged

LEMMA KaratPositive == ASSUME NEW s PROVE KaratOf(s) \in Nat \ {0}
<1>1. CASE s \in DOMAIN CoinWeight
  BY <1>1 DEF KaratOf
<1>2. CASE s \notin DOMAIN CoinWeight /\ s = "XAUUSD"
  BY <1>2 DEF KaratOf
<1>3. CASE s \notin DOMAIN CoinWeight /\ s # "XAUUSD"
  BY <1>3 DEF KaratOf
<1> QED
  BY <1>1, <1>2, <1>3

\* A product that the filter lets pass costs what was asked for, up to the roundings.
LEMMA FitsCosts ==
  ASSUME NEW r \in Attributes, Weighs(r), NEW prices \in Answers, AllPriced(prices),
         NEW karat \in Nat \ {0}, NEW q, q.min \in Int, q.max \in Int,
         PriceFits(r, prices, karat, q), q.tariff = "CT" \/ r.accessoriesCharge = 0,
         NEW cost \in CalculateGoldPrice(r, prices, karat, q.tariff)
  PROVE  LET whole == Parts(karat) * Scale
             worth == Price(r, prices[r.subType].price, q.tariff)
             slack == Rounded(r.karat, karat) * worth + Slip * Scale
         IN  /\ q.min * whole < (cost + 1) * whole + slack
             /\ cost * whole <= q.max * whole + slack
<1> DEFINE price == prices[r.subType].price
           worth == Price(r, price, q.tariff)
           ratio == Ratio(r.karat, karat)
           n     == r.accessoriesCharge
<1>1. r.subType \in Symbols /\ price \in Nat /\ price > 0 /\ r.subType \in DOMAIN prices
  BY DEF PriceFits, Answers, Items, AllPriced
<1>2. PICK e \in -Slip..Slip :
        cost = ((r.karat * worth + e) \div (karat * Cube)) + n
  BY <1>1 DEF CalculateGoldPrice, Weighs, Parts
<1>3. /\ worth \in Nat /\ n \in Nat /\ r.karat \in Nat
      /\ UnionPrice(r, price) <= Charged(r, price) * (Hundred + r.vat)
      /\ UnionPrice(r, price) \in Nat /\ Charged(r, price) * (Hundred + r.vat) \in Nat
  BY <1>1, CostTypes DEF Attributes, Price
<1>4. Cube \in Nat \ {0} /\ Scale \in Nat \ {0} /\ Slip \in Nat
  BY Products, ListsAssumption, ArithmeticAssumption DEF Cube
<1>5. /\ ratio \in Nat /\ Rounded(r.karat, karat) \in Nat
      /\ r.karat * Scale <= ratio * karat + Rounded(r.karat, karat)
      /\ ratio * karat <= r.karat * Scale + Rounded(r.karat, karat)
  BY <1>3, RatioTypes
<1>6. /\ q.min * (Scale * Cube) <= ratio * worth + n * (Scale * Cube)
      /\ ratio * worth + n * (Scale * Cube) <= q.max * (Scale * Cube)
  <2>1. /\ q.min * (Scale * Cube) = q.min * Scale * Cube
        /\ q.max * (Scale * Cube) = q.max * Scale * Cube
        /\ n * (Scale * Cube) = n * Scale * Cube
    BY <1>3, <1>4
  <2>2. q.min * Scale * Cube <= ratio * worth + n * Scale * Cube
    BY DEF PriceFits
  <2>3. CASE q.tariff = "CT"
    BY <2>1, <2>2, <2>3 DEF PriceFits
  <2>4. CASE q.tariff # "CT"
    <3>1. n = 0 /\ n * (Scale * Cube) = 0
      BY <1>4, <2>4
    <3>2. ratio * Charged(r, price) * (Hundred + r.vat) <= q.max * Scale * Cube
      BY <2>4 DEF PriceFits
    <3>3. worth = UnionPrice(r, price)
      BY <2>4 DEF Price
    <3>4. ratio * UnionPrice(r, price) <= ratio * (Charged(r, price) * (Hundred + r.vat))
      <4>1. \A a, b, t \in Nat : a <= b => t * a <= t * b
        OBVIOUS
      <4> HIDE DEF ratio, price
      <4> QED
        BY <1>3, <1>5, <4>1
    <3>5. ratio * (Charged(r, price) * (Hundred + r.vat))
            = ratio * Charged(r, price) * (Hundred + r.vat)
      <4>1. /\ Charged(r, price) \in Nat /\ Hundred + r.vat \in Nat
        BY <1>1, Products, ListsAssumption DEF Charged, Worth, Attributes
      <4> HIDE DEF ratio, price
      <4> QED
        BY <1>5, <4>1
    <3>6. /\ ratio * UnionPrice(r, price) \in Nat /\ q.max * Scale * Cube \in Int
          /\ ratio * (Charged(r, price) * (Hundred + r.vat)) \in Nat
      BY <1>3, <1>4, <1>5, Products
    <3> HIDE DEF ratio, price, worth, n
    <3> QED
      BY <2>1, <2>2, <3>1, <3>2, <3>3, <3>4, <3>5, <3>6
  <2> QED
    BY <2>3, <2>4
<1> HIDE DEF worth, ratio, n, price
<1>7. LET whole == karat * Cube * Scale
      IN  /\ q.min * whole < (cost + 1) * whole + (Rounded(r.karat, karat) * worth + Slip * Scale)
          /\ cost * whole <= q.max * whole + (Rounded(r.karat, karat) * worth + Slip * Scale)
  BY <1>2, <1>3, <1>4, <1>5, <1>6, CostBounds
<1> QED
  BY <1>7 DEF Parts, worth, price

\* What the sources tell, and so what is stored and answered, has a price for all.
Told(f) == /\ f.at \in {"brs", "merge"} => f.taban \in TabanQuotes
           /\ f.at = "merge" => f.brs \in BrsQuotes
           /\ f.at = "answered" => AllPriced(f.data)
PricesInv == /\ taban \in TabanQuotes /\ brs \in BrsQuotes
             /\ cache # None => AllPriced(cache.data)
             /\ \A c \in Callers : Told(fetch[c])
TableWeighs == \A r \in table : Weighs(r)

LEMMA PricesInit == Init => PricesInv
BY DEF Init, GoldInit, NoFetch, PricesInv, Told

LEMMA PricesStep ==
  ASSUME Priceable, GoldTypeOK, PricesInv, [GoldNext]_gold
  PROVE  PricesInv'
<1>1. ASSUME NEW c \in Callers, Ask(c)
      PROVE  PricesInv'
  BY <1>1 DEF Ask, Valid, NoFetch, GoldTypeOK, PricesInv, Told
<1>2. ASSUME NEW c \in Callers, TabanReplied(c) \/ BrsReplied(c)
      PROVE  PricesInv'
  BY <1>2 DEF TabanReplied, BrsReplied, GoldTypeOK, Fetches, PricesInv, Told
<1>3. ASSUME NEW c \in Callers, Store(c)
      PROVE  PricesInv'
  <2> DEFINE data == Merge(fetch[c].taban, fetch[c].brs)
  <2>1. /\ fetch[c].at = "merge" /\ cache' = [data |-> data, at |-> now]
        /\ fetch' = [fetch EXCEPT ![c] = [NoFetch EXCEPT !.at = "answered", !.data = data]]
        /\ UNCHANGED <<taban, brs>>
    BY <1>3 DEF Store
  <2>2. AllPriced(data)
    BY <2>1 DEF Priceable, PricesInv, Told
  <2> HIDE DEF data
  <2> QED
    BY <2>1, <2>2 DEF NoFetch, GoldTypeOK, PricesInv, Told
<1>4. ASSUME NEW c \in Callers, FetchFails(c) \/ Takes(c)
      PROVE  PricesInv'
  BY <1>4 DEF FetchFails, Takes, NoFetch, GoldTypeOK, PricesInv, Told
<1>5. CASE World
  BY <1>5 DEF World, TabanPublishes, BrsPublishes, Tick, PricesInv
<1>6. CASE UNCHANGED gold
  BY <1>6 DEF gold, PricesInv
<1> QED
  BY <1>1, <1>2, <1>3, <1>4, <1>5, <1>6 DEF GoldNext, Fetching, Reply

LEMMA TableWeighsStep ==
  ASSUME Priceable, TableTypeOK, TableWeighs, [Next]_vars
  PROVE  TableWeighs'
<1>1. ASSUME NEW a \in NewRows, CreateRow(a)
      PROVE  TableWeighs'
  <2>1. PICK i \in Rids : table' = table \cup {[a EXCEPT !.id = i]}
    BY <1>1 DEF CreateRow
  <2>2. Weighs([a EXCEPT !.id = i])
    BY TablesAssumption DEF Priceable, Weighs, Attributes
  <2> QED
    BY <2>1, <2>2 DEF TableWeighs
<1>2. ASSUME NEW r \in table, DropRow(r)
      PROVE  TableWeighs'
  BY <1>2 DEF DropRow, TableWeighs
<1>3. ASSUME NEW r \in table, NEW k \in Keys, MoveRow(r, k)
      PROVE  TableWeighs'
  <2>1. table' = (table \ {r}) \cup {[r EXCEPT !.key = k]}
    BY <1>3 DEF MoveRow
  <2>2. Weighs([r EXCEPT !.key = k])
    BY DEF TableWeighs, Weighs, TableTypeOK, Attributes
  <2> QED
    BY <2>1, <2>2 DEF TableWeighs
<1>4. CASE UNCHANGED table
  BY <1>4 DEF TableWeighs
<1> QED
  BY <1>1, <1>2, <1>3, <1>4
     DEF Next, TableStep, lists, vars, OpenList, MoreRows, Requests, PickIds, Query, ListFails

\* Every product on a page is one that the filter let pass, by the prices its request got.
LEMMA PageCosts ==
  ASSUME TypeOK, PricesInv, TableWeighs, NEW b \in Browsers, Query(b), Priced(walk[b].q)
  PROVE  \A r \in walk'[b].page : CostsWithin(r, b)
<1>1. /\ TableTypeOK /\ WalkTypeOK /\ GoldTypeOK
      /\ b \in Callers /\ walk[b].q \in Queries
  BY TypeParts, BrowsersAssumption DEF Query, TypeOK
<1>2. PICK v : walk' = [walk EXCEPT ![b] = v] /\ Queried(walk[b], v, PageOf(b))
  BY <1>1, QueryWalk
<1>3. walk'[b].page = PageOf(b)
  BY <1>1, <1>2 DEF WalkTypeOK, Queried
<1>4. fetch[b].at = "answered"
  BY DEF Query, Priced
<1>5. PricesOf(b) \in Answers /\ AllPriced(PricesOf(b))
  BY <1>1, <1>4 DEF GoldTypeOK, HasReplies, PricesInv, Told, PricesOf
<1> SUFFICES ASSUME NEW r \in PageOf(b) PROVE CostsWithin(r, b)
  BY <1>3
<1>6. r \in table /\ PriceFits(r, PricesOf(b), KaratOf(r.subType), walk[b].q)
  BY DEF PageOf, Matching, Found, Fitting
<1>7. r \in Attributes /\ Weighs(r)
  BY <1>1, <1>6 DEF TableTypeOK, TableWeighs
<1>8. walk[b].q.min \in Int /\ walk[b].q.max \in Int
  BY <1>1, QueriesAssumption
<1> QED
  BY <1>5, <1>6, <1>7, <1>8, KaratPositive, FitsCosts DEF CostsWithin

\* What a page filtered by price shows costs, as the clients compute it and up to the
\* roundings of both sides, what was asked for, when the sources quote a price for
\* everything and all products weigh something.
THEOREM PagesCostWhatIsAsked ==
  ASSUME Priceable
  PROVE  Spec => ShownInRange
<1>1. Init => PricesInv /\ TableWeighs
  BY PricesInit DEF Init, TableWeighs, Priceable
<1>2. TypeOK /\ PricesInv /\ TableWeighs /\ [Next]_vars => (PricesInv /\ TableWeighs)'
  BY GoldSteps, PricesStep, TableWeighsStep, TypeParts
<1>3. TypeOK /\ PricesInv /\ TableWeighs /\ [Next]_vars
        => [\A b \in Browsers : PageInRange(b)]_vars
  BY PageCosts DEF PageInRange
<1>4. QED
  BY <1>1, <1>2, <1>3, TypeCorrect, PTL DEF Spec, ShownInRange
=============================================================================

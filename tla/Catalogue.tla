------------------------------ MODULE Catalogue ------------------------------
(***************************************************************************)
(* Browsers that read a list page by page while its table changes, and the *)
(* gold prices that a page of products is filtered by: getAllProducts      *)
(* awaits the prices before it builds its query, and uses what it got for  *)
(* the whole request.  The other lists need no prices.                     *)
(*                                                                         *)
(* A request that fails for want of prices leaves the browser where it     *)
(* was, free to ask for the same page again.  A page takes two statements, *)
(* without a transaction around them: findAndCount with relations and a    *)
(* limit picks the ids first and then reads the rows of these ids, under   *)
(* the same conditions, so that the table can change in between.           *)
(***************************************************************************)
EXTENDS GoldCurrency, Lists

CONSTANTS
  Browsers,     \* those of the callers that read lists
  Queries,      \* lists, sort fields and filters they ask for
  FirstTables,  \* tables as they may be at the start
  NewRows       \* rows that may be created, without id

ASSUME BrowsersAssumption == Browsers \subseteq Callers
ASSUME QueriesAssumption  == \A q \in Queries : q.min \in Int /\ q.max \in Int

VARIABLES
  table,  \* the rows of the list's table
  made,   \* the ids given out
  walk    \* [Browsers -> how far the browser has come]

lists == <<table, made, walk>>
vars  == <<gold, events, lists>>

\* A walk through the pages: whether a request is under way, the query, the
\* cursor of the next page, the rows that the first statement of a page picked (of
\* which the second is given the ids), the rows of the page shown last.  History:
\* how often each row was shown, the rows that were there when the walk began, those
\* whose sort field changed since, whether a cursor had no value, and whether a page
\* was torn: its second statement did not find the rows that the first had picked.
NoWalk == [at |-> "none", q |-> None, cursor |-> NoCursor, picked |-> {}, page |-> {},
           times |-> [i \in Rids |-> 0], there |-> {}, moved |-> {}, restarted |-> FALSE,
           torn |-> FALSE]

Init ==
  /\ GoldInit
  /\ table \in FirstTables
  /\ made  = {r.id : r \in table}
  /\ walk  = [b \in Browsers |-> NoWalk]

-----------------------------------------------------------------------------
(***************************************************************************)
(* Requests for a page.                                                    *)
(***************************************************************************)
Requests(b, q, w) ==
  /\ IF q.list = "products" THEN Ask(b) ELSE Happens /\ UNCHANGED gold
  /\ walk' = [walk EXCEPT ![b] = [w EXCEPT !.at = "asked"]]
  /\ UNCHANGED <<table, made>>

OpenList(b, q) ==
  /\ walk[b].at \notin {"asked", "picked"}
  /\ Requests(b, q, [NoWalk EXCEPT !.q = q, !.there = {r.id : r \in table}])

MoreRows(b) == walk[b].at = "shown" /\ Requests(b, walk[b].q, walk[b])

\* The prices a request for products may use.
PricesOf(b)     == fetch[b].data
Fitting(b) ==
  LET q == walk[b].q
  IN  {r \in table : Priced(q) => PriceFits(r, PricesOf(b), KaratOf(r.subType), q)}
\* The rows that the where clause of the request finds now.
Matching(b) == LET w == walk[b] IN Found(Fitting(b), w.q, w.cursor)

\* The first statement: the ids of the first rows.
PickIds(b) ==
  LET w == walk[b]
  IN  /\ w.at = "asked"
      /\ w.q.list = "products" => fetch[b].at = "answered"
      /\ walk' = [walk EXCEPT ![b] = [w EXCEPT !.at = "picked",
                                              !.picked = FirstOf(Matching(b), w.q.dir)]]
      /\ UNCHANGED <<gold, table, made, events>>

\* The second: the rows of these ids that the same clause still finds.
PageOf(b) == {r \in Matching(b) : \E a \in walk[b].picked : a.id = r.id}

\* The page; when it is full it has a cursor for the next one.
Query(b) ==
  LET w    == walk[b]
      page == PageOf(b)
      seen == [w EXCEPT !.page  = page, !.picked = {},
                        !.times = [i \in Rids |-> @[i] + Cardinality({r \in page : r.id = i})],
                        !.restarted = @ \/ (w.cursor # NoCursor /\ w.cursor.value = NoValue),
                        !.torn = @ \/ page # w.picked]
  IN  /\ w.at = "picked"
      /\ IF w.q.list = "products"
         THEN fetch[b].at = "answered" /\ Takes(b)
         ELSE UNCHANGED gold
      /\ IF Full(page)
         THEN \E r \in page :
                /\ IsLast(r, page, w.q.dir)
                /\ walk' = [walk EXCEPT ![b] = [seen EXCEPT !.at = "shown", !.cursor = CursorAt(r)]]
         ELSE walk' = [walk EXCEPT ![b] = [seen EXCEPT !.at = "end", !.cursor = NoCursor]]
      /\ UNCHANGED <<table, made, events>>

\* No prices, no page.
ListFails(b) ==
  /\ walk[b].at = "asked" /\ fetch[b].at = "failed"
  /\ Takes(b)
  /\ walk' = [walk EXCEPT ![b].at = "shown"]
  /\ UNCHANGED <<table, made, events>>

-----------------------------------------------------------------------------
\* The table changes under the lists: rows are created with growing ids, are
\* deleted, and change the value of the sort field (as when a product is renamed).
CreateRow(a) ==
  /\ Happens
  /\ \E i \in Rids \ made :
       /\ \A j \in made : j < i
       /\ table' = table \cup {[a EXCEPT !.id = i]}
       /\ made'  = made \cup {i}
  /\ UNCHANGED <<gold, walk>>

DropRow(r) ==
  /\ Happens
  /\ table' = table \ {r}
  /\ UNCHANGED <<gold, made, walk>>

MoveRow(r, key) ==
  /\ Happens
  /\ table' = (table \ {r}) \cup {[r EXCEPT !.key = key]}
  /\ walk'  = [b \in Browsers |-> [walk[b] EXCEPT !.moved = @ \cup {r.id}]]
  /\ UNCHANGED <<gold, made>>

Keys == {a.key : a \in NewRows}
TableStep == \/ \E a \in NewRows : CreateRow(a)
             \/ \E r \in table : DropRow(r) \/ \E k \in Keys : MoveRow(r, k)
PriceStep == \/ World
             \/ \E c \in Callers : Fetching(c)
             \/ \E c \in Callers \ Browsers : Ask(c) \/ Reply(c)

Next ==
  \/ PriceStep /\ UNCHANGED lists
  \/ TableStep
  \/ \E b \in Browsers : \/ \E q \in Queries : OpenList(b, q)
                         \/ MoreRows(b) \/ PickIds(b) \/ Query(b) \/ ListFails(b)

Spec == Init /\ [][Next]_vars

-----------------------------------------------------------------------------
Attributes == [id : Rids, key : Nat, hits : SUBSET UNION {Searched(l) : l \in Lists},
               fits : SUBSET Columns, subType : STRING, karat : Nat, weight : Nat,
               makingChargeSell : Nat, profit : Nat, vat : Nat, accessoriesCharge : Nat]
Cursors    == [value : Nat, id : Rids] \cup {NoCursor}
Walks      == [at : {"none", "asked", "picked", "shown", "end"}, q : Queries \cup {None},
               cursor : Cursors, picked : SUBSET Attributes, page : SUBSET Attributes,
               times : [Rids -> Nat], there : SUBSET Rids, moved : SUBSET Rids,
               restarted : BOOLEAN, torn : BOOLEAN]

\* Ids tell the rows of a table apart.
Identified(rows) == \A r, s \in rows : r.id = s.id => r = s

ASSUME TablesAssumption ==
  /\ NewRows \subseteq Attributes
  /\ \A rows \in FirstTables :
       IsFiniteSet(rows) /\ rows \subseteq Attributes /\ Identified(rows)

\* The types of both parts, and that a request waits for prices exactly when it is
\* one for products that has not got its page.
TypeOK ==
  /\ GoldTypeOK /\ events \in 0..MaxEvents
  /\ table \subseteq Attributes /\ Identified(table)
  /\ {r.id : r \in table} \subseteq made /\ made \subseteq Rids
  /\ walk \in [Browsers -> Walks]
  /\ \A b \in Browsers :
       /\ walk[b].at # "none" => walk[b].q \in Queries
       /\ fetch[b].at # "idle" <=> walk[b].at \in {"asked", "picked"}
                                  /\ walk[b].q.list = "products"

\* The filters of a query leave its cursor as it is: no range of prices, no range
\* over the sort field, no search along another path of the sort field's relation.
CursorKept(q) ==
  /\ ~Priced(q)
  /\ q.list = "products" => \A c \in q.ranges : q.sort # <<c>>
  /\ \A path \in Searched(q.list) : Head(path) = Head(q.sort) => path = q.sort

\* In a walk through the pages no row is shown twice, whatever is created, deleted
\* and changed meanwhile, between the two statements of a page too, unless its own
\* sort field changed, or a cursor had no value and the list started over.
ShownTwice(w) == \E i \in Rids : w.times[i] > 1 /\ i \notin w.moved
NoRowTwice ==
  \A b \in Browsers : walk[b].at # "none" /\ CursorKept(walk[b].q) /\ ~walk[b].restarted
                      => ~ShownTwice(walk[b])

\* The same of all lists: "createdAt: Date; // tie-breaker" and the id that took
\* its place are there to tell the last row from its equals.
PagesDisjoint == \A b \in Browsers : ~walk[b].restarted => ~ShownTwice(walk[b])

\* When the last page was reached, every row the query asks for that was there all
\* the time with the same sort field was shown.  Not so when a page was torn: then
\* it is short, and getAllProducts takes it for the last one (items.length === limit
\* fails), or a row that moved gives the next cursor.
Wanted(r, q) == r.hits \cap Searched(q.list) # {} /\ InRanges(r, q)
NoneSkipped ==
  \A b \in Browsers :
    LET w == walk[b]
    IN  w.at = "end" /\ CursorKept(w.q) /\ ~w.restarted /\ ~w.torn =>
          \A r \in table : /\ r.id \in w.there \ w.moved /\ r.key # NoValue
                           /\ Wanted(r, w.q)
                           => w.times[r.id] > 0

\* A product on a page that is filtered by price costs what was asked for, by the
\* calculation the clients use and the prices of that request, although another
\* request may have stored new ones: up to the toman that the clients round down, what
\* their floating point numbers are off, and what the database rounds when it divides
\* the karats.  By the union tariff this holds of products without accessories.  The
\* sides are multiplied by what all of these are parts of.
Distance(x, y)     == IF x < y THEN y - x ELSE x - y
Rounded(karat, of) == Distance(Ratio(karat, of) * of, karat * Scale)
CostsWithin(r, b) ==
  LET q      == walk[b].q
      karat  == KaratOf(r.subType)
      whole  == Parts(karat) * Scale
      worth  == Price(r, PricesOf(b)[r.subType].price, q.tariff)
      slack  == Rounded(r.karat, karat) * worth + Slip * Scale
  IN  q.tariff = "CT" \/ r.accessoriesCharge = 0 =>
        \A cost \in CalculateGoldPrice(r, PricesOf(b), karat, q.tariff) :
          /\ q.min * whole < (cost + 1) * whole + slack
          /\ cost * whole <= q.max * whole + slack
PageInRange(b) ==
  Query(b) /\ Priced(walk[b].q)
    => \A r \in walk'[b].page : CostsWithin(r, b)
ShownInRange == [][\A b \in Browsers : PageInRange(b)]_vars
=============================================================================

-------------------------------- MODULE Lists --------------------------------
(***************************************************************************)
(* The lists of products, tags, customers and invoices, page by page: the  *)
(* query that each service builds from a sort field, a cursor and filters  *)
(* (makeSortCondition, and the where clause around it), its order, and the *)
(* cursor of the next page.                                                *)
(*                                                                         *)
(* A query is a record:                                                    *)
(*   list    the list it is for                                            *)
(*   sort    path of the sort field, a sequence of names                   *)
(*   dir     "asc" or "desc"                                               *)
(*   ranges  what is filtered by a range: columns of products, "price"     *)
(*   min, max, tariff  the range of prices, and the tariff they are of     *)
(* A row has the value of the sort field in key (NoValue when it has       *)
(* none), the paths that match the search text in hits, the columns whose  *)
(* value lies in the filtered range in fits, and what its price depends on. *)
(* Values are taken to compare after their journey through the client as   *)
(* before it, which createdAt does (it is turned back into a date), and    *)
(* updatedAt, a text in UTC by then, does only on a server in that zone.   *)
(***************************************************************************)
EXTENDS Integers, Sequences, FiniteSets

CONSTANTS
  Rids,         \* ids of rows, which grow as rows are created
  Limit,        \* rows of a page (20 unless the client says otherwise)
  Hundred,      \* what percentages are parts of (100; smaller in a run)
  Scale,        \* parts of one that the database rounds a quotient to (10000: four digits)
  Slip          \* how many of the smallest parts of a price a float may be off

Lists    == {"products", "tags", "customers", "invoices"}
Columns  == {"weight", "makingChargeSell", "profit"}
NoValue  == 0     \* NULL, which the database sorts before every value
NoCursor == [value |-> NoValue, id |-> 0]

ASSUME RidsAssumption  == Rids \subseteq Nat \ {0}
ASSUME ListsAssumption == Limit \in Nat \ {0} /\ Hundred \in Nat \ {0}
ASSUME ArithmeticAssumption == Scale \in Nat \ {0} /\ Slip \in Nat

-----------------------------------------------------------------------------
\* The search text is looked for along these paths, each a group of the where
\* clause; a row is listed when it passes one of them.
Searched(list) ==
  CASE list = "products"  -> {<<"name">>, <<"saleItems", "invoice", "customer", "name">>,
                              <<"tags", "epc">>}
    [] list = "tags"      -> {<<"epc">>}
    [] list = "customers" -> {<<"name">>, <<"nid">>, <<"phone">>}
    [] list = "invoices"  -> {<<"customer", "name">>, <<"customer", "phone">>,
                              <<"customer", "nid">>, <<"items", "product", "name">>,
                              <<"items", "product", "tags", "epc">>}

\* Comparison as the database does it: with NULL it is never true.
After(dir, x, y) == IF dir = "asc" THEN x > y ELSE x < y
KeyAfter(dir, x, y) == x # NoValue /\ y # NoValue /\ After(dir, x, y)

\* The sorted table: by the sort field, then by id, in one direction.
Precedes(dir, a, b) == \/ After(dir, b.key, a.key)
                       \/ b.key = a.key /\ After(dir, b.id, a.id)

\* mutant: the cursor's row is not excluded
SortConditionAtLeast(cursor) ==
  IF cursor.value = NoValue
  THEN {[key |-> "any", id |-> FALSE]}
  ELSE {[key |-> "after", id |-> FALSE], [key |-> "equal", id |-> FALSE]}

\* The alternatives of a cursor: what is asked of the sort field, and whether
\* the id must lie after the cursor's.  Without a value the list starts over.
MakeSortCondition(cursor) ==
  IF cursor.value = NoValue
  THEN {[key |-> "any", id |-> FALSE]}
  ELSE {[key |-> "after", id |-> FALSE], [key |-> "equal", id |-> TRUE]}

\* An alternative is copied into each group, and the group's own conditions
\* replace what it says of the same names: a range that of its column, a range of
\* prices (a condition put under the name id) that of the id, and the searched
\* path that of a sort field under the same relation.  Only when the sort field
\* is the searched path itself are both conditions kept.
Replaced(q, path) == \/ Head(path) = Head(q.sort) /\ path # q.sort
                     \/ q.list = "products" /\ q.sort \in {<<c>> : c \in q.ranges}

Priced(q) == q.list = "products" /\ "price" \in q.ranges
InGroup(alt, q, path) ==
  [key |-> IF Replaced(q, path) THEN "any" ELSE alt.key,
   id  |-> alt.id /\ ~Priced(q)]

Passes(alt, dir, row, cursor) ==
  /\ CASE alt.key = "after" -> KeyAfter(dir, row.key, cursor.value)
       [] alt.key = "equal" -> row.key = cursor.value
       [] OTHER             -> TRUE
  /\ alt.id => After(dir, row.id, cursor.id)

-----------------------------------------------------------------------------
(***************************************************************************)
(* Prices of products, from the prices of a gram by symbol.                *)
(***************************************************************************)
Conventional == 2     \* conventionalTariffPercent, per cent

\* Weight times price of a gram (in rial: ten to the toman), with making charge and
\* profit; the tariffs add to this.  The price is this times the part of the karats,
\* over the cube of Hundred.
Cube == Hundred * Hundred * Hundred
Worth(r, price)   == r.weight * 10 * price
Charged(r, price) == Worth(r, price) * (Hundred + r.makingChargeSell) * (Hundred + r.profit)

ConventionalPrice(r, price) == Charged(r, price) * (Hundred + Conventional)
UnionPrice(r, price) ==
  Charged(r, price) * (Hundred + r.vat) - Worth(r, price) * r.vat * Hundred * Hundred
Price(r, price, tariff) ==
  IF tariff = "CT" THEN ConventionalPrice(r, price) ELSE UnionPrice(r, price)

\* calculateGoldPrice, of which the caller takes 0 for a price it cannot know.  The
\* clients calculate in floating point and round down: what they get can be the next
\* number when the price is close to one.
Parts(karat) == karat * Cube
CalculateGoldPrice(r, prices, karat, tariff) ==
  IF r.karat > 0 /\ r.weight > 0 /\ r.subType \in DOMAIN prices /\ prices[r.subType].price > 0
  THEN {((r.karat * Price(r, prices[r.subType].price, tariff) + e) \div Parts(karat))
          + r.accessoriesCharge : e \in -Slip..Slip}
  ELSE {0}

\* What the database takes for karat / karatCase, in parts of Scale: it divides exact
\* numbers and rounds the quotient half up; the other factors of its price are exact.
Ratio(karat, of) == (2 * karat * Scale + of) \div (2 * of)

\* mutant: the upper bound leaves the conventional tariff out
PriceFitsUntaxed(r, prices, karat, q) ==
  /\ r.subType \in DOMAIN prices
  /\ LET price == prices[r.subType].price
         ratio == Ratio(r.karat, karat)
         extra == r.accessoriesCharge * Scale * Cube
     IN  /\ q.min * Scale * Cube <= ratio * ConventionalPrice(r, price) + extra
         /\ ratio * Charged(r, price) * Hundred + extra <= q.max * Scale * Cube

\* The same in the database.  The upper bound of the union tariff is not taken
\* from the calculation: it has the tax on the gold and not the accessories.
PriceFits(r, prices, karat, q) ==
  /\ r.subType \in DOMAIN prices
  /\ LET price == prices[r.subType].price
         ratio == Ratio(r.karat, karat)
         cost  == ratio * Price(r, price, q.tariff) + r.accessoriesCharge * Scale * Cube
         upper == IF q.tariff = "CT" THEN cost ELSE ratio * Charged(r, price) * (Hundred + r.vat)
     IN  q.min * Scale * Cube <= cost /\ upper <= q.max * Scale * Cube

-----------------------------------------------------------------------------
\* What is asked of a row besides the cursor, by the ranges over its columns.
InRanges(r, q) == q.list = "products" => q.ranges \ {"price"} \subseteq r.fits

\* The rows a query finds among those whose price fits, and the first Limit of
\* them in its order.
Found(rows, q, cursor) ==
  {r \in rows :
     /\ \E path \in Searched(q.list) \cap r.hits : \E alt \in MakeSortCondition(cursor) :
          Passes(InGroup(alt, q, path), q.dir, r, cursor)
     /\ InRanges(r, q)}

\* mutant: rows of one key come in the order of creation, whatever the direction
FirstByKey(found, dir) ==
  {r \in found :
     Cardinality({a \in found : \/ After(dir, r.key, a.key)
                                \/ a.key = r.key /\ a.id < r.id}) < Limit}

FirstOf(found, dir) ==
  {r \in found : Cardinality({a \in found : Precedes(dir, a, r)}) < Limit}

\* The last row of a page, which gives the cursor of the next when the page is full.
IsLast(r, page, dir) == r \in page /\ \A a \in page : ~Precedes(dir, r, a)
Full(page)   == Cardinality(page) = Limit
CursorAt(r)  == [value |-> r.key, id |-> r.id]
=============================================================================

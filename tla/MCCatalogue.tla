---------------------------- MODULE MCCatalogue ----------------------------
(* Two requests at a time, one of them of a browser that reads lists of      *)
(* three rows, two to a page.  Percentages are parts of ten.                 *)
EXTENDS Catalogue

MCListed == Quoted
MCCallers == {"browser", "client"}
MCBrowsers == {"browser"}

\* TABAN gives the gram on two days; BRS the same weights at two prices.
Taban(day, gram) ==
  [day |-> day, YekGram18 |-> gram, SekehEmam |-> 1, SekehTamam |-> 1, SekehNim |-> 1,
   SekehRob |-> 1, SekehGerami |-> 1, OunceTala |-> 60]
Brs(day, gram) == [s \in MCListed |-> [date |-> day, price |-> gram * WeightOf(s)]]

MCTabanQuotes == {Taban(1, 2), Taban(2, 1)}
MCBrsQuotes   == {Brs(1, 1), Brs(1, 3)}

\* Products of gold quoted as 18 karat whose making charge and accessories differ.
Row(i, key, charge, accessories) ==
  [id |-> i, key |-> key, hits |-> {<<"name">>, <<"epc">>, <<"customer", "phone">>},
   fits |-> Columns, subType |-> "IR_GOLD_18K", karat |-> 750, weight |-> 1,
   makingChargeSell |-> charge, profit |-> 0, vat |-> 1, accessoriesCharge |-> accessories]

\* Two of three rows have one value in the sort field; the value of one is missing.
MCFirstTables ==
  {{Row(1, 1, 1, 0), Row(2, 1, 0, 2), [Row(3, 2, 0, 0) EXCEPT !.karat = 710]},
   {Row(1, 1, 0, 0), Row(2, NoValue, 0, 0), Row(3, 1, 0, 0)}}
MCNewRows == {Row(1, 1, 0, 0)}

Query0(list, sort, dir) ==
  [list |-> list, sort |-> sort, dir |-> dir, ranges |-> {}, min |-> 0, max |-> 0,
   tariff |-> "CT"]
PricedQuery(tariff) ==
  [Query0("products", <<"createdAt">>, "desc")
     EXCEPT !.ranges = {"price"}, !.min = 12, !.max = 33, !.tariff = tariff]

MCQueries ==
  {Query0("customers", <<"name">>, "asc"), Query0("products", <<"weight">>, "desc"),
   PricedQuery("CT"), PricedQuery("UT")}
MCPagesQueries == {PricedQuery("CT")}
=============================================================================

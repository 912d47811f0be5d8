------------------------------- MODULE MCStock -------------------------------
(***************************************************************************)
(* Instances of Stock for TLC.                                             *)
(***************************************************************************)
EXTENDS Stock

OneBuyer  == {<<"ada", 1>>}
TwoBuyers == {<<"ada", 1>>, <<"bob", 1>>}

\* A clerk who changes the stock, one request at a time, and a till.
ClerkAndTill == [h \in Handlers |->
                   IF h = "clerk" THEN {"create", "update", "delete", "deleteInvoice"}
                   ELSE {"sell"}]
StockKeeper  == [h \in Handlers |-> {"create", "update", "delete"}]
Creators     == [h \in Handlers |-> {"create"}]

NewTags   == {[NoChange EXCEPT !.tags = ts] : ts \in SUBSET Epcs}
Restock   == {[NoChange EXCEPT !.quantity = MaxQty],
              [NoChange EXCEPT !.quantity = MaxQty, !.inventory = TRUE]}
Renames   == {[NoChange EXCEPT !.other = TRUE]}
ShopUpdates == NewTags \cup Renames
NoUpdates == {}
=============================================================================

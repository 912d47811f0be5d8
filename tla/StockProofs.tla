----------------------------- MODULE StockProofs -----------------------------
(***************************************************************************)
(* Theorems about Stock, for every set of tags, users, buyers and handlers *)
(* and for every bound.  Whatever the handlers may ask for: the types of   *)
(* the tables and of the suspended handlers, and that a sale never refers  *)
(* to a product or an invoice that is gone.  When requests of one kind are *)
(* handled one at a time (sales: OneTill; all others: OneClerk), and those *)
(* of the two kinds concurrently: that no customer is stored twice, that   *)
(* the files on the disk are the photos of the products, and, when an      *)
(* invoice is for one product, that no tag is in use by two products.      *)
(***************************************************************************)
EXTENDS Stock, TLAPS, FiniteSetTheorems

\* The initial state has the right types.
LEMMA InitTyped == Init => TypeOK
<1> SUFFICES ASSUME Init PROVE TypeOK
  OBVIOUS
<1>1. Idle \in Reqs /\ Ready(Idle, tags)
  BY StockBounds DEF Idle, Reqs, Ready, Kinds, Stages, Init
<1>2. made \in [products : 0..MaxProducts, invoices : 0..MaxInvoices, files : 0..MaxFiles]
  BY StockBounds DEF Init
<1>3. req \in [Handlers -> Reqs] /\ \A h \in Handlers : Ready(req[h], tags)
  BY <1>1 DEF Init
<1> QED
  BY <1>2, <1>3, StockBounds DEF Init, TypeOK

\* Replacing the state of one handler by a well-formed one keeps all handlers
\* well formed, as long as no tag is removed.
LEMMA HandlerStep ==
  ASSUME TypeOK, NEW h \in Handlers, NEW r \in Reqs,
         tags \subseteq tags', Ready(r, tags'), Becomes(h, r)
  PROVE  req' \in [Handlers -> Reqs] /\ \A g \in Handlers : Ready(req'[g], tags')
<1>1. req' \in [Handlers -> Reqs]
  BY DEF TypeOK, Becomes
<1>2. ASSUME NEW g \in Handlers PROVE Ready(req'[g], tags')
  <2>1. CASE g = h
    BY <2>1 DEF TypeOK, Becomes
  <2>2. CASE g # h
    <3>1. req'[g] = req[g] /\ Ready(req[g], tags)
      BY <2>2 DEF TypeOK, Becomes
    <3> QED
      BY <3>1 DEF Ready
  <2> QED
    BY <2>1, <2>2
<1> QED
  BY <1>1, <1>2

\* A handler that ends leaves a well-formed state.
LEMMA EndStep ==
  ASSUME TypeOK, NEW h \in Handlers, tags \subseteq tags', Ends(h)
  PROVE  req' \in [Handlers -> Reqs] /\ \A g \in Handlers : Ready(req'[g], tags')
<1>1. Idle \in Reqs /\ Ready(Idle, tags')
  BY StockBounds DEF Idle, Reqs, Ready, Kinds, Stages
<1> QED
  BY <1>1, HandlerStep DEF Ends

\* The handlers' types of this state, as facts about one of them.
LEMMA HandlerTyped ==
  ASSUME TypeOK, NEW h \in Handlers
  PROVE  req[h] \in Reqs /\ Ready(req[h], tags)
BY DEF TypeOK

\* When tables, files and ids are typed as they should be and the handlers are,
\* the state is.
LEMMA TypedAgain ==
  ASSUME product' \in [Pids -> Rows \cup {None}], tags' \subseteq Epcs,
         carries' \in [Pids -> SUBSET tags'], invoice' \in [Iids -> Users \cup {None}],
         items' \subseteq Items, customers' \in [Buyers -> Nat],
         made' \in [products : 0..MaxProducts, invoices : 0..MaxInvoices, files : 0..MaxFiles],
         disk' \subseteq Fids,
         req' \in [Handlers -> Reqs] /\ \A g \in Handlers : Ready(req'[g], tags'),
         calls' \in 0..MaxCalls, faults' \in 0..MaxFaults
  PROVE  TypeOK'
BY DEF TypeOK

\* Going on with the next tag changes nothing else in a handler.
LEMMA NextTagFields ==
  ASSUME NEW q \in Reqs, NEW todo, NEW bad
  PROVE  LET r == [q EXCEPT !.todo = todo, !.bad = bad]
         IN  /\ r.at = q.at /\ r.op = q.op /\ r.todo = todo
             /\ r.body = q.body /\ r.row = q.row /\ r.id = q.id
             /\ r.user = q.user /\ r.buyer = q.buyer /\ r.n = q.n
BY DEF Reqs

\* A checked tag has a row, so it may leave the tags to do.
LEMMA CheckTagTyped ==
  ASSUME TypeOK, NEW h \in Handlers, NEW e \in Epcs, CheckTag(h, e)
  PROVE  TypeOK'
<1>1. req[h] \in Reqs /\ Ready(req[h], tags)
  BY HandlerTyped
<1>2. UNCHANGED <<product, carries, tags, invoice, items, customers, disk, made, calls, faults>>
  BY DEF CheckTag, tables
<1>3. CASE e \in tags
  <2> DEFINE r == [req[h] EXCEPT !.todo = @ \ {e}, !.bad = @ \/ Exceptions(e) \ req[h].mine # {}]
  <2>1. Becomes(h, r)
    BY <1>3 DEF CheckTag
  <2>2. /\ req[h].at = "tags" /\ r.at = req[h].at
        /\ r.op = req[h].op /\ r.todo = req[h].todo \ {e}
        /\ r.body = req[h].body /\ r.row = req[h].row /\ r.id = req[h].id
        /\ r.user = req[h].user /\ r.buyer = req[h].buyer /\ r.n = req[h].n
    <3>1. req[h].at = "tags"
      BY DEF CheckTag
    <3>2. QED
      BY <1>1, <3>1, NextTagFields
  <2>3. r \in Reqs
    BY <1>1 DEF Reqs
  <2>4. Ready(r, tags)
    BY <1>1, <1>3, <2>2 DEF Ready
  <2> HIDE DEF r
  <2> QED
    BY <1>2, <2>1, <2>3, <2>4, HandlerStep, TypedAgain DEF TypeOK
<1>4. CASE e \notin tags
  <2> DEFINE r == [req[h] EXCEPT !.at = "newTag", !.fresh = e]
  <2>1. Becomes(h, r)
    BY <1>4 DEF CheckTag
  <2>2. r \in Reqs
    BY <1>1 DEF Reqs, Stages
  <2>3. Ready(r, tags)
    BY <1>1 DEF Ready, CheckTag, Reqs
  <2> HIDE DEF r
  <2> QED
    BY <1>2, <2>1, <2>2, <2>3, HandlerStep, TypedAgain DEF TypeOK
<1> QED
  BY <1>3, <1>4

\* A created tag has a row from then on.
LEMMA CreateTagTyped ==
  ASSUME TypeOK, NEW h \in Handlers, CreateTag(h)
  PROVE  TypeOK'
<1>1. req[h] \in Reqs /\ Ready(req[h], tags)
  BY HandlerTyped
<1>2. UNCHANGED <<product, carries, invoice, items, customers, disk, made, calls, faults>>
  BY DEF CreateTag
<1>3. tags' \subseteq Epcs /\ tags \subseteq tags' /\ carries' \in [Pids -> SUBSET tags']
  BY <1>1 DEF CreateTag, Ready, Reqs, TypeOK
<1>4. CASE req[h].fresh \in tags
  BY <1>2, <1>3, <1>4, EndStep, TypedAgain DEF CreateTag, TypeOK
<1>5. CASE req[h].fresh \notin tags
  <2> DEFINE r == [req[h] EXCEPT !.at = "tags", !.todo = @ \ {req[h].fresh}, !.fresh = None]
  <2>1. Becomes(h, r)
    BY <1>5 DEF CreateTag
  <2>2. r \in Reqs
    BY <1>1 DEF Reqs, Stages
  <2>3. Ready(r, tags')
    BY <1>1 DEF Ready, CreateTag, Reqs
  <2> HIDE DEF r
  <2>4. req' \in [Handlers -> Reqs] /\ \A g \in Handlers : Ready(req'[g], tags')
    BY <1>3, <2>1, <2>2, <2>3, HandlerStep
  <2> QED
    BY <1>2, <1>3, <2>4, TypedAgain DEF TypeOK
<1> QED
  BY <1>4, <1>5

\* A refused request leaves everything typed.
LEMMA RefuseTyped ==
  ASSUME TypeOK, NEW h \in Handlers, Refuse(h)
  PROVE  TypeOK'
<1>1. req[h] \in Reqs /\ Ready(req[h], tags)
  BY HandlerTyped
<1>2. UNCHANGED <<product, carries, tags, invoice, items, customers, disk, made, calls, faults>>
  BY DEF Refuse, tables
<1>3. Ends(h)
  BY DEF Refuse
<1>4. req' \in [Handlers -> Reqs] /\ \A g \in Handlers : Ready(req'[g], tags')
  BY <1>2, <1>3, EndStep
<1> QED
  BY <1>2, <1>4, TypedAgain DEF TypeOK

\* Removing the old photos keeps the types.
LEMMA RemovePhotosTyped ==
  ASSUME TypeOK, NEW h \in Handlers, RemovePhotos(h)
  PROVE  TypeOK'
<1>1. req[h] \in Reqs /\ Ready(req[h], tags)
  BY HandlerTyped
<1>2. UNCHANGED <<product, carries, tags, invoice, items, customers, made, calls, faults>>
  BY DEF RemovePhotos, tables
<1> DEFINE r == [req[h] EXCEPT !.at = "upload"]
<1>3. r \in Reqs /\ Ready(r, tags) /\ Becomes(h, r)
  BY <1>1 DEF RemovePhotos, Goes, Reqs, Ready, Stages, Kinds, Accepted
<1>4. req' \in [Handlers -> Reqs] /\ \A g \in Handlers : Ready(req'[g], tags')
  BY <1>2, <1>3, HandlerStep
<1>5. disk' \subseteq Fids
  BY DEF RemovePhotos, TypeOK
<1> QED
  BY <1>2, <1>4, <1>5, TypedAgain DEF TypeOK

\* An uploaded file has the next file id, and the row refers to it.
LEMMA UploadFilesTyped ==
  ASSUME TypeOK, NEW h \in Handlers, UploadFiles(h)
  PROVE  TypeOK'
<1>1. req[h] \in Reqs /\ Ready(req[h], tags)
  BY HandlerTyped
<1>2. UNCHANGED <<product, carries, tags, invoice, items, customers, calls, faults>>
  BY DEF UploadFiles, tables
<1> DEFINE r == [req[h] EXCEPT !.at = "save", !.row.photo = made.files + 1]
<1>3. made.files + 1 \in Fids /\ made.files \in 0..MaxFiles
  BY StockBounds DEF UploadFiles, TypeOK, Fids
<1>4. /\ Becomes(h, r) /\ req[h].op \in {"create", "update"} /\ req[h].todo = {}
      /\ req[h].at \in {"upload", "tags"}
  BY <1>1 DEF UploadFiles, Ready, Accepted
<1>5. r \in Reqs
  BY <1>1, <1>3, <1>4 DEF Reqs, Ready, Rows, Stages
<1>6. Ready(r, tags)
  BY <1>1, <1>3, <1>4 DEF Reqs, Ready, Rows
<1> HIDE DEF r
<1>7. req' \in [Handlers -> Reqs] /\ \A g \in Handlers : Ready(req'[g], tags')
  BY <1>2, <1>4, <1>5, <1>6, HandlerStep
<1>8. disk' \subseteq Fids
  BY <1>3 DEF UploadFiles, TypeOK
<1>9. made' \in [products : 0..MaxProducts, invoices : 0..MaxInvoices, files : 0..MaxFiles]
  BY <1>3, StockBounds DEF UploadFiles, TypeOK, Fids
<1> QED
  BY <1>2, <1>7, <1>8, <1>9, TypedAgain DEF TypeOK

\* Removing the files of a deleted product keeps the types.
LEMMA DeleteFilesTyped ==
  ASSUME TypeOK, NEW h \in Handlers, DeleteFiles(h)
  PROVE  TypeOK'
<1>1. req[h] \in Reqs /\ Ready(req[h], tags)
  BY HandlerTyped
<1>2. UNCHANGED <<product, carries, tags, invoice, items, customers, made, calls, faults>>
  BY DEF DeleteFiles, tables
<1>3. Ends(h)
  BY DEF DeleteFiles
<1>4. req' \in [Handlers -> Reqs] /\ \A g \in Handlers : Ready(req'[g], tags')
  BY <1>2, <1>3, EndStep
<1>5. disk' \subseteq Fids
  BY DEF DeleteFiles, TypeOK
<1> QED
  BY <1>2, <1>4, <1>5, TypedAgain DEF TypeOK

\* An idle handler is well formed, and the requests and stages have names.
LEMMA IdleTyped ==
  /\ Idle \in Reqs
  /\ {"create", "update", "delete", "sell", "deleteInvoice"} \subseteq Kinds
  /\ {"tags", "count", "customer", "invoice", "items"} \subseteq Stages
BY StockBounds DEF Idle, Reqs, Stages, Kinds

\* A started creation has its row and its tags.
LEMMA CreateProductTyped ==
  ASSUME TypeOK, NEW h \in Handlers, CreateProduct(h)
  PROVE  TypeOK'
<1>1. UNCHANGED <<product, carries, tags, invoice, items, customers, disk, made, faults>> /\ calls' \in 0..MaxCalls
  BY StockBounds DEF CreateProduct, Asks, tables, TypeOK
<1>2. PICK r : r \in Reqs /\ Ready(r, tags) /\ Becomes(h, r)
  <2>1. PICK u \in Users, ts \in SUBSET Epcs, q \in 1..MaxQty, ph \in Photos :
          Becomes(h, [Idle EXCEPT !.op = "create", !.at = "tags", !.photos = ph,
                        !.body = [NoChange EXCEPT !.tags = ts], !.todo = ts,
                        !.row = [quantity |-> q, inventory |-> FALSE, owner |-> u,
                                 photo |-> 0]])
    BY DEF CreateProduct
  <2> DEFINE row  == [quantity |-> q, inventory |-> FALSE, owner |-> u, photo |-> 0]
             body == [NoChange EXCEPT !.tags = ts]
             r    == [Idle EXCEPT !.op = "create", !.at = "tags", !.photos = ph,
                        !.body = body, !.todo = ts, !.row = row]
  <2>2. q \in 0..MaxQty /\ ph \in BOOLEAN
    BY SwitchAssumption, StockBounds
  <2>3. FALSE \in BOOLEAN /\ 0 \in Fids \cup {0}
    OBVIOUS
  <2>4. row \in Rows /\ ph \in BOOLEAN
    BY <2>2, <2>3, Zenon DEF Rows
  <2>5. NoChange \in AllUpdates
    BY DEF NoChange, AllUpdates
  <2>6. body \in AllUpdates /\ body.tags = ts
    BY <2>5 DEF AllUpdates
  <2> HIDE DEF row, body
  <2>7. r \in Reqs
    BY <2>4, <2>6, IdleTyped DEF Reqs
  <2>8. Ready(r, tags)
    BY <2>4, <2>6, NoneIsNothing DEF Ready, Idle
  <2> QED
    BY <2>1, <2>7, <2>8 DEF row, body
<1>3. req' \in [Handlers -> Reqs] /\ \A g \in Handlers : Ready(req'[g], tags')
  BY <1>1, <1>2, HandlerStep
<1> QED
  BY <1>1, <1>3, TypedAgain DEF TypeOK

\* A started update has the row it loaded.
LEMMA UpdateProductTyped ==
  ASSUME TypeOK, NEW h \in Handlers, UpdateProduct(h)
  PROVE  TypeOK'
<1>1. UNCHANGED <<product, carries, tags, invoice, items, customers, disk, made, faults>> /\ calls' \in 0..MaxCalls
  BY StockBounds DEF UpdateProduct, Asks, tables, TypeOK
<1>2. PICK r : r \in Reqs /\ Ready(r, tags) /\ Becomes(h, r)
  <2>1. PICK p \in Pids, b \in Updates, ph \in Photos :
          /\ product[p] # None
          /\ Becomes(h, [Idle EXCEPT !.op = "update", !.at = "tags", !.id = p,
                           !.mine = {p}, !.body = b, !.photos = ph,
                           !.todo = IF b.tags = None THEN {} ELSE b.tags,
                           !.row = product[p], !.seen = ItemsOf(p)])
    BY DEF UpdateProduct
  <2> DEFINE todo == IF b.tags = None THEN {} ELSE b.tags
             r    == [Idle EXCEPT !.op = "update", !.at = "tags", !.id = p, !.mine = {p},
                        !.body = b, !.photos = ph, !.todo = todo,
                        !.row = product[p], !.seen = ItemsOf(p)]
  <2>2. /\ b \in AllUpdates /\ ph \in BOOLEAN /\ product[p] \in Rows /\ p \in Nat
        /\ ItemsOf(p) \subseteq Items
    BY <2>1, UpdatesAssumption, SwitchAssumption DEF TypeOK, ItemsOf, Pids
  <2>3. todo \subseteq Epcs /\ (b.tags # None => b.tags \ todo = {})
    BY <2>2 DEF AllUpdates
  <2> HIDE DEF todo
  <2>4. r \in Reqs
    BY <2>2, <2>3, IdleTyped DEF Reqs
  <2>5. Ready(r, tags)
    BY <2>2, <2>3 DEF Ready, Idle
  <2> QED
    BY <2>1, <2>4, <2>5 DEF todo
<1>3. req' \in [Handlers -> Reqs] /\ \A g \in Handlers : Ready(req'[g], tags')
  BY <1>1, <1>2, HandlerStep
<1> QED
  BY <1>1, <1>3, TypedAgain DEF TypeOK

\* A started deletion has the row it loaded.
LEMMA DeleteProductTyped ==
  ASSUME TypeOK, NEW h \in Handlers, DeleteProduct(h)
  PROVE  TypeOK'
<1>1. UNCHANGED <<product, carries, tags, invoice, items, customers, disk, made, faults>> /\ calls' \in 0..MaxCalls
  BY StockBounds DEF DeleteProduct, Asks, tables, TypeOK
<1>2. PICK r : r \in Reqs /\ Ready(r, tags) /\ Becomes(h, r)
  <2>1. PICK p \in Pids :
          /\ product[p] # None
          /\ Becomes(h, [Idle EXCEPT !.op = "delete", !.at = "count", !.id = p,
                                     !.row = product[p]])
    BY DEF DeleteProduct
  <2> DEFINE r == [Idle EXCEPT !.op = "delete", !.at = "count", !.id = p, !.row = product[p]]
  <2>2. product[p] \in Rows /\ p \in Nat
    BY <2>1 DEF TypeOK, Pids
  <2>3. r \in Reqs
    BY <2>2, IdleTyped DEF Reqs
  <2>4. Ready(r, tags)
    BY <2>2 DEF Ready, Idle
  <2> QED
    BY <2>1, <2>3, <2>4
<1>3. req' \in [Handlers -> Reqs] /\ \A g \in Handlers : Ready(req'[g], tags')
  BY <1>1, <1>2, HandlerStep
<1> QED
  BY <1>1, <1>3, TypedAgain DEF TypeOK

\* A started sale has its user, customer and products.
LEMMA SellTyped ==
  ASSUME TypeOK, NEW h \in Handlers, Sell(h)
  PROVE  TypeOK'
<1>1. UNCHANGED <<product, carries, tags, invoice, items, customers, disk, made, faults>> /\ calls' \in 0..MaxCalls
  BY StockBounds DEF Sell, Asks, tables, TypeOK
<1>2. PICK r : r \in Reqs /\ Ready(r, tags) /\ Becomes(h, r)
  <2>1. PICK u \in Users, b \in Buyers, n \in 1..MaxQty, ps \in SUBSET Pids :
          Becomes(h, [Idle EXCEPT !.op = "sell", !.user = u, !.buyer = b, !.n = n, !.mine = ps,
                        !.at = IF Known(b) THEN "invoice" ELSE "customer"])
    BY DEF Sell
  <2> DEFINE at == IF Known(b) THEN "invoice" ELSE "customer"
             r  == [Idle EXCEPT !.op = "sell", !.user = u, !.buyer = b, !.n = n, !.mine = ps,
                                !.at = at]
  <2>2. at \in {"invoice", "customer"} /\ n \in 0..MaxQty
    BY StockBounds
  <2> HIDE DEF at
  <2>3. r \in Reqs
    BY <2>2, IdleTyped DEF Reqs
  <2>4. Ready(r, tags)
    BY <2>2 DEF Ready, Idle
  <2> QED
    BY <2>1, <2>3, <2>4 DEF at
<1>3. req' \in [Handlers -> Reqs] /\ \A g \in Handlers : Ready(req'[g], tags')
  BY <1>1, <1>2, HandlerStep
<1> QED
  BY <1>1, <1>3, TypedAgain DEF TypeOK

\* A started deletion of an invoice has its id.
LEMMA DeleteInvoiceTyped ==
  ASSUME TypeOK, NEW h \in Handlers, DeleteInvoice(h)
  PROVE  TypeOK'
<1>1. UNCHANGED <<product, carries, tags, invoice, items, customers, disk, made, faults>> /\ calls' \in 0..MaxCalls
  BY StockBounds DEF DeleteInvoice, Asks, tables, TypeOK
<1>2. PICK r : r \in Reqs /\ Ready(r, tags) /\ Becomes(h, r)
  <2>1. PICK i \in Iids : Becomes(h, [Idle EXCEPT !.op = "deleteInvoice", !.at = "items", !.id = i])
    BY DEF DeleteInvoice
  <2> DEFINE r == [Idle EXCEPT !.op = "deleteInvoice", !.at = "items", !.id = i]
  <2>2. i \in Nat
    BY DEF Iids
  <2>3. r \in Reqs
    BY <2>2, IdleTyped DEF Reqs
  <2>4. Ready(r, tags)
    BY DEF Ready, Idle
  <2> QED
    BY <2>1, <2>3, <2>4
<1>3. req' \in [Handlers -> Reqs] /\ \A g \in Handlers : Ready(req'[g], tags')
  BY <1>1, <1>2, HandlerStep
<1> QED
  BY <1>1, <1>3, TypedAgain DEF TypeOK

\* A saved product has the next id; its tags all have rows.
LEMMA SaveProductTyped ==
  ASSUME TypeOK, NEW h \in Handlers, SaveProduct(h)
  PROVE  TypeOK'
<1>1. req[h] \in Reqs /\ Ready(req[h], tags)
  BY HandlerTyped
<1>2. UNCHANGED <<tags, invoice, items, customers, disk, calls, faults>>
  BY DEF SaveProduct, tables
<1>3. Ends(h)
  BY DEF SaveProduct
<1>4. req' \in [Handlers -> Reqs] /\ \A g \in Handlers : Ready(req'[g], tags')
  BY <1>2, <1>3, EndStep
<1>5. /\ req[h].row \in Rows /\ req[h].body.tags \subseteq tags
     /\ made.products \in 0..MaxProducts /\ made.products + 1 \in Pids
  BY <1>1, StockBounds, NoneIsNothing DEF SaveProduct, Saves, Accepted, Ready, AllUpdates, TypeOK, Pids
<1>6. product' \in [Pids -> Rows \cup {None}] /\ carries' \in [Pids -> SUBSET tags']
  BY <1>2, <1>5 DEF SaveProduct, TypeOK
<1>7. made' \in [products : 0..MaxProducts, invoices : 0..MaxInvoices, files : 0..MaxFiles]
  BY <1>5 DEF SaveProduct, TypeOK, Pids
<1> QED
  BY <1>2, <1>4, <1>5, <1>6, <1>7, TypedAgain DEF TypeOK

\* The count of a product's sales keeps the types.
LEMMA CountSalesTyped ==
  ASSUME TypeOK, NEW h \in Handlers, CountSales(h)
  PROVE  TypeOK'
<1>1. req[h] \in Reqs /\ Ready(req[h], tags)
  BY HandlerTyped
<1>2. UNCHANGED <<product, carries, tags, invoice, items, customers, disk, made, calls, faults>>
  BY DEF CountSales, tables
<1> DEFINE r == [req[h] EXCEPT !.at = "row"]
<1>3. r \in Reqs /\ Ready(r, tags)
  BY <1>1 DEF CountSales, Reqs, Ready, Stages
<1>4. Ends(h) \/ Becomes(h, r)
  BY DEF CountSales, Goes
<1> HIDE DEF r
<1> QED
  BY <1>2, <1>3, <1>4, HandlerStep, EndStep, TypedAgain DEF TypeOK

\* The deletion of a product keeps the types.
LEMMA DeleteRowTyped ==
  ASSUME TypeOK, NEW h \in Handlers, DeleteRow(h)
  PROVE  TypeOK'
<1>1. req[h] \in Reqs /\ Ready(req[h], tags)
  BY HandlerTyped
<1>2. UNCHANGED <<tags, invoice, items, customers, disk, made, calls, faults>>
  BY DEF DeleteRow
<1> DEFINE r == [req[h] EXCEPT !.at = "files"]
<1>3. r \in Reqs /\ Ready(r, tags)
  BY <1>1 DEF DeleteRow, Reqs, Ready, Stages
<1>4. Ends(h) \/ Becomes(h, r)
  BY DEF DeleteRow, Goes
<1>5. product' \in [Pids -> Rows \cup {None}] /\ carries' \in [Pids -> SUBSET tags']
  BY <1>2 DEF DeleteRow, TypeOK
<1> HIDE DEF r
<1> QED
  BY <1>2, <1>3, <1>4, <1>5, HandlerStep, EndStep, TypedAgain DEF TypeOK

\* What an update writes back is a row of the table.
LEMMA SavedRow ==
  ASSUME TypeOK, NEW h \in Handlers, Saves(h, "update")
  PROVE  /\ req[h].id \in Pids
         /\ [req[h].row EXCEPT !.inventory = (req[h].body.inventory = TRUE)] \in Rows
<1>1. req[h] \in Reqs /\ Ready(req[h], tags)
  BY HandlerTyped
<1> QED
  BY <1>1 DEF Ready, Saves, Rows

\* A saved update keeps the types: its tags all have rows.
LEMMA SaveUpdateTyped ==
  ASSUME TypeOK, NEW h \in Handlers, SaveUpdate(h)
  PROVE  TypeOK'
<1>1. req[h] \in Reqs /\ Ready(req[h], tags)
  BY HandlerTyped
<1>2. UNCHANGED <<tags, invoice, customers, disk, made, calls, faults>>
  BY DEF SaveUpdate, tables
<1>3. Ends(h)
  BY DEF SaveUpdate
<1>4. req' \in [Handlers -> Reqs] /\ \A g \in Handlers : Ready(req'[g], tags')
  BY <1>2, <1>3, EndStep
<1>5. req[h].body.tags # None => req[h].body.tags \subseteq tags
  BY <1>1 DEF SaveUpdate, Saves, Accepted, Ready
<1>6. product' \in [Pids -> Rows \cup {None}]
  BY SavedRow DEF SaveUpdate, TypeOK
<1>7. carries' \in [Pids -> SUBSET tags']
  BY <1>2, <1>5 DEF SaveUpdate, TypeOK
<1>8. items' \subseteq Items
  <2>1. \A it \in Items : [it EXCEPT !.lost = TRUE] \in Items
    BY DEF Items
  <2> QED
    BY <2>1 DEF SaveUpdate, TypeOK
<1> QED
  BY <1>2, <1>4, <1>5, <1>6, <1>7, <1>8, TypedAgain DEF TypeOK

\* A new customer row keeps the types.
LEMMA SaveCustomerTyped ==
  ASSUME TypeOK, NEW h \in Handlers, SaveCustomer(h)
  PROVE  TypeOK'
<1>1. req[h] \in Reqs /\ Ready(req[h], tags)
  BY HandlerTyped
<1>2. UNCHANGED <<product, carries, tags, invoice, items, disk, made, calls, faults>>
  BY DEF SaveCustomer, tables
<1> DEFINE r == [req[h] EXCEPT !.at = "invoice"]
<1>3. r \in Reqs /\ Ready(r, tags) /\ Becomes(h, r)
  BY <1>1 DEF SaveCustomer, Goes, Reqs, Ready, Stages, Kinds
<1>4. req' \in [Handlers -> Reqs] /\ \A g \in Handlers : Ready(req'[g], tags')
  BY <1>2, <1>3, HandlerStep
<1>5. customers' \in [Buyers -> Nat]
  BY <1>1 DEF SaveCustomer, TypeOK, Ready
<1> QED
  BY <1>2, <1>4, <1>5, TypedAgain DEF TypeOK

\* A saved invoice has the next id, and an owner.
LEMMA SaveInvoiceTyped ==
  ASSUME TypeOK, NEW h \in Handlers, SaveInvoice(h)
  PROVE  TypeOK'
<1>1. req[h] \in Reqs /\ Ready(req[h], tags)
  BY HandlerTyped
<1>2. UNCHANGED <<product, carries, tags, customers, disk, calls, faults>>
  BY DEF SaveInvoice, tables
<1>3. Ends(h)
  BY DEF SaveInvoice
<1>4. req' \in [Handlers -> Reqs] /\ \A g \in Handlers : Ready(req'[g], tags')
  BY <1>2, <1>3, EndStep
<1>5. /\ req[h].user \in Users /\ req[h].n \in 1..MaxQty /\ req[h].mine \subseteq Pids
     /\ made.invoices \in 0..MaxInvoices /\ made.invoices + 1 \in Iids
  BY <1>1, StockBounds DEF SaveInvoice, Ready, Reqs, TypeOK, Iids
<1>6. invoice' \in [Iids -> Users \cup {None}]
  BY <1>5 DEF SaveInvoice, TypeOK
<1>7. items' \subseteq Items
  <2>1. \A p : Updating(p) \in BOOLEAN
    BY DEF Updating
  <2>2. \A p \in req[h].mine :
          [inv |-> made.invoices + 1, of |-> p, n |-> req[h].n, lost |-> FALSE,
           over |-> Updating(p)] \in Items
    BY <1>5, <2>1 DEF Items
  <2> QED
    BY <2>2 DEF SaveInvoice, TypeOK
<1>8. made' \in [products : 0..MaxProducts, invoices : 0..MaxInvoices, files : 0..MaxFiles]
  BY <1>5 DEF SaveInvoice, TypeOK, Iids
<1> QED
  BY <1>2, <1>4, <1>5, <1>6, <1>7, <1>8, TypedAgain DEF TypeOK

\* Loading the items of an invoice keeps the types.
LEMMA LoadItemsTyped ==
  ASSUME TypeOK, NEW h \in Handlers, LoadItems(h)
  PROVE  TypeOK'
<1>1. req[h] \in Reqs /\ Ready(req[h], tags)
  BY HandlerTyped
<1>2. UNCHANGED <<product, carries, tags, invoice, items, customers, disk, made, calls, faults>>
  BY DEF LoadItems, tables
<1> DEFINE goods == {it.of : it \in {i \in items : i.inv = req[h].id}}
           todo  == UNION {carries[p] : p \in goods}
           r     == [req[h] EXCEPT !.at = "tags", !.mine = goods, !.todo = todo]
<1>3. goods \subseteq Pids
  BY DEF TypeOK, Items
<1>4. todo \subseteq Epcs
  BY <1>3 DEF TypeOK
<1>5. Ends(h) \/ Becomes(h, r)
  BY DEF LoadItems
<1> HIDE DEF goods, todo
<1>6. r \in Reqs
  BY <1>1, <1>3, <1>4 DEF Reqs, Stages
<1>7. Ready(r, tags)
  BY <1>1 DEF Ready, LoadItems, Reqs
<1> HIDE DEF r
<1> QED
  BY <1>2, <1>5, <1>6, <1>7, HandlerStep, EndStep, TypedAgain DEF TypeOK

\* The deletion of an invoice keeps the types.
LEMMA DropInvoiceTyped ==
  ASSUME TypeOK, NEW h \in Handlers, DropInvoice(h)
  PROVE  TypeOK'
<1>1. req[h] \in Reqs /\ Ready(req[h], tags)
  BY HandlerTyped
<1>2. UNCHANGED <<product, carries, tags, customers, disk, made, calls, faults>>
  BY DEF DropInvoice, tables
<1>3. Ends(h)
  BY DEF DropInvoice
<1>4. req' \in [Handlers -> Reqs] /\ \A g \in Handlers : Ready(req'[g], tags')
  BY <1>2, <1>3, EndStep
<1>5. invoice' \in [Iids -> Users \cup {None}] /\ items' \subseteq Items
  BY <1>1 DEF DropInvoice, Saves, Ready, TypeOK
<1> QED
  BY <1>2, <1>4, <1>5, TypedAgain DEF TypeOK

\* A failure keeps the types.
LEMMA FailTyped ==
  ASSUME TypeOK, NEW h \in Handlers, Fail(h)
  PROVE  TypeOK'
<1>1. UNCHANGED <<product, carries, tags, invoice, items, customers, disk, made, calls>> /\ faults' \in 0..MaxFaults /\ Ends(h)
  BY StockBounds DEF Fail, tables, TypeOK
<1> QED
  BY <1>1, EndStep, TypedAgain DEF TypeOK

\* Every step keeps the types.
LEMMA StepTyped == TypeOK /\ [Next]_vars => TypeOK'
<1> SUFFICES ASSUME TypeOK, [Next]_vars PROVE TypeOK'
  OBVIOUS
<1>1. CASE UNCHANGED vars
  BY <1>1 DEF vars, tables, TypeOK
<1>2. ASSUME NEW h \in Handlers, Products(h) PROVE TypeOK'
  BY <1>2, CreateProductTyped, SaveProductTyped, UpdateProductTyped, SaveUpdateTyped,
     DeleteProductTyped, CountSalesTyped, DeleteRowTyped DEF Products
<1>3. ASSUME NEW h \in Handlers, Files(h) PROVE TypeOK'
  BY <1>3, RemovePhotosTyped, UploadFilesTyped, DeleteFilesTyped DEF Files
<1>4. ASSUME NEW h \in Handlers, TagLoop(h) PROVE TypeOK'
  BY <1>4, CheckTagTyped, CreateTagTyped, RefuseTyped DEF TagLoop
<1>5. ASSUME NEW h \in Handlers, Sales(h) PROVE TypeOK'
  BY <1>5, SellTyped, SaveCustomerTyped, SaveInvoiceTyped, DeleteInvoiceTyped,
     LoadItemsTyped, DropInvoiceTyped DEF Sales
<1> QED
  BY <1>1, <1>2, <1>3, <1>4, <1>5, FailTyped DEF Next

\* Type correctness of the stock handlers and their tables.
THEOREM StockTyped == Spec => []TypeOK
BY InitTyped, StepTyped, PTL DEF Spec

-----------------------------------------------------------------------------
(***************************************************************************)
(* Sales refer to what exists.                                             *)
(***************************************************************************)
\* No step leaves a sale item without its invoice or, unless it lost it,
\* without its product.
LEMMA StepRefers ==
  ASSUME TypeOK, TypeOK', ItemsReferToProducts, [Next]_vars
  PROVE  ItemsReferToProducts'
<1>1. CASE UNCHANGED <<product, invoice, items>>
  BY <1>1 DEF ItemsReferToProducts
<1>2. ASSUME NEW h \in Handlers, SaveProduct(h) PROVE ItemsReferToProducts'
  <2>1. req[h].row # None
    BY <1>2, HandlerTyped, NoneIsNothing DEF SaveProduct, Saves, Ready
  <2>2. \A p \in Pids : product[p] # None => product'[p] # None
    BY <1>2, <2>1 DEF SaveProduct, TypeOK
  <2>3. UNCHANGED <<invoice, items>>
    BY <1>2 DEF SaveProduct
  <2> QED
    BY <2>2, <2>3 DEF ItemsReferToProducts, TypeOK, Items
<1>3. ASSUME NEW h \in Handlers, DeleteRow(h) PROVE ItemsReferToProducts'
  <2>1. UNCHANGED <<invoice, items>>
    BY <1>3 DEF DeleteRow
  <2>2. \A p \in Pids : product'[p] # product[p] => ItemsOf(p) = {}
    BY <1>3 DEF DeleteRow, TypeOK
  <2> QED
    BY <2>1, <2>2 DEF ItemsReferToProducts, ItemsOf, TypeOK, Items
<1>4. ASSUME NEW h \in Handlers, SaveUpdate(h) PROVE ItemsReferToProducts'
  <2> DEFINE row == [req[h].row EXCEPT !.inventory = (req[h].body.inventory = TRUE)]
  <2>1. Saves(h, "update") /\ row # None
    BY <1>4, SavedRow, NoneIsNothing DEF SaveUpdate
  <2>2. product' = product \/ product' = [product EXCEPT ![req[h].id] = row]
    BY <1>4 DEF SaveUpdate
  <2> HIDE DEF row
  <2>3. \A p \in Pids : product[p] # None => product'[p] # None
    BY <2>1, <2>2 DEF TypeOK
  <2>4. \A it \in items' : \E old \in items :
          it.inv = old.inv /\ it.of = old.of /\ (~it.lost => ~old.lost)
    BY <1>4 DEF SaveUpdate, TypeOK, Items
  <2>5. UNCHANGED invoice
    BY <1>4 DEF SaveUpdate
  <2>6. \A old \in items : old.of \in Pids
    BY DEF TypeOK, Items
  <2> QED
    BY <2>3, <2>4, <2>5, <2>6 DEF ItemsReferToProducts
<1>5. ASSUME NEW h \in Handlers, SaveInvoice(h) PROVE ItemsReferToProducts'
  <2> DEFINE i == made.invoices + 1
  <2>1. CASE \E p \in req[h].mine : product[p] = None
    BY <1>5, <2>1 DEF SaveInvoice, ItemsReferToProducts
  <2>2. CASE \A p \in req[h].mine : product[p] # None
    <3>1. req[h].user \in Users /\ req[h].user # None
      BY <1>5, HandlerTyped, NoneIsNothing DEF SaveInvoice, Ready
    <3>2. \A j \in Iids : invoice[j] # None => invoice'[j] # None
      BY <1>5, <2>2, <3>1 DEF SaveInvoice, TypeOK
    <3>3. i \in Iids /\ invoice'[i] # None
      BY <1>5, <2>2, <3>1, StockBounds DEF SaveInvoice, TypeOK, Iids
    <3>4. \A it \in items' : it \in items \/ (it.inv = i /\ it.of \in req[h].mine)
      BY <1>5, <2>2 DEF SaveInvoice
    <3>5. UNCHANGED product
      BY <1>5 DEF SaveInvoice
    <3>6. \A it \in items : it.inv \in Iids
      BY DEF TypeOK, Items
    <3> QED
      BY <2>2, <3>2, <3>3, <3>4, <3>5, <3>6 DEF ItemsReferToProducts
  <2> QED
    BY <2>1, <2>2
<1>6. ASSUME NEW h \in Handlers, DropInvoice(h) PROVE ItemsReferToProducts'
  BY <1>6 DEF DropInvoice, ItemsReferToProducts, TypeOK, Items
<1>7. ASSUME NEW h \in Handlers, Products(h) \/ Files(h) \/ TagLoop(h) \/ Sales(h) \/ Fail(h)
      PROVE  \/ SaveProduct(h) \/ DeleteRow(h) \/ SaveUpdate(h) \/ SaveInvoice(h) \/ DropInvoice(h)
             \/ UNCHANGED <<product, invoice, items>>
  <2>1. CASE Products(h)
    BY <2>1 DEF Products, CreateProduct, UpdateProduct, DeleteProduct, CountSales, tables
  <2>2. CASE Files(h)
    BY <2>2 DEF Files, RemovePhotos, UploadFiles, DeleteFiles, tables
  <2>3. CASE TagLoop(h)
    BY <2>3 DEF TagLoop, CheckTag, CreateTag, Refuse, tables
  <2>4. CASE Sales(h)
    BY <2>4 DEF Sales, Sell, SaveCustomer, DeleteInvoice, LoadItems, tables
  <2>5. CASE Fail(h)
    BY <2>5 DEF Fail, tables
  <2> QED
    BY <1>7, <2>1, <2>2, <2>3, <2>4, <2>5
<1>8. CASE UNCHANGED vars
  BY <1>1, <1>8 DEF vars, tables
<1> QED
  BY <1>1, <1>2, <1>3, <1>4, <1>5, <1>6, <1>7, <1>8 DEF Next

\* However sales, updates and deletions interleave and fail, a sale item refers
\* to an invoice that exists and, unless an update made it lose its product, to a
\* product that exists.
THEOREM SalesRefer == Spec => []ItemsReferToProducts
<1>1. Init => ItemsReferToProducts
  BY DEF Init, ItemsReferToProducts
<1>2. TypeOK /\ TypeOK' /\ ItemsReferToProducts /\ [Next]_vars => ItemsReferToProducts'
  BY StepRefers
<1> QED
  BY <1>1, <1>2, StockTyped, PTL DEF Spec

-----------------------------------------------------------------------------
(***************************************************************************)
(* Requests of one kind, one at a time.                                    *)
(***************************************************************************)
\* Requests to sell are handled one after the other.
OneTill == \A g, h \in Handlers : "sell" \in Does[g] /\ "sell" \in Does[h] => g = h

\* So are the other requests.
OneClerk == \A g, h \in Handlers : Does[g] \ {"sell"} # {} /\ Does[h] \ {"sell"} # {} => g = h

\* A handler does what it may be asked for.
Asked == \A h \in Handlers : req[h].op = "idle" \/ req[h].op \in Does[h]

HandlerDoes(h) == Products(h) \/ Files(h) \/ TagLoop(h) \/ Sales(h) \/ Fail(h)

\* A step of a handler is one of that handler only.
LEMMA BecomesOne ==
  ASSUME TypeOK, NEW h \in Handlers, NEW r, Becomes(h, r)
  PROVE  req'[h] = r /\ \A g \in Handlers : g # h => req'[g] = req[g]
BY DEF TypeOK, Becomes

LEMMA EndsIdle ==
  ASSUME TypeOK, NEW h \in Handlers, Ends(h)
  PROVE  /\ req'[h] = Idle /\ \A g \in Handlers : g # h => req'[g] = req[g]
         /\ Idle.op = "idle" /\ Idle.at = "none"
BY BecomesOne DEF Ends, Idle

LEMMA GoesOn ==
  ASSUME TypeOK, NEW h \in Handlers, NEW at, Goes(h, at)
  PROVE  /\ req'[h] = [req[h] EXCEPT !.at = at] /\ \A g \in Handlers : g # h => req'[g] = req[g]
         /\ req'[h].at = at /\ req'[h].op = req[h].op /\ req'[h].id = req[h].id
         /\ req'[h].row = req[h].row /\ req'[h].photos = req[h].photos
         /\ req'[h].buyer = req[h].buyer /\ req'[h].mine = req[h].mine
         /\ req'[h].body = req[h].body /\ req'[h].todo = req[h].todo
         /\ req'[h].seen = req[h].seen /\ req'[h].bad = req[h].bad
<1>1. req[h] \in Reqs
  BY HandlerTyped
<1>2. req'[h] = [req[h] EXCEPT !.at = at] /\ \A g \in Handlers : g # h => req'[g] = req[g]
  BY BecomesOne DEF Goes
<1> QED
  BY <1>1, <1>2 DEF Reqs

\* What a request starts with.
LEMMA Starts ==
  ASSUME TypeOK, NEW h \in Handlers
  PROVE  /\ CreateProduct(h) => /\ req'[h].op = "create" /\ req'[h].op \in Does[h]
                                /\ req'[h].at = "tags"
         /\ UpdateProduct(h) => /\ req'[h].op = "update" /\ req'[h].op \in Does[h]
                                /\ req'[h].at = "tags"
         /\ DeleteProduct(h) => /\ req'[h].op = "delete" /\ req'[h].op \in Does[h]
                                /\ req'[h].at = "count"
         /\ Sell(h) => req'[h].op = "sell" /\ req'[h].op \in Does[h]
         /\ DeleteInvoice(h) => /\ req'[h].op = "deleteInvoice" /\ req'[h].op \in Does[h]
                                /\ req'[h].at = "items"
<1>1. CreateProduct(h) => /\ req'[h].op = "create" /\ req'[h].op \in Does[h]
                          /\ req'[h].at = "tags"
  BY DEF CreateProduct, Asks, Becomes, Idle, TypeOK
<1>2. UpdateProduct(h) => /\ req'[h].op = "update" /\ req'[h].op \in Does[h]
                          /\ req'[h].at = "tags"
  BY DEF UpdateProduct, Asks, Becomes, Idle, TypeOK
<1>3. DeleteProduct(h) => /\ req'[h].op = "delete" /\ req'[h].op \in Does[h]
                          /\ req'[h].at = "count"
  BY DEF DeleteProduct, Asks, Becomes, Idle, TypeOK
<1>4. Sell(h) => req'[h].op = "sell" /\ req'[h].op \in Does[h]
  BY DEF Sell, Asks, Becomes, Idle, TypeOK
<1>5. DeleteInvoice(h) => /\ req'[h].op = "deleteInvoice" /\ req'[h].op \in Does[h]
                          /\ req'[h].at = "items"
  BY DEF DeleteInvoice, Asks, Becomes, Idle, TypeOK
<1> QED
  BY <1>1, <1>2, <1>3, <1>4, <1>5

\* A handler that goes on stays with its request.
LEMMA GoesWithRequest ==
  ASSUME TypeOK, NEW h \in Handlers,
         \/ SaveProduct(h) \/ SaveUpdate(h) \/ CountSales(h) \/ DeleteRow(h)
         \/ Files(h) \/ TagLoop(h) \/ SaveCustomer(h) \/ SaveInvoice(h)
         \/ LoadItems(h) \/ DropInvoice(h) \/ Fail(h)
  PROVE  /\ req'[h] = Idle \/ req'[h].op = req[h].op
         /\ req'[h].at # "customer"
<1>1. req[h] \in Reqs
  BY HandlerTyped
<1>2. ASSUME Ends(h) PROVE req'[h] = Idle /\ req'[h].at # "customer"
  BY <1>2, EndsIdle
<1>3. ASSUME NEW at, Goes(h, at), at # "customer"
      PROVE  req'[h].op = req[h].op /\ req'[h].at # "customer"
  BY <1>3, GoesOn
<1>4. CASE SaveProduct(h) \/ SaveUpdate(h)
  BY <1>2, <1>4 DEF SaveProduct, SaveUpdate
<1>5. CASE SaveInvoice(h) \/ DropInvoice(h) \/ Fail(h)
  BY <1>2, <1>5 DEF SaveInvoice, DropInvoice, Fail
<1>6. CASE Refuse(h) \/ DeleteFiles(h)
  BY <1>2, <1>6 DEF Refuse, DeleteFiles
<1>7. CASE CountSales(h)
  BY <1>2, <1>3, <1>7 DEF CountSales
<1>8. CASE DeleteRow(h)
  BY <1>2, <1>3, <1>8 DEF DeleteRow
<1>9. CASE RemovePhotos(h)
  BY <1>3, <1>9 DEF RemovePhotos
<1>10. CASE SaveCustomer(h)
  BY <1>3, <1>10 DEF SaveCustomer
<1>11. CASE UploadFiles(h)
  <2> DEFINE photo == made.files + 1
             r     == [req[h] EXCEPT !.at = "save", !.row.photo = photo]
  <2>1. Becomes(h, r)
    BY <1>11 DEF UploadFiles
  <2> HIDE DEF photo
  <2>2. r.op = req[h].op /\ r.at = "save"
    BY <1>1 DEF Reqs
  <2> HIDE DEF r
  <2> QED
    BY <2>1, <2>2, BecomesOne
<1>12. ASSUME NEW e \in Epcs, CheckTag(h, e)
       PROVE  req'[h].op = req[h].op /\ req'[h].at # "customer"
  <2>1. CASE e \in tags
    <3> DEFINE todo == req[h].todo \ {e}
               bad  == req[h].bad \/ Exceptions(e) \ req[h].mine # {}
               r    == [req[h] EXCEPT !.todo = todo, !.bad = bad]
    <3>1. Becomes(h, r) /\ req[h].at = "tags"
      BY <1>12, <2>1 DEF CheckTag
    <3>2. r.op = req[h].op /\ r.at = req[h].at
      BY <1>1, NextTagFields
    <3> HIDE DEF r
    <3> QED
      BY <3>1, <3>2, BecomesOne
  <2>2. CASE e \notin tags
    <3> DEFINE r == [req[h] EXCEPT !.at = "newTag", !.fresh = e]
    <3>1. Becomes(h, r)
      BY <1>12, <2>2 DEF CheckTag
    <3>2. r.op = req[h].op /\ r.at = "newTag"
      BY <1>1 DEF Reqs
    <3> HIDE DEF r
    <3> QED
      BY <3>1, <3>2, BecomesOne
  <2> QED
    BY <2>1, <2>2
<1>13. CASE CreateTag(h)
  <2>1. CASE req[h].fresh \in tags
    BY <1>2, <1>13, <2>1 DEF CreateTag
  <2>2. CASE req[h].fresh \notin tags
    <3> DEFINE todo == req[h].todo \ {req[h].fresh}
               r    == [req[h] EXCEPT !.at = "tags", !.todo = todo, !.fresh = None]
    <3>1. Becomes(h, r)
      BY <1>13, <2>2 DEF CreateTag
    <3> HIDE DEF todo
    <3>2. r.op = req[h].op /\ r.at = "tags"
      BY <1>1 DEF Reqs
    <3> HIDE DEF r
    <3> QED
      BY <3>1, <3>2, BecomesOne
  <2> QED
    BY <2>1, <2>2
<1>14. CASE LoadItems(h)
  <2>1. CASE Ends(h)
    BY <1>2, <2>1
  <2>2. CASE ~Ends(h)
    <3> DEFINE goods == {it.of : it \in {it \in items : it.inv = req[h].id}}
               todo  == UNION {carries[p] : p \in goods}
               r     == [req[h] EXCEPT !.at = "tags", !.mine = goods, !.todo = todo]
    <3>1. Becomes(h, r)
      BY <1>14, <2>2 DEF LoadItems
    <3> HIDE DEF goods, todo
    <3>2. r.op = req[h].op /\ r.at = "tags"
      BY <1>1 DEF Reqs
    <3> HIDE DEF r
    <3> QED
      BY <3>1, <3>2, BecomesOne
  <2> QED
    BY <2>1, <2>2
<1> QED
  BY <1>4, <1>5, <1>6, <1>7, <1>8, <1>9, <1>10, <1>11, <1>12, <1>13, <1>14 DEF Files, TagLoop

LEMMA OthersStay ==
  ASSUME TypeOK, NEW h \in Handlers, HandlerDoes(h)
  PROVE  \A g \in Handlers : g # h => req'[g] = req[g]
<1>1. \E r : Becomes(h, r)
  <2>1. CASE Products(h)
    BY <2>1 DEF Products, CreateProduct, SaveProduct, UpdateProduct, SaveUpdate,
                DeleteProduct, CountSales, DeleteRow, Ends, Goes
  <2>2. CASE Files(h)
    BY <2>2 DEF Files, RemovePhotos, UploadFiles, DeleteFiles, Ends, Goes
  <2>3. CASE TagLoop(h)
    BY <2>3 DEF TagLoop, CheckTag, CreateTag, Refuse, Ends, Goes
  <2>4. CASE Sales(h)
    BY <2>4 DEF Sales, Sell, SaveCustomer, SaveInvoice, DeleteInvoice, LoadItems,
                DropInvoice, Ends, Goes
  <2>5. CASE Fail(h)
    BY <2>5 DEF Fail, Ends
  <2> QED
    BY <2>1, <2>2, <2>3, <2>4, <2>5 DEF HandlerDoes
<1> QED
  BY <1>1, BecomesOne

-----------------------------------------------------------------------------
(***************************************************************************)
(* What an update may take from a sale.  A suspended update has in seen    *)
(* every item of its product that was not sold during it.                  *)
(***************************************************************************)
SeenUnlessOver ==
  \A h \in Handlers : req[h].op = "update" =>
    \A it \in items : it.of = req[h].id /\ ~it.lost /\ it \notin req[h].seen => it.over

LossInv == LostOnlyInOverlap /\ SeenUnlessOver

\* An update that goes on keeps its product and the items it loaded.
LEMMA UpdateGoesOn ==
  ASSUME TypeOK, NEW h \in Handlers, HandlerDoes(h), ~UpdateProduct(h),
         req'[h].op = "update"
  PROVE  req[h].op = "update" /\ req'[h].id = req[h].id /\ req'[h].seen = req[h].seen
<1> DEFINE Same == /\ req[h].op = "update" /\ req'[h].id = req[h].id
                   /\ req'[h].seen = req[h].seen
<1>1. req[h] \in Reqs /\ Ready(req[h], tags)
  BY HandlerTyped
<1>2. ~Ends(h)
  BY EndsIdle
<1>3. ASSUME NEW at, Goes(h, at) PROVE Same
  BY <1>3, GoesOn
<1>4. CASE Products(h) \/ RemovePhotos(h) \/ DeleteFiles(h) \/ Refuse(h) \/ Fail(h)
  BY <1>2, <1>3, <1>4, Starts
     DEF Products, SaveProduct, SaveUpdate, CountSales, DeleteRow, RemovePhotos,
         DeleteFiles, Refuse, Fail
<1>5. CASE UploadFiles(h)
  <2> DEFINE photo == made.files + 1
             r     == [req[h] EXCEPT !.at = "save", !.row.photo = photo]
  <2>1. Becomes(h, r)
    BY <1>5 DEF UploadFiles
  <2> HIDE DEF photo
  <2>2. r.op = req[h].op /\ r.id = req[h].id /\ r.seen = req[h].seen
    BY <1>1 DEF Reqs
  <2> HIDE DEF r
  <2> QED
    BY <2>1, <2>2, BecomesOne
<1>6. ASSUME NEW e \in Epcs, CheckTag(h, e) PROVE Same
  <2>1. CASE e \in tags
    <3> DEFINE todo == req[h].todo \ {e}
               bad  == req[h].bad \/ Exceptions(e) \ req[h].mine # {}
               r    == [req[h] EXCEPT !.todo = todo, !.bad = bad]
    <3>1. Becomes(h, r)
      BY <1>6, <2>1 DEF CheckTag
    <3> HIDE DEF todo, bad
    <3>2. r.op = req[h].op /\ r.id = req[h].id /\ r.seen = req[h].seen
      BY <1>1 DEF Reqs
    <3> HIDE DEF r
    <3> QED
      BY <3>1, <3>2, BecomesOne
  <2>2. CASE e \notin tags
    <3> DEFINE r == [req[h] EXCEPT !.at = "newTag", !.fresh = e]
    <3>1. Becomes(h, r)
      BY <1>6, <2>2 DEF CheckTag
    <3>2. r.op = req[h].op /\ r.id = req[h].id /\ r.seen = req[h].seen
      BY <1>1 DEF Reqs
    <3> HIDE DEF r
    <3> QED
      BY <3>1, <3>2, BecomesOne
  <2> QED
    BY <2>1, <2>2
<1>7. CASE CreateTag(h)
  <2> DEFINE todo == req[h].todo \ {req[h].fresh}
             r    == [req[h] EXCEPT !.at = "tags", !.todo = todo, !.fresh = None]
  <2>1. Becomes(h, r)
    BY <1>2, <1>7 DEF CreateTag
  <2> HIDE DEF todo
  <2>2. r.op = req[h].op /\ r.id = req[h].id /\ r.seen = req[h].seen
    BY <1>1 DEF Reqs
  <2> HIDE DEF r
  <2> QED
    BY <2>1, <2>2, BecomesOne
<1>8. CASE Sales(h)
  <2>1. CASE Sell(h) \/ DeleteInvoice(h)
    BY <2>1, Starts
  <2>2. CASE SaveCustomer(h) \/ SaveInvoice(h) \/ DropInvoice(h)
    BY <1>2, <1>3, <2>2 DEF SaveCustomer, SaveInvoice, DropInvoice
  <2>3. CASE LoadItems(h)
    <3>1. req[h].op = "deleteInvoice"
      BY <1>1, <2>3 DEF LoadItems, Ready
    <3>2. req'[h] = Idle \/ req'[h].op = req[h].op
      BY <2>3, GoesWithRequest
    <3>3. Idle.op = "idle"
      BY DEF Idle
    <3> QED
      BY <3>1, <3>2, <3>3
  <2> QED
    BY <1>8, <2>1, <2>2, <2>3 DEF Sales
<1> QED
  BY <1>4, <1>5, <1>6, <1>7, <1>8 DEF HandlerDoes, Files, TagLoop

\* What an update starts with.
LEMMA UpdateStarts ==
  ASSUME TypeOK, NEW h \in Handlers, UpdateProduct(h)
  PROVE  \E p \in Pids, b \in AllUpdates :
           /\ product[p] # None
           /\ req'[h].op = "update" /\ req'[h].at = "tags" /\ req'[h].id = p
           /\ req'[h].mine = {p} /\ req'[h].body = b
           /\ req'[h].todo = IF b.tags = None THEN {} ELSE b.tags
           /\ req'[h].row = product[p] /\ req'[h].seen = ItemsOf(p)
<1>1. PICK p \in Pids, b \in Updates, ph \in Photos :
        /\ product[p] # None
        /\ Becomes(h, [Idle EXCEPT !.op = "update", !.at = "tags", !.id = p,
                         !.mine = {p}, !.body = b, !.photos = ph,
                         !.todo = IF b.tags = None THEN {} ELSE b.tags,
                         !.row = product[p], !.seen = ItemsOf(p)])
  BY DEF UpdateProduct
<1>2. b \in AllUpdates
  BY UpdatesAssumption
<1> DEFINE its  == ItemsOf(p)
           todo == IF b.tags = None THEN {} ELSE b.tags
           r == [Idle EXCEPT !.op = "update", !.at = "tags", !.id = p,
                         !.mine = {p}, !.body = b, !.photos = ph,
                         !.todo = todo, !.row = product[p], !.seen = its]
<1>3. Becomes(h, r)
  BY <1>1
<1> HIDE DEF its, todo
<1>4. /\ r.op = "update" /\ r.at = "tags" /\ r.id = p /\ r.mine = {p} /\ r.body = b
      /\ r.todo = todo /\ r.row = product[p] /\ r.seen = its
  BY DEF Idle
<1> HIDE DEF r
<1>5. req'[h] = r
  BY <1>3, BecomesOne
<1> QED
  BY <1>1, <1>2, <1>4, <1>5 DEF its, todo

\* No step takes the product from an item that the update had loaded.
LEMMA StepLosesOver ==
  ASSUME TypeOK, LossInv, [Next]_vars
  PROVE  LossInv'
<1>1. CASE UNCHANGED vars
  BY <1>1 DEF vars, tables, LossInv, LostOnlyInOverlap, SeenUnlessOver
<1>2. ASSUME NEW h \in Handlers, HandlerDoes(h) PROVE LossInv'
  <2>1. \A g \in Handlers : g # h => req'[g] = req[g]
    BY <1>2, OthersStay
  \* An update after the step was one before, or has just loaded its items.
  <2>2. ASSUME NEW g \in Handlers, req'[g].op = "update"
        PROVE  \/ /\ req[g].op = "update" /\ req'[g].id = req[g].id
                  /\ req'[g].seen = req[g].seen
               \/ /\ g = h /\ UpdateProduct(h)
                  /\ req'[g].seen = ItemsOf(req'[g].id)
    <3>1. CASE g # h
      BY <2>1, <2>2, <3>1
    <3>2. CASE g = h /\ ~UpdateProduct(h)
      BY <1>2, <2>2, <3>2, UpdateGoesOn
    <3>3. CASE g = h /\ UpdateProduct(h)
      BY <3>3, UpdateStarts
    <3> QED
      BY <3>1, <3>2, <3>3
  <2>3. CASE items' \subseteq items
    <3>1. LostOnlyInOverlap'
      BY <2>3 DEF LossInv, LostOnlyInOverlap
    <3>2. ASSUME NEW g \in Handlers, req'[g].op = "update", NEW it \in items',
                 it.of = req'[g].id, ~it.lost, it \notin req'[g].seen
          PROVE  it.over
      <4>1. it \in items /\ (it \in ItemsOf(it.of))
        BY <2>3, <3>2 DEF ItemsOf
      <4> QED
        BY <2>2, <3>2, <4>1 DEF LossInv, SeenUnlessOver
    <3> QED
      BY <3>1, <3>2 DEF LossInv, SeenUnlessOver
  <2>4. CASE SaveInvoice(h) /\ ~(items' \subseteq items)
    <3>1. \A it \in items' : it \in items \/ (~it.lost /\ it.over = Updating(it.of))
      BY <2>4 DEF SaveInvoice
    <3>2. LostOnlyInOverlap'
      BY <3>1 DEF LossInv, LostOnlyInOverlap
    <3>3. ASSUME NEW g \in Handlers, req'[g].op = "update"
          PROVE  /\ req[g].op = "update" /\ req'[g].id = req[g].id
                 /\ req'[g].seen = req[g].seen
      BY <2>1, <2>4, <3>3, EndsIdle DEF SaveInvoice
    <3>4. ASSUME NEW g \in Handlers, req'[g].op = "update", NEW it \in items',
                 it.of = req'[g].id, ~it.lost, it \notin req'[g].seen
          PROVE  it.over
      <4>1. CASE it \in items
        BY <3>3, <3>4, <4>1 DEF LossInv, SeenUnlessOver
      <4>2. CASE it.over = Updating(it.of)
        BY <3>3, <3>4, <4>2 DEF Updating
      <4> QED
        BY <3>1, <4>1, <4>2
    <3> QED
      BY <3>2, <3>4 DEF LossInv, SeenUnlessOver
  <2>5. CASE SaveUpdate(h) /\ ~(items' \subseteq items)
    <3>1. Saves(h, "update") /\ Ends(h)
      BY <2>5 DEF SaveUpdate
    \* What changes is an item of the product that the update had not loaded.
    <3>2. \A it \in items' : \/ it \in items
                             \/ \E old \in items : /\ old.of = req[h].id /\ ~old.lost
                                                   /\ old \notin req[h].seen
                                                   /\ it = [old EXCEPT !.lost = TRUE]
      BY <2>5 DEF SaveUpdate, ItemsOf
    <3>3. \A it \in items' : it \in items \/ (it.lost /\ it.over)
      <4> SUFFICES ASSUME NEW it \in items', it \notin items PROVE it.lost /\ it.over
        OBVIOUS
      <4>1. PICK old \in items : /\ old.of = req[h].id /\ ~old.lost
                                 /\ old \notin req[h].seen
                                 /\ it = [old EXCEPT !.lost = TRUE]
        BY <3>2
      <4>2. old.over /\ old \in Items
        BY <3>1, <4>1 DEF LossInv, SeenUnlessOver, Saves, TypeOK
      <4> QED
        BY <4>1, <4>2 DEF Items
    <3>4. LostOnlyInOverlap'
      BY <3>3 DEF LossInv, LostOnlyInOverlap
    <3>5. ASSUME NEW g \in Handlers, req'[g].op = "update"
          PROVE  /\ req[g].op = "update" /\ req'[g].id = req[g].id
                 /\ req'[g].seen = req[g].seen
      BY <2>1, <3>1, <3>5, EndsIdle
    <3> QED
      BY <3>3, <3>4, <3>5 DEF LossInv, SeenUnlessOver
  <2>6. SaveInvoice(h) \/ SaveUpdate(h) \/ items' \subseteq items
    <3>1. CASE Products(h)
      BY <3>1 DEF Products, CreateProduct, SaveProduct, UpdateProduct, DeleteProduct,
                  CountSales, DeleteRow, tables
    <3>2. CASE Files(h)
      BY <3>2 DEF Files, RemovePhotos, UploadFiles, DeleteFiles, tables
    <3>3. CASE TagLoop(h)
      BY <3>3 DEF TagLoop, CheckTag, CreateTag, Refuse, tables
    <3>4. CASE Sales(h)
      BY <3>4 DEF Sales, Sell, SaveCustomer, DeleteInvoice, LoadItems, DropInvoice, tables
    <3>5. CASE Fail(h)
      BY <3>5 DEF Fail, tables
    <3> QED
      BY <1>2, <3>1, <3>2, <3>3, <3>4, <3>5 DEF HandlerDoes
  <2> QED
    BY <2>3, <2>4, <2>5, <2>6
<1> QED
  BY <1>1, <1>2 DEF Next, HandlerDoes

\* However requests interleave and fail, a sale item loses its product only when
\* it was sold while an update of that product was suspended.
THEOREM LossNeedsOverlap == Spec => []LostOnlyInOverlap
<1>1. Init => LossInv
  BY DEF Init, Idle, LossInv, LostOnlyInOverlap, SeenUnlessOver
<1>2. TypeOK /\ LossInv /\ [Next]_vars => LossInv'
  BY StepLosesOver
<1>3. LossInv => LostOnlyInOverlap
  BY DEF LossInv
<1> QED
  BY <1>1, <1>2, <1>3, StockTyped, PTL DEF Spec

-----------------------------------------------------------------------------
\* A handler goes on with what it was asked for.
LEMMA AskedStep ==
  ASSUME TypeOK, Asked, [Next]_vars
  PROVE  Asked'
<1>1. CASE UNCHANGED vars
  BY <1>1 DEF vars, Asked
<1>2. ASSUME NEW h \in Handlers, HandlerDoes(h) PROVE Asked'
  <2>1. req'[h].op = "idle" \/ req'[h].op \in Does[h]
    <3>1. Idle.op = "idle"
      BY DEF Idle
    <3>2. CASE CreateProduct(h) \/ UpdateProduct(h) \/ DeleteProduct(h) \/ Sell(h) \/ DeleteInvoice(h)
      BY <3>2, Starts
    <3>3. CASE ~(CreateProduct(h) \/ UpdateProduct(h) \/ DeleteProduct(h) \/ Sell(h) \/ DeleteInvoice(h))
      BY <1>2, <3>1, <3>3, GoesWithRequest DEF HandlerDoes, Products, Sales, Asked
    <3> QED
      BY <3>2, <3>3
  <2> QED
    BY <1>2, <2>1, OthersStay DEF Asked
<1> QED
  BY <1>1, <1>2 DEF Next, HandlerDoes

-----------------------------------------------------------------------------
(***************************************************************************)
(* Customers.                                                              *)
(***************************************************************************)
\* Whoever is about to be saved as a new customer is still unknown.
StillUnknown == \A h \in Handlers : req[h].at = "customer" => ~Known(req[h].buyer)

LEMMA CustomersStep ==
  ASSUME OneTill, TypeOK, TypeOK', Asked, CustomersDistinct, StillUnknown, [Next]_vars
  PROVE  CustomersDistinct' /\ StillUnknown'
<1>1. CASE UNCHANGED vars
  BY <1>1 DEF vars, tables, CustomersDistinct, StillUnknown, Known
<1>2. ASSUME NEW h \in Handlers, HandlerDoes(h)
      PROVE  CustomersDistinct' /\ StillUnknown'
  <2>1. \A g \in Handlers : g # h => req'[g] = req[g]
    BY <1>2, OthersStay
  <2>2. CASE SaveCustomer(h)
    <3> DEFINE b == req[h].buyer
    <3>1. req[h].at = "customer" /\ b \in Buyers /\ ~Known(b) /\ req[h].op = "sell"
      BY <2>2, HandlerTyped DEF SaveCustomer, StillUnknown, Ready
    <3>2. /\ customers' = [customers EXCEPT ![b] = @ + 1]
          /\ \A c \in Buyers : customers[c] \in Nat
      BY <2>2 DEF SaveCustomer, TypeOK
    <3>3. \A c \in Buyers : customers[c] > 0 => c[1] # b[1] /\ c[2] # b[2]
      BY <3>1 DEF Known
    <3>4. customers[b] = 0
      BY <3>1, <3>2, <3>3
    <3> HIDE DEF b
    <3>5. customers'[b] = 1 /\ \A c \in Buyers : c # b => customers'[c] = customers[c]
      BY <3>1, <3>2, <3>4 DEF TypeOK
    <3>6. CustomersDistinct'
      <4> SUFFICES ASSUME NEW c \in Buyers, NEW d \in Buyers, customers'[c] > 0, customers'[d] > 0,
                          c[1] = d[1] \/ c[2] = d[2]
                   PROVE  c = d /\ customers'[c] = 1
        BY DEF CustomersDistinct
      <4>1. CASE c # b /\ d # b
        BY <3>5, <4>1 DEF CustomersDistinct
      <4>2. CASE c = b \/ d = b
        BY <3>3, <3>5, <4>2
      <4> QED
        BY <4>1, <4>2
    <3>7. req'[h].at # "customer"
      BY <2>2, GoesWithRequest
    <3>8. \A g \in Handlers : req'[g].at # "customer"
      <4> SUFFICES ASSUME NEW g \in Handlers, g # h, req[g].at = "customer" PROVE FALSE
        BY <2>1, <3>7
      <4>1. req[g].op = "sell"
        BY HandlerTyped DEF Ready
      <4> QED
        BY <3>1, <4>1 DEF Asked, OneTill
    <3> QED
      BY <3>6, <3>8 DEF StillUnknown
  <2>3. CASE ~SaveCustomer(h)
    <3>1. customers' = customers
      <4>1. CASE Products(h)
        BY <4>1 DEF Products, CreateProduct, SaveProduct, UpdateProduct, SaveUpdate,
                    DeleteProduct, CountSales, DeleteRow, tables
      <4>2. CASE Files(h)
        BY <4>2 DEF Files, RemovePhotos, UploadFiles, DeleteFiles, tables
      <4>3. CASE TagLoop(h)
        BY <4>3 DEF TagLoop, CheckTag, CreateTag, Refuse, tables
      <4>4. CASE Sales(h)
        BY <2>3, <4>4 DEF Sales, Sell, SaveInvoice, DeleteInvoice, LoadItems, DropInvoice, tables
      <4>5. CASE Fail(h)
        BY <4>5 DEF Fail, tables
      <4> QED
        BY <1>2, <4>1, <4>2, <4>3, <4>4, <4>5 DEF HandlerDoes
    <3>2. req'[h].at = "customer" => ~Known(req'[h].buyer)
      <4>1. CASE Sell(h)
        BY <4>1 DEF Sell, Becomes, Idle, TypeOK
      <4>2. CASE CreateProduct(h) \/ UpdateProduct(h) \/ DeleteProduct(h) \/ DeleteInvoice(h)
        BY <4>2, Starts
      <4>3. CASE ~(CreateProduct(h) \/ UpdateProduct(h) \/ DeleteProduct(h) \/ Sell(h) \/ DeleteInvoice(h))
        BY <1>2, <4>3, GoesWithRequest DEF HandlerDoes, Products, Sales
      <4> QED
        BY <4>1, <4>2, <4>3
    <3>3. \A g \in Handlers : req'[g].at = "customer" => ~Known(req'[g].buyer)
      BY <2>1, <3>2 DEF StillUnknown
    <3> QED
      BY <3>1, <3>3 DEF CustomersDistinct, StillUnknown, Known
  <2> QED
    BY <2>2, <2>3
<1> QED
  BY <1>1, <1>2 DEF Next, HandlerDoes

LEMMA AskedHolds == Spec => []Asked
<1>1. Init => Asked
  BY DEF Init, Asked, Idle
<1>2. TypeOK /\ Asked /\ [Next]_vars => Asked'
  BY AskedStep
<1> QED
  BY <1>1, <1>2, StockTyped, PTL DEF Spec

\* When sales are handled one after the other, no customer is stored twice, nor
\* two that share a name or a phone number.
THEOREM CustomersStayDistinct ==
  ASSUME OneTill
  PROVE  Spec => []CustomersDistinct
<1>1. Init => CustomersDistinct /\ StillUnknown
  BY DEF Init, CustomersDistinct, StillUnknown, Idle
<1>2. TypeOK /\ TypeOK' /\ Asked /\ (CustomersDistinct /\ StillUnknown) /\ [Next]_vars
      => (CustomersDistinct /\ StillUnknown)'
  BY CustomersStep
<1> QED
  BY <1>1, <1>2, StockTyped, AskedHolds, PTL DEF Spec

-----------------------------------------------------------------------------
(***************************************************************************)
(* Photos.  While no statement fails and one clerk changes the stock, the  *)
(* files on the disk are the photos of the products, but for the files the *)
(* clerk's request holds: removed before the row is saved, or uploaded     *)
(* before it, or still to be deleted after it.                             *)
(***************************************************************************)
PhotosOf == {product[p].photo : p \in {q \in Pids : product[q] # None}} \ {0}

\* Where a request holds a file that is no photo yet, or no longer.
HoldsFile(r) == r.at \in {"upload", "save", "files"}

\* No two products share a photo.
Apart == \A p, q \in Pids : product[p] # None /\ product[q] # None /\ p # q
            /\ product[p].photo = product[q].photo => product[p].photo = 0

\* Photos and files have ids that were given out, products too.
FilesKnown == /\ \A f \in disk : f <= made.files
              /\ \A p \in Pids : product[p] # None => product[p].photo <= made.files
Unborn == \A p \in Pids : p > made.products => product[p] = None

\* The row a request has loaded or builds.
RowHeld(r) ==
  /\ r.at = "save" => /\ r.op \in {"create", "update"}
                      /\ r.row.photo \in 1..made.files /\ r.row.photo \notin PhotosOf
  /\ r.at = "files" => r.row.photo \in 0..made.files /\ r.row.photo \notin PhotosOf
  /\ r.op = "create" /\ r.at # "save" => r.row.photo = 0
  /\ r.op = "update" => product[r.id] # None
  /\ r.op = "update" /\ r.at # "save" => r.row.photo = product[r.id].photo
  /\ r.at \in {"count", "row"} => /\ product[r.id] # None
                                  /\ r.row.photo = product[r.id].photo

\* The files on the disk while a request holds one.
DiskHeld(r) ==
  /\ r.at = "upload" => disk = PhotosOf \ {r.row.photo}
  /\ r.at = "save" /\ r.op = "create" => disk = PhotosOf \cup {r.row.photo}
  /\ r.at = "save" /\ r.op = "update" =>
       disk = (PhotosOf \ {product[r.id].photo}) \cup {r.row.photo}
  /\ r.at = "files" => disk = PhotosOf \cup ({r.row.photo} \ {0})

FilesHeld == /\ Apart /\ FilesKnown /\ Unborn
             /\ \A h \in Handlers : RowHeld(req[h]) /\ DiskHeld(req[h])
             /\ (\A h \in Handlers : ~HoldsFile(req[h])) => disk = PhotosOf
PhotosInv == faults = 0 => FilesHeld

Stocks  == {"create", "update", "delete"}
Alone(h) == \A g \in Handlers : g # h => req[g].op \notin Stocks

\* While a request changes the stock, no other does.
LEMMA ClerkAlone ==
  ASSUME OneClerk, Asked, NEW h \in Handlers, req[h].op \in Stocks
  PROVE  Alone(h)
<1>1. req[h].op \in Does[h] \ {"sell"}
  BY DEF Asked, Stocks
<1> SUFFICES ASSUME NEW g \in Handlers, g # h, req[g].op \in Stocks PROVE FALSE
  BY DEF Alone
<1>2. req[g].op \in Does[g] \ {"sell"}
  BY DEF Asked, Stocks
<1> QED
  BY <1>1, <1>2 DEF OneClerk

\* A request that does not change the stock holds no file and no row.
LEMMA CalmHandler ==
  ASSUME TypeOK, NEW g \in Handlers, RowHeld(req[g]), req[g].op \notin Stocks
  PROVE  ~HoldsFile(req[g]) /\ req[g].at \notin {"count", "row"}
BY HandlerTyped DEF RowHeld, HoldsFile, Stocks, Ready

\* What a step of a request that changes the stock alone has to keep.
LEMMA Settled ==
  ASSUME TypeOK, FilesHeld, NEW h \in Handlers, Alone(h),
         \A g \in Handlers : g # h => req'[g] = req[g],
         Apart', FilesKnown', Unborn', RowHeld(req[h])', DiskHeld(req[h])',
         ~HoldsFile(req[h])' => disk' = PhotosOf'
  PROVE  FilesHeld'
<1>1. ASSUME NEW g \in Handlers, g # h
      PROVE  RowHeld(req[g])' /\ DiskHeld(req[g])' /\ ~HoldsFile(req[g])'
  <2>1. /\ req'[g] = req[g] /\ req[g].op \notin Stocks
        /\ ~HoldsFile(req[g]) /\ req[g].at \notin {"count", "row"}
    BY <1>1, CalmHandler DEF Alone, FilesHeld
  <2> QED
    BY <2>1 DEF RowHeld, DiskHeld, HoldsFile, Stocks
<1>2. \A g \in Handlers : RowHeld(req[g])' /\ DiskHeld(req[g])'
  BY <1>1
<1>3. (\A g \in Handlers : ~HoldsFile(req[g])') => disk' = PhotosOf'
  OBVIOUS
<1> QED
  BY <1>2, <1>3 DEF FilesHeld

\* A request that holds no file and changes the stock alone has the files as
\* the products want them.
LEMMA DiskAsShown ==
  ASSUME TypeOK, FilesHeld, NEW h \in Handlers, Alone(h), ~HoldsFile(req[h])
  PROVE  disk = PhotosOf
BY CalmHandler DEF Alone, FilesHeld

\* The photos after the row of a product was replaced or deleted.
LEMMA PhotosAfter ==
  ASSUME TypeOK, Apart, NEW p \in Pids, NEW x \in Rows \cup {None},
         product' = [product EXCEPT ![p] = x],
         x # None => x.photo = 0 \/ x.photo \notin PhotosOf
                     \/ (product[p] # None /\ x.photo = product[p].photo)
  PROVE  /\ Apart'
         /\ PhotosOf' = (PhotosOf \ (IF product[p] = None THEN {} ELSE {product[p].photo}))
                        \cup (IF x = None THEN {} ELSE {x.photo} \ {0})
<1>1. /\ product'[p] = x /\ \A q \in Pids : q # p => product'[q] = product[q]
  BY DEF TypeOK
<1>2. Apart'
  <2> SUFFICES ASSUME NEW q \in Pids, NEW s \in Pids, product'[q] # None, product'[s] # None,
                      q # s, product'[q].photo = product'[s].photo
               PROVE  product'[q].photo = 0
    BY DEF Apart
  <2>1. CASE q # p /\ s # p
    BY <1>1, <2>1 DEF Apart
  <2>2. CASE q = p
    <3>1. product'[q] = x /\ product'[s] = product[s] /\ product[s] # None
      BY <1>1, <2>2
    <3>2. CASE product[s].photo \in PhotosOf
      BY <2>2, <3>1, <3>2 DEF Apart
    <3>3. CASE product[s].photo \notin PhotosOf
      BY <3>1, <3>3 DEF PhotosOf
    <3> QED
      BY <3>2, <3>3
  <2>3. CASE s = p
    <3>1. product'[s] = x /\ product'[q] = product[q] /\ product[q] # None
      BY <1>1, <2>3
    <3>2. CASE product[q].photo \in PhotosOf
      BY <2>3, <3>1, <3>2 DEF Apart
    <3>3. CASE product[q].photo \notin PhotosOf
      BY <3>1, <3>3 DEF PhotosOf
    <3> QED
      BY <3>2, <3>3
  <2> QED
    BY <2>1, <2>2, <2>3
<1>3. ASSUME NEW f
      PROVE  f \in PhotosOf' <=>
               f \in (PhotosOf \ (IF product[p] = None THEN {} ELSE {product[p].photo}))
                     \cup (IF x = None THEN {} ELSE {x.photo} \ {0})
  <2> DEFINE Others == f # 0 /\ \E q \in Pids : q # p /\ product[q] # None /\ product[q].photo = f
  <2>1. f \in PhotosOf' <=> Others \/ (x # None /\ f = x.photo /\ f # 0)
    BY <1>1 DEF PhotosOf
  <2>2. f \in PhotosOf <=> Others \/ (product[p] # None /\ f = product[p].photo /\ f # 0)
    BY DEF PhotosOf
  <2>3. Others => ~(product[p] # None /\ f = product[p].photo)
    BY DEF Apart
  <2> HIDE DEF Others
  <2> QED
    BY <2>1, <2>2, <2>3
<1> QED
  BY <1>2, <1>3

\* What a quiet step of a request leaves alone.
Quiet == /\ product' = product /\ disk' = disk
         /\ made'.files = made.files /\ made'.products = made.products

\* A step that moves no file and no row keeps what the other requests hold.
LEMMA QuietStep ==
  ASSUME TypeOK, FilesHeld, NEW h \in Handlers, Quiet,
         \A g \in Handlers : g # h => req'[g] = req[g],
         ~HoldsFile(req[h]), ~HoldsFile(req[h])', RowHeld(req[h])'
  PROVE  FilesHeld'
<1>1. PhotosOf' = PhotosOf
  BY DEF Quiet, PhotosOf
<1>2. Apart' /\ FilesKnown' /\ Unborn'
  BY DEF FilesHeld, Quiet, Apart, FilesKnown, Unborn
<1>3. ASSUME NEW g \in Handlers PROVE RowHeld(req[g])' /\ DiskHeld(req[g])'
  <2>1. CASE g = h
    BY <2>1 DEF DiskHeld, HoldsFile
  <2>2. CASE g # h
    <3>1. req'[g] = req[g] /\ RowHeld(req[g]) /\ DiskHeld(req[g])
      BY <2>2 DEF FilesHeld
    <3>2. RowHeld(req[g])'
      BY <1>1, <3>1 DEF RowHeld, Quiet
    <3>3. DiskHeld(req[g])'
      BY <1>1, <3>1 DEF DiskHeld, Quiet
    <3> QED
      BY <3>2, <3>3
  <2> QED
    BY <2>1, <2>2
<1>4. ASSUME \A g \in Handlers : ~HoldsFile(req[g])' PROVE disk' = PhotosOf'
  <2>1. \A g \in Handlers : ~HoldsFile(req[g])
    <3> SUFFICES ASSUME NEW g \in Handlers PROVE ~HoldsFile(req[g])
      OBVIOUS
    <3> QED
      BY <1>4 DEF HoldsFile
  <2> QED
    BY <1>1, <2>1 DEF FilesHeld, Quiet
<1> QED
  BY <1>2, <1>3, <1>4 DEF FilesHeld

\* An idle handler holds nothing.
LEMMA IdleHolds ==
  ASSUME NEW h \in Handlers, req'[h] = Idle
  PROVE  RowHeld(req[h])' /\ DiskHeld(req[h])' /\ ~HoldsFile(req[h])'
BY DEF RowHeld, DiskHeld, HoldsFile, Idle

\* A request that goes on with its row, among its tags or in its own tables.
LEMMA HoldsOn ==
  ASSUME TypeOK, FilesHeld, NEW h \in Handlers, Quiet, ~HoldsFile(req[h]), ~HoldsFile(req[h])',
         req'[h].op = req[h].op, req'[h].id = req[h].id, req'[h].row = req[h].row,
         req'[h].at \in {"count", "row"} => req[h].at \in {"count", "row"}
  PROVE  RowHeld(req[h])'
<1>1. PhotosOf' = PhotosOf
  BY DEF Quiet, PhotosOf
<1>2. RowHeld(req[h])
  BY DEF FilesHeld
<1> QED
  BY <1>1, <1>2 DEF RowHeld, Quiet, HoldsFile

\* Requests start without a file, with the row they loaded.
LEMMA Loads ==
  ASSUME TypeOK, NEW h \in Handlers
  PROVE  /\ CreateProduct(h) => req'[h].row.photo = 0
         /\ UpdateProduct(h) => product[req'[h].id] # None /\ req'[h].row = product[req'[h].id]
         /\ DeleteProduct(h) => product[req'[h].id] # None /\ req'[h].row = product[req'[h].id]
         /\ Sell(h) => req'[h].at \in {"customer", "invoice"}
<1>1. CreateProduct(h) => req'[h].row.photo = 0
  BY DEF CreateProduct, Asks, Becomes, Idle, TypeOK
<1>2. UpdateProduct(h) => product[req'[h].id] # None /\ req'[h].row = product[req'[h].id]
  BY DEF UpdateProduct, Asks, Becomes, Idle, TypeOK
<1>3. DeleteProduct(h) => product[req'[h].id] # None /\ req'[h].row = product[req'[h].id]
  BY DEF DeleteProduct, Asks, Becomes, Idle, TypeOK
<1>4. Sell(h) => req'[h].at \in {"customer", "invoice"}
  BY DEF Sell, Asks, Becomes, Idle, TypeOK
<1> QED
  BY <1>1, <1>2, <1>3, <1>4

LEMMA AsksHold ==
  ASSUME TypeOK, FilesHeld, NEW h \in Handlers,
         CreateProduct(h) \/ UpdateProduct(h) \/ DeleteProduct(h) \/ Sell(h) \/ DeleteInvoice(h)
  PROVE  FilesHeld'
<1>1. Quiet
  <2>1. UNCHANGED <<tables, disk, made, faults>>
    BY DEF CreateProduct, UpdateProduct, DeleteProduct, Sell, DeleteInvoice
  <2> QED
    BY <2>1 DEF Quiet, tables
<1>2. \A g \in Handlers : g # h => req'[g] = req[g]
  BY OthersStay DEF HandlerDoes, Products, Sales
<1>3. ~HoldsFile(req[h])
  <2>1. req[h] = Idle
    BY DEF Asks, CreateProduct, UpdateProduct, DeleteProduct, Sell, DeleteInvoice
  <2> QED
    BY <2>1 DEF HoldsFile, Idle
<1>4. ~HoldsFile(req[h])'
  BY Starts, Loads DEF HoldsFile
<1>5. RowHeld(req[h])'
  BY <1>1, Starts, Loads DEF RowHeld, Quiet
<1> QED
  BY <1>1, <1>2, <1>3, <1>4, <1>5, QuietStep

\* What the loop over the tags keeps of a request.
LEMMA TagLoopKeeps ==
  ASSUME TypeOK, NEW h \in Handlers, TagLoop(h)
  PROVE  /\ req[h].at \in {"tags", "newTag"}
         /\ \/ req'[h] = Idle
            \/ /\ req'[h].at \in {"tags", "newTag"}
               /\ req'[h].op = req[h].op /\ req'[h].id = req[h].id
               /\ req'[h].row = req[h].row /\ req'[h].photos = req[h].photos
<1>1. req[h] \in Reqs
  BY HandlerTyped
<1>2. ASSUME NEW e \in Epcs, CheckTag(h, e)
      PROVE  /\ req[h].at = "tags" /\ req'[h].at \in {"tags", "newTag"}
             /\ req'[h].op = req[h].op /\ req'[h].id = req[h].id
             /\ req'[h].row = req[h].row /\ req'[h].photos = req[h].photos
  <2>1. CASE e \in tags
    <3> DEFINE todo == req[h].todo \ {e}
               bad  == req[h].bad \/ Exceptions(e) \ req[h].mine # {}
               r    == [req[h] EXCEPT !.todo = todo, !.bad = bad]
    <3>1. Becomes(h, r) /\ req[h].at = "tags"
      BY <1>2, <2>1 DEF CheckTag
    <3> HIDE DEF todo, bad
    <3>2. /\ r.op = req[h].op /\ r.at = req[h].at /\ r.id = req[h].id
          /\ r.row = req[h].row /\ r.photos = req[h].photos
      BY <1>1 DEF Reqs
    <3> HIDE DEF r
    <3> QED
      BY <3>1, <3>2, BecomesOne
  <2>2. CASE e \notin tags
    <3> DEFINE r == [req[h] EXCEPT !.at = "newTag", !.fresh = e]
    <3>1. Becomes(h, r) /\ req[h].at = "tags"
      BY <1>2, <2>2 DEF CheckTag
    <3>2. /\ r.op = req[h].op /\ r.at = "newTag" /\ r.id = req[h].id
          /\ r.row = req[h].row /\ r.photos = req[h].photos
      BY <1>1 DEF Reqs
    <3> HIDE DEF r
    <3> QED
      BY <3>1, <3>2, BecomesOne
  <2> QED
    BY <2>1, <2>2
<1>3. CASE CreateTag(h)
  <2>1. req[h].at = "newTag"
    BY <1>3 DEF CreateTag
  <2>2. CASE req[h].fresh \in tags
    BY <1>3, <2>1, <2>2, EndsIdle DEF CreateTag
  <2>3. CASE req[h].fresh \notin tags
    <3> DEFINE todo == req[h].todo \ {req[h].fresh}
               r    == [req[h] EXCEPT !.at = "tags", !.todo = todo, !.fresh = None]
    <3>1. Becomes(h, r)
      BY <1>3, <2>3 DEF CreateTag
    <3> HIDE DEF todo
    <3>2. /\ r.op = req[h].op /\ r.at = "tags" /\ r.id = req[h].id
          /\ r.row = req[h].row /\ r.photos = req[h].photos
      BY <1>1 DEF Reqs
    <3> HIDE DEF r
    <3> QED
      BY <2>1, <3>1, <3>2, BecomesOne
  <2> QED
    BY <2>2, <2>3
<1>4. CASE Refuse(h)
  BY <1>4, EndsIdle DEF Refuse
<1> QED
  BY <1>2, <1>3, <1>4 DEF TagLoop

\* The loop over the tags touches neither rows nor files.
LEMMA TagLoopHolds ==
  ASSUME TypeOK, FilesHeld, NEW h \in Handlers, TagLoop(h)
  PROVE  FilesHeld'
<1>1. Quiet
  BY DEF Quiet, TagLoop, CheckTag, CreateTag, Refuse, tables
<1>2. \A g \in Handlers : g # h => req'[g] = req[g]
  BY OthersStay DEF HandlerDoes
<1>3. ~HoldsFile(req[h])
  BY TagLoopKeeps DEF HoldsFile
<1>4. CASE req'[h] = Idle
  BY <1>1, <1>2, <1>3, <1>4, IdleHolds, QuietStep
<1>5. CASE req'[h] # Idle
  <2>1. ~HoldsFile(req[h])'
    BY <1>5, TagLoopKeeps DEF HoldsFile
  <2>2. RowHeld(req[h])'
    BY <1>1, <1>3, <1>5, <2>1, TagLoopKeeps, HoldsOn
  <2> QED
    BY <1>1, <1>2, <1>3, <2>1, <2>2, QuietStep
<1> QED
  BY <1>4, <1>5

\* A request that goes on elsewhere keeps what it works on.
LEMMA GoesKeeps ==
  ASSUME TypeOK, NEW h \in Handlers, NEW at, Goes(h, at)
  PROVE  /\ req'[h].at = at /\ req'[h].op = req[h].op
         /\ req'[h].id = req[h].id /\ req'[h].row = req[h].row
BY GoesOn

\* Nor do the steps of a sale, nor the deletion of an invoice.
LEMMA SalesHold ==
  ASSUME TypeOK, FilesHeld, NEW h \in Handlers,
         CountSales(h) \/ SaveCustomer(h) \/ SaveInvoice(h) \/ LoadItems(h) \/ DropInvoice(h)
  PROVE  FilesHeld'
<1>1. Quiet
  BY DEF Quiet, CountSales, SaveCustomer, SaveInvoice, LoadItems, DropInvoice, tables, TypeOK
<1>2. \A g \in Handlers : g # h => req'[g] = req[g]
  BY OthersStay DEF HandlerDoes, Products, Sales
<1>3. ~HoldsFile(req[h])
  <2>1. CASE DropInvoice(h)
    <3>1. req[h].op = "deleteInvoice" /\ RowHeld(req[h])
      BY <2>1 DEF DropInvoice, Saves, FilesHeld
    <3> QED
      BY <3>1, CalmHandler DEF Stocks
  <2>2. CASE ~DropInvoice(h)
    BY <2>2 DEF CountSales, SaveCustomer, SaveInvoice, LoadItems, HoldsFile
  <2> QED
    BY <2>1, <2>2
<1>4. CASE Ends(h)
  BY <1>1, <1>2, <1>3, <1>4, EndsIdle, IdleHolds, QuietStep
<1>5. CASE ~Ends(h)
  <2>1. CASE CountSales(h)
    <3>1. Goes(h, "row") /\ req[h].at = "count"
      BY <1>5, <2>1 DEF CountSales
    <3>2. ~HoldsFile(req[h])' /\ RowHeld(req[h])'
      <4>1. ~HoldsFile(req[h])' /\ req[h].at \in {"count", "row"}
        BY <3>1, GoesKeeps DEF HoldsFile
      <4>2. /\ req'[h].op = req[h].op /\ req'[h].id = req[h].id /\ req'[h].row = req[h].row
        BY <3>1, GoesKeeps
      <4> QED
        BY <1>1, <1>3, <4>1, <4>2, HoldsOn
    <3> QED
      BY <1>1, <1>2, <1>3, <3>2, QuietStep
  <2>2. CASE SaveCustomer(h)
    <3>1. Goes(h, "invoice")
      BY <1>5, <2>2 DEF SaveCustomer
    <3>2. ~HoldsFile(req[h])' /\ RowHeld(req[h])'
      <4>1. ~HoldsFile(req[h])' /\ req'[h].at \notin {"count", "row"}
        BY <3>1, GoesKeeps DEF HoldsFile
      <4>2. /\ req'[h].op = req[h].op /\ req'[h].id = req[h].id /\ req'[h].row = req[h].row
        BY <3>1, GoesKeeps
      <4> QED
        BY <1>1, <1>3, <4>1, <4>2, HoldsOn
    <3> QED
      BY <1>1, <1>2, <1>3, <3>2, QuietStep
  <2>3. CASE LoadItems(h)
    <3> DEFINE goods == {it.of : it \in {it \in items : it.inv = req[h].id}}
               todo  == UNION {carries[p] : p \in goods}
               r     == [req[h] EXCEPT !.at = "tags", !.mine = goods, !.todo = todo]
    <3>1. Becomes(h, r)
      BY <1>5, <2>3 DEF LoadItems
    <3> HIDE DEF goods, todo
    <3>2. r.op = req[h].op /\ r.at = "tags" /\ r.id = req[h].id /\ r.row = req[h].row
      BY HandlerTyped DEF Reqs
    <3> HIDE DEF r
    <3>3. req'[h] = r
      BY <3>1, BecomesOne
    <3>4. ~HoldsFile(req[h])' /\ req'[h].at \notin {"count", "row"}
      BY <3>2, <3>3 DEF HoldsFile
    <3>5. RowHeld(req[h])'
      BY <1>1, <1>3, <3>2, <3>3, <3>4, HoldsOn
    <3> QED
      BY <1>1, <1>2, <1>3, <3>4, <3>5, QuietStep
  <2>4. CASE SaveInvoice(h) \/ DropInvoice(h)
    BY <1>5, <2>4 DEF SaveInvoice, DropInvoice
  <2> QED
    BY <2>1, <2>2, <2>3, <2>4
<1> QED
  BY <1>4, <1>5

\* An update removes the old photo and holds no file until it uploads one.
LEMMA RemovePhotosHolds ==
  ASSUME TypeOK, FilesHeld, NEW h \in Handlers, Alone(h), RemovePhotos(h)
  PROVE  FilesHeld'
<1>1. /\ req[h].op = "update" /\ req[h].at = "tags" /\ disk' = disk \ {req[h].row.photo}
      /\ product' = product /\ made' = made
  BY DEF RemovePhotos, Accepted, tables
<1>2. /\ req'[h].at = "upload" /\ req'[h].op = req[h].op
      /\ req'[h].id = req[h].id /\ req'[h].row = req[h].row
  BY GoesKeeps DEF RemovePhotos
<1>3. disk = PhotosOf /\ PhotosOf' = PhotosOf
  BY <1>1, DiskAsShown DEF HoldsFile, PhotosOf
<1>4. Apart' /\ FilesKnown' /\ Unborn'
  BY <1>1 DEF FilesHeld, Apart, FilesKnown, Unborn
<1>5. RowHeld(req[h])
  BY DEF FilesHeld
<1>6. RowHeld(req[h])' /\ DiskHeld(req[h])' /\ HoldsFile(req[h])'
  BY <1>1, <1>2, <1>3, <1>5 DEF RowHeld, DiskHeld, HoldsFile
<1> QED
  <2>1. \A g \in Handlers : g # h => req'[g] = req[g]
    BY OthersStay DEF HandlerDoes, Files
  <2> QED
    BY <1>4, <1>6, <2>1, Settled

\* What an upload does to a request.
LEMMA Uploads ==
  ASSUME TypeOK, NEW h \in Handlers, UploadFiles(h)
  PROVE  /\ req'[h].at = "save" /\ req'[h].op = req[h].op /\ req'[h].id = req[h].id
         /\ req[h].op \in {"create", "update"} => req'[h].row.photo = made.files + 1
<1>1. req[h] \in Reqs /\ Ready(req[h], tags)
  BY HandlerTyped
<1> DEFINE f == made.files + 1
           r == [req[h] EXCEPT !.at = "save", !.row.photo = f]
<1>2. Becomes(h, r)
  BY DEF UploadFiles
<1> HIDE DEF f
<1>3. r.at = "save" /\ r.op = req[h].op /\ r.id = req[h].id
  BY <1>1 DEF Reqs
<1>4. req[h].op \in {"create", "update"} => r.row.photo = f
  <2> SUFFICES ASSUME req[h].op \in {"create", "update"} PROVE r.row.photo = f
    OBVIOUS
  <2>1. req[h].row \in Rows
    BY <1>1 DEF Ready
  <2>2. r.row = [req[h].row EXCEPT !.photo = f]
    BY <1>1 DEF Reqs
  <2>3. [req[h].row EXCEPT !.photo = f].photo = f
    BY <2>1 DEF Rows
  <2> QED
    BY <2>2, <2>3
<1> HIDE DEF r
<1> QED
  BY <1>2, <1>3, <1>4, BecomesOne DEF f

\* The new file is no photo yet; the request holds it.
LEMMA UploadFilesHolds ==
  ASSUME TypeOK, FilesHeld, NEW h \in Handlers, Alone(h), UploadFiles(h)
  PROVE  FilesHeld'
<1> DEFINE f == made.files + 1
<1>1. /\ disk' = disk \cup {f} /\ product' = product
      /\ made'.files = f /\ made'.products = made.products
      /\ f \in Int /\ f > made.files /\ f > 0
  BY DEF UploadFiles, tables, TypeOK
<1>2. Ready(req[h], tags) /\ RowHeld(req[h]) /\ DiskHeld(req[h])
  BY HandlerTyped DEF FilesHeld
<1>3. \/ req[h].op = "update" /\ req[h].at = "upload"
      \/ req[h].op = "create" /\ req[h].at = "tags"
  BY <1>2 DEF UploadFiles, Accepted, Ready
<1>4. /\ req'[h].at = "save" /\ req'[h].op = req[h].op /\ req'[h].id = req[h].id
      /\ req'[h].row.photo = f
  BY <1>3, Uploads
<1>5. PhotosOf' = PhotosOf /\ f \notin PhotosOf
  <2>1. ASSUME NEW p \in Pids, product[p] # None PROVE product[p].photo # f
    BY <1>1, <2>1 DEF FilesHeld, FilesKnown, TypeOK, Rows
  <2> QED
    BY <1>1, <2>1 DEF PhotosOf
<1>6. Apart' /\ FilesKnown' /\ Unborn'
  <2>1. Apart' /\ Unborn'
    BY <1>1 DEF FilesHeld, Apart, Unborn
  <2>2. ASSUME NEW g \in disk' PROVE g <= made'.files
    BY <1>1, <2>2 DEF FilesHeld, FilesKnown, TypeOK, Fids
  <2>3. ASSUME NEW p \in Pids, product'[p] # None PROVE product'[p].photo <= made'.files
    BY <1>1, <2>3 DEF FilesHeld, FilesKnown, TypeOK, Rows, Fids
  <2> QED
    BY <2>1, <2>2, <2>3 DEF FilesKnown
<1>7. RowHeld(req[h])'
  <2>1. f \in 1..made'.files
    BY <1>1
  <2>2. req[h].op = "update" => product[req[h].id] # None
    BY <1>2 DEF RowHeld
  <2> HIDE DEF f
  <2> QED
    BY <1>1, <1>3, <1>4, <1>5, <2>1, <2>2 DEF RowHeld
<1>8. DiskHeld(req[h])' /\ HoldsFile(req[h])'
  <2> HIDE DEF f
  <2>1. CASE req[h].op = "update"
    <3>1. disk = PhotosOf \ {product[req[h].id].photo}
      BY <1>2, <1>3, <2>1 DEF DiskHeld, RowHeld
    <3> QED
      BY <1>1, <1>4, <1>5, <2>1, <3>1 DEF DiskHeld, HoldsFile
  <2>2. CASE req[h].op = "create"
    <3>1. disk = PhotosOf
      BY <1>3, <2>2, DiskAsShown DEF HoldsFile
    <3> QED
      BY <1>1, <1>4, <1>5, <2>2, <3>1 DEF DiskHeld, HoldsFile
  <2> QED
    BY <1>3, <2>1, <2>2
<1> QED
  <2>1. \A g \in Handlers : g # h => req'[g] = req[g]
    BY OthersStay DEF HandlerDoes, Files
  <2> QED
    BY <1>6, <1>7, <1>8, <2>1, Settled

\* The files of a deleted product go.
LEMMA DeleteFilesHolds ==
  ASSUME TypeOK, FilesHeld, NEW h \in Handlers, Alone(h), DeleteFiles(h)
  PROVE  FilesHeld'
<1>1. /\ req[h].at = "files" /\ disk' = disk \ {req[h].row.photo}
      /\ product' = product /\ made' = made /\ req'[h] = Idle
  BY EndsIdle DEF DeleteFiles, tables
<1>2. disk = PhotosOf \cup ({req[h].row.photo} \ {0}) /\ req[h].row.photo \notin PhotosOf
  BY <1>1 DEF FilesHeld, RowHeld, DiskHeld
<1>3. disk' = PhotosOf' /\ PhotosOf' = PhotosOf
  <2>1. PhotosOf' = PhotosOf
    BY <1>1 DEF PhotosOf
  <2> QED
    BY <1>1, <1>2, <2>1
<1>4. Apart' /\ FilesKnown' /\ Unborn'
  BY <1>1 DEF FilesHeld, Apart, FilesKnown, Unborn
<1> QED
  <2>1. \A g \in Handlers : g # h => req'[g] = req[g]
    BY OthersStay DEF HandlerDoes, Files
  <2> QED
    BY <1>1, <1>3, <1>4, <2>1, IdleHolds, Settled

\* A saved product has the photo that was uploaded for it, or none.
LEMMA SaveProductHolds ==
  ASSUME TypeOK, FilesHeld, NEW h \in Handlers, Alone(h), SaveProduct(h)
  PROVE  FilesHeld'
<1> DEFINE p == made.products + 1
           x == req[h].row.photo
<1>1. /\ product' = [product EXCEPT ![p] = req[h].row] /\ disk' = disk
      /\ made'.products = p /\ made'.files = made.files /\ req'[h] = Idle
      /\ req[h].op = "create" /\ req[h].at \in {"save", "tags"}
  BY EndsIdle DEF SaveProduct, Saves, Accepted, TypeOK
<1>2. p \in Pids /\ made.products \in Nat /\ made.files \in Nat
  <2>1. /\ made.products \in Nat /\ made.files \in Nat /\ made.products < MaxProducts
        /\ MaxProducts \in Nat
    BY StockBounds DEF SaveProduct, TypeOK
  <2> QED
    BY <2>1 DEF Pids
<1>3. req[h].row \in Rows /\ RowHeld(req[h]) /\ DiskHeld(req[h])
  BY <1>1, HandlerTyped DEF FilesHeld, Ready
<1>4. product[p] = None /\ req[h].row # None
  <2>1. p > made.products
    BY <1>2
  <2>2. product[p] = None
    BY <1>2, <2>1 DEF FilesHeld, Unborn
  <2>3. req[h].row # None
    BY <1>3, NoneIsNothing
  <2> QED
    BY <2>2, <2>3
<1>5. \/ req[h].at = "save" /\ disk = PhotosOf \cup {x} /\ x \in 1..made.files /\ x \notin PhotosOf
      \/ req[h].at = "tags" /\ disk = PhotosOf /\ x = 0
  <2>1. CASE req[h].at = "save"
    BY <1>1, <1>3, <2>1 DEF RowHeld, DiskHeld
  <2>2. CASE req[h].at = "tags"
    BY <1>1, <1>3, <2>2, DiskAsShown DEF RowHeld, HoldsFile
  <2> QED
    BY <1>1, <2>1, <2>2
<1>6. Apart' /\ PhotosOf' = PhotosOf \cup ({x} \ {0})
  <2>1. Apart
    BY DEF FilesHeld
  <2>2. x = 0 \/ x \notin PhotosOf
    BY <1>5
  <2> DEFINE row == req[h].row
  <2>3. row \in Rows \cup {None} /\ product' = [product EXCEPT ![p] = row]
    BY <1>1, <1>3
  <2>4. row # None /\ (row.photo = 0 \/ row.photo \notin PhotosOf)
    BY <1>4, <2>2
  <2>5. row.photo = x
    OBVIOUS
  <2> HIDE DEF p, row, x
  <2> QED
    BY <1>2, <1>4, <2>1, <2>3, <2>4, <2>5, PhotosAfter
<1>7. disk' = PhotosOf'
  BY <1>1, <1>2, <1>5, <1>6
<1>8. x <= made.files
  BY <1>2, <1>5
<1>9. FilesKnown' /\ Unborn'
  <2>1. \A q \in Pids : product'[q] = IF q = p THEN req[h].row ELSE product[q]
    BY <1>1 DEF TypeOK
  <2>2. FilesKnown'
    BY <1>1, <1>8, <2>1 DEF FilesHeld, FilesKnown
  <2>3. Unborn'
    <3> SUFFICES ASSUME NEW q \in Pids, q > made'.products PROVE product'[q] = None
      BY DEF Unborn
    <3>1. q > made.products /\ q # p
      BY <1>1, <1>2 DEF Pids
    <3> QED
      BY <2>1, <3>1 DEF FilesHeld, Unborn
  <2> QED
    BY <2>2, <2>3
<1> QED
  <2>1. \A g \in Handlers : g # h => req'[g] = req[g]
    BY OthersStay DEF HandlerDoes, Products
  <2> QED
    BY <1>1, <1>6, <1>7, <1>9, <2>1, IdleHolds, Settled

\* An updated product has the photo that was uploaded for it, or the one it had.
LEMMA SaveUpdateHolds ==
  ASSUME TypeOK, FilesHeld, NEW h \in Handlers, Alone(h), SaveUpdate(h)
  PROVE  FilesHeld'
<1> DEFINE p   == req[h].id
           x   == req[h].row.photo
           row == [req[h].row EXCEPT !.inventory = (req[h].body.inventory = TRUE)]
<1>1. req[h].op = "update" /\ req[h].at \in {"save", "tags"}
  BY DEF SaveUpdate, Saves, Accepted
<1>2. p \in Pids /\ req[h].row \in Rows /\ RowHeld(req[h]) /\ DiskHeld(req[h])
  BY <1>1, HandlerTyped DEF FilesHeld, Ready
<1>3. product[p] # None
  BY <1>1, <1>2 DEF RowHeld
<1>4. /\ product' = [product EXCEPT ![p] = row] /\ disk' = disk /\ made' = made /\ req'[h] = Idle
  BY <1>3, EndsIdle DEF SaveUpdate
<1>5. row \in Rows /\ row.photo = x /\ row # None
  <2>1. row \in Rows /\ row.photo = x
    BY <1>2 DEF Rows
  <2> HIDE DEF row
  <2> QED
    BY <2>1, NoneIsNothing
<1>6. \/ /\ req[h].at = "save" /\ disk = (PhotosOf \ {product[p].photo}) \cup {x}
         /\ x \in 1..made.files /\ x \notin PhotosOf
      \/ req[h].at = "tags" /\ disk = PhotosOf /\ x = product[p].photo
  BY <1>1, <1>2, DiskAsShown DEF RowHeld, DiskHeld, HoldsFile
<1>7. Apart' /\ PhotosOf' = (PhotosOf \ {product[p].photo}) \cup ({x} \ {0})
  <2>1. Apart
    BY DEF FilesHeld
  <2> HIDE DEF p, row
  <2> QED
    BY <1>2, <1>3, <1>4, <1>5, <1>6, <2>1, PhotosAfter
<1>8. disk' = PhotosOf'
  <2>1. CASE req[h].at = "save"
    <3>1. x # 0
      BY <1>6, <2>1
    <3> QED
      BY <1>4, <1>6, <1>7, <2>1, <3>1
  <2>2. CASE req[h].at = "tags"
    <3>1. x = 0 \/ x \in PhotosOf
      BY <1>2, <1>3, <1>6, <2>2 DEF PhotosOf
    <3>2. 0 \notin PhotosOf
      BY DEF PhotosOf
    <3> QED
      BY <1>4, <1>6, <1>7, <2>2, <3>1, <3>2
  <2> QED
    BY <1>1, <2>1, <2>2
<1>9. FilesKnown' /\ Unborn'
  <2>1. \A q \in Pids : product'[q] = IF q = p THEN row ELSE product[q]
    BY <1>4 DEF TypeOK
  <2>2. x <= made.files
    BY <1>2, <1>3, <1>6 DEF FilesHeld, FilesKnown
  <2> HIDE DEF row, p
  <2>3. FilesKnown'
    BY <1>4, <1>5, <2>1, <2>2 DEF FilesHeld, FilesKnown
  <2>4. Unborn'
    BY <1>2, <1>3, <1>4, <2>1 DEF FilesHeld, Unborn
  <2> QED
    BY <2>3, <2>4
<1> QED
  <2>1. \A g \in Handlers : g # h => req'[g] = req[g]
    BY OthersStay DEF HandlerDoes, Products
  <2> QED
    BY <1>4, <1>7, <1>8, <1>9, <2>1, IdleHolds, Settled

\* The row of a product goes before its files.
LEMMA DeleteRowHolds ==
  ASSUME TypeOK, FilesHeld, NEW h \in Handlers, Alone(h), DeleteRow(h)
  PROVE  FilesHeld'
<1> DEFINE p == req[h].id
           x == req[h].row.photo
<1>1. req[h].at = "row" /\ disk' = disk /\ made' = made
  BY DEF DeleteRow
<1>2. req[h].op = "delete" /\ p \in Pids /\ RowHeld(req[h])
  BY <1>1, HandlerTyped DEF FilesHeld, Ready
<1>3. product[p] # None /\ x = product[p].photo /\ disk = PhotosOf
  BY <1>1, <1>2, DiskAsShown DEF RowHeld, HoldsFile
<1>4. \A g \in Handlers : g # h => req'[g] = req[g]
  BY OthersStay DEF HandlerDoes, Products
<1>5. CASE ItemsOf(p) # {}
  <2>1. Quiet /\ req'[h] = Idle
    BY <1>5, EndsIdle DEF DeleteRow, Quiet
  <2> QED
    BY <1>1, <1>4, <2>1, IdleHolds, QuietStep DEF HoldsFile
<1>6. CASE ItemsOf(p) = {}
  <2>1. product' = [product EXCEPT ![p] = None] /\ Goes(h, "files")
    BY <1>6 DEF DeleteRow
  <2>2. /\ req'[h].at = "files" /\ req'[h].op = "delete" /\ req'[h].row = req[h].row
    BY <1>2, <2>1, GoesKeeps
  <2>3. Apart' /\ PhotosOf' = PhotosOf \ {x}
    <3>1. Apart
      BY DEF FilesHeld
    <3>2. PICK y : y = None
      OBVIOUS
    <3>3. y \in Rows \cup {None} /\ product' = [product EXCEPT ![p] = y]
      BY <2>1, <3>2
    <3> HIDE DEF p
    <3>4. /\ Apart'
          /\ PhotosOf' = (PhotosOf \ (IF product[p] = None THEN {} ELSE {product[p].photo}))
                         \cup (IF y = None THEN {} ELSE {y.photo} \ {0})
      BY <1>2, <3>1, <3>2, <3>3, PhotosAfter
    <3> QED
      BY <1>3, <3>2, <3>4
  <2>4. \A q \in Pids : product'[q] = IF q = p THEN None ELSE product[q]
    BY <2>1 DEF TypeOK
  <2>5. FilesKnown' /\ Unborn'
    BY <1>1, <2>4 DEF FilesHeld, FilesKnown, Unborn
  <2>6. x \in 0..made.files
    BY <1>2, <1>3 DEF FilesHeld, FilesKnown, TypeOK, Rows, Fids
  <2>7. RowHeld(req[h])'
    BY <1>1, <2>2, <2>3, <2>6 DEF RowHeld
  <2>8. x = 0 \/ x \in PhotosOf
    BY <1>2, <1>3 DEF PhotosOf
  <2>9. 0 \notin PhotosOf
    BY DEF PhotosOf
  <2>10. DiskHeld(req[h])' /\ HoldsFile(req[h])'
    BY <1>1, <1>3, <2>2, <2>3, <2>8, <2>9 DEF DiskHeld, HoldsFile
  <2> QED
    BY <1>4, <2>3, <2>5, <2>7, <2>10, Settled
<1> QED
  BY <1>5, <1>6

LEMMA PhotosStep ==
  ASSUME OneClerk, TypeOK, Asked, PhotosInv, [Next]_vars
  PROVE  PhotosInv'
<1>1. CASE UNCHANGED vars
  <2>1. UNCHANGED <<product, disk, req, made, faults>>
    BY <1>1 DEF vars, tables
  <2> QED
    BY <2>1 DEF PhotosInv, FilesHeld, Apart, FilesKnown, Unborn, RowHeld, DiskHeld, HoldsFile, PhotosOf
<1>2. ASSUME NEW h \in Handlers, HandlerDoes(h), faults' = 0
      PROVE  FilesHeld'
  <2>1. ~Fail(h)
    BY <1>2 DEF Fail, TypeOK
  <2>2. faults = 0
    <3>1. CASE Products(h)
      BY <1>2, <3>1 DEF Products, CreateProduct, SaveProduct, UpdateProduct, SaveUpdate,
                  DeleteProduct, CountSales, DeleteRow
    <3>2. CASE Files(h)
      BY <1>2, <3>2 DEF Files, RemovePhotos, UploadFiles, DeleteFiles
    <3>3. CASE TagLoop(h)
      BY <1>2, <3>3 DEF TagLoop, CheckTag, CreateTag, Refuse
    <3>4. CASE Sales(h)
      BY <1>2, <3>4 DEF Sales, Sell, SaveCustomer, SaveInvoice, DeleteInvoice, LoadItems, DropInvoice
    <3> QED
      BY <1>2, <2>1, <3>1, <3>2, <3>3, <3>4 DEF HandlerDoes
  <2>3. FilesHeld
    BY <2>2 DEF PhotosInv
  <2>4. CASE TagLoop(h)
    BY <2>3, <2>4, TagLoopHolds
  <2>5. CASE CreateProduct(h) \/ UpdateProduct(h) \/ DeleteProduct(h) \/ Sell(h) \/ DeleteInvoice(h)
    BY <2>3, <2>5, AsksHold
  <2>6. CASE CountSales(h) \/ SaveCustomer(h) \/ SaveInvoice(h) \/ LoadItems(h) \/ DropInvoice(h)
    BY <2>3, <2>6, SalesHold
  <2>7. CASE Files(h) \/ SaveProduct(h) \/ SaveUpdate(h) \/ DeleteRow(h)
    <3>1. req[h].op \in Stocks
      BY <2>7, HandlerTyped DEF Files, RemovePhotos, UploadFiles, DeleteFiles, SaveProduct,
           SaveUpdate, DeleteRow, Saves, Ready, Stocks
    <3>2. Alone(h)
      BY <3>1, ClerkAlone
    <3> QED
      BY <2>3, <2>7, <3>2, RemovePhotosHolds, UploadFilesHolds, DeleteFilesHolds,
         SaveProductHolds, SaveUpdateHolds, DeleteRowHolds DEF Files
  <2> QED
    BY <1>2, <2>1, <2>4, <2>5, <2>6, <2>7 DEF HandlerDoes, Products, Sales
<1> QED
  BY <1>1, <1>2 DEF Next, HandlerDoes, PhotosInv

\* When one clerk at a time changes the stock and no statement fails, the files
\* on the disk are exactly the photos of the products whenever no request runs.
THEOREM PhotosStayOnDisk ==
  ASSUME OneClerk
  PROVE  Spec => []PhotosMatchDisk
<1>1. Init => PhotosInv
  BY DEF Init, PhotosInv, FilesHeld, Apart, FilesKnown, Unborn, RowHeld, DiskHeld,
         HoldsFile, PhotosOf, Idle
<1>2. TypeOK /\ Asked /\ PhotosInv /\ [Next]_vars => PhotosInv'
  BY PhotosStep
<1>3. PhotosInv => PhotosMatchDisk
  BY DEF PhotosInv, FilesHeld, PhotosMatchDisk, PhotosOf, HoldsFile, Idle
<1> QED
  BY <1>1, <1>2, <1>3, StockTyped, AskedHolds, PTL DEF Spec

-----------------------------------------------------------------------------
(***************************************************************************)
(* The pieces of a set of sale items.                                      *)
(***************************************************************************)
Pieces(S) == MapThenSumSet(LAMBDA it : it.n, S)
OneOf(S)  == CHOOSE x \in S : TRUE

\* Every nonempty set of subsets of a finite set has a minimal one.
LEMMA Minimal ==
  ASSUME NEW S, IsFiniteSet(S), NEW B \in SUBSET SUBSET S, B # {}
  PROVE  \E U \in B : \A V \in B : V \subseteq U => V = U
<1> DEFINE R == StrictSubsetOrdering(S)
           F == FiniteSubsetsOf(S)
<1>1. IsWellFoundedOn(R, F)
  BY FS_StrictSubsetOrderingWellFounded
<1>2. B \subseteq F
  BY FS_Subset DEF FiniteSubsetsOf
<1>3. \A V, U \in F : V \subseteq U /\ V # U => <<V, U>> \in R
  BY DEF StrictSubsetOrdering, FiniteSubsetsOf
<1> HIDE DEF R, F
<1>4. PICK U \in B : \A V \in B : <<V, U>> \notin R
  BY <1>1, <1>2, WFMin
<1> QED
  BY <1>2, <1>3, <1>4

\* The sums over the subsets of a set.
SumRule(f, S) == f = [s \in SUBSET S |-> IF s = {} THEN 0 ELSE OneOf(s).n + f[s \ {OneOf(s)}]]

LEMMA SumUnique ==
  ASSUME NEW S, NEW T, NEW f, NEW g, SumRule(f, S), SumRule(g, T),
         NEW U, IsFiniteSet(U), U \subseteq S, U \subseteq T
  PROVE  f[U] = g[U]
<1> DEFINE B == {V \in SUBSET U : f[V] # g[V]}
<1> SUFFICES ASSUME B # {} PROVE FALSE
  OBVIOUS
<1>1. PICK V \in B : \A W \in B : W \subseteq V => W = V
  <2>1. B \in SUBSET SUBSET U
    OBVIOUS
  <2> HIDE DEF B
  <2> QED
    BY <2>1, Minimal
<1>2. V \in SUBSET S /\ V \in SUBSET T /\ V \subseteq U
  BY <1>1
<1>3. /\ f[V] = IF V = {} THEN 0 ELSE OneOf(V).n + f[V \ {OneOf(V)}]
      /\ g[V] = IF V = {} THEN 0 ELSE OneOf(V).n + g[V \ {OneOf(V)}]
  BY <1>2 DEF SumRule
<1>4. CASE V # {}
  <2>1. OneOf(V) \in V
    BY <1>4 DEF OneOf
  <2>2. V \ {OneOf(V)} \notin B
    BY <1>1, <2>1
  <2>3. f[V \ {OneOf(V)}] = g[V \ {OneOf(V)}]
    BY <1>2, <2>2
  <2> QED
    BY <1>1, <1>3, <1>4, <2>3
<1> QED
  BY <1>1, <1>3, <1>4

TheSum(S) == CHOOSE f : SumRule(f, S)

LEMMA SumExists ==
  ASSUME NEW S, IsFiniteSet(S)
  PROVE  SumRule(TheSum(S), S)
<1> DEFINE B == {V \in SUBSET S : ~ \E f : SumRule(f, V)}
<1> SUFFICES ASSUME B # {} PROVE FALSE
  BY DEF TheSum
<1>1. PICK V \in B : \A W \in B : W \subseteq V => W = V
  <2>1. B \in SUBSET SUBSET S
    OBVIOUS
  <2> HIDE DEF B
  <2> QED
    BY <2>1, Minimal
<1>2. ASSUME NEW W \in SUBSET V, W # V PROVE SumRule(TheSum(W), W)
  BY <1>1, <1>2 DEF TheSum
<1>3. \A W \in SUBSET V : IsFiniteSet(W)
  BY <1>1, FS_Subset
<1> DEFINE rest(s) == s \ {OneOf(s)}
           f == [s \in SUBSET V |-> IF s = {} THEN 0 ELSE OneOf(s).n + TheSum(rest(s))[rest(s)]]
<1>4. ASSUME NEW s \in SUBSET V, s # {}
      PROVE  f[rest(s)] = TheSum(rest(s))[rest(s)]
  <2> DEFINE t == rest(s)
  <2>1. t \in SUBSET V /\ t # V
    BY <1>4 DEF OneOf
  <2>2. SumRule(TheSum(t), t)
    BY <1>2, <2>1
  <2>3. TheSum(t)[t] = IF t = {} THEN 0 ELSE OneOf(t).n + TheSum(t)[rest(t)]
    <3>1. t \in SUBSET t
      OBVIOUS
    <3> HIDE DEF t
    <3> QED
      BY <2>2, <3>1 DEF SumRule
  <2>4. f[t] = IF t = {} THEN 0 ELSE OneOf(t).n + TheSum(rest(t))[rest(t)]
    BY <2>1
  <2>5. t # {} => TheSum(t)[rest(t)] = TheSum(rest(t))[rest(t)]
    <3> SUFFICES ASSUME t # {} PROVE TheSum(t)[rest(t)] = TheSum(rest(t))[rest(t)]
      OBVIOUS
    <3> DEFINE u == rest(t)
    <3>1. u \in SUBSET V /\ u # V /\ u \subseteq t
      BY <2>1 DEF OneOf
    <3>2. SumRule(TheSum(u), u) /\ IsFiniteSet(u) /\ u \subseteq u
      BY <1>2, <1>3, <3>1
    <3> HIDE DEF t, u
    <3> QED
      BY <2>2, <3>1, <3>2, SumUnique DEF u
  <2> HIDE DEF t, f
  <2> QED
    BY <2>3, <2>4, <2>5 DEF t
<1>5. SumRule(f, V)
  <2>1. \A s \in SUBSET V : f[s] = IF s = {} THEN 0 ELSE OneOf(s).n + f[rest(s)]
    BY <1>4
  <2>2. f = [s \in SUBSET V |-> f[s]]
    OBVIOUS
  <2> HIDE DEF f
  <2> QED
    BY <2>1, <2>2 DEF SumRule
<1> QED
  BY <1>1, <1>5

\* The pieces of a finite set: none, or those of one member and the rest.
LEMMA PiecesRule ==
  ASSUME NEW S, IsFiniteSet(S)
  PROVE  /\ S = {} => Pieces(S) = 0
         /\ S # {} => Pieces(S) = OneOf(S).n + Pieces(S \ {OneOf(S)})
<1>1. ASSUME NEW T PROVE Pieces(T) = TheSum(T)[T]
  BY DEF Pieces, MapThenSumSet, MapThenFoldSet, TheSum, SumRule, OneOf
<1>2. SumRule(TheSum(S), S)
  BY SumExists
<1>3. TheSum(S)[S] = IF S = {} THEN 0 ELSE OneOf(S).n + TheSum(S)[S \ {OneOf(S)}]
  BY <1>2 DEF SumRule
<1>4. CASE S # {}
  <2> DEFINE T == S \ {OneOf(S)}
  <2>1. IsFiniteSet(T) /\ T \subseteq S
    BY FS_Subset
  <2>2. SumRule(TheSum(T), T) /\ T \subseteq T
    BY <2>1, SumExists
  <2> HIDE DEF T
  <2>3. TheSum(S)[T] = TheSum(T)[T]
    BY <1>2, <2>1, <2>2, SumUnique
  <2> QED
    BY <1>1, <1>3, <1>4, <2>3 DEF T
<1> QED
  BY <1>1, <1>3, <1>4

\* Sale items have pieces.
LEMMA PiecesNat ==
  ASSUME NEW S \in SUBSET Items, IsFiniteSet(S)
  PROVE  Pieces(S) \in Nat
<1> DEFINE B == {V \in SUBSET S : Pieces(V) \notin Nat}
<1> SUFFICES ASSUME B # {} PROVE FALSE
  OBVIOUS
<1>1. PICK V \in B : \A W \in B : W \subseteq V => W = V
  <2>1. B \in SUBSET SUBSET S
    OBVIOUS
  <2> HIDE DEF B
  <2> QED
    BY <2>1, Minimal
<1>2. IsFiniteSet(V)
  BY <1>1, FS_Subset
<1>3. V # {}
  BY <1>1, <1>2, PiecesRule
<1>4. OneOf(V) \in V
  BY <1>3 DEF OneOf
<1>5. Pieces(V \ {OneOf(V)}) \in Nat
  BY <1>1, <1>4
<1>6. OneOf(V).n \in Nat
  BY <1>1, <1>4, StockBounds DEF Items
<1> QED
  BY <1>1, <1>2, <1>3, <1>5, <1>6, PiecesRule

\* Whichever item is taken out, its pieces go.
LEMMA PiecesSplit ==
  ASSUME NEW S \in SUBSET Items, IsFiniteSet(S), NEW x \in S
  PROVE  Pieces(S) = x.n + Pieces(S \ {x})
<1> DEFINE Splits(V) == \A y \in V : Pieces(V) = y.n + Pieces(V \ {y})
           B == {V \in SUBSET S : ~Splits(V)}
<1> SUFFICES ASSUME B # {} PROVE FALSE
  OBVIOUS
<1>1. PICK V \in B : \A W \in B : W \subseteq V => W = V
  <2>1. B \in SUBSET SUBSET S
    OBVIOUS
  <2> HIDE DEF B
  <2> QED
    BY <2>1, Minimal
<1>2. PICK y \in V : Pieces(V) # y.n + Pieces(V \ {y})
  BY <1>1
<1> DEFINE c == OneOf(V)
<1>3. c \in V /\ V # {}
  BY <1>2 DEF OneOf
<1>4. V \in SUBSET S /\ V \ {c} # V /\ V \ {y} # V
  BY <1>1, <1>2, <1>3
<1>5. IsFiniteSet(V) /\ IsFiniteSet(V \ {c}) /\ IsFiniteSet(V \ {y})
  BY <1>4, FS_Subset
<1>6. Splits(V \ {c}) /\ Splits(V \ {y})
  <2>1. V \ {c} \in SUBSET S /\ V \ {y} \in SUBSET S
    BY <1>4
  <2>2. V \ {c} \notin B /\ V \ {y} \notin B
    BY <1>1, <1>4
  <2> HIDE DEF Splits, c
  <2> QED
    BY <2>1, <2>2
<1>7. Pieces(V) = c.n + Pieces(V \ {c})
  BY <1>3, <1>5, PiecesRule
<1>8. y # c
  BY <1>2, <1>7
<1>9. Pieces(V \ {c}) = y.n + Pieces((V \ {c}) \ {y})
  BY <1>2, <1>6, <1>8
<1>10. Pieces(V \ {y}) = c.n + Pieces((V \ {y}) \ {c})
  BY <1>3, <1>6, <1>8
<1>11. (V \ {c}) \ {y} = (V \ {y}) \ {c}
  OBVIOUS
<1>12. c.n \in Nat /\ y.n \in Nat
  BY <1>2, <1>3, <1>4, StockBounds DEF Items
<1>13. Pieces((V \ {c}) \ {y}) \in Nat
  <2>1. (V \ {c}) \ {y} \in SUBSET Items /\ IsFiniteSet((V \ {c}) \ {y})
    BY <1>4, FS_Subset
  <2> QED
    BY <2>1, PiecesNat
<1> DEFINE m == Pieces((V \ {c}) \ {y})
<1>14. Pieces(V \ {y}) = c.n + m /\ Pieces(V) = c.n + (y.n + m)
  BY <1>7, <1>9, <1>10, <1>11
<1>15. m \in Nat
  BY <1>13
<1> HIDE DEF m
<1>16. c.n + (y.n + m) = y.n + (c.n + m)
  <2> HIDE DEF c
  <2> QED
    BY <1>12, <1>15
<1> QED
  BY <1>2, <1>14, <1>16

\* More items are no fewer pieces.
LEMMA PiecesGrow ==
  ASSUME NEW T \in SUBSET Items, IsFiniteSet(T), NEW S \in SUBSET T
  PROVE  Pieces(S) <= Pieces(T)
<1> DEFINE B == {V \in SUBSET T : S \subseteq V /\ ~(Pieces(S) <= Pieces(V))}
<1> SUFFICES ASSUME B # {} PROVE FALSE
  OBVIOUS
<1>1. PICK V \in B : \A W \in B : W \subseteq V => W = V
  <2>1. B \in SUBSET SUBSET T
    OBVIOUS
  <2> HIDE DEF B
  <2> QED
    BY <2>1, Minimal
<1>2. V \in SUBSET T /\ S \subseteq V /\ ~(Pieces(S) <= Pieces(V))
  BY <1>1
<1>3. \A W \in SUBSET T : IsFiniteSet(W) /\ Pieces(W) \in Nat
  <2> TAKE W \in SUBSET T
  <2>1. IsFiniteSet(W) /\ W \in SUBSET Items
    BY FS_Subset
  <2> QED
    BY <2>1, PiecesNat
<1>4. V # S
  BY <1>2, <1>3
<1>5. PICK x \in V : x \notin S
  BY <1>2, <1>4
<1>6. V \ {x} \in SUBSET T /\ S \subseteq V \ {x} /\ V \ {x} # V
  BY <1>2, <1>5
<1>7. Pieces(S) <= Pieces(V \ {x})
  BY <1>1, <1>6
<1>8. Pieces(V) = x.n + Pieces(V \ {x})
  <2>1. V \in SUBSET Items /\ IsFiniteSet(V)
    BY <1>2, <1>3
  <2> QED
    BY <2>1, PiecesSplit
<1>9. x.n \in Nat
  BY <1>2, <1>5, StockBounds DEF Items
<1>10. Pieces(S) \in Nat /\ Pieces(V \ {x}) \in Nat /\ Pieces(V) \in Nat
  BY <1>2, <1>3, <1>6
<1> HIDE DEF B
<1> QED
  BY <1>2, <1>7, <1>8, <1>9, <1>10

\* There are finitely many sale items within the bounds.
LEMMA ItemsFinite == IsFiniteSet(Items)
<1> DEFINE Keys == (Iids \X Pids) \X ((1..MaxQty) \X (BOOLEAN \X BOOLEAN))
           item(k) == [inv |-> k[1][1], of |-> k[1][2], n |-> k[2][1],
                       lost |-> k[2][2][1], over |-> k[2][2][2]]
           f == [k \in Keys |-> item(k)]
<1>1. IsFiniteSet(Iids) /\ IsFiniteSet(Pids) /\ IsFiniteSet(1..MaxQty)
  BY StockBounds, FS_Interval DEF Iids, Pids
<1>2. IsFiniteSet(BOOLEAN)
  <2>1. IsFiniteSet({TRUE} \cup {FALSE})
    BY FS_Singleton, FS_AddElement
  <2>2. BOOLEAN = {TRUE} \cup {FALSE}
    OBVIOUS
  <2> QED
    BY <2>1, <2>2
<1>3. IsFiniteSet(Keys)
  BY <1>1, <1>2, FS_Product
<1>4. f \in Surjection(Keys, Items)
  <2>1. f \in [Keys -> Items]
    BY DEF Items
  <2>2. ASSUME NEW x \in Items PROVE \E k \in Keys : f[k] = x
    <3> DEFINE k == <<<<x.inv, x.of>>, <<x.n, <<x.lost, x.over>>>>>>
    <3>1. k \in Keys
      BY DEF Items
    <3>2. item(k) = x
      BY DEF Items
    <3> QED
      BY <3>1, <3>2
  <2> HIDE DEF f, Keys
  <2> QED
    BY <2>1, <2>2 DEF Surjection
<1> HIDE DEF f, Keys
<1> QED
  BY <1>3, <1>4, FS_Surjection

-----------------------------------------------------------------------------
(***************************************************************************)
(* Tags.  A tag that was checked for a request stays free for it, but for  *)
(* the products whose use does not count, until the request saves: sales   *)
(* only take pieces away, and nobody else changes the stock.               *)
(***************************************************************************)
InUse(p)    == product[p] # None /\ product[p].quantity > Sold(p)
Clear(p, q) == carries[p] \cap carries[q] = {}
Exclusive   == \A p, q \in Pids : p # q /\ InUse(p) /\ InUse(q) => Clear(p, q)

\* The items of one invoice are of one product; invoices have ids that were
\* given out.
SameGoods == \A it, jt \in items : it.inv = jt.inv => it.of = jt.of
Issued == /\ \A it \in items : it.inv <= made.invoices
          /\ \A i \in Iids : i > made.invoices => invoice[i] = None

\* The tags a request is about, and those it has checked.
Wanted(r) == IF r.op \in {"create", "update"}
             THEN IF r.body.tags = None THEN {} ELSE r.body.tags
             ELSE UNION {carries[p] : p \in r.mine}
Checked(r) == ~r.bad => \A e \in Wanted(r) \ r.todo : Exceptions(e) \subseteq r.mine

\* What a request for an update knows of its product: how many pieces it has,
\* and items it had when it was loaded.  If there were pieces left then, no
\* other product uses its tags now.
Loaded(r) ==
  /\ r.mine = {r.id} /\ product[r.id] # None
  /\ r.row.quantity = product[r.id].quantity
  /\ r.seen \subseteq ItemsOf(r.id)
  /\ r.row.quantity > Pieces(r.seen)
     => \A q \in Pids \ {r.id} : InUse(q) => Clear(r.id, q)

Single(S) == \A p, q \in S : p = q

TagsHeld(r) ==
  /\ r.op = "sell" => Single(r.mine)
  /\ r.at \in {"upload", "save"} => ~r.bad
  /\ r.op = "create" => r.mine = {} /\ Checked(r)
  /\ r.op = "update" => Loaded(r) /\ Checked(r)
  /\ r.op = "deleteInvoice" =>
       /\ r.id <= made.invoices
       /\ r.at # "items" => /\ Checked(r) /\ Single(r.mine)
                            /\ \A it \in items : it.inv = r.id => it.of \in r.mine

TagsInv == /\ Exclusive /\ SameGoods /\ Issued
           /\ \A h \in Handlers : TagsHeld(req[h])

\* The pieces sold of a product.
LEMMA SoldPieces ==
  ASSUME TypeOK, NEW p
  PROVE  /\ Sold(p) = Pieces(ItemsOf(p)) /\ Sold(p) \in Nat
         /\ ItemsOf(p) \in SUBSET Items /\ IsFiniteSet(ItemsOf(p))
<1>1. ItemsOf(p) \in SUBSET Items
  BY DEF ItemsOf, TypeOK
<1>2. IsFiniteSet(ItemsOf(p))
  BY <1>1, ItemsFinite, FS_Subset
<1>3. Sold(p) = Pieces(ItemsOf(p))
  BY DEF Sold, Pieces, MapThenSumSet, MapThenFoldSet
<1> QED
  BY <1>1, <1>2, <1>3, PiecesNat

\* The products whose use of a tag is an exception.
LEMMA ExceptionsInUse ==
  ASSUME NEW e
  PROVE  Exceptions(e) = {p \in Pids : InUse(p) /\ e \in carries[p]}
BY DEF Exceptions, InUse

\* Sales add items of new invoices; products and their tags stay.
Grows ==
  /\ product' = product /\ carries' = carries
  /\ items \subseteq items' /\ made.invoices <= made'.invoices
  /\ \A it \in items' \ items : it.inv > made.invoices

\* Sales take pieces away: no product comes into use.
LEMMA LessInUse ==
  ASSUME TypeOK, TypeOK', Grows, NEW p \in Pids, InUse(p)'
  PROVE  InUse(p)
<1>1. ItemsOf(p) \subseteq ItemsOf(p)'
  BY DEF Grows, ItemsOf
<1>2. ItemsOf(p)' \in SUBSET Items
  BY DEF ItemsOf, TypeOK
<1>3. IsFiniteSet(ItemsOf(p)')
  BY <1>2, ItemsFinite, FS_Subset
<1>4. Sold(p)' = Pieces(ItemsOf(p)') /\ Sold(p) = Pieces(ItemsOf(p))
  BY DEF Sold, Pieces, MapThenSumSet, MapThenFoldSet
<1>5. Pieces(ItemsOf(p)) <= Pieces(ItemsOf(p)')
  BY <1>1, <1>2, <1>3, PiecesGrow
<1>6. Pieces(ItemsOf(p)) \in Nat /\ Pieces(ItemsOf(p)') \in Nat
  BY <1>2, <1>3, PiecesNat, SoldPieces
<1>7. product[p] # None /\ product[p].quantity > Sold(p)' /\ product[p].quantity \in Int
  BY StockBounds DEF InUse, Grows, TypeOK, Rows
<1> QED
  BY <1>4, <1>5, <1>6, <1>7 DEF InUse

\* What a request holds about tags, it still holds after a sale.
LEMMA HeldOn ==
  ASSUME TypeOK, TypeOK', Grows, NEW r, TagsHeld(r), r.op = "update" => r.id \in Pids,
         made.invoices \in Int, made'.invoices \in Int, r.id \in Int
  PROVE  TagsHeld(r)'
<1>1. ASSUME NEW e PROVE Exceptions(e)' \subseteq Exceptions(e)
  BY LessInUse DEF Exceptions, InUse, Grows
<1>2. Wanted(r)' = Wanted(r)
  BY DEF Wanted, Grows
<1>3. Checked(r) => Checked(r)'
  BY <1>1, <1>2 DEF Checked
<1>4. r.op = "update" /\ Loaded(r) => Loaded(r)'
  <2> SUFFICES ASSUME r.op = "update", Loaded(r) PROVE Loaded(r)'
    OBVIOUS
  <2>1. r.mine = {r.id} /\ product'[r.id] # None /\ r.row.quantity = product'[r.id].quantity
    BY DEF Loaded, Grows
  <2>2. r.seen \subseteq ItemsOf(r.id)'
    BY DEF Loaded, Grows, ItemsOf
  <2>3. ASSUME r.row.quantity > Pieces(r.seen), NEW q \in Pids \ {r.id}, InUse(q)'
        PROVE  Clear(r.id, q)'
    BY <2>3, LessInUse DEF Loaded, Grows, Clear
  <2> QED
    BY <2>1, <2>2, <2>3 DEF Loaded
<1>5. CASE r.op = "deleteInvoice"
  <2>1. r.id <= made'.invoices
    BY <1>5 DEF TagsHeld, Grows
  <2>2. ASSUME r.at # "items", NEW it \in items', it.inv = r.id PROVE it.of \in r.mine
    <3>1. it \in items
      BY <1>5, <2>2 DEF TagsHeld, Grows, TypeOK, Items, Iids
    <3> QED
      BY <1>5, <2>2, <3>1 DEF TagsHeld
  <2> QED
    BY <1>3, <1>5, <2>1, <2>2 DEF TagsHeld
<1>6. CASE r.op # "deleteInvoice"
  BY <1>3, <1>4, <1>6 DEF TagsHeld
<1> QED
  BY <1>5, <1>6

\* A step that changes no stock keeps the tags apart and what the other
\* requests hold.
LEMMA GrowStep ==
  ASSUME TypeOK, TypeOK', TagsInv, NEW h \in Handlers, Grows, SameGoods', Issued',
         \A g \in Handlers : g # h => req'[g] = req[g], TagsHeld(req[h])'
  PROVE  TagsInv'
<1>1. Exclusive'
  BY LessInUse DEF TagsInv, Exclusive, Clear, Grows
<1>2. ASSUME NEW g \in Handlers PROVE TagsHeld(req[g])'
  <2>1. CASE g # h
    <3>1. PICK r : r = req[g]
      OBVIOUS
    <3>2. req'[g] = r /\ TagsHeld(r) /\ r \in Reqs /\ Ready(r, tags)
      BY <2>1, <3>1, HandlerTyped DEF TagsInv
    <3>3. /\ r.op = "update" => r.id \in Pids
          /\ made.invoices \in Int /\ made'.invoices \in Int /\ r.id \in Int
      BY <3>2, StockBounds DEF TypeOK, Reqs, Ready
    <3>4. TagsHeld(r)'
      BY <3>2, <3>3, HeldOn
    <3> QED
      BY <3>2, <3>4
  <2> QED
    BY <2>1
<1> QED
  BY <1>1, <1>2 DEF TagsInv

LEMMA SoldNext ==
  ASSUME TypeOK', NEW p
  PROVE  /\ Sold(p)' = Pieces(ItemsOf(p)') /\ Sold(p)' \in Nat
         /\ ItemsOf(p)' \in SUBSET Items /\ IsFiniteSet(ItemsOf(p)')
<1>1. ItemsOf(p)' \in SUBSET Items
  BY DEF ItemsOf, TypeOK
<1>2. IsFiniteSet(ItemsOf(p)')
  BY <1>1, ItemsFinite, FS_Subset
<1>3. Sold(p)' = Pieces(ItemsOf(p)')
  BY DEF Sold, Pieces, MapThenSumSet, MapThenFoldSet
<1> QED
  BY <1>1, <1>2, <1>3, PiecesNat

\* Tables that stay: most steps change neither stock nor sales.
Still == /\ product' = product /\ carries' = carries /\ items' = items
         /\ invoice' = invoice /\ made'.invoices = made.invoices

LEMMA StillStep ==
  ASSUME TypeOK, TypeOK', TagsInv, NEW h \in Handlers, Still,
         \A g \in Handlers : g # h => req'[g] = req[g], TagsHeld(req[h])'
  PROVE  TagsInv'
<1>1. Grows
  BY DEF Still, Grows, TypeOK
<1>2. SameGoods' /\ Issued'
  BY DEF Still, TagsInv, SameGoods, Issued
<1> QED
  BY <1>1, <1>2, GrowStep

LEMMA StillValues ==
  ASSUME TypeOK, TypeOK', Still
  PROVE  /\ \A p : Sold(p)' = Sold(p) /\ ItemsOf(p)' = ItemsOf(p)
         /\ \A p \in Pids : InUse(p)' <=> InUse(p)
         /\ \A e : Exceptions(e)' = Exceptions(e)
<1>1. ASSUME NEW p PROVE Sold(p)' = Sold(p) /\ ItemsOf(p)' = ItemsOf(p)
  <2>1. ItemsOf(p)' = ItemsOf(p)
    BY DEF Still, ItemsOf
  <2> QED
    BY <2>1, SoldPieces, SoldNext
<1>2. \A p \in Pids : InUse(p)' <=> InUse(p)
  BY <1>1 DEF InUse, Still
<1>3. ASSUME NEW e PROVE Exceptions(e)' = Exceptions(e)
  BY <1>1 DEF Exceptions, Still
<1> QED
  BY <1>1, <1>2, <1>3

LEMMA IdleTags ==
  ASSUME NEW h \in Handlers, req'[h] = Idle
  PROVE  TagsHeld(req[h])'
BY DEF TagsHeld, Idle

\* A sale of at most one product.
LEMMA OneAtMost ==
  ASSUME MaxItems <= 1, NEW S \in SUBSET Pids, Cardinality(S) <= MaxItems
  PROVE  Single(S)
<1> SUFFICES ASSUME NEW p \in S, NEW q \in S, p # q PROVE FALSE
  BY DEF Single
<1>1. IsFiniteSet(Pids)
  BY StockBounds, FS_Interval DEF Pids
<1>2. IsFiniteSet(S)
  BY <1>1, FS_Subset
<1>3. IsFiniteSet({p, q}) /\ Cardinality({p, q}) = 2
  <2>1. IsFiniteSet({p}) /\ Cardinality({p}) = 1
    BY FS_Singleton
  <2>2. {p, q} = {p} \cup {q} /\ q \notin {p}
    OBVIOUS
  <2> QED
    BY <2>1, <2>2, FS_AddElement
<1>4. Cardinality({p, q}) <= Cardinality(S)
  BY <1>2, FS_Subset
<1>5. Cardinality(S) \in Nat
  BY <1>2, FS_CardinalityType
<1> QED
  BY <1>3, <1>4, <1>5, StockBounds

\* What requests about tags start with.
LEMMA CreateStarts ==
  ASSUME TypeOK, NEW h \in Handlers, CreateProduct(h)
  PROVE  /\ req'[h].op = "create" /\ req'[h].at = "tags" /\ req'[h].mine = {}
         /\ req'[h].todo = req'[h].body.tags
BY DEF CreateProduct, Asks, Becomes, Idle, TypeOK, NoChange

LEMMA SellStarts ==
  ASSUME TypeOK, NEW h \in Handlers, Sell(h)
  PROVE  /\ req'[h].op = "sell" /\ req'[h].mine \in SUBSET Pids
         /\ req'[h].at \in {"customer", "invoice"} /\ Cardinality(req'[h].mine) <= MaxItems
BY DEF Sell, Asks, Becomes, Idle, TypeOK

LEMMA DeleteInvoiceStarts ==
  ASSUME TypeOK, NEW h \in Handlers, DeleteInvoice(h)
  PROVE  /\ req'[h].op = "deleteInvoice" /\ req'[h].at = "items"
         /\ req'[h].id \in Iids /\ invoice[req'[h].id] # None
BY DEF DeleteInvoice, Asks, Becomes, Idle, TypeOK

LEMMA AsksTags ==
  ASSUME MaxItems <= 1, TypeOK, TypeOK', TagsInv, NEW h \in Handlers,
         CreateProduct(h) \/ UpdateProduct(h) \/ DeleteProduct(h) \/ Sell(h) \/ DeleteInvoice(h)
  PROVE  TagsInv'
<1>1. Still
  <2>1. UNCHANGED <<tables, disk, made, faults>>
    BY DEF CreateProduct, UpdateProduct, DeleteProduct, Sell, DeleteInvoice
  <2> QED
    BY <2>1 DEF Still, tables
<1>2. \A g \in Handlers : g # h => req'[g] = req[g]
  BY OthersStay DEF HandlerDoes, Products, Sales
<1>3. CASE CreateProduct(h)
  <2>1. /\ req'[h].op = "create" /\ req'[h].at = "tags" /\ req'[h].mine = {}
        /\ req'[h].todo = req'[h].body.tags
    BY <1>3, CreateStarts
  <2>2. Checked(req[h])'
    BY <2>1 DEF Checked, Wanted
  <2>3. TagsHeld(req[h])'
    BY <2>1, <2>2 DEF TagsHeld
  <2> QED
    BY <1>1, <1>2, <2>3, StillStep
<1>4. CASE UpdateProduct(h)
  <2>1. PICK p \in Pids, b \in AllUpdates :
           /\ product[p] # None
           /\ req'[h].op = "update" /\ req'[h].at = "tags" /\ req'[h].id = p
           /\ req'[h].mine = {p} /\ req'[h].body = b
           /\ req'[h].todo = IF b.tags = None THEN {} ELSE b.tags
           /\ req'[h].row = product[p] /\ req'[h].seen = ItemsOf(p)
    BY <1>4, UpdateStarts
  <2>2. Checked(req[h])'
    BY <2>1 DEF Checked, Wanted
  <2>3. Loaded(req[h])'
    <3>1. ASSUME product[p].quantity > Pieces(ItemsOf(p)), NEW q \in Pids \ {p}, InUse(q)'
          PROVE  Clear(p, q)'
      <4>1. InUse(p) /\ InUse(q)
        BY <1>1, <2>1, <3>1, SoldPieces, StillValues DEF InUse
      <4> QED
        BY <1>1, <4>1 DEF TagsInv, Exclusive, Clear, Still
    <3>2. ItemsOf(p)' = ItemsOf(p)
      BY <1>1, StillValues
    <3> QED
      BY <1>1, <2>1, <3>1, <3>2 DEF Loaded, Still
  <2>4. TagsHeld(req[h])'
    BY <2>1, <2>2, <2>3 DEF TagsHeld
  <2> QED
    BY <1>1, <1>2, <2>4, StillStep
<1>5. CASE DeleteProduct(h)
  <2>1. TagsHeld(req[h])'
    BY <1>5, Starts DEF TagsHeld
  <2> QED
    BY <1>1, <1>2, <2>1, StillStep
<1>6. CASE Sell(h)
  <2>1. /\ req'[h].op = "sell" /\ req'[h].at \in {"customer", "invoice"}
        /\ req'[h].mine \in SUBSET Pids /\ Cardinality(req'[h].mine) <= MaxItems
    BY <1>6, SellStarts
  <2>2. Single(req'[h].mine)
    BY <2>1, OneAtMost
  <2>3. TagsHeld(req[h])'
    BY <2>1, <2>2 DEF TagsHeld
  <2> QED
    BY <1>1, <1>2, <2>3, StillStep
<1>7. CASE DeleteInvoice(h)
  <2>1. /\ req'[h].op = "deleteInvoice" /\ req'[h].at = "items"
        /\ req'[h].id \in Iids /\ invoice[req'[h].id] # None
    BY <1>7, DeleteInvoiceStarts
  <2>2. req'[h].id <= made'.invoices
    BY <1>1, <2>1 DEF TagsInv, Issued, Still, Iids, TypeOK
  <2>3. TagsHeld(req[h])'
    BY <2>1, <2>2 DEF TagsHeld
  <2> QED
    BY <1>1, <1>2, <2>3, StillStep
<1> QED
  BY <1>3, <1>4, <1>5, <1>6, <1>7

\* A request goes on with the same work.
SameWork(r, s) ==
  /\ s.op = r.op /\ s.id = r.id /\ s.mine = r.mine /\ s.body = r.body /\ s.todo = r.todo
  /\ s.bad = r.bad /\ s.seen = r.seen /\ s.row.quantity = r.row.quantity

LEMMA WorkHeld ==
  ASSUME NEW r, NEW s, SameWork(r, s), TagsHeld(r), r.at # "items",
         s.at \in {"upload", "save"} => ~r.bad
  PROVE  TagsHeld(s)
<1>1. Wanted(s) = Wanted(r)
  BY DEF Wanted, SameWork
<1>2. Checked(s) <=> Checked(r)
  BY <1>1 DEF Checked, SameWork
<1>3. Loaded(s) <=> Loaded(r)
  BY DEF Loaded, SameWork
<1> QED
  BY <1>2, <1>3 DEF TagsHeld, SameWork

\* While nothing in the tables changes, it holds about tags what it held.
LEMMA StillHeld ==
  ASSUME TypeOK, TypeOK', Still, NEW h \in Handlers, TagsHeld(req'[h])
  PROVE  TagsHeld(req[h])'
<1>1. PICK s : s = req'[h]
  OBVIOUS
<1>2. TagsHeld(s) /\ s \in Reqs /\ (s.op = "update" => s.id \in Pids)
  BY <1>1 DEF TypeOK, Ready
<1>3. made.invoices \in Int /\ made'.invoices \in Int /\ s.id \in Int
  BY <1>2, StockBounds DEF TypeOK, Reqs
<1>4. Grows
  BY DEF Still, Grows, TypeOK
<1>5. TagsHeld(s)'
  BY <1>2, <1>3, <1>4, HeldOn
<1> QED
  BY <1>1, <1>5

LEMMA GoesTags ==
  ASSUME TypeOK, TypeOK', TagsInv, NEW h \in Handlers, Still,
         \A g \in Handlers : g # h => req'[g] = req[g],
         SameWork(req[h], req'[h]), req[h].at # "items",
         req'[h].at \in {"upload", "save"} => ~req[h].bad
  PROVE  TagsInv'
<1>1. TagsHeld(req'[h])
  BY WorkHeld DEF TagsInv
<1> QED
  BY <1>1, StillHeld, StillStep

LEMMA GoesWork ==
  ASSUME TypeOK, NEW h \in Handlers, NEW at, Goes(h, at)
  PROVE  SameWork(req[h], req'[h]) /\ req'[h].at = at
BY GoesOn DEF SameWork

\* Requests that end, or go on to their next table or file.
LEMMA StepsTags ==
  ASSUME TypeOK, TypeOK', TagsInv, NEW h \in Handlers,
         \/ CountSales(h) \/ SaveCustomer(h) \/ RemovePhotos(h) \/ DeleteFiles(h)
         \/ Refuse(h) \/ Fail(h)
  PROVE  TagsInv'
<1>1. Still
  BY DEF Still, CountSales, SaveCustomer, RemovePhotos, DeleteFiles, Refuse, Fail, tables
<1>2. \A g \in Handlers : g # h => req'[g] = req[g]
  BY OthersStay DEF HandlerDoes, Products, Sales, Files, TagLoop
<1>3. CASE Ends(h)
  BY <1>1, <1>2, <1>3, EndsIdle, IdleTags, StillStep
<1>4. CASE ~Ends(h)
  <2>1. \/ Goes(h, "row") /\ req[h].at = "count"
        \/ Goes(h, "invoice") /\ req[h].at = "customer"
        \/ Goes(h, "upload") /\ req[h].at = "tags" /\ ~req[h].bad
    BY <1>4 DEF CountSales, SaveCustomer, RemovePhotos, DeleteFiles, Refuse, Fail, Accepted
  <2>2. SameWork(req[h], req'[h]) /\ req'[h].at \in {"row", "invoice", "upload"}
    BY <2>1, GoesWork
  <2>3. req[h].at # "items" /\ (req'[h].at \in {"upload", "save"} => ~req[h].bad)
    BY <2>1, GoesWork
  <2> QED
    BY <1>1, <1>2, <2>2, <2>3, GoesTags
<1> QED
  BY <1>3, <1>4

LEMMA UploadTags ==
  ASSUME TypeOK, TypeOK', TagsInv, NEW h \in Handlers, UploadFiles(h)
  PROVE  TagsInv'
<1>1. Still
  BY DEF Still, UploadFiles, tables, TypeOK
<1>2. \A g \in Handlers : g # h => req'[g] = req[g]
  BY OthersStay DEF HandlerDoes, Files
<1>3. req[h].at \in {"upload", "tags"} /\ ~req[h].bad /\ req[h].op \in {"create", "update"}
  BY HandlerTyped DEF UploadFiles, Accepted, TagsInv, TagsHeld, Ready
<1>4. req[h] \in Reqs /\ req[h].row \in Rows
  BY <1>3, HandlerTyped DEF Ready
<1> DEFINE f == made.files + 1
           r == [req[h] EXCEPT !.at = "save", !.row.photo = f]
<1>5. Becomes(h, r)
  BY DEF UploadFiles
<1> HIDE DEF f
<1>6. SameWork(req[h], r) /\ r.at = "save"
  <2>1. /\ r.at = "save" /\ r.op = req[h].op /\ r.id = req[h].id /\ r.mine = req[h].mine
        /\ r.body = req[h].body /\ r.todo = req[h].todo /\ r.bad = req[h].bad
        /\ r.seen = req[h].seen
    BY <1>4 DEF Reqs
  <2>2. r.row = [req[h].row EXCEPT !.photo = f]
    BY <1>4 DEF Reqs
  <2>3. [req[h].row EXCEPT !.photo = f].quantity = req[h].row.quantity
    BY <1>4 DEF Rows
  <2> QED
    BY <2>1, <2>2, <2>3 DEF SameWork
<1> HIDE DEF r
<1>7. req'[h] = r
  BY <1>5, BecomesOne
<1> QED
  BY <1>1, <1>2, <1>3, <1>6, <1>7, GoesTags

\* A tag is done with when it is no exception, or the request is refused.
LEMMA DoneWith ==
  ASSUME NEW r, NEW s, NEW e, TagsHeld(r), r.at \in {"tags", "newTag"}, s.at = "tags",
         s.op = r.op, s.id = r.id, s.mine = r.mine, s.body = r.body, s.seen = r.seen,
         s.row = r.row, s.todo = r.todo \ {e},
         ~s.bad => ~r.bad /\ Exceptions(e) \subseteq r.mine
  PROVE  TagsHeld(s)
<1>1. Wanted(s) = Wanted(r)
  BY DEF Wanted
<1>2. Checked(r) => Checked(s)
  BY <1>1 DEF Checked
<1>3. Loaded(s) <=> Loaded(r)
  BY DEF Loaded
<1> QED
  BY <1>2, <1>3 DEF TagsHeld

LEMMA CheckTags ==
  ASSUME TypeOK, TypeOK', TagsInv, NEW h \in Handlers, NEW e \in Epcs, CheckTag(h, e)
  PROVE  TagsInv'
<1>1. Still
  BY DEF Still, CheckTag, tables
<1>2. \A g \in Handlers : g # h => req'[g] = req[g]
  BY OthersStay DEF HandlerDoes, TagLoop
<1>3. req[h] \in Reqs /\ TagsHeld(req[h]) /\ req[h].at = "tags"
  BY HandlerTyped DEF TagsInv, CheckTag
<1>4. CASE e \in tags
  <2> DEFINE todo == req[h].todo \ {e}
             bad  == req[h].bad \/ Exceptions(e) \ req[h].mine # {}
             r    == [req[h] EXCEPT !.todo = todo, !.bad = bad]
  <2>1. Becomes(h, r)
    BY <1>4 DEF CheckTag
  <2>2. ~bad => ~req[h].bad /\ Exceptions(e) \subseteq req[h].mine
    OBVIOUS
  <2>3. todo = req[h].todo \ {e}
    OBVIOUS
  <2> HIDE DEF todo, bad
  <2>4. /\ r.at = req[h].at /\ r.op = req[h].op /\ r.id = req[h].id /\ r.mine = req[h].mine
        /\ r.body = req[h].body /\ r.todo = todo /\ r.bad = bad
        /\ r.seen = req[h].seen /\ r.row = req[h].row
    BY <1>3 DEF Reqs
  <2> HIDE DEF r
  <2>5. TagsHeld(r)
    BY <1>3, <2>2, <2>3, <2>4, DoneWith
  <2>6. req'[h] = r
    BY <2>1, BecomesOne
  <2> QED
    BY <1>1, <1>2, <2>5, <2>6, StillHeld, StillStep
<1>5. CASE e \notin tags
  <2> DEFINE r == [req[h] EXCEPT !.at = "newTag", !.fresh = e]
  <2>1. Becomes(h, r)
    BY <1>5 DEF CheckTag
  <2>2. SameWork(req[h], r) /\ r.at = "newTag"
    <3>1. /\ r.at = "newTag" /\ r.op = req[h].op /\ r.id = req[h].id /\ r.mine = req[h].mine
          /\ r.body = req[h].body /\ r.todo = req[h].todo /\ r.bad = req[h].bad
          /\ r.seen = req[h].seen /\ r.row = req[h].row
      BY <1>3 DEF Reqs
    <3> QED
      BY <3>1 DEF SameWork
  <2> HIDE DEF r
  <2>3. req'[h] = r
    BY <2>1, BecomesOne
  <2> QED
    BY <1>1, <1>2, <1>3, <2>2, <2>3, GoesTags
<1> QED
  BY <1>4, <1>5

\* A tag without a row is carried by no product.
LEMMA CreateTags ==
  ASSUME TypeOK, TypeOK', TagsInv, NEW h \in Handlers, CreateTag(h)
  PROVE  TagsInv'
<1>1. Still
  BY DEF Still, CreateTag
<1>2. \A g \in Handlers : g # h => req'[g] = req[g]
  BY OthersStay DEF HandlerDoes, TagLoop
<1>3. req[h] \in Reqs /\ TagsHeld(req[h]) /\ req[h].at = "newTag"
  BY HandlerTyped DEF TagsInv, CreateTag
<1>4. CASE req[h].fresh \in tags
  BY <1>1, <1>2, <1>4, EndsIdle, IdleTags, StillStep DEF CreateTag
<1>5. CASE req[h].fresh \notin tags
  <2> DEFINE e    == req[h].fresh
             todo == req[h].todo \ {e}
             r    == [req[h] EXCEPT !.at = "tags", !.todo = todo, !.fresh = None]
  <2>1. Becomes(h, r)
    BY <1>5 DEF CreateTag
  <2>2. Exceptions(e) = {}
    BY <1>5 DEF Exceptions, TypeOK
  <2>3. todo = req[h].todo \ {e}
    OBVIOUS
  <2> HIDE DEF todo, e
  <2>4. /\ r.at = "tags" /\ r.op = req[h].op /\ r.id = req[h].id /\ r.mine = req[h].mine
        /\ r.body = req[h].body /\ r.todo = todo /\ r.bad = req[h].bad
        /\ r.seen = req[h].seen /\ r.row = req[h].row
    BY <1>3 DEF Reqs
  <2> HIDE DEF r
  <2>5. TagsHeld(r)
    BY <1>3, <2>2, <2>3, <2>4, DoneWith
  <2>6. req'[h] = r
    BY <2>1, BecomesOne
  <2> QED
    BY <1>1, <1>2, <2>5, <2>6, StillHeld, StillStep
<1> QED
  BY <1>4, <1>5

\* The items of an invoice are of one product: its tags are still to be checked.
LEMMA LoadTags ==
  ASSUME TypeOK, TypeOK', TagsInv, NEW h \in Handlers, LoadItems(h)
  PROVE  TagsInv'
<1>1. Still
  BY DEF Still, LoadItems, tables
<1>2. \A g \in Handlers : g # h => req'[g] = req[g]
  BY OthersStay DEF HandlerDoes, Sales
<1>3. /\ req[h] \in Reqs /\ TagsHeld(req[h]) /\ req[h].at = "items"
      /\ req[h].op = "deleteInvoice"
  BY HandlerTyped DEF TagsInv, LoadItems, Ready
<1>4. CASE Ends(h)
  BY <1>1, <1>2, <1>4, EndsIdle, IdleTags, StillStep
<1>5. CASE ~Ends(h)
  <2> DEFINE goods == {it.of : it \in {it \in items : it.inv = req[h].id}}
             todo  == UNION {carries[p] : p \in goods}
             r     == [req[h] EXCEPT !.at = "tags", !.mine = goods, !.todo = todo]
  <2>1. Becomes(h, r)
    BY <1>5 DEF LoadItems
  <2>2. Single(goods) /\ \A it \in items : it.inv = req[h].id => it.of \in goods
    BY DEF Single, TagsInv, SameGoods
  <2>3. todo = UNION {carries[p] : p \in goods}
    OBVIOUS
  <2> HIDE DEF goods, todo
  <2>4. /\ r.at = "tags" /\ r.op = req[h].op /\ r.id = req[h].id /\ r.mine = goods
        /\ r.body = req[h].body /\ r.todo = todo /\ r.bad = req[h].bad
    BY <1>3 DEF Reqs
  <2> HIDE DEF r
  <2>5. Checked(r)
    BY <1>3, <2>3, <2>4 DEF Checked, Wanted
  <2>6. req[h].id <= made.invoices
    BY <1>3 DEF TagsHeld
  <2>7. TagsHeld(r)
    BY <1>3, <2>2, <2>4, <2>5, <2>6 DEF TagsHeld
  <2>8. req'[h] = r
    BY <2>1, BecomesOne
  <2> QED
    BY <1>1, <1>2, <2>7, <2>8, StillHeld, StillStep
<1> QED
  BY <1>4, <1>5

\* A saved invoice takes pieces of one product, under a new id.
LEMMA InvoiceTags ==
  ASSUME TypeOK, TypeOK', TagsInv, NEW h \in Handlers, SaveInvoice(h)
  PROVE  TagsInv'
<1>1. \A g \in Handlers : g # h => req'[g] = req[g]
  BY OthersStay DEF HandlerDoes, Sales
<1>2. TagsHeld(req[h])'
  BY EndsIdle, IdleTags DEF SaveInvoice
<1>3. CASE \E p \in req[h].mine : product[p] = None
  <2>1. Still
    BY <1>3 DEF SaveInvoice, Still
  <2> QED
    BY <1>1, <1>2, <2>1, StillStep
<1>4. CASE \A p \in req[h].mine : product[p] # None
  <2> DEFINE i   == made.invoices + 1
             new == {[inv |-> i, of |-> p, n |-> req[h].n, lost |-> FALSE,
                      over |-> Updating(p)] : p \in req[h].mine}
  <2>1. /\ product' = product /\ carries' = carries /\ items' = items \cup new
        /\ made'.invoices = i /\ invoice' = [invoice EXCEPT ![i] = req[h].user]
    BY <1>4 DEF SaveInvoice, TypeOK
  <2>2. made.invoices \in Nat /\ i > made.invoices
    BY StockBounds DEF TypeOK
  <2>3. Single(req[h].mine)
    BY HandlerTyped DEF SaveInvoice, Ready, TagsInv, TagsHeld
  <2>4. \A it, jt \in new : it.inv = i /\ it.of = jt.of
    BY <2>3 DEF Single
  <2> HIDE DEF new
  <2>5. Grows
    BY <2>1, <2>2, <2>4 DEF Grows
  <2>6. \A it \in items : it.inv # i /\ it.inv <= i
    <3> SUFFICES ASSUME NEW it \in items PROVE it.inv # i /\ it.inv <= i
      OBVIOUS
    <3>1. it.inv \in Int /\ it.inv <= made.invoices
      BY DEF TagsInv, Issued, TypeOK, Items, Iids
    <3> QED
      BY <2>2, <3>1
  <2>7. SameGoods'
    <3> SUFFICES ASSUME NEW it \in items', NEW jt \in items', it.inv = jt.inv PROVE it.of = jt.of
      BY DEF SameGoods
    <3> QED
      BY <2>1, <2>4, <2>6 DEF TagsInv, SameGoods
  <2>8. Issued'
    <3>1. \A it \in items' : it.inv <= made'.invoices
      BY <2>1, <2>2, <2>4, <2>6
    <3>2. ASSUME NEW j \in Iids, j > made'.invoices PROVE invoice'[j] = None
      <4>1. j # i /\ j > made.invoices
        BY <2>1, <2>2, <3>2 DEF Iids
      <4> QED
        BY <2>1, <4>1 DEF TagsInv, Issued, TypeOK
    <3> QED
      BY <3>1, <3>2 DEF Issued
  <2> QED
    BY <1>1, <1>2, <2>5, <2>7, <2>8, GrowStep
<1> QED
  BY <1>3, <1>4

\* While a clerk changes the stock, the others sell or do nothing.
Selling(h) == \A g \in Handlers : g # h => req[g].op \in {"idle", "sell"}

LEMMA OthersSell ==
  ASSUME OneClerk, Asked, TypeOK, NEW h \in Handlers, req[h].op \notin {"idle", "sell"}
  PROVE  Selling(h)
<1>1. req[h].op \in Does[h] \ {"sell"}
  BY DEF Asked
<1> SUFFICES ASSUME NEW g \in Handlers, g # h, req[g].op \notin {"idle", "sell"} PROVE FALSE
  BY DEF Selling
<1>2. req[g].op \in Does[g] \ {"sell"}
  BY DEF Asked
<1> QED
  BY <1>1, <1>2 DEF OneClerk

\* Sales hold nothing a clerk could change.
LEMMA ClerkStep ==
  ASSUME TypeOK, TagsInv, NEW h \in Handlers, Selling(h), Exclusive', SameGoods', Issued',
         \A g \in Handlers : g # h => req'[g] = req[g], TagsHeld(req[h])'
  PROVE  TagsInv'
<1>1. ASSUME NEW g \in Handlers, g # h PROVE TagsHeld(req[g])'
  <2>1. req'[g] = req[g] /\ TagsHeld(req[g]) /\ req[g].op \in {"idle", "sell"}
    BY <1>1 DEF TagsInv, Selling
  <2> QED
    BY <2>1 DEF TagsHeld
<1> QED
  BY <1>1 DEF TagsInv

\* When one product changes, the others stay apart as they were.
LEMMA ExclusiveBut ==
  ASSUME TagsInv, NEW p \in Pids,
         \A q \in Pids \ {p} : carries'[q] = carries[q] /\ (InUse(q)' => InUse(q)),
         \A q \in Pids \ {p} : InUse(p)' /\ InUse(q)' => Clear(p, q)'
  PROVE  Exclusive'
<1> SUFFICES ASSUME NEW q \in Pids, NEW s \in Pids, q # s, InUse(q)', InUse(s)'
             PROVE  Clear(q, s)'
  BY DEF Exclusive
<1>1. CASE q = p
  BY <1>1
<1>2. CASE s = p
  <2>1. Clear(p, q)'
    BY <1>2
  <2> QED
    BY <1>2, <2>1 DEF Clear
<1>3. CASE q # p /\ s # p
  BY <1>3 DEF TagsInv, Exclusive, Clear
<1> QED
  BY <1>1, <1>2, <1>3

\* A saved product takes tags nobody uses.
LEMMA SaveProductTags ==
  ASSUME TypeOK, TypeOK', TagsInv, NEW h \in Handlers, Selling(h), SaveProduct(h)
  PROVE  TagsInv'
<1>0. PICK p : p = made.products + 1
  OBVIOUS
<1>1. /\ product' = [product EXCEPT ![p] = req[h].row] /\ items' = items
      /\ carries' = [carries EXCEPT ![p] = req[h].body.tags] /\ invoice' = invoice
      /\ made'.invoices = made.invoices /\ req'[h] = Idle
  BY <1>0, EndsIdle DEF SaveProduct, TypeOK
<1>2. p \in Pids
  <2>1. made.products \in Nat /\ made.products < MaxProducts /\ MaxProducts \in Nat
    BY StockBounds DEF SaveProduct, TypeOK
  <2> QED
    BY <1>0, <2>1 DEF Pids
<1>3. /\ req[h].op = "create" /\ req[h].todo = {} /\ ~req[h].bad
      /\ req[h].body.tags # None /\ TagsHeld(req[h])
  BY HandlerTyped DEF SaveProduct, Saves, Accepted, Ready, TagsInv, TagsHeld
<1>4. \A e \in req[h].body.tags : Exceptions(e) = {}
  <2>1. req[h].mine = {} /\ Checked(req[h]) /\ Wanted(req[h]) = req[h].body.tags
    BY <1>3 DEF TagsHeld, Wanted
  <2> QED
    BY <1>3, <2>1 DEF Checked
<1>5. \A q \in Pids : Sold(q)' = Sold(q)
  <2> TAKE q \in Pids
  <2>1. ItemsOf(q)' = ItemsOf(q)
    BY <1>1 DEF ItemsOf
  <2> QED
    BY <2>1, SoldPieces, SoldNext
<1>6. ASSUME NEW q \in Pids \ {p}
      PROVE  carries'[q] = carries[q] /\ (InUse(q)' => InUse(q))
  BY <1>1, <1>2, <1>5 DEF InUse, TypeOK
<1>7. ASSUME NEW q \in Pids \ {p}, InUse(q)' PROVE Clear(p, q)'
  <2>1. carries'[p] = req[h].body.tags /\ carries'[q] = carries[q] /\ InUse(q)
    BY <1>1, <1>2, <1>6, <1>7 DEF TypeOK
  <2>2. \A e \in carries[q] : q \in Exceptions(e)
    BY <2>1, ExceptionsInUse
  <2> QED
    BY <1>4, <2>1, <2>2 DEF Clear
<1>8. Exclusive'
  BY <1>2, <1>6, <1>7, ExclusiveBut
<1>9. SameGoods' /\ Issued'
  BY <1>1 DEF TagsInv, SameGoods, Issued
<1> QED
  <2>1. \A g \in Handlers : g # h => req'[g] = req[g]
    BY OthersStay DEF HandlerDoes, Products
  <2> QED
    BY <1>1, <1>8, <1>9, <2>1, IdleTags, ClerkStep

\* An updated product takes tags nobody else uses, or keeps its own: it comes
\* back into use only when it was in use at the start of the update.
LEMMA SaveUpdateTags ==
  ASSUME TypeOK, TypeOK', TagsInv, NEW h \in Handlers, Selling(h), SaveUpdate(h)
  PROVE  TagsInv'
<1>0. PICK p : p = req[h].id
  OBVIOUS
<1> DEFINE row  == [req[h].row EXCEPT !.inventory = (req[h].body.inventory = TRUE)]
           less == {IF it \in ItemsOf(p) \ req[h].seen THEN [it EXCEPT !.lost = TRUE] ELSE it :
                    it \in items}
<1>1. /\ req[h].op = "update" /\ req[h].todo = {} /\ ~req[h].bad /\ TagsHeld(req[h])
      /\ p \in Pids /\ req[h].row \in Rows
  BY <1>0, HandlerTyped DEF SaveUpdate, Saves, Accepted, Ready, TagsInv, TagsHeld
<1>2. Loaded(req[h]) /\ Checked(req[h])
  BY <1>1 DEF TagsHeld
<1>3. product[p] # None /\ req[h].mine = {p} /\ req[h].seen \subseteq ItemsOf(p)
  BY <1>0, <1>2 DEF Loaded
<1>4. /\ product' = [product EXCEPT ![p] = row] /\ items' = less
      /\ carries' = IF req[h].body.tags = None THEN carries
                    ELSE [carries EXCEPT ![p] = req[h].body.tags]
      /\ invoice' = invoice /\ made' = made /\ req'[h] = Idle
  BY <1>0, <1>3, EndsIdle DEF SaveUpdate
<1>5. row.quantity = req[h].row.quantity
  BY <1>1 DEF Rows
<1> HIDE DEF row
<1>6. ASSUME NEW it \in items
      PROVE  /\ [it EXCEPT !.lost = TRUE].inv = it.inv /\ [it EXCEPT !.lost = TRUE].of = it.of
             /\ [it EXCEPT !.lost = TRUE].lost
  BY DEF TypeOK, Items
<1>7. \A jt \in items' : \E it \in items : jt.inv = it.inv /\ jt.of = it.of
  BY <1>4, <1>6
<1>8. SameGoods' /\ Issued'
  <2>1. SameGoods'
    BY <1>7 DEF TagsInv, SameGoods
  <2>2. Issued'
    BY <1>4, <1>7 DEF TagsInv, Issued
  <2> QED
    BY <2>1, <2>2
<1>9. ItemsOf(p)' = req[h].seen
  <2>1. ASSUME NEW jt \in ItemsOf(p)' PROVE jt \in req[h].seen
    <3>1. PICK it \in items : jt = IF it \in ItemsOf(p) \ req[h].seen
                                   THEN [it EXCEPT !.lost = TRUE] ELSE it
      BY <1>4, <2>1 DEF ItemsOf
    <3>2. jt.of = p /\ ~jt.lost
      BY <2>1 DEF ItemsOf
    <3>3. it \notin ItemsOf(p) \ req[h].seen
      BY <1>6, <3>1, <3>2
    <3> QED
      BY <3>1, <3>2, <3>3 DEF ItemsOf
  <2>2. ASSUME NEW it \in req[h].seen PROVE it \in ItemsOf(p)'
    <3>1. it \in items /\ it.of = p /\ ~it.lost
      BY <1>3, <2>2 DEF ItemsOf
    <3>2. it \in items'
      BY <1>4, <2>2, <3>1
    <3> QED
      BY <3>1, <3>2 DEF ItemsOf
  <2> QED
    BY <2>1, <2>2
<1>10. ASSUME NEW q \in Pids \ {p} PROVE ItemsOf(q)' = ItemsOf(q)
  <2>1. ASSUME NEW jt \in ItemsOf(q)' PROVE jt \in ItemsOf(q)
    <3>1. PICK it \in items : jt = IF it \in ItemsOf(p) \ req[h].seen
                                   THEN [it EXCEPT !.lost = TRUE] ELSE it
      BY <1>4, <2>1 DEF ItemsOf
    <3>2. jt.of = q /\ ~jt.lost
      BY <2>1 DEF ItemsOf
    <3>3. it \notin ItemsOf(p) \ req[h].seen
      BY <1>6, <3>1, <3>2
    <3> QED
      BY <3>1, <3>2, <3>3 DEF ItemsOf
  <2>2. ASSUME NEW it \in ItemsOf(q) PROVE it \in ItemsOf(q)'
    <3>1. it \in items /\ it.of = q /\ ~it.lost
      BY <2>2 DEF ItemsOf
    <3>2. it \notin ItemsOf(p)
      BY <1>10, <3>1 DEF ItemsOf
    <3>3. it \in items'
      BY <1>4, <3>1, <3>2
    <3> QED
      BY <3>1, <3>3 DEF ItemsOf
  <2> QED
    BY <2>1, <2>2
<1> HIDE DEF less
<1>11. ASSUME NEW q \in Pids \ {p}
       PROVE  carries'[q] = carries[q] /\ (InUse(q)' => InUse(q))
  <2>1. Sold(q)' = Sold(q)
    BY <1>10, SoldPieces, SoldNext
  <2>2. product'[q] = product[q] /\ carries'[q] = carries[q]
    BY <1>1, <1>4 DEF TypeOK
  <2> QED
    BY <2>1, <2>2 DEF InUse
<1>12. ASSUME NEW q \in Pids \ {p}, InUse(p)', InUse(q)' PROVE Clear(p, q)'
  <2>1. InUse(q) /\ carries'[q] = carries[q]
    BY <1>11, <1>12
  <2>2. CASE req[h].body.tags = None
    <3>1. carries'[p] = carries[p]
      BY <1>4, <2>2
    <3>2. req[h].row.quantity > Pieces(req[h].seen)
      <4>1. product'[p].quantity = req[h].row.quantity
        BY <1>1, <1>4, <1>5 DEF TypeOK
      <4>2. Sold(p)' = Pieces(req[h].seen)
        BY <1>9, SoldNext
      <4> QED
        BY <1>12, <4>1, <4>2 DEF InUse
    <3>3. Clear(p, q)
      BY <1>0, <1>2, <2>1, <3>2 DEF Loaded
    <3> QED
      BY <2>1, <3>1, <3>3 DEF Clear
  <2>3. CASE req[h].body.tags # None
    <3>1. carries'[p] = req[h].body.tags
      BY <1>1, <1>4, <2>3 DEF TypeOK
    <3>2. Wanted(req[h]) = req[h].body.tags
      BY <1>1, <2>3 DEF Wanted
    <3>3. \A e \in req[h].body.tags : q \notin Exceptions(e)
      BY <1>1, <1>2, <1>3, <3>2 DEF Checked
    <3>4. \A e \in carries[q] : q \in Exceptions(e)
      BY <2>1, ExceptionsInUse
    <3> QED
      BY <2>1, <3>1, <3>3, <3>4 DEF Clear
  <2> QED
    BY <2>2, <2>3
<1>13. Exclusive'
  BY <1>1, <1>11, <1>12, ExclusiveBut
<1> QED
  <2>1. \A g \in Handlers : g # h => req'[g] = req[g]
    BY OthersStay DEF HandlerDoes, Products
  <2> QED
    BY <1>4, <1>8, <1>13, <2>1, IdleTags, ClerkStep

\* A deleted product uses no tags.
LEMMA DeleteRowTags ==
  ASSUME TypeOK, TypeOK', TagsInv, NEW h \in Handlers, Selling(h), DeleteRow(h)
  PROVE  TagsInv'
<1>0. PICK p : p = req[h].id
  OBVIOUS
<1>1. /\ items' = items /\ invoice' = invoice /\ made' = made /\ req[h].at = "row"
      /\ req[h].op = "delete" /\ p \in Pids
  BY <1>0, HandlerTyped DEF DeleteRow, Ready
<1>2. \A g \in Handlers : g # h => req'[g] = req[g]
  BY OthersStay DEF HandlerDoes, Products
<1>3. CASE Ends(h) /\ UNCHANGED <<product, carries>>
  <2>1. Still
    BY <1>1, <1>3 DEF Still
  <2> QED
    BY <1>2, <1>3, <2>1, EndsIdle, IdleTags, StillStep
<1>4. CASE ~(Ends(h) /\ UNCHANGED <<product, carries>>)
  <2>1. /\ product' = [product EXCEPT ![p] = None] /\ carries' = [carries EXCEPT ![p] = {}]
        /\ Goes(h, "files")
    BY <1>0, <1>4 DEF DeleteRow
  <2>2. req'[h].at = "files" /\ req'[h].op = "delete"
    BY <1>1, <2>1, GoesKeeps
  <2>3. TagsHeld(req[h])'
    BY <2>2 DEF TagsHeld
  <2>4. ASSUME NEW q \in Pids \ {p}
        PROVE  carries'[q] = carries[q] /\ (InUse(q)' => InUse(q))
    <3>1. ItemsOf(q)' = ItemsOf(q)
      BY <1>1 DEF ItemsOf
    <3>2. Sold(q)' = Sold(q)
      BY <3>1, SoldPieces, SoldNext
    <3> QED
      BY <1>1, <2>1, <3>2 DEF InUse, TypeOK
  <2>5. ~InUse(p)'
    BY <1>1, <2>1 DEF InUse, TypeOK
  <2>6. Exclusive'
    BY <1>1, <2>4, <2>5, ExclusiveBut
  <2>7. SameGoods' /\ Issued'
    BY <1>1 DEF TagsInv, SameGoods, Issued
  <2> QED
    BY <1>2, <2>3, <2>6, <2>7, ClerkStep
<1> QED
  BY <1>3, <1>4

\* The product of a deleted invoice comes back into use: its tags were checked.
LEMMA DropInvoiceTags ==
  ASSUME TypeOK, TypeOK', TagsInv, NEW h \in Handlers, Selling(h), DropInvoice(h)
  PROVE  TagsInv'
<1>1. /\ product' = product /\ carries' = carries /\ made' = made /\ req'[h] = Idle
      /\ invoice' = [invoice EXCEPT ![req[h].id] = None]
      /\ items' = {it \in items : it.inv # req[h].id}
  BY EndsIdle DEF DropInvoice
<1>2. /\ req[h].op = "deleteInvoice" /\ req[h].todo = {} /\ ~req[h].bad /\ TagsHeld(req[h])
      /\ req[h].at # "items"
  BY HandlerTyped DEF DropInvoice, Saves, Accepted, Ready, TagsInv, TagsHeld
<1> DEFINE mine == req[h].mine
<1>3. /\ Checked(req[h]) /\ Single(mine)
      /\ \A it \in items : it.inv = req[h].id => it.of \in mine
  BY <1>2 DEF TagsHeld
<1>4. \A p \in mine : \A e \in carries[p] : Exceptions(e) \subseteq mine
  BY <1>2, <1>3 DEF Checked, Wanted
<1>5. mine \subseteq Pids
  BY HandlerTyped DEF Reqs
<1> HIDE DEF mine
<1>6. ASSUME NEW q \in Pids, q \notin mine PROVE InUse(q)' => InUse(q)
  <2>1. ItemsOf(q)' = ItemsOf(q)
    BY <1>1, <1>3, <1>6 DEF ItemsOf
  <2>2. Sold(q)' = Sold(q)
    BY <2>1, SoldPieces, SoldNext
  <2> QED
    BY <1>1, <2>2 DEF InUse
<1>7. Exclusive'
  <2>1. CASE mine = {}
    BY <1>1, <1>6, <2>1 DEF TagsInv, Exclusive, Clear
  <2>2. CASE mine # {}
    <3>1. PICK p : p \in mine
      BY <2>2
    <3>2. p \in Pids /\ \A q \in Pids \ {p} : q \notin mine
      BY <1>3, <1>5, <3>1 DEF Single
    <3>3. ASSUME NEW q \in Pids \ {p}, InUse(q)' PROVE Clear(p, q)'
      <4>1. InUse(q) /\ q \notin mine
        BY <1>6, <3>2, <3>3
      <4>2. \A e \in carries[q] : q \in Exceptions(e)
        BY <4>1, ExceptionsInUse
      <4> QED
        BY <1>1, <1>4, <3>1, <4>1, <4>2 DEF Clear
    <3> QED
      BY <1>1, <1>6, <3>2, <3>3, ExclusiveBut
  <2> QED
    BY <2>1, <2>2
<1>8. SameGoods' /\ Issued'
  <2>1. SameGoods'
    BY <1>1 DEF TagsInv, SameGoods
  <2>2. Issued'
    BY <1>1 DEF TagsInv, Issued, TypeOK
  <2> QED
    BY <2>1, <2>2
<1> QED
  <2>1. \A g \in Handlers : g # h => req'[g] = req[g]
    BY OthersStay DEF HandlerDoes, Sales
  <2> QED
    BY <1>1, <1>7, <1>8, <2>1, IdleTags, ClerkStep

LEMMA TagsStep ==
  ASSUME OneClerk, MaxItems <= 1, TypeOK, TypeOK', Asked, TagsInv, [Next]_vars
  PROVE  TagsInv'
<1>1. CASE UNCHANGED vars
  <2>1. UNCHANGED <<product, carries, items, invoice, made, req>>
    BY <1>1 DEF vars, tables
  <2>2. Still
    BY <2>1 DEF Still
  <2>3. CASE Handlers = {}
    BY <2>1, <2>2, <2>3, StillValues DEF TagsInv, Exclusive, Clear, SameGoods, Issued
  <2>4. CASE Handlers # {}
    <3>1. PICK h : h \in Handlers
      BY <2>4
    <3>2. TagsHeld(req'[h])
      BY <2>1, <3>1 DEF TagsInv
    <3> QED
      BY <2>1, <2>2, <3>1, <3>2, StillHeld, StillStep
  <2> QED
    BY <2>3, <2>4
<1>2. ASSUME NEW h \in Handlers, HandlerDoes(h) PROVE TagsInv'
  <2>1. CASE CreateProduct(h) \/ UpdateProduct(h) \/ DeleteProduct(h) \/ Sell(h) \/ DeleteInvoice(h)
    BY <2>1, AsksTags
  <2>2. CASE \/ CountSales(h) \/ SaveCustomer(h) \/ RemovePhotos(h) \/ DeleteFiles(h)
             \/ Refuse(h) \/ Fail(h)
    BY <2>2, StepsTags
  <2>3. CASE UploadFiles(h) \/ CreateTag(h) \/ LoadItems(h) \/ SaveInvoice(h)
    BY <2>3, UploadTags, CreateTags, LoadTags, InvoiceTags
  <2>4. ASSUME NEW e \in Epcs, CheckTag(h, e) PROVE TagsInv'
    BY <2>4, CheckTags
  <2>5. CASE SaveProduct(h) \/ SaveUpdate(h) \/ DeleteRow(h) \/ DropInvoice(h)
    <3>1. req[h].op \notin {"idle", "sell"}
      BY <2>5, HandlerTyped DEF SaveProduct, SaveUpdate, DeleteRow, DropInvoice, Saves, Ready
    <3>2. Selling(h)
      BY <3>1, OthersSell
    <3> QED
      BY <2>5, <3>2, SaveProductTags, SaveUpdateTags, DeleteRowTags, DropInvoiceTags
  <2> QED
    BY <1>2, <2>1, <2>2, <2>3, <2>4, <2>5 DEF HandlerDoes, Products, Files, TagLoop, Sales
<1> QED
  BY <1>1, <1>2 DEF Next, HandlerDoes

\* When one clerk at a time changes the stock and an invoice is for one product,
\* no tag is ever in use by two products, whatever is sold meanwhile, whether or
\* not the clients check what is left, and wherever a request fails.
THEOREM TagsStayExclusive ==
  ASSUME OneClerk, MaxItems <= 1
  PROVE  Spec => []ExclusiveTags
<1>1. Init => TagsInv
  BY DEF Init, TagsInv, Exclusive, InUse, SameGoods, Issued, TagsHeld, Idle
<1>2. TypeOK /\ TypeOK' /\ Asked /\ TagsInv /\ [Next]_vars => TagsInv'
  BY TagsStep
<1>3. TypeOK /\ TagsInv => ExclusiveTags
  <2> SUFFICES ASSUME TypeOK, TagsInv, NEW p \in Pids, NEW q \in Pids, p # q,
                      product[p] # None, product[q] # None, Remaining(p) > 0, Remaining(q) > 0
               PROVE  carries[p] \cap carries[q] = {}
    BY DEF ExclusiveTags
  <2>1. ASSUME NEW s \in Pids, product[s] # None, Remaining(s) > 0 PROVE InUse(s)
    <3>1. product[s].quantity \in Int /\ Sold(s) \in Int
      BY <2>1, SoldPieces, StockBounds DEF TypeOK, Rows
    <3> QED
      BY <2>1, <3>1 DEF InUse, Remaining
  <2> QED
    BY <2>1 DEF TagsInv, Exclusive, Clear
<1> QED
  BY <1>1, <1>2, <1>3, StockTyped, AskedHolds, PTL DEF Spec
=============================================================================

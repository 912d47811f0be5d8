-------------------------------- MODULE Stock --------------------------------
(***************************************************************************)
(* Products, their RFID tags, and their sale: the handlers of              *)
(* ProductsService, SalesService, InvoiceService, CustomersService and     *)
(* TagsService over the relational database.                               *)
(*                                                                         *)
(* HTTP handlers run concurrently and interleave at every await.  One      *)
(* action is the code from one await to the next, with the statement it    *)
(* ends in: a query, a transaction of the database (atomic), or a file     *)
(* operation.  A request refused by its first read (no such row, not the   *)
(* owner, an update that is not allowed) changes nothing; it is no step.   *)
(*                                                                         *)
(* A tag is in use while a product that carries it has pieces left, that   *)
(* is, a quantity above the sum of its sale items.                         *)
(***************************************************************************)
EXTENDS Integers, FiniteSets, FiniteSetsExt

CONSTANTS
  Epcs,         \* tag codes
  Users,        \* users, who own what they create
  Buyers,       \* customers as the till enters them: <<name, phone>>
  Handlers,     \* requests that may run at the same time
  Does,         \* [Handlers -> SUBSET Kinds]: what each of them may ask for
  Updates,      \* bodies of an update request (a subset of AllUpdates)
  Photos,       \* whether a request may upload photos (a subset of BOOLEAN)
  CheckedSales, \* TRUE: the clients sell only pieces that were left
  MaxItems,     \* bound: products on one invoice
  MaxQty,       \* bound: pieces of a product, pieces of a sale item
  MaxProducts, MaxInvoices, MaxFiles,   \* bounds: rows and files ever created
  MaxCalls,     \* bound: requests
  MaxFaults,    \* bound: failed statements, crashes in the middle of a request
  None

Kinds    == {"create", "update", "delete", "sell", "deleteInvoice"}
Pids     == 1..MaxProducts
Iids     == 1..MaxInvoices
Fids     == 1..MaxFiles

\* Rows of products and sale_items; lost: productId is NULL.  History, which no
\* guard reads: over, that an update of the product was suspended at the sale.
Rows  == [quantity : 0..MaxQty, inventory : BOOLEAN, owner : Users,
          photo : Fids \cup {0}]
Items == [inv : Iids, of : Pids, n : 1..MaxQty, lost : BOOLEAN,
          over : BOOLEAN]

\* The body of an update: each field is there or None; other stands for all
\* fields that are not named.
AllUpdates == [quantity : 0..MaxQty \cup {None}, inventory : BOOLEAN \cup {None},
               tags : (SUBSET Epcs) \cup {None}, other : BOOLEAN]
NoChange == [quantity |-> None, inventory |-> None, tags |-> None, other |-> FALSE]

ASSUME DoesAssumption    == Does \in [Handlers -> SUBSET Kinds]
ASSUME UpdatesAssumption == Updates \subseteq AllUpdates
ASSUME SwitchAssumption  == Photos \subseteq BOOLEAN /\ CheckedSales \in BOOLEAN
ASSUME NoneIsNothing     == /\ None \notin Users /\ \A r \in Rows : r # None
                            /\ \A ts \in SUBSET Epcs : ts # None
ASSUME StockBounds       == /\ MaxItems \in Nat /\ MaxQty \in Nat /\ MaxFiles \in Nat
                            /\ MaxProducts \in Nat /\ MaxInvoices \in Nat
                            /\ MaxCalls \in Nat /\ MaxFaults \in Nat

VARIABLES
  product,    \* [Pids -> row or None]
  carries,    \* [Pids -> SUBSET Epcs]: the join table of products and tags
  tags,       \* the codes that have a row in table tags
  invoice,    \* [Iids -> owner or None]
  items,      \* the rows of sale_items
  customers,  \* [Buyers -> Nat]: rows of table customers
  disk,       \* the uploaded files that exist
  req,        \* [Handlers -> the state of the handler]
  made,       \* ids given out: products, invoices, files
  calls, faults

tables == <<product, carries, tags, invoice, items, customers>>
vars   == <<tables, disk, req, made, calls, faults>>

\* A handler: what it was asked, where it is suspended (at), and its local
\* variables: the id it works on, the row it loaded or builds, the sale items
\* it loaded (seen), the tags still to check (todo), the tag to be created
\* (fresh), whether an exception was collected (bad), and the products whose
\* use of a tag does not count (mine) or that are sold.
Idle == [op |-> "idle", at |-> "none", id |-> 0, user |-> None, buyer |-> None,
         row |-> None, body |-> None, photos |-> FALSE, n |-> 0, seen |-> {},
         todo |-> {}, fresh |-> None, bad |-> FALSE, mine |-> {}]

Init ==
  /\ product   = [p \in Pids |-> None]
  /\ carries   = [p \in Pids |-> {}]
  /\ tags      = {}
  /\ invoice   = [i \in Iids |-> None]
  /\ items     = {}
  /\ customers = [b \in Buyers |-> 0]
  /\ disk      = {}
  /\ req       = [h \in Handlers |-> Idle]
  /\ made      = [products |-> 0, invoices |-> 0, files |-> 0]
  /\ calls     = 0
  /\ faults    = 0

-----------------------------------------------------------------------------
ItemsOf(p) == {it \in items : it.of = p /\ ~it.lost}
Sold(p)    == MapThenSumSet(LAMBDA it : it.n, ItemsOf(p))

\* mutant: a product counts as gone once a piece of it was sold
ExceptionsUnsold(e) == {p \in Pids : product[p] # None /\ e \in carries[p] /\ Sold(p) = 0}

\* The exceptions of fintTagByEPCAndAssessCanBeUsedThisTag.
Exceptions(e) == {p \in Pids : /\ product[p] # None
                               /\ e \in carries[p]
                               /\ product[p].quantity > Sold(p)}

Asks(h, kind) ==
  /\ req[h] = Idle
  /\ kind \in Does[h]
  /\ calls < MaxCalls /\ calls' = calls + 1

Becomes(h, r) == req' = [req EXCEPT ![h] = r]
Ends(h)       == Becomes(h, Idle)
Goes(h, at)   == Becomes(h, [req[h] EXCEPT !.at = at])

-----------------------------------------------------------------------------
(***************************************************************************)
(* The loop over the tags of a request: look the tag up, create it when    *)
(* there is none, collect the exceptions of other products.                *)
(***************************************************************************)
\* mutant: a tag without a row is used as it is
CheckTagOnly(h, e) ==
  LET r == req[h]
  IN  /\ r.at = "tags" /\ e \in r.todo
      /\ Becomes(h, [r EXCEPT !.todo = @ \ {e},
                              !.bad  = @ \/ Exceptions(e) \ r.mine # {}])
      /\ UNCHANGED <<tables, disk, made, calls, faults>>

CheckTag(h, e) ==
  LET r == req[h]
  IN  /\ r.at = "tags" /\ e \in r.todo
      /\ IF e \in tags
         THEN Becomes(h, [r EXCEPT !.todo = @ \ {e},
                                   !.bad  = @ \/ Exceptions(e) \ r.mine # {}])
         ELSE Becomes(h, [r EXCEPT !.at = "newTag", !.fresh = e])
      /\ UNCHANGED <<tables, disk, made, calls, faults>>

\* tags.epc is unique: the insert fails when another request was faster.
CreateTag(h) ==
  LET r == req[h]
  IN  /\ r.at = "newTag"
      /\ tags' = tags \cup {r.fresh}
      /\ IF r.fresh \in tags
         THEN Ends(h)
         ELSE Becomes(h, [r EXCEPT !.at = "tags", !.todo = @ \ {r.fresh}, !.fresh = None])
      /\ UNCHANGED <<product, carries, invoice, items, customers, disk, made, calls, faults>>

Refuse(h) ==
  /\ req[h].at = "tags" /\ req[h].todo = {} /\ req[h].bad
  /\ Ends(h)
  /\ UNCHANGED <<tables, disk, made, calls, faults>>

Accepted(r) == r.at = "tags" /\ r.todo = {} /\ ~r.bad

-----------------------------------------------------------------------------
(***************************************************************************)
(* Files.  An update with photos removes the old ones before it uploads    *)
(* the new ones, and both before its transaction.                          *)
(***************************************************************************)
RemovePhotos(h) ==
  LET r == req[h]
  IN  /\ r.op = "update" /\ r.photos /\ Accepted(r)
      /\ disk' = disk \ {r.row.photo}
      /\ Goes(h, "upload")
      /\ UNCHANGED <<tables, made, calls, faults>>

UploadFiles(h) ==
  LET r == req[h]
      f == made.files + 1
  IN  /\ r.photos /\ made.files < MaxFiles
      /\ r.at = "upload" \/ (r.op = "create" /\ Accepted(r))
      /\ disk' = disk \cup {f}
      /\ made' = [made EXCEPT !.files = f]
      /\ Becomes(h, [r EXCEPT !.at = "save", !.row.photo = f])
      /\ UNCHANGED <<tables, calls, faults>>

Saves(h, kind) == /\ req[h].op = kind
                  /\ req[h].at = "save" \/ (Accepted(req[h]) /\ ~req[h].photos)

-----------------------------------------------------------------------------
(***************************************************************************)
(* Products.                                                               *)
(***************************************************************************)
CreateProduct(h) ==
  /\ Asks(h, "create")
  /\ made.products < MaxProducts
  /\ \E u \in Users, ts \in SUBSET Epcs, q \in 1..MaxQty, ph \in Photos :
       /\ ph => made.files < MaxFiles
       /\ Becomes(h, [Idle EXCEPT !.op = "create", !.at = "tags", !.photos = ph,
                        !.body = [NoChange EXCEPT !.tags = ts], !.todo = ts,
                        !.row = [quantity |-> q, inventory |-> FALSE, owner |-> u,
                                 photo |-> 0]])
  /\ UNCHANGED <<tables, disk, made, faults>>

SaveProduct(h) ==
  LET r == req[h]
      p == made.products + 1
  IN  /\ Saves(h, "create") /\ made.products < MaxProducts
      /\ product' = [product EXCEPT ![p] = r.row]
      /\ carries' = [carries EXCEPT ![p] = r.body.tags]
      /\ made'    = [made EXCEPT !.products = p]
      /\ Ends(h)
      /\ UNCHANGED <<tags, invoice, items, customers, disk, calls, faults>>

DeleteProduct(h) ==
  /\ Asks(h, "delete")
  /\ \E p \in Pids :
       /\ product[p] # None
       /\ Becomes(h, [Idle EXCEPT !.op = "delete", !.at = "count", !.id = p,
                                  !.row = product[p]])
  /\ UNCHANGED <<tables, disk, made, faults>>

CountSales(h) ==
  /\ req[h].at = "count"
  /\ IF ItemsOf(req[h].id) # {} THEN Ends(h) ELSE Goes(h, "row")
  /\ UNCHANGED <<tables, disk, made, calls, faults>>

\* mutant: the foreign key of sale_items does not protect the product
DeleteRowAnyway(h) ==
  LET r == req[h]
  IN  /\ r.at = "row"
      /\ product' = [product EXCEPT ![r.id] = None]
      /\ carries' = [carries EXCEPT ![r.id] = {}]
      /\ Goes(h, "files")
      /\ UNCHANGED <<tags, invoice, items, customers, disk, made, calls, faults>>

\* The transaction.  Sale items refer to the product without cascade, so one
\* that came since the count makes it fail; the join rows go with the product.
DeleteRow(h) ==
  LET r == req[h]
  IN  /\ r.at = "row"
      /\ IF ItemsOf(r.id) # {}
         THEN Ends(h) /\ UNCHANGED <<product, carries>>
         ELSE /\ product' = [product EXCEPT ![r.id] = None]
              /\ carries' = [carries EXCEPT ![r.id] = {}]
              /\ Goes(h, "files")
      /\ UNCHANGED <<tags, invoice, items, customers, disk, made, calls, faults>>

\* mutant: the files of the deleted product stay
DeleteNoFiles(h) ==
  /\ req[h].at = "files"
  /\ Ends(h)
  /\ UNCHANGED <<tables, disk, made, calls, faults>>

DeleteFiles(h) ==
  /\ req[h].at = "files"
  /\ disk' = disk \ {req[h].row.photo}
  /\ Ends(h)
  /\ UNCHANGED <<tables, made, calls, faults>>

\* The only changes a product with sales may get: its quantity increased, its
\* inventory flag, both, or its tags.  Photos are no part of the body.
Harmless(row, b) ==
  /\ ~b.other
  /\ \/ b.tags = None /\ b.quantity # None /\ b.quantity > row.quantity
     \/ b.tags = None /\ b.quantity = None /\ b.inventory # None
     \/ b.tags # None /\ b.quantity = None /\ b.inventory = None

Decreases(row, b) == b.quantity \notin {None, 0} /\ b.quantity < row.quantity

\* mutant: the product to be updated is loaded without its sale items
UpdateProductAlone(h) ==
  /\ Asks(h, "update")
  /\ \E p \in Pids, b \in Updates, ph \in Photos :
       /\ product[p] # None
       /\ ~Decreases(product[p], b)
       /\ Sold(p) = 0 \/ Harmless(product[p], b)
       /\ ph => made.files < MaxFiles
       /\ Becomes(h, [Idle EXCEPT !.op = "update", !.at = "tags", !.id = p,
                        !.mine = {p}, !.body = b, !.photos = ph,
                        !.todo = IF b.tags = None THEN {} ELSE b.tags,
                        !.row = product[p]])
  /\ UNCHANGED <<tables, disk, made, faults>>

UpdateProduct(h) ==
  /\ Asks(h, "update")
  /\ \E p \in Pids, b \in Updates, ph \in Photos :
       /\ product[p] # None
       /\ ~Decreases(product[p], b)
       /\ Sold(p) = 0 \/ Harmless(product[p], b)
       /\ ph => made.files < MaxFiles
       /\ Becomes(h, [Idle EXCEPT !.op = "update", !.at = "tags", !.id = p,
                        !.mine = {p}, !.body = b, !.photos = ph,
                        !.todo = IF b.tags = None THEN {} ELSE b.tags,
                        !.row = product[p], !.seen = ItemsOf(p)])
  /\ UNCHANGED <<tables, disk, made, faults>>

\* The transaction of an update.  save writes the loaded product back, with the
\* new tags and photos and the inventory flag (false when the body has none);
\* quantity and the other fields keep the loaded value.  Its sale items were
\* loaded too: rows that came since are not among them, and lose their product.
\* When the product was deleted meanwhile save inserts it again, unless tags
\* were to be added, which the foreign key of the join table refuses.
SaveUpdate(h) ==
  LET r   == req[h]
      row == [r.row EXCEPT !.inventory = (r.body.inventory = TRUE)]
  IN  /\ Saves(h, "update")
      /\ IF product[r.id] = None /\ r.body.tags \notin {None, {}}
         THEN UNCHANGED <<product, carries, items>>
         ELSE /\ product' = [product EXCEPT ![r.id] = row]
              /\ carries' = IF r.body.tags = None THEN carries
                            ELSE [carries EXCEPT ![r.id] = r.body.tags]
              /\ items'   = {IF it \in ItemsOf(r.id) \ r.seen
                             THEN [it EXCEPT !.lost = TRUE] ELSE it : it \in items}
      /\ Ends(h)
      /\ UNCHANGED <<tags, invoice, customers, disk, made, calls, faults>>

-----------------------------------------------------------------------------
(***************************************************************************)
(* Sales.                                                                  *)
(***************************************************************************)
\* mutant: an existing customer is looked up by name only
KnownByName(b) == \E c \in Buyers : customers[c] > 0 /\ c[1] = b[1]

\* findOrCreate finds a customer of that name or of that phone.
Known(b) == \E c \in Buyers : customers[c] > 0 /\ (c[1] = b[1] \/ c[2] = b[2])

\* What a client offers for sale.  The server does not compare a sale with the
\* stock; with CheckedSales the clients do.
OnOffer(p, n) == /\ p <= made.products
                 /\ CheckedSales => /\ product[p] # None
                                    /\ product[p].quantity >= Sold(p) + n

Sell(h) ==
  /\ Asks(h, "sell")
  /\ made.invoices < MaxInvoices
  /\ \E u \in Users, b \in Buyers, n \in 1..MaxQty, ps \in SUBSET Pids :
       /\ ps # {} /\ Cardinality(ps) <= MaxItems
       /\ \A p \in ps : OnOffer(p, n)
       /\ Becomes(h, [Idle EXCEPT !.op = "sell", !.user = u, !.buyer = b, !.n = n,
                        !.mine = ps, !.at = IF Known(b) THEN "invoice" ELSE "customer"])
  /\ UNCHANGED <<tables, disk, made, faults>>

SaveCustomer(h) ==
  /\ req[h].at = "customer"
  /\ customers' = [customers EXCEPT ![req[h].buyer] = @ + 1]
  /\ Goes(h, "invoice")
  /\ UNCHANGED <<product, carries, tags, invoice, items, disk, made, calls, faults>>

Updating(p) == \E h \in Handlers : req[h].op = "update" /\ req[h].id = p

\* The invoice and its items in one transaction, which fails when a product is
\* gone; the customer stays.
SaveInvoice(h) ==
  LET r == req[h]
      i == made.invoices + 1
  IN  /\ r.at = "invoice" /\ made.invoices < MaxInvoices
      /\ IF \E p \in r.mine : product[p] = None
         THEN UNCHANGED <<invoice, items, made>>
         ELSE /\ invoice' = [invoice EXCEPT ![i] = r.user]
              /\ items'   = items \cup {[inv |-> i, of |-> p, n |-> r.n, lost |-> FALSE,
                                         over |-> Updating(p)] : p \in r.mine}
              /\ made'    = [made EXCEPT !.invoices = i]
      /\ Ends(h)
      /\ UNCHANGED <<product, carries, tags, customers, disk, calls, faults>>

DeleteInvoice(h) ==
  /\ Asks(h, "deleteInvoice")
  /\ \E i \in Iids :
       /\ invoice[i] # None
       /\ Becomes(h, [Idle EXCEPT !.op = "deleteInvoice", !.at = "items", !.id = i])
  /\ UNCHANGED <<tables, disk, made, faults>>

\* canReUseThisInvoiceTags loads the items with their products and tags, and
\* fails on an item that lost its product.
LoadItems(h) ==
  LET r     == req[h]
      its   == {it \in items : it.inv = r.id}
      goods == {it.of : it \in its}
  IN  /\ r.at = "items"
      /\ IF \E it \in its : it.lost
         THEN Ends(h)
         ELSE Becomes(h, [r EXCEPT !.at = "tags", !.mine = goods,
                                   !.todo = UNION {carries[p] : p \in goods}])
      /\ UNCHANGED <<tables, disk, made, calls, faults>>

\* The row of the invoice goes, and by cascade its items.
DropInvoice(h) ==
  LET r == req[h]
  IN  /\ Saves(h, "deleteInvoice")
      /\ invoice' = [invoice EXCEPT ![r.id] = None]
      /\ items'   = {it \in items : it.inv # r.id}
      /\ Ends(h)
      /\ UNCHANGED <<product, carries, tags, customers, disk, made, calls, faults>>

\* A statement fails or the process dies: the request ends where it is, its
\* transaction rolled back, what it had saved before kept.
Fail(h) ==
  /\ req[h] # Idle
  /\ faults < MaxFaults /\ faults' = faults + 1
  /\ Ends(h)
  /\ UNCHANGED <<tables, disk, made, calls>>

-----------------------------------------------------------------------------
Products(h) == \/ CreateProduct(h) \/ SaveProduct(h)
               \/ UpdateProduct(h) \/ SaveUpdate(h)
               \/ DeleteProduct(h) \/ CountSales(h) \/ DeleteRow(h)
Files(h)    == RemovePhotos(h) \/ UploadFiles(h) \/ DeleteFiles(h)
TagLoop(h)  == (\E e \in Epcs : CheckTag(h, e)) \/ CreateTag(h) \/ Refuse(h)
Sales(h)    == \/ Sell(h) \/ SaveCustomer(h) \/ SaveInvoice(h)
               \/ DeleteInvoice(h) \/ LoadItems(h) \/ DropInvoice(h)

Next == \E h \in Handlers : Products(h) \/ Files(h) \/ TagLoop(h) \/ Sales(h) \/ Fail(h)
Spec == Init /\ [][Next]_vars

-----------------------------------------------------------------------------
Stages == {"none", "tags", "newTag", "upload", "save", "count", "row", "files",
           "customer", "invoice", "items"}
Reqs   == [op : Kinds \cup {"idle"}, at : Stages, id : Nat, user : Users \cup {None},
           buyer : Buyers \cup {None}, row : Rows \cup {None},
           body : AllUpdates \cup {None}, photos : BOOLEAN, n : 0..MaxQty,
           seen : SUBSET Items, todo : SUBSET Epcs, fresh : Epcs \cup {None},
           bad : BOOLEAN, mine : SUBSET Pids]

\* Where a handler is suspended, it has what it will use next: a tag it is done
\* with has a row (is in ts), a product or an invoice it works on an id.
Ready(r, ts) ==
  /\ r.op \in {"create", "update"} =>
       /\ r.row \in Rows /\ r.body \in AllUpdates
       /\ r.body.tags # None => r.body.tags \ r.todo \subseteq ts
  /\ r.op = "create" => r.body.tags # None
  /\ r.op \in {"update", "delete"} => r.id \in Pids
  /\ r.op = "deleteInvoice" => r.id \in Iids
  /\ r.op = "sell" => r.user \in Users /\ r.buyer \in Buyers /\ r.n \in 1..MaxQty
  /\ r.at = "newTag" => r.fresh \in r.todo
  /\ r.at \in {"count", "row", "files"} => r.op = "delete" /\ r.row \in Rows
  /\ r.at \in {"customer", "invoice"} => r.op = "sell"
  /\ r.at = "upload" => r.op = "update" /\ r.todo = {}
  /\ r.at = "save" => r.todo = {}
  /\ r.at = "items" => r.op = "deleteInvoice"

\* The types of the tables and of the suspended handlers.
TypeOK ==
  /\ product \in [Pids -> Rows \cup {None}]
  /\ tags \subseteq Epcs
  /\ carries \in [Pids -> SUBSET tags]
  /\ invoice \in [Iids -> Users \cup {None}]
  /\ items \subseteq Items
  /\ customers \in [Buyers -> Nat]
  /\ made \in [products : 0..MaxProducts, invoices : 0..MaxInvoices, files : 0..MaxFiles]
  /\ disk \subseteq Fids
  /\ req \in [Handlers -> Reqs]
  /\ \A h \in Handlers : Ready(req[h], tags)
  /\ calls \in 0..MaxCalls /\ faults \in 0..MaxFaults

\* A tag is never in use by two products at once: the tag checks of create,
\* update and deleteOneInvoiceById are there for this.
Remaining(p)  == product[p].quantity - Sold(p)
ExclusiveTags ==
  \A p, q \in Pids : p # q /\ product[p] # None /\ product[q] # None
                     /\ Remaining(p) > 0 /\ Remaining(q) > 0
                     => carries[p] \cap carries[q] = {}

\* Every sale item belongs to an invoice that exists, and the product it refers to
\* exists: a product cannot be deleted around the check of its sales, by whatever
\* order of a sale and a deletion.  This says nothing of items that refer to no
\* product (lost), which the code does leave behind.
ItemsReferToProducts ==
  \A it \in items : invoice[it.inv] # None /\ (~it.lost => product[it.of] # None)

\* An item refers to no product only when it was sold during an update of that
\* product, which had loaded its sale items by then: an update never takes the product
\* from an item that was there when it began, whatever else goes on meanwhile.
LostOnlyInOverlap == \A it \in items : it.lost => it.over

\* No two customers share a name or a phone number: findOrCreate reuses the
\* customer of an earlier sale.
CustomersDistinct ==
  \A b, c \in Buyers : customers[b] > 0 /\ customers[c] > 0 /\ (b[1] = c[1] \/ b[2] = c[2])
                       => b = c /\ customers[b] = 1

\* When no request is running and nothing has failed, the uploaded files are
\* exactly the photos of the products: none is missing (an update removes the old
\* ones before it saves) and none is left behind (a rejected or a deleting
\* request).
PhotosMatchDisk ==
  faults = 0 /\ (\A h \in Handlers : req[h] = Idle)
  => disk = {product[p].photo : p \in {q \in Pids : product[q] # None}} \ {0}

\* An update that was accepted with a larger quantity gives the product that
\* quantity ("Update scalar fields (only if provided)").
AppliesQuantity(h) ==
  SaveUpdate(h) /\ product[req[h].id] # None /\ req[h].body.quantity \notin {None, 0}
  => product'[req[h].id].quantity = req[h].body.quantity
RestockApplied == [][\A h \in Handlers : AppliesQuantity(h)]_vars
=============================================================================

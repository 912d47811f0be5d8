---------------------------- MODULE ScanResults ----------------------------
(***************************************************************************)
(* What becomes of a tag report: SocketGateway.emitESPModulesScanResult    *)
(* looks the tag up, through a cache, and puts the products that carry it  *)
(* on the scan list of the module, one list per scan mode.                 *)
(*                                                                         *)
(* The gateway's handler is not awaited by the message callback that calls *)
(* it and suspends up to three times, so several run at once.  It works on *)
(* the list and the mode of the CONNECTION its frame came over, as they    *)
(* were when the frame came, and stores the new list in the connection     *)
(* that is REGISTERED for the module when it is done.                      *)
(*                                                                         *)
(* Whether a frame is passed on at all (active, scanning, checksum) is the *)
(* business of EspLink; a frame too weak for the power set is no step.     *)
(***************************************************************************)
EXTENDS Integers, Sequences, FiniteSets, SequencesExt

CONSTANTS
  Ids,         \* module ids
  Conns,       \* identities of connections
  Epcs,        \* tags
  IdOf,        \* [Epcs -> the number made from the last seven digits of an EPC]
  Products,    \* products of the stock
  StockRows,   \* the rows products take on (a subset of Rows)
  RSSIs,       \* signal strengths
  None,
  Slots,       \* bound: handlers in flight
  MaxFrames,   \* bound: tag reports
  MaxEvents,   \* bound: everything else that happens to the system
  MaxTicks     \* bound: changes of the clock

Modes == {"Inventory", "Scan", "NewProduct"}

ASSUME NamesAssumption == None \notin Ids /\ None \notin Conns

\* A product: its tags, whether quantity is left after the sales, inventoryItem.
Rows == [id : Products, tags : SUBSET Epcs, left : BOOLEAN, inv : BOOLEAN]

ASSUME ProductsAssumption == IsFiniteSet(Products)
ASSUME RowsAssumption == StockRows \subseteq Rows
ASSUME TicksAssumption == MaxTicks \in Nat

VARIABLES
  info,     \* [Conns -> clientInfo]: module id, mode, tagScanResults
  clients,  \* [Ids -> connection or None]: the registered connection
  stock,    \* [Products -> row]: products with their tags, as the queries see them
  cache,    \* [Epcs \X Modes -> rows or None]
  jobs,     \* [Slots -> handler in flight or None]
  now,      \* Date.now()
  hist,     \* [Ids -> [Modes -> history of the list]], see History
  retagged, \* history: a product has changed its tags
  used      \* counters behind the bounds

vars == <<info, clients, stock, cache, jobs, now, hist, retagged, used>>

\* An element of a list: a product as it was read, or the placeholder of a tag
\* to be used for a new product.  The id of a placeholder is made from the tag: two
\* tags may have the same, which may also be the id of a product.
Entries == [kind : {"product", "tag"}, id : Products \cup {IdOf[e] : e \in Epcs},
            tags : SUBSET Epcs, inv : BOOLEAN, rssi : RSSIs, time : 0..MaxTicks]
Clients == [id : Ids \cup {None}, mode : Modes, lists : [Modes -> Seq(Entries)]]
NewClient == [id |-> None, mode |-> "Inventory", lists |-> [m \in Modes |-> <<>>]]

\* A handler: its arguments, the rows it has (once it has them), the await it
\* is suspended on, and the history variable free: since its frame came, there
\* was a moment when its tag was Free.
Jobs == [id : Ids, epc : Epcs, rssi : RSSIs, time : 0..MaxTicks, mode : Modes,
         list : Seq(Entries), rows : SUBSET Rows,
         at : {"get", "find", "set", "show"}, free : BOOLEAN]

\* The history of a list: the tags reported and the tags put on it since it was
\* last emptied, and what the handlers of its frames have run into since then:
\* nothing, one another ("overlap"), or a list from before ("stale").
History == [fresh : SUBSET Epcs, shown : SUBSET Epcs,
            met : {"nothing", "overlap", "stale"}]

Running(s)      == jobs[s] # None
InFlight(i, m)  == \E s \in Slots : Running(s) /\ jobs[s].id = i /\ jobs[s].mode = m
Emptied(i, m)   == [fresh |-> {}, shown |-> {},
                    met |-> IF InFlight(i, m) THEN "stale" ELSE "nothing"]

\* The stock's own rule: two products with quantity left never share a tag.
Exclusive(st) == \A p, q \in Products :
  p # q /\ st[p].left /\ st[q].left => st[p].tags \cap st[q].tags = {}
Disjoint(st)  == \A p, q \in Products : p # q => st[p].tags \cap st[q].tags = {}

Init ==
  /\ info     = [c \in Conns |-> NewClient]
  /\ clients  = [i \in Ids |-> None]
  /\ stock    \in {st \in [Products -> StockRows] :
                     Exclusive(st) /\ \A p \in Products : st[p].id = p}
  /\ cache    = [k \in Epcs \X Modes |-> None]
  /\ jobs     = [s \in Slots |-> None]
  /\ now      = 0
  /\ hist     = [i \in Ids |-> [m \in Modes |->
                   [fresh |-> {}, shown |-> {}, met |-> "nothing"]]]
  /\ retagged = FALSE
  /\ used     = [frames |-> 0, events |-> 0]

Uses(what, bound) == used[what] < bound /\ used' = [used EXCEPT ![what] = @ + 1]
-----------------------------------------------------------------------------
(***************************************************************************)
(* The connections and their settings, in Esp32WsService.                  *)
(***************************************************************************)
\* A module connects and says hello: its lists start empty.
Register(c, i) ==
  /\ Uses("events", MaxEvents)
  /\ info[c].id = None
  /\ info'    = [info EXCEPT ![c].id = i]
  /\ clients' = [clients EXCEPT ![i] = c]
  /\ hist'    = [hist EXCEPT ![i] = [m \in Modes |-> Emptied(i, m)]]
  /\ UNCHANGED <<stock, cache, jobs, now, retagged>>

\* mutant: a closed connection stays registered
CloseOnly(c, swept) ==
  /\ Uses("events", MaxEvents)
  /\ info[c].id # None
  /\ clients' = clients
  /\ info'    = IF swept THEN info ELSE [info EXCEPT ![c] = NewClient]
  /\ UNCHANGED <<stock, cache, jobs, now, hist, retagged>>

\* A connection is closed, or only given up by the heartbeat sweep: frames that
\* arrived over it before may still be handled.
Close(c, swept) ==
  /\ Uses("events", MaxEvents)
  /\ info[c].id # None
  /\ swept => clients[info[c].id] = c
  /\ clients' = [i \in Ids |-> IF clients[i] = c THEN None ELSE clients[i]]
  /\ info'    = IF swept THEN info ELSE [info EXCEPT ![c] = NewClient]
  /\ UNCHANGED <<stock, cache, jobs, now, hist, retagged>>

SetMode(i, m) ==
  /\ Uses("events", MaxEvents)
  /\ clients[i] # None
  /\ info' = [info EXCEPT ![clients[i]].mode = m]
  /\ UNCHANGED <<clients, stock, cache, jobs, now, hist, retagged>>

\* mutant: only the modules in that mode are cleared
ClearCurrent(m) ==
  /\ Uses("events", MaxEvents)
  /\ info' = [c \in Conns |-> IF /\ \E i \in Ids : clients[i] = c
                                 /\ info[c].mode = m
                              THEN [info[c] EXCEPT !.lists[m] = <<>>] ELSE info[c]]
  /\ hist' = [i \in Ids |-> IF clients[i] = None THEN hist[i]
                            ELSE [hist[i] EXCEPT ![m] = Emptied(i, m)]]
  /\ UNCHANGED <<clients, stock, cache, jobs, now, retagged>>

\* clearScanHistory: the list of that mode, of every registered module.
ClearScanHistory(m) ==
  /\ Uses("events", MaxEvents)
  /\ info' = [c \in Conns |-> IF \E i \in Ids : clients[i] = c
                              THEN [info[c] EXCEPT !.lists[m] = <<>>] ELSE info[c]]
  /\ hist' = [i \in Ids |-> IF clients[i] = None THEN hist[i]
                            ELSE [hist[i] EXCEPT ![m] = Emptied(i, m)]]
  /\ UNCHANGED <<clients, stock, cache, jobs, now, retagged>>
-----------------------------------------------------------------------------
(***************************************************************************)
(* The stock, the clock and the cache.                                     *)
(***************************************************************************)
Carriers(e) == {stock[p] : p \in {q \in Products : e \in stock[q].tags}}

\* A tag may be given to a new product: nothing with quantity left carries it.
Free(e, st) == \A p \in Products : e \in st[p].tags => ~st[p].left

\* A product is saved, sold, or put back by the deletion of an invoice.
Change(p, row) ==
  /\ Uses("events", MaxEvents)
  /\ row # stock[p] /\ row.id = p
  /\ stock' = [stock EXCEPT ![p] = row]
  /\ Exclusive(stock')
  /\ retagged' = (retagged \/ row.tags # stock[p].tags)
  /\ jobs' = [s \in Slots |-> IF Running(s)
                              THEN [jobs[s] EXCEPT !.free = @ \/ Free(jobs[s].epc, stock')]
                              ELSE None]
  /\ UNCHANGED <<info, clients, cache, now, hist>>

Tick ==
  /\ Uses("events", MaxEvents)
  /\ now < MaxTicks
  /\ now' = now + 1
  /\ UNCHANGED <<info, clients, stock, cache, jobs, hist, retagged>>

\* Five minutes are over for what is cached under a key.
Expire(e, m) ==
  /\ Uses("events", MaxEvents)
  /\ cache[<<e, m>>] # None
  /\ cache' = [cache EXCEPT ![<<e, m>>] = None]
  /\ UNCHANGED <<info, clients, stock, jobs, now, hist, retagged>>
-----------------------------------------------------------------------------
(***************************************************************************)
(* The handler of one tag report.                                          *)
(***************************************************************************)
CachesAll(m) == TRUE   \* mutant: NewProduct goes through the cache, too
Caches(m) == m # "NewProduct"

\* What the frame's handling has run into by now.
Meets(c, i, m) ==
  IF clients[i] # c THEN "stale"
  ELSE IF InFlight(i, m) /\ hist[i][m].met = "nothing" THEN "overlap"
  ELSE hist[i][m].met

\* The frame comes: the handler starts, and suspends on the cache.
OnTag(c, e, r) ==
  /\ Uses("frames", MaxFrames)
  /\ info[c].id # None
  /\ LET i == info[c].id
         m == info[c].mode
         s == CHOOSE t \in Slots : ~Running(t)
     IN  /\ \E t \in Slots : ~Running(t)
         /\ jobs' = [jobs EXCEPT ![s] =
              [id |-> i, epc |-> e, rssi |-> r, time |-> now, mode |-> m,
               list |-> info[c].lists[m], rows |-> {}, at |-> "get",
               free |-> Free(e, stock)]]
         /\ hist' = [hist EXCEPT ![i][m].fresh = @ \cup {e},
                                 ![i][m].met = Meets(c, i, m)]
  /\ UNCHANGED <<info, clients, stock, cache, now, retagged>>

\* The cache answers: a hit is used as it is, outside NewProduct.
Get(s) ==
  /\ Running(s) /\ jobs[s].at = "get"
  /\ LET hit == cache[<<jobs[s].epc, jobs[s].mode>>]
     IN  jobs' = [jobs EXCEPT ![s] =
           IF Caches(@.mode) /\ hit # None THEN [@ EXCEPT !.rows = hit, !.at = "show"]
           ELSE [@ EXCEPT !.at = "find"]]
  /\ UNCHANGED <<info, clients, stock, cache, now, hist, retagged, used>>

\* The database reads the products that carry the tag.
Find(s) ==
  /\ Running(s) /\ jobs[s].at = "find"
  /\ jobs' = [jobs EXCEPT ![s].rows = Carriers(jobs[s].epc),
                          ![s].at = IF Caches(jobs[s].mode) THEN "set" ELSE "show"]
  /\ UNCHANGED <<info, clients, stock, cache, now, hist, retagged, used>>

\* They are cached for five minutes.
Set(s) ==
  /\ Running(s) /\ jobs[s].at = "set"
  /\ cache' = [cache EXCEPT ![<<jobs[s].epc, jobs[s].mode>>] = jobs[s].rows]
  /\ jobs'  = [jobs EXCEPT ![s].at = "show"]
  /\ UNCHANGED <<info, clients, stock, now, hist, retagged, used>>

\* The database cannot be read.  Nobody catches the handler's rejection: the
\* process dies, and starts again with nothing, the cache in its memory included.
FindFails(s) ==
  /\ Uses("events", MaxEvents)
  /\ Running(s) /\ jobs[s].at = "find"
  /\ info'    = [c \in Conns |-> NewClient]
  /\ clients' = [i \in Ids |-> None]
  /\ jobs'    = [t \in Slots |-> None]
  /\ cache'   = [k \in Epcs \X Modes |-> None]
  /\ UNCHANGED <<stock, now, hist, retagged>>

Product(j, r) == [kind |-> "product", id |-> r.id, tags |-> r.tags, inv |-> r.inv,
                  rssi |-> j.rssi, time |-> j.time]
Placeholder(j) == [kind |-> "tag", id |-> IdOf[j.epc], tags |-> {j.epc}, inv |-> FALSE,
                   rssi |-> j.rssi, time |-> j.time]

\* What a handler has to show: a placeholder if the tag is carried by nothing,
\* or by a product that is sold out; otherwise the products with quantity left.
Offers(rows)  == rows = {} \/ \E r \in rows : ~r.left
Result(j) ==
  IF j.mode = "NewProduct"
  THEN IF Offers(j.rows) THEN <<Placeholder(j)>> ELSE <<>>
  ELSE SetToSeq({Product(j, r) :
                   r \in {q \in j.rows : q.left /\ (j.mode = "Inventory" => q.inv)}})

Hits(list, e)  == {k \in DOMAIN list : e \in list[k].tags}
\* The first element of the list that carries the tag is from another signal or
\* from the same moment.
Moved(j) ==
  LET k == CHOOSE k \in Hits(j.list, j.epc) : \A l \in Hits(j.list, j.epc) : k <= l
  IN  j.list[k].rssi # j.rssi \/ j.list[k].time = j.time

\* mutant: elements of the list are found by the id made from the tag
ShownById(j) ==
  IF \E k \in DOMAIN j.list : j.list[k].id = IdOf[j.epc] THEN j.list ELSE j.list \o Result(j)
\* mutant: the list is what was shown last
ShownAlone(j) == Result(j)
\* The list a handler stores: its result is appended to the list it was called
\* with, or replaces every element that carries the tag.
Shown(j) ==
  IF Hits(j.list, j.epc) = {} THEN j.list \o Result(j)
  ELSE FlattenSeq([k \in DOMAIN j.list |->
         IF k \in Hits(j.list, j.epc) THEN Result(j) ELSE <<j.list[k]>>])

Shows(j) == /\ Result(j) # <<>>
            /\ Hits(j.list, j.epc) = {} \/ Moved(j)
            /\ clients[j.id] # None

\* mutant: the list is stored under the mode the module has by now
StoredIn(j) == info[clients[j.id]].mode
\* The list the result goes to.
Target(j) == j.mode

Show(s) ==
  /\ Running(s) /\ jobs[s].at = "show"
  /\ LET j == jobs[s]
     IN  IF Shows(j)
         THEN /\ info' = [info EXCEPT ![clients[j.id]].lists[Target(j)] = Shown(j)]
              /\ hist' = [hist EXCEPT ![j.id][j.mode].shown = @ \cup {j.epc}]
         ELSE UNCHANGED <<info, hist>>
  /\ jobs' = [jobs EXCEPT ![s] = None]
  /\ UNCHANGED <<clients, stock, cache, now, retagged, used>>
-----------------------------------------------------------------------------
Connections ==
  \/ \E c \in Conns, i \in Ids : Register(c, i)
  \/ \E c \in Conns, swept \in BOOLEAN : Close(c, swept)
  \/ \E i \in Ids, m \in Modes : SetMode(i, m)
  \/ \E m \in Modes : ClearScanHistory(m)

World ==
  \/ \E p \in Products, row \in StockRows : Change(p, row)
  \/ Tick
  \/ \E e \in Epcs, m \in Modes : Expire(e, m)

Reports ==
  \/ \E c \in Conns, e \in Epcs, r \in RSSIs : OnTag(c, e, r)
  \/ \E s \in Slots : Get(s) \/ Find(s) \/ Set(s) \/ FindFails(s) \/ Show(s)

Next == Connections \/ World \/ Reports

Spec == Init /\ [][Next]_vars
-----------------------------------------------------------------------------
(***************************************************************************)
(* Properties.                                                             *)
(***************************************************************************)
\* The state stays within its types, and the registered connection of a module
\* is one over which that module said hello.
TypeOK ==
  /\ info \in [Conns -> Clients]
  /\ clients \in [Ids -> Conns \cup {None}]
  /\ \A i \in Ids : clients[i] # None => info[clients[i]].id = i
  /\ stock \in [Products -> Rows]
  /\ \A k \in Epcs \X Modes : cache[k] = None \/ cache[k] \subseteq Rows
  /\ \A s \in Slots : Running(s) => jobs[s] \in Jobs
  /\ now \in 0..MaxTicks
  /\ hist \in [Ids -> [Modes -> History]]
  /\ retagged \in BOOLEAN

Fits(e, m) == IF m = "NewProduct" THEN e.kind = "tag"
              ELSE e.kind = "product" /\ (m = "Inventory" => e.inv)

\* Every list holds what its mode is for, whatever mode and connection the
\* module has changed to while its frames were looked up: inventory items under
\* Inventory, products under Scan, placeholders under NewProduct.
ListsFitModes ==
  \A c \in Conns, m \in Modes : \A k \in DOMAIN info[c].lists[m] :
    Fits(info[c].lists[m][k], m)

TagsAreStable == ~retagged /\ Disjoint(stock)

\* Two elements are the same product, or the same tag.
SameThing(a, b) ==
  a.kind = b.kind /\ IF a.kind = "product" THEN a.id = b.id ELSE a.tags = b.tags

\* While no product changes its tags and no two share one, no product, and no tag
\* to be used for a new one, is on a list twice, however the handlers overlap and
\* whatever is sold meanwhile: the list is searched by tag, the product may be
\* reported by any of its tags.  That the ids on a list differ is claimed only of
\* products: two tags may get the same.
NoProductTwice ==
  TagsAreStable =>
    \A c \in Conns, m \in Modes : \A k, l \in DOMAIN info[c].lists[m] :
      SameThing(info[c].lists[m][k], info[c].lists[m][l]) => k = l

Registered(i) == clients[i] # None
List(i, m)    == info[clients[i]].lists[m]

\* A list that was emptied, by clearScanHistory or a new connection, while none
\* of its frames was in flight holds nothing from before: each element carries
\* a tag reported since.
ClearedIsGone ==
  \A i \in Ids, m \in Modes :
    Registered(i) /\ hist[i][m].met # "stale" =>
      \A k \in DOMAIN List(i, m) : List(i, m)[k].tags \cap hist[i][m].fresh # {}

\* As long as the frames of a list are handled one after the other and the tags
\* are stable, what was shown to the browsers stays on the list.
ShownIsListed ==
  TagsAreStable =>
    \A i \in Ids, m \in Modes :
      Registered(i) /\ hist[i][m].met = "nothing" =>
        \A e \in hist[i][m].shown : Hits(List(i, m), e) # {}

\* A tag is offered for a new product only if it was free at some moment since
\* it was reported, or two products carry it: what was cached is not consulted.
OfferedTagWasFree ==
  \A s \in Slots :
    /\ Running(s) /\ jobs[s].at = "show" /\ jobs[s].mode = "NewProduct"
    /\ Offers(jobs[s].rows) /\ Cardinality(jobs[s].rows) < 2
    => jobs[s].free
=============================================================================

# Verification of rfid-server

TLA+ models, TLC runs and TLAPS proofs about **rfid-server**, the back end of a
jeweller's stock system: a NestJS server that talks to ESP32-driven RFID
readers over WebSocket, keeps tags, products, customers, invoices and users in
a relational database, caches scan results and gold prices, and backs itself
up. Paths below are relative to the repository.

To repeat a run: `tlc -config X.cfg M`; to repeat the proofs: `tlapm M.tla`. The
table of runs, the lines every definition stands for, the findings and the
hazards with the properties that cover them are in `PROJECT.json`.

## The system

| Component | Code | State | Operations | Correct when |
|---|---|---|---|---|
| ESP32 link | `src/serial/esp32-ws.service.ts`, `src/serial/jrd.controller.ts`, `src/interceptors/serialize-requests.interceptor.ts` | map `clients` of registered modules, `clientInfo` per connection, map `pendingResponses` with 6 s timers, one mutex for all JRD endpoints | hello, heartbeat, battery, Wi-Fi, answers, tag frames, close, heartbeat sweep; start/stop scan (by id, ids, mode), get/set power, region, info, mode, isActive | the map names connections whose `close` has not come; a request slot, its timer and its caller come and go together; every call ends; a reader nobody wants scanning is stopped |
| Firmware bridge | `TCP.esp32.cs` | UART frame parser, WebSocket connection, reader state | forwards commands to the reader, frames to the server, acknowledges starts itself, heartbeats | (the environment of the link) |
| Scan results | `src/socket/socket.gateway.ts` | `tagScanResults` per connection and mode, cache per (EPC, mode) | `emitESPModulesScanResult`, `clearScanHistory` | lists fit their modes, hold no product twice, forget what was cleared; a tag offered for a new product is free |
| Stock | `src/products`, `src/tags`, `src/sales`, `src/customers` services | tables product, tag, product-tags, sale_item, invoice, customer; uploaded files | create/update/delete product, sell, delete invoice, find-or-create customer, lists | no tag is in use by two products; sale items refer to products; customers are not duplicated; files are the photos |
| Authentication | `src/auth`, `src/users`, `src/authorization` | tables user and refresh_token, cookies | register, login, refresh, logout, role update, guards | one user per address, one super user, a refresh token gives one pair, nobody is logged out by rotation |
| Gold price | `src/gold-currency`, `src/helperFunctions/calculateGoldPrice.ts` | 60 s cache | fetch two sources, merge, derive, price per gram | prices do not go back to an earlier day; one gram of gold has one price |
| Lists | `src/helperFunctions/createSortObject.ts` and the four list services | none | a page after a cursor, filtered | the pages are the sorted table, no row twice or left out; what is shown costs what was asked for |
| Backup | `src/db-operations` | backup directory, uploads, database | backup, download, restore | an archive is complete; a restore puts back exactly the archive |

How they interact: the ESP32 link calls the gateway for every accepted tag
frame; the gateway asks the tag service (through the cache) whether a tag may be
used, and emits to the browsers. JRD endpoints call the link behind one mutex,
backups and restores run behind another instance of the same interceptor; the
database services are called by independent HTTP handlers that interleave at
every `await`. A restore rewrites the tables under all of them. Authentication
guards the endpoints and the browser sockets.

What is hard is the same everywhere: code that was checked before an `await` is
used after it; answers, closes and lookups finish in another order than they
began; a request fails between two of its effects; a module, the server or a
mysql process goes on after the other side gave up. The lines where this bites
are the `hazards` of `PROJECT.json`.

The modules are independent but for `Catalogue`, which composes the lists with
the gold prices: each has the component it is named after as its system and the
others as its environment (the mode changes of `EspLink` are
events in `ScanResults`, the stock of `Stock` appears there through the rule it
keeps, and a version in `Backup` is a product's row and its photo). One action is the code
from one await to the next. In all of them `Max...` constants are bounds of the
exploration, not of the code; history variables are named as such at their
declaration, and no guard reads one.

## ESP32 link: `EspLink`, `RequestSlots`, `MCEspLink`, `EspLinkProofs`

One action is one callback of the event loop. A handler that awaits is cut at
the await; its continuation is a microtask, so after a message settled its
promise nothing runs before the continuation except further frames of the same
TCP chunk of the same socket, which `ws` (8.18, `allowSynchronousEvents`)
hands over synchronously. `Running` and `MayHandle` state exactly this.

State: `sock`, `info`, `silent`, `wire`, `peer` are the server's end of the
connections (`readyState`, `clientInfo`, `lastSeen` older than 6 s, frames on
the way, the module at the other end); `clients`, `pending`, `timer` are the
two maps and the armed timers; `http` is the handler inside the mutex (its
operation, the modules a batch has still to visit, the request it is on, and
whether it is suspended); `link`, `radio`, `toDev`, `uart` are the modules (the
connection they believe in, the reader scanning, commands on the way and
commands in the UART). `late` is a history variable: a request of that module
was given up. Power values are abstracted to *a dBm value*, *-1* and *not a
power*; frames to their kind, command and status.

A connection ends in two steps. When the module's close frame, end or reset is
read, `readyState` is CLOSING while the map still names the socket and frames that
came before may still be handed over (`PeerEnds`); the `close` event, which removes
it from the map, comes later (`OnClose`). A command for a module in between is
registered as pending but not sent (the test of `readyState`, line 361), and is left
to its timer. A sweep closes and unregisters at once.

Faults: a link is lost on the module's side (the server's end stays half open
until it is closed), a module is power-cycled, a linked module is silent for
6 s, the reader refuses a command (no answer, or a non-zero status), a full
UART ignores it, the server restarts. They are counted by `MaxFaults`.

### Runs

| Run | Bounds | Shows |
|---|---|---|
| `EspLinkSafe` | modules 0 and 1, 3 connection identities, 2 modes, 3 calls (single and batches), 1 fault, 2 commands in flight | `TypeOK`; `RegistryConsistent`: a registered socket belongs to that module, knows its id, and is open, or closing because the module left it and the `close` event is still to come; `SlotOwned`: slot, timer and waiting caller come and go together; `AnswersExpected`: answers can be misdirected only after a request of that module was given up; `ClientKept`: no other connection's close unregisters a module; `ActiveWhileStarting`: the mutex protects `startScan`'s check of `isActive` until the answer |
| `EspLinkLive` | 1 module, 2 connections, 2 calls of every command but the modes, 1 fault, `FairSpec` | `EveryCallEnds`: the mutex is always released; `RunawayStopped`: a reader nobody wants scanning is stopped by the automatic stop; `SilentSwept`; `HelloRegisters`; `SlotsImplemented`: the link implements `RequestSlots` |
| `EspLinkAnswer` | violation | an answer settles another command's request, against the comment on `sendCommandToEsp` |

Three connection identities are enough for everything about reconnection: the
live connection, a half-open older one, and one that is closing. Two calls are enough for a late answer to meet another request, three to
activate a module, start it and deactivate it meanwhile. One fault can come at any
of these steps; two calls with two faults (5.1 million states, before `PeerEnds` was an action of its own) were explored once,
with the same result. Modules share nothing but the
mutex and the map, so two of them, one with id 0, are enough. The commands are
shared between the two runs: they differ only in what is sent and stored. The
proofs cover every number of modules and connections and all commands. `CHECK_DEADLOCK FALSE`:
when calls and faults are used up and every reader is idle the system rests.

Fairness (`Fairness`): timers fire, the microtask queue drains, frames that
arrived are handled, the heartbeat interval runs, a closing socket is closed
(by its peer or by `ws` after 30 s), the firmware's loop and the reader run, and
a reader left scanning reports tags. No fairness for calls, faults, connections
or the close of a half-open socket.

### What the slots promise: `RequestSlots`

`RequestSlots` is what a user of `sendRequestPromisify` relies on, without
connections, frames and timers: each module serves one request at a time, an HTTP
handler's or an automatic stop's; whatever becomes of the module, a request that
got the slot is released once; and the one handler that runs at a time goes on
exactly when its own request is released. Its fairness says that no request
keeps its slot, and no handler the mutex, for ever. `EspLink` implements it with
`slot` mapped to `pending` and `handler` to `HandlerAt`, the part of `http` that a
caller can tell apart. An answer and a timer are both `Release`, a request
refused at once is no step at all, and a restart is `Forget`. `EspLinkLive`
checks all of it, fairness included; the safety part is proved.

### Proofs

`EspLinkProofs` proves, for every set of modules, connections and modes and
every bound: `TypeCorrect`; `SlotsOwned` (`SlotOwned` is inductive relative to
`TypeOK`: a send needs a free slot, an answer clears the timer of the request
it settles, a timer frees only the slot of its own request);
`RegistryIsConsistent` (not inductive alone, since a hello handled on a socket that
the server has closed would register it; `HelloFirst` says that a hello is the first
frame of a connection that has no id yet and that the server has not closed, `LinkInv`
what the other end of a connection can be, and `RegistryInv` is the conjunction);
`ClientsAreKept` and `StartsStayActive`, two action properties; `AnswersAreExpected`
(below); and
`SlotsAreImplemented`, that `Spec` implements `Slots!Spec`: every action is mapped
to an action of `RequestSlots` or to no step, by `SlotOwned`, which is what makes
`Release` find the handler waiting for the slot that is released. They rest on
the named assumptions of `EspLink` (ids are bytes, `None` is no id, no socket
and no owner, bounds are naturals).

`AnswersExpected` speaks of the whole route of a command: on its way to a module,
in the UART, and as an answer on any wire. That what is on its way is awaited is not
inductive, since a command sent twice would be answered twice; `AnswerInv` says, for
a module none of whose requests was given up, that nothing of it is on its way while
its slot is free (`Quiet`), and otherwise only the awaited command, at one place
(`Placed`). Sending needs a free slot, hence a quiet module; each hop moves the one
command on, for which `LinkInv` (two modules never share a connection) is needed; and
what takes it off the way without an answer (a full UART, a refusal, a lost link)
leaves the request to its timer, which sets `late`. The liveness properties, those
of `RequestSlots` too, are model-checked only.

Not covered by a property: the answers of a module with id 0 are all dropped (line
136 tests the id for truth, and the model does the same), so every request to it times
out; and the hello of an old connection that is handled after the hello of a new one
displaces it (`HelloRegisters` is about the opposite order).

## Stock: `Stock`, `MCStock`, `StockProofs`

State: `product`, `carries` (the join table of products and tags), `tags`,
`invoice`, `items` (sale_items; `lost` when `productId` is NULL) and `customers`
are the tables, `disk` the uploaded files, `req` the handlers: what each was
asked, where it is suspended, and its local variables.

One action is a query, a transaction (atomic) or a file operation. Create and
update share the tag loop (`CheckTag`, `CreateTag`, `Refuse`), which collects the
exceptions of all tags before it refuses; `UploadFiles`, `RemovePhotos` and
`DeleteFiles` move files outside the transaction; `SaveUpdate` writes back the
product that was loaded before the awaits, as TypeORM's `save` does: sale items
that are missing from the loaded relation lose their product, a row that was
deleted meanwhile is inserted again without tags, and a reference to a row that
is gone fails. An item sold while an update of its product is suspended does lose its
product, in the code and in the run; `over`, a history field of the items, says which
those are, and `LostOnlyInOverlap` that no others are lost. A request refused by its first read is no step. Abstracted: the
files of a request and their previews are one file, weights, prices and names
are `other`; the `id` a create body may carry is not modelled; the program runs
in its own directory.

| Run | Bounds | Shows |
|---|---|---|
| `StockClerk` | one clerk, one till, 2 tags, 2 products, 2 invoices, 2 customers, 5 requests, 1 fault | `TypeOK`; `ExclusiveTags`: a tag is never in use by two products; `CustomersDistinct`; `PhotosMatchDisk`: files left behind or missing only after a failure; `ItemsReferToProducts`: a sale item that refers to a product refers to a stored one, and its invoice is stored; `LostOnlyInOverlap`: an item loses its product only when it was sold while an update of that product was suspended |
| `StockRace` | violation | two creations check a free tag before either saves, and both use it |
| `StockReturn` | violation; one tag, an invoice of two products | both products are sold, one gets the tag of the other, and the deletion of the invoice puts the tag in use by both |
| `StockRestock` | violation | an accepted increase of the quantity is not stored |

`ExclusiveTags`, `CustomersDistinct` and `PhotosMatchDisk` need that changes of
the stock do not overlap (`StockRace` is what happens otherwise), so `Does`
gives the clerk the one and the till the other kind of request; sales do overlap
with everything the clerk does. `CheckedSales` makes the till sell only what was
in stock when it looked: the server itself does not compare. An invoice of
`StockClerk` is for one product, since two products of one invoice that share a tag
come back into stock together (`StockReturn`). Two products
compete for two tags, the least that lets one move to another product; six
requests were explored once, with the same result. The system rests when the
requests are used up, hence `CHECK_DEADLOCK FALSE`.

Proved for every number of handlers, rows and users: `StockTyped`, `SalesRefer` and
`LossNeedsOverlap`. `Ready` is the strengthening of the type invariant: it states, per
place where a handler is suspended, that the locals it will use next are there
(a tag it is done with has a row, so what it saves refers to tags that exist).
`ItemsReferToProducts` is then inductive: what removes a product or an invoice
removes or detaches its items in the same transaction. It says nothing of the items that
lost their product; `LossNeedsOverlap` (`LostOnlyInOverlap`) does: `SeenUnlessOver` says
that a suspended update has loaded every item of its product that was not sold during
it. These proofs cover handlers of any kind that overlap in any way, beyond the clerk
and the till of the run.

Three theorems have the hypothesis the run has, that handlers of one kind come one
after the other: `OneTill` (at most one handler may be asked to sell) and `OneClerk`
(at most one may be asked for anything else). Both hold for `Does` of
`StockClerk`, and neither bounds how sales overlap with the rest.

- `CustomersStayDistinct`, from `OneTill`. A till that is about to save a customer
  has found none, and nobody else saves one (`StillUnknown`).
- `PhotosStayOnDisk`, from `OneClerk`. `FilesHeld` says where each file is accounted
  for while the clerk is suspended: in its row, as the old photo that `RemovePhotos`
  gives up, or as an upload not yet saved; no two rows share one. A failure between the
  removal and the transaction of an update leaves a photo missing, and two updates of
  one product leave a file behind: hence the two hypotheses.
- `TagsStayExclusive`, from `OneClerk` and one product to an invoice (`MaxItems <= 1`),
  for any number of tills, with failures, and without `CheckedSales`. `TagsInv` says,
  of the tags a suspended handler is done with, that every product with pieces left
  that carries them is its own (`TagsHeld`); that stays true, since sales only take
  pieces away (`Grows`), and a deleted invoice puts back the one product whose tags it
  checked (`SameGoods`). `StockRace` shows what happens without the first hypothesis,
  `StockReturn` without the second. The pieces sold are a sum over the set of sale
  items, folded by the library: `Minimal` takes a smallest set for which the fold does
  not do what it should, from which follow the rules `SumUnique`, `PiecesSplit` and
  `PiecesGrow` that the proof uses.

## Backup and restore: `Backup`, `MCBackup`, `BackupProofs`

A version of a product stands for its row and for the photo the row names; an
update with a new photo makes a new version of the product (`Of`). `db` and `uploads`
are the versions with a row and those with a photo (`None`: no directory); `backups` is the backup
directory, `kept` the archives users have; `job` is the handler that holds the
mutex, `imports` the mysql processes, `shop` a product handler between two of its
effects: creations write the photo and then the row; updates load the row, may remove
its photo and write a new one, and save the row last, over whatever row the product
has by then; deletions remove the row and then the photo they had loaded. `mysqldump` is the database of one moment; the uploads are listed and
then read file by file. An import drops and creates the tables, then inserts; rows
that came in between make it fail. A line on stderr that is not the known
warning makes the request fail while mysql goes on (`Abandoned`), and the mutex
is free for the next request. A crash stops everything at any point of a removal
or an extraction (`Stopped`); the start re-creates the uploads directory.

`hist` is a history variable about the current job: rows and photos that product
handlers took away and brought meanwhile, rows without a photo when they were dumped,
and whether no abandoned import ran next to it.

| Run | Bounds | Shows |
|---|---|---|
| `Backup` | 2 products in 3 versions, 3 requests, 1 update or deletion, 1 failure or crash, `FairSpec` | `TypeOK`; `BackupComplete`: an archive has the photo of every row in it, but for rows that had none and those whose photo was removed meanwhile by a deletion or by an update with a new photo; `RestoreExact`: a restore that answers success restored exactly the archive, but for what product handlers did meanwhile; `WipedAfterImport`: photos are given up only once the database is in place; `EveryRequestEnds` |

Three requests are a backup, a restore that fails half-way and its repetition.
Two updates or deletions (10.7 million states) were explored once, without the liveness
property, with the same result. `BackupComplete` says exactly what the code protects: an
update that replaces a photo between the dump and the archiving of the uploads does
leave the dumped row without its photo, and a lost order of the two parts would leave
others.
`RestoreExact` is claimed only for restores next to which no abandoned import
ran: such an import really can undo it. Fairness: the handler's own steps and a
mysql process that is waited for go on. The system rests when the requests are used
up, hence `CHECK_DEADLOCK FALSE`.

Proved for every set of rows and every number of products: `BackupTyped` (at most one mysql process is
waited for, and only at that stage) and `BackupsAreComplete`. The inductive
invariant follows the archive from the dump on: at each stage, a dumped row
that is not in `hist` has its photo on disk and listed, or already in
the archive. `RestoresAreExact` and `PhotosGoLast` rest on `RestoreStages`: at each
stage of a restore, what it has done already (rows put back, directory emptied, photos
put back) is still so but for what is in `hist`, as long as `hist.clean`, and no
mysql process but its own runs (`Alone`). The liveness property is model-checked.

## Scan results: `ScanResults`, `MCScanResults`, `ScanResultsProofs`

`info` holds the connections (module id, mode, the lists), `clients` the
registered ones, `stock` the products with their tags as queries see them,
`cache` the entries per tag and mode, `jobs` the handlers in flight.
`emitESPModulesScanResult` is cut into `Get`, `Find`, `Set` and `Show`: the
message callback does not await it, so several run at once. A handler keeps the
list and the mode of the connection its frame came over as they were then
(`OnTag`), and stores the new list in the connection registered when it is done
(`Show`). `NewProduct` does not use the cache. A
placeholder has the number made from the last seven digits of its EPC as its id
(`IdOf`, any function): it may be that of another tag, or of a product. Cache entries expire at any time,
which covers the five minutes of the code and evictions. A failing lookup ends the
process, since nobody catches the rejection (`FindFails`): the connections and
the cache are gone (the cache library in use ignores the configured `store` and
keeps entries in memory). The emits to browsers and the strength filter are left out; whether a frame
is passed on is the business of `EspLink`.

The stock changes as `Stock` allows for one clerk: two products with quantity
left share no tag (`Exclusive`), and `StockRows` lists the rows products take on
in a run. History: `hist` has the tags reported and shown since a list was
emptied, and whether its handlers met one another or a list from before;
`retagged` notes that a product changed its tags; `free` in a handler that its tag
was free at some moment since the frame came.

| Run | Bounds | Shows |
|---|---|---|
| `ScanResults` | 1 module, 2 connections, 2 tags, 2 products with 7 rows between them, 2 handlers, 3 reports, 3 other events | `TypeOK`; `ListsFitModes` across mode changes and reconnections; `NoProductTwice`, of products and of placeholders (by their tag), though reports overlap, a product has several tags and both tags are given the id of a product; `ClearedIsGone`; `ShownIsListed` while reports do not overlap; `OfferedTagWasFree` |

Two handlers are the overlap; the third report follows both. Four other events
were explored in part (18 million states) without an error. Connections, handlers and
signal strengths are only compared, hence symmetric; two products with quantity
left share no tag, so no order the code takes rows in can break the symmetry.

Proved: `OffersWereFree`, for any number of modules, handlers and events. Its
inductive invariant says that the rows a `NewProduct` handler has were the
carriers of its tag at a moment since its frame came.

Proved for the lists: `TypesHold`, `ListsFit`, `ProductsListedOnce`,
`ClearedListsStayCleared` and `ShownStaysListed`, from one inductive invariant,
`ListInv`. It says of what a suspended handler holds, as much as of what is stored,
that a list fits its mode, names a product or a tag once, and has the rows the stock has while
tags are stable; and, per list, who may still store an old one: a handler that read it
before it was emptied (`RecentAt`) or beside another (`AloneAt`), in which case the
properties claim nothing. Lists are built with `FlattenSeq`, a recursive function
of the library; that it computes the concatenation follows from the first number for
which it would not (`Least`, `JoinRule`). `TicksAssumption` is the only addition to
the model that the proofs needed.

## Authentication: `Sessions`, `MCSessions`, `SessionsProofs`, `RotationProofs`

`users` and `tokens` are the tables, `cookies` the pair of JWTs in each browser,
`jobs` the requests in flight, `now` the clock the JWTs expire by. The cookies of
a request are those of the browser when it is sent. `Register`, `Login`,
`RefreshPair`, `Logout` and `UpdateRoles` are the requests with the guards, lookups and checks
up to their first change; `SaveUser`, `Revoke`, `Reread`, `IssuePair` and
`SaveRoles` are the statements they suspend on; `Reply` puts the cookies into the
browser. A request refused before it changed anything is no step. Logging out does
not revoke the token: its row stays as it is, in the model as in the code. The
column `expiresAt` is written and never read; users and tokens are never deleted.
`Drop` is a failed statement or a lost reply, `Crash` the end of the process.
`Expand` computes `getRolesExpand` from the role codes.

History: `parent` of a token (the one it was exchanged for), `raced` (tokens of
which two exchanges overlapped), `held` and `by` in a request (the roles its user
has had since it came; the roles of the token it came with).

| Run | Bounds | Shows |
|---|---|---|
| `Sessions` | 2 browsers, 2 addresses (one the owner's), 4 requests of which 3 overlap, 4 tokens, clock of 2, lifetimes 1 and 2, 1 failure | `TypeOK`; `EmailsUnique`; `OnlyOwnerIsSuper`; `GrantedRolesWereHeld`: role changes reach the tokens that are issued later; `ExchangedOnce`; `CookieIsLive`: while nothing fails, no order of the tabs of a browser logs it out |

Four requests are a registration and three more that overlap, or a registration,
a login elsewhere, a role change and a refresh. Five requests in two slots were
explored once, with the same result. After a failure `CookieIsLive` is not
claimed: a token is revoked before its successor is stored.

Proved for every set of browsers, addresses and role lists: `SessionsTyped`,
`AddressesAreUnique` and `OwnerStaysSuper` (`SessionsProofs`). The last needs, besides types and
unique addresses, that the user a pending `updateRoles` will save is no super
user: the check was made before the await, and no other request makes him one.

`RotationProofs` adds the three about tokens, from `JobsAssumption` (`None` is no
request):

- `GrantedRolesHold`: `HeldInv` says of each suspended request which roles it has
  read and that they are in `held`, up to the statement that signs them.
- `RefreshTokensRotate`: `ExchangeInv` says that an exchange past its check holds a
  token that is stored, that of two of them with one token the token is in `raced`
  (`AloneOrRaced`), and that whatever has a successor is revoked (`ParentRevoked`), so
  it will be refused.
- `RotationKeepsSessions`: `LiveInv` follows the cookie. A revoked token in a cookie is
  one that a request of the same browser will replace (`Replaced`), a token is in one
  browser's hands only (`CookieOwned`), and each reply on its way gives a live token
  (`GivesFresh`), also when several tabs' replies cross.

## Gold prices and lists: `GoldCurrency`, `Lists`, `Catalogue`, `MCCatalogue`, `GoldCurrencyProofs`, `CatalogueProofs`

`GoldCurrency` is the price service. `taban` and `brs` are what the two web
services know, `cache` the stored answer and its time, `fetch` the requests for
prices, each at the await it is suspended on with the replies it has, `now` the
clock. `Ask` answers from the cache or begins to fetch; `TabanReplied` and
`BrsReplied` are the two awaits, one after the other; `Store` merges, derives the
three small coins, turns every price into that of a gram, stores and answers;
`FetchFails` is the `catch`, which answers an error although older prices are
cached. Nothing keeps two requests from fetching at once, and there is no timeout:
no fairness is assumed. `Merge` is a pure operator over the tables of the code
(weights, coins, symbols): of two quotes of a day the dearer, else the later.
Prices are in 1/100000 toman and weights in 1/100000 gram, so that the factors of
the code are exact and only its divisions round; the code calculates in doubles, which
agree with this up to their own rounding. Left out: times of day, names,
icons, and symbols of BRS that `getGoldCurrencyData` passes on untouched.

`Lists` is pure: the query of the four lists as a record (list, sort field,
direction, ranges, tariff), `MakeSortCondition` with the alternatives of a cursor,
`InGroup`, which says what is left of an alternative once the conditions of a
search group were spread over it, the order, the page (`FirstOf`), the next
cursor, and the price of a product, once as the clients compute it
(`CalculateGoldPrice`) and once as the filter does in SQL (`PriceFits`). A search
that matches no path is a row with no `hits`. The two calculations do not agree to the
last digit, and neither does the model's: the database multiplies decimals exactly but
rounds the quotient of the karats (`Ratio`, in parts of `Scale`; MySQL keeps four
digits more than the column has), the clients multiply doubles and round down, so that
a price close to a whole number may come out as the one below (`CalculateGoldPrice` is
the set of what they may get when their numbers are off by up to `Slip`).

`Catalogue` composes them: browsers walk through a list (`OpenList`, `MoreRows`),
a page of products first asks `GoldCurrency` for the prices and fails with them
(`ListFails`). TypeORM's `findAndCount` with relations and a limit is two statements
without a transaction: `PickIds` picks the ids of the page, `Query` reads the rows of
those ids that still match, and takes a page that came out short for the last. Meanwhile rows are created,
dropped and moved, and other callers fetch prices. `GoldSpec` is the abstract
specification of the prices in this composition: `PricesApart` proves that
`Catalogue` implements it. History: `times` a row was shown in a walk, rows that
were `there` when it began, rows that `moved`, whether a cursor had no value
(`restarted`), whether the rows read for a page were not those picked for it (`torn`),
and `stores`/`since`, by which a request knows that it was
overtaken.

| Run | Bounds | Shows |
|---|---|---|
| `Catalogue` | 1 browser and 1 other caller, 3 rows of which two share a sort value or one has none, 2 rows to a page, ids up to 4, two days and two prices, 24 symbols, 4 events | `TypeOK`; `OneGramPrice`: what the merge multiplies by and `assignKarat` divides by agree for all symbols of 18 karat gold; `PricesInOrder`; `NoRowTwice` and `NoneSkipped` across pages while the table changes; `ShownInRange`: a page filtered by price shows products that cost, as the clients compute it and up to the roundings of both sides, what was asked for |
| `CataloguePages` | violation | under a filter by price the next page begins with the last row of the page before |

Three rows with two to a page are two pages, with a boundary inside a group of
equal values; events are requests, quotes, failures, ticks and changes of the
table, and four of them let the second page meet a change, and two fetches meet a
newer quote. Two callers are what overlapping fetches need. Percentages are parts
of ten, so that products of two prices differ by their charge; `Scale` is 10 and `Slip` 1,
and one product has a karat (710 for 750) whose quotient the database rounds, so that
without either allowance `ShownInRange` is violated. The system rests
when the events are used up, hence `CHECK_DEADLOCK FALSE`.

A torn page ends the walk early in the code, and rows are skipped that were there all
the time; `NoneSkipped` excludes walks with such a page, `NoRowTwice` holds of them too.
`NoRowTwice` and `NoneSkipped` are claimed for queries with `CursorKept`, since
three kinds of filter replace part of the cursor's condition: a range of prices
takes the place of the id (the finding), a range over the sort column that of its
value, and a search group over another path of the sort field's relation that of
the sort field. They leave out walks in which a cursor had no value: the code
takes such a cursor for none and starts over. A row is excused when its own sort
field changed. `PricesInOrder` excuses a request that was overtaken, which really
does store older prices. `ShownInRange` allows for the toman that the clients round
down, for `Slip`, and for the part of the price that the rounded quotient is off
(`Rounded`), and excuses accessories under the union tariff, whose upper bound leaves
them out in the code. A cursor over `updatedAt`
depends on time zones and is not modelled.

Proved, for every number of callers, set of listed symbols, tables, page sizes,
queries and bounds, from the assumptions that listed symbols are among those
quoted, quotes are well-typed, ranges of prices are integers, first tables finite
and ids positive:

- `GoldTypeCorrect` and `GramsAgree` (`OneGramPrice`). The lemmas on the merge
  (`MergeType`, `MergeOfGram`) state for any two replies which day and which price
  each symbol gets; divisions are by weights that were proved positive.
- `PricesKeepOrder` (`PricesInOrder`). The inductive invariant says that no
  reply is from the future of its source, that the cache is no later than what
  the sources know, and (`FoundBefore`) that a cache stored before a request
  began is no later than what the request was told, which needs that days of a
  source only advance.
- `PricesApart`, and from it the two properties for the composition.
- `TypeCorrect` of `Catalogue`, with the link between a waiting page and its
  request for prices.
- `NothingTwice` (`NoRowTwice`). `WalkInv` says that what was shown and did not
  move lies before the cursor; `FoundAfter` that a query finds only what lies
  after it, which is where `CursorKept` is needed; `BeforeStays` that the next
  cursor lies further on.
- `NothingSkipped` (`NoneSkipped`), of walks without a torn page. `SeenInv` says that
  every row asked for that was there from the start and has kept its sort field, and lies
  before the cursor (or the end), was shown. `WantedFound` is the converse of `FoundAfter`; `PageHasEarlier` and
  `PageHasAll` say what a page takes: whatever does not come after its last row, and
  everything when it is not full. Between the two statements of a page a row due
  is picked or comes after a full page (`PickedOrLater`), whatever rows come and move, and a
  page that is not torn is what was picked. `PageHasAll` counts rows of the page against rows
  before the first it lacks, which needs a finite table (`TablesAssumption`).
- `PagesCostWhatIsAsked` (`ShownInRange`), for every `Scale` and `Slip`. `CostBounds`
  carries the bounds that the database checks with its rounded quotient over to what the
  clients round down. The hypothesis `Priceable` says that the quotes give every symbol
  a price above 0 and products weigh something, as they do in the run; otherwise the clients take the
  price for unknown while the database goes on with the accessories alone.

## What is not modelled, and why

Of the lists, the ranges and totals that come with a page and the sales
statistics are left out: they are aggregates, computed by reads that change
nothing. Browser sockets keep no state but socket.io's rooms. The firmware's byte
parser is taken as frames that arrive whole or not at all; `Arduino.esp32.cs` is an
earlier bridge over UDP that the server does not talk to. Start-up, configuration,
serialisation, validation of bodies, hashing and the generated end-to-end test
have no state of their own. `PROJECT.json` lists them all.

Only model-checked, by their nature: everything temporal under fairness, and the
runs that show a violation. Induction over data is within reach where it can be
put as the smallest counterexample of a given formula, as for the sums of `Stock`
and the lists of `ScanResults`: the library's theorem on minimal elements takes no
operator. Every safety property of a passing run is a theorem, for all values of the
constants; four of them have a hypothesis about how the system is used (`OneTill`,
`OneClerk`, one product to an invoice, `Priceable`), which the run satisfies. Of
`SlotsImplemented` it is the safety part that is proved.

## Plan

1. Proofs of what no run states yet: what `Stock` keeps when two clerks overlap, and
   the safety part of item 3.
2. The frame parser of the firmware on short byte sequences: it resynchronises
   after noise and never reads past its buffer.
3. An abstract registry (a module is unknown or known through one connection)
   that `EspLink` is shown to implement, next to its slots.

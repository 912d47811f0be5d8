------------------------------- MODULE Backup -------------------------------
(***************************************************************************)
(* Backup and restore: DbOperationsController and DbOperationsService, one *)
(* request at a time behind SerializeRequestsInterceptor, next to product  *)
(* handlers that keep running, and mysql client processes that may outlive *)
(* the request that started them.                                          *)
(*                                                                         *)
(* A version of a product stands for its row and for the photo the row     *)
(* names: db holds the versions whose row is stored, uploads those whose   *)
(* photo exists, and an update that brings a new photo makes a new version.*)
(* One action is what happens between two awaits of a handler, or one      *)
(* statement of a mysql process.                                           *)
(***************************************************************************)
EXTENDS Naturals, FiniteSets

CONSTANTS
  Versions,     \* the rows of products, each with its photo
  Of,           \* [version |-> the id of its product]
  None,         \* no directory, no file, no archive
  MaxRequests,  \* bound: backup and restore requests
  MaxEdits,     \* bound: products loaded to be updated or deleted
  MaxFaults     \* bound: failing operations and crashes of the server

Archives == [sql : SUBSET Versions, files : SUBSET Versions]

ASSUME NoneIsNoFile == /\ None \notin Versions
                       /\ \A s \in SUBSET Versions : s # None
                       /\ \A a \in Archives : a # None
ASSUME BackupBounds == MaxRequests \in Nat /\ MaxEdits \in Nat /\ MaxFaults \in Nat

VARIABLES
  db,       \* the rows in the database
  uploads,  \* the photos in the uploads directory, None without a directory
  backups,  \* the backup directory: the two parts and the archive
  kept,     \* the archives that users have downloaded
  job,      \* the handler that holds the mutex
  imports,  \* the mysql processes
  shop,     \* a handler of ProductsService, between two of its effects
  used,     \* the versions made so far
  requests, edits, faults,
  hist      \* history of the current job, see Fresh

vars == <<db, uploads, backups, kept, job, imports, shop, used, requests, edits, faults, hist>>

Photos  == IF uploads = None THEN {} ELSE uploads
Idle    == [at |-> "idle", arch |-> None, named |-> FALSE, todo |-> {}, done |-> FALSE]
Closed  == [at |-> "idle", p |-> None]
NoFiles == [sql |-> None, uploads |-> None, zip |-> None]
Strays  == {m \in imports : ~m.mine}

\* What is recorded about a job: what handlers of ProductsService took away and
\* brought while it runs (rows and photos), the rows that had no photo when they
\* were dumped, and whether no abandoned mysql process ran next to it.
Fresh == [gone  |-> IF shop.at = "unlink" THEN {shop.p} ELSE {},
          new   |-> IF shop.at = "save" THEN {shop.p} ELSE {},
          gap   |-> {},
          clean |-> Strays = {}]

Init ==
  /\ db = {} /\ uploads = {} /\ backups = NoFiles /\ kept = {}
  /\ job = Idle /\ imports = {} /\ shop = Closed /\ used = {}
  /\ requests = 0 /\ edits = 0 /\ faults = 0
  /\ hist = [gone |-> {}, new |-> {}, gap |-> {}, clean |-> TRUE]

\* The rows in the database of the products that these versions are of.
RowsOf(vs) == {x \in db : \E v \in vs : Of[x] = Of[v]}

Goes(at) == job' = [job EXCEPT !.at = at]

-----------------------------------------------------------------------------
(* Backup *)

RequestBackup ==
  /\ job = Idle /\ requests < MaxRequests
  /\ requests' = requests + 1
  /\ Goes("clear")
  /\ hist' = Fresh
  /\ UNCHANGED <<db, uploads, backups, kept, imports, shop, used, edits, faults>>

\* The earlier backups go before the new one is made.
ClearBackups ==
  /\ job.at = "clear"
  /\ backups' = NoFiles
  /\ Goes("dump")
  /\ UNCHANGED <<db, uploads, kept, imports, shop, used, requests, edits, faults, hist>>

\* mysqldump locks the tables, so the dump is the database of one moment.
BackupDB ==
  /\ job.at = "dump"
  /\ backups' = [backups EXCEPT !.sql = db]
  /\ hist' = [hist EXCEPT !.gap = db \ Photos]
  /\ Goes("list")
  /\ UNCHANGED <<db, uploads, kept, imports, shop, used, requests, edits, faults>>

\* mutant: the request is never answered without a directory.
BackupUploadsHangs ==
  /\ job.at = "list" /\ uploads # None
  /\ backups' = [backups EXCEPT !.uploads = {}]
  /\ job' = [job EXCEPT !.at = "archive", !.todo = uploads]
  /\ UNCHANGED <<db, uploads, kept, imports, shop, used, requests, edits, faults, hist>>

\* Without an uploads directory the backup is refused; otherwise its files are
\* listed, to be read one after the other.
BackupUploads ==
  /\ job.at = "list"
  /\ IF uploads = None
     THEN job' = Idle /\ UNCHANGED backups
     ELSE /\ backups' = [backups EXCEPT !.uploads = {}]
          /\ job' = [job EXCEPT !.at = "archive", !.todo = uploads]
  /\ UNCHANGED <<db, uploads, kept, imports, shop, used, requests, edits, faults, hist>>

\* A file that was listed and is gone when its turn comes is only warned about.
ArchiveFile(p) ==
  /\ job.at = "archive" /\ p \in job.todo
  /\ backups' = [backups EXCEPT !.uploads = @ \cup ({p} \cap Photos)]
  /\ job' = [job EXCEPT !.todo = @ \ {p}]
  /\ UNCHANGED <<db, uploads, kept, imports, shop, used, requests, edits, faults, hist>>

\* mutant: the archive of the uploads is not awaited.
ZipFilesEarly ==
  /\ job.at = "archive"
  /\ backups' = [backups EXCEPT !.zip = [sql |-> backups.sql, files |-> backups.uploads]]
  /\ job' = [job EXCEPT !.at = "unlink", !.todo = {}]
  /\ UNCHANGED <<db, uploads, kept, imports, shop, used, requests, edits, faults, hist>>

ZipFiles ==
  /\ job.at = "archive" /\ job.todo = {}
  /\ backups' = [backups EXCEPT !.zip = [sql |-> backups.sql, files |-> backups.uploads]]
  /\ Goes("unlink")
  /\ UNCHANGED <<db, uploads, kept, imports, shop, used, requests, edits, faults, hist>>

\* The two parts are removed and the archive's address is answered.
DeleteParts ==
  /\ job.at = "unlink"
  /\ backups' = [NoFiles EXCEPT !.zip = backups.zip]
  /\ job' = Idle
  /\ UNCHANGED <<db, uploads, kept, imports, shop, used, requests, edits, faults, hist>>

\* Downloads take no lock.
Download ==
  /\ backups.zip # None /\ job.at # "unlink"
  /\ backups.zip \notin kept
  /\ kept' = kept \cup {backups.zip}
  /\ UNCHANGED <<db, uploads, backups, job, imports, shop, used, requests, edits, faults, hist>>

-----------------------------------------------------------------------------
(* Restore *)

\* The file that is uploaded is an archive; named says whether it still has the
\* name it was downloaded under, from which the names of its parts are derived.
RequestRestore(a, named) ==
  /\ job = Idle /\ requests < MaxRequests
  /\ requests' = requests + 1
  /\ job' = [Idle EXCEPT !.at = "extract", !.arch = a, !.named = named]
  /\ hist' = Fresh
  /\ UNCHANGED <<db, uploads, backups, kept, imports, shop, used, edits, faults>>

\* mutant: the outcome of the import is not looked at.
ExtractAnyName ==
  /\ job.at = "extract"
  /\ IF job.named
     THEN /\ imports' = imports \cup {[sql |-> job.arch.sql, at |-> "drop", mine |-> TRUE]}
          /\ Goes("mysql")
     ELSE Goes("files") /\ UNCHANGED imports
  /\ UNCHANGED <<db, uploads, backups, kept, shop, used, requests, edits, faults, hist>>

\* The request waits for the mysql process it starts; without a dump of the
\* expected name it answers "Database backup not restored." and success.
Extract ==
  /\ job.at = "extract"
  /\ IF job.named
     THEN /\ imports' = imports \cup {[sql |-> job.arch.sql, at |-> "drop", mine |-> TRUE]}
          /\ Goes("mysql")
     ELSE Goes("linger") /\ UNCHANGED imports
  /\ UNCHANGED <<db, uploads, backups, kept, shop, used, requests, edits, faults, hist>>

\* The dump drops and creates each table, then fills it.  A row of one of its
\* products that another import or an update has put there in between makes it
\* fail with a duplicate key.
Import(m) ==
  /\ m \in imports
  /\ \/ /\ m.at = "drop"
        /\ db' = {}
        /\ imports' = (imports \ {m}) \cup {[m EXCEPT !.at = "insert"]}
        /\ UNCHANGED job
     \/ /\ m.at = "insert" /\ RowsOf(m.sql) = {}
        /\ db' = db \cup m.sql
        /\ imports' = imports \ {m}
        /\ IF m.mine THEN Goes("files") ELSE UNCHANGED job
     \/ /\ m.at = "insert" /\ RowsOf(m.sql) # {}
        /\ imports' = imports \ {m}
        /\ IF m.mine THEN job' = Idle ELSE UNCHANGED job
        /\ UNCHANGED db
  /\ UNCHANGED <<uploads, backups, kept, shop, used, requests, edits, faults, hist>>

\* An import that nobody waits for may also end half-way.
ImportDies(m) ==
  /\ m \in Strays
  /\ imports' = imports \ {m}
  /\ UNCHANGED <<db, uploads, backups, kept, job, shop, used, requests, edits, faults, hist>>

\* mutant: the old files stay.
WipeNothing ==
  /\ job.at = "files"
  /\ Goes("unpack")
  /\ UNCHANGED <<db, uploads, backups, kept, imports, shop, used, requests, edits, faults, hist>>

\* The photos are replaced only after the database was: the directory goes ...
WipeUploads ==
  /\ job.at = "files"
  /\ uploads' = None
  /\ Goes("unpack")
  /\ UNCHANGED <<db, backups, kept, imports, shop, used, requests, edits, faults, hist>>

\* ... and comes back with the first file; an archive without photos leaves none.
Unpack ==
  /\ job.at = "unpack"
  /\ uploads' = IF job.arch.files = {} THEN uploads ELSE Photos \cup job.arch.files
  /\ job' = [job EXCEPT !.at = "linger", !.done = TRUE]
  /\ UNCHANGED <<db, backups, kept, imports, shop, used, requests, edits, faults, hist>>

\* The answer comes a second later, with "restored" or "not restored".
Answer ==
  /\ job.at = "linger"
  /\ job' = Idle
  /\ UNCHANGED <<db, uploads, backups, kept, imports, shop, used, requests, edits, faults, hist>>

-----------------------------------------------------------------------------
(* Faults *)

\* mutant: the abandoned process is still taken for the request's own.
StillMine == imports

Abandoned == {[m EXCEPT !.mine = FALSE] : m \in imports}

\* A removal or an extraction that stops in the middle has done a part.
Stopped(dir, some) ==
  CASE job.at = "files" /\ dir # None    -> dir \cap some
    [] job.at = "unpack" /\ some # {}    -> Photos \cup (job.arch.files \cap some)
    [] OTHER                             -> dir
HalfCleared == IF job.at = "clear" THEN backups' \in {backups, NoFiles} ELSE UNCHANGED backups

\* Any awaited operation may reject, and the request fails (only the removal of
\* the two parts catches its own errors).  A mysql process that writes an unknown
\* warning makes the request fail too, and is left running.
Fail ==
  /\ job.at \notin {"idle", "unlink"} /\ faults < MaxFaults
  /\ faults' = faults + 1
  /\ \E some \in SUBSET Versions : uploads' = Stopped(uploads, some)
  /\ HalfCleared
  /\ job' = Idle
  /\ imports' = Abandoned
  /\ UNCHANGED <<db, kept, shop, used, requests, edits, hist>>

\* A crash of the server stops whatever runs.  The uploads directory is created
\* when the server starts again.
Crash ==
  /\ faults < MaxFaults
  /\ faults' = faults + 1
  /\ \E some \in SUBSET Versions : uploads' = Stopped(Photos, some)
  /\ HalfCleared
  /\ job' = Idle /\ shop' = Closed
  /\ imports' = Abandoned
  /\ UNCHANGED <<db, kept, used, requests, edits, hist>>

-----------------------------------------------------------------------------
(* The product handlers, which know nothing of backups *)

\* create writes the photo, creating the directory, and saves the row later.
CreateProduct(p) ==
  /\ shop = Closed /\ \A v \in used : Of[v] # Of[p]
  /\ used' = used \cup {p}
  /\ uploads' = Photos \cup {p}
  /\ shop' = [at |-> "save", p |-> p]
  /\ hist' = [hist EXCEPT !.new = @ \cup {p}]
  /\ UNCHANGED <<db, backups, kept, job, imports, requests, edits, faults>>

\* update and deleteOneProductById load the row, and go on with what they loaded.
LoadProduct(p) ==
  /\ shop = Closed /\ p \in db /\ edits < MaxEdits
  /\ edits' = edits + 1
  /\ shop' = [at |-> "loaded", p |-> p]
  /\ UNCHANGED <<db, uploads, backups, kept, job, imports, used, requests, faults, hist>>

\* An update without a new photo saves the row it loaded.
KeepPhoto ==
  /\ shop.at = "loaded"
  /\ shop' = [shop EXCEPT !.at = "save"]
  /\ hist' = [hist EXCEPT !.new = @ \cup {shop.p}]
  /\ UNCHANGED <<db, uploads, backups, kept, job, imports, used, requests, edits, faults>>

\* An update with a new photo removes the old one first, then writes the new one,
\* and saves the row last.
RemovePhoto ==
  /\ shop.at = "loaded"
  /\ uploads' = IF uploads = None THEN None ELSE uploads \ {shop.p}
  /\ shop' = [shop EXCEPT !.at = "write"]
  /\ hist' = [hist EXCEPT !.gone = @ \cup {shop.p}]
  /\ UNCHANGED <<db, backups, kept, job, imports, used, requests, edits, faults>>

WritePhoto(p) ==
  /\ shop.at = "write" /\ p \notin used /\ Of[p] = Of[shop.p]
  /\ used' = used \cup {p}
  /\ uploads' = Photos \cup {p}
  /\ shop' = [at |-> "save", p |-> p]
  /\ hist' = [hist EXCEPT !.new = @ \cup {p}]
  /\ UNCHANGED <<db, backups, kept, job, imports, requests, edits, faults>>

\* The row is inserted, or takes the place of the row that its product has by now.
SaveProduct ==
  /\ shop.at = "save"
  /\ db' = (db \ RowsOf({shop.p})) \cup {shop.p}
  /\ shop' = Closed
  /\ hist' = [hist EXCEPT !.gone = @ \cup (RowsOf({shop.p}) \ {shop.p})]
  /\ UNCHANGED <<uploads, backups, kept, job, imports, used, requests, edits, faults>>

\* A deletion removes the row of that product, and the photo it had loaded later.
DeleteProduct ==
  /\ shop.at = "loaded"
  /\ db' = db \ RowsOf({shop.p})
  /\ shop' = [shop EXCEPT !.at = "unlink"]
  /\ hist' = [hist EXCEPT !.gone = @ \cup RowsOf({shop.p}) \cup {shop.p}]
  /\ UNCHANGED <<uploads, backups, kept, job, imports, used, requests, edits, faults>>

DeletePhoto ==
  /\ shop.at = "unlink"
  /\ uploads' = IF uploads = None THEN None ELSE uploads \ {shop.p}
  /\ shop' = Closed
  /\ UNCHANGED <<db, backups, kept, job, imports, used, requests, edits, faults, hist>>

-----------------------------------------------------------------------------
BackupSteps  == \/ ClearBackups \/ BackupDB \/ BackupUploads \/ ZipFiles \/ DeleteParts
                \/ \E p \in Versions : ArchiveFile(p)
RestoreSteps == Extract \/ WipeUploads \/ Unpack \/ Answer
Requests     == \/ RequestBackup
                \/ \E a \in kept, named \in BOOLEAN : RequestRestore(a, named)
Shop         == \/ KeepPhoto \/ RemovePhoto \/ SaveProduct \/ DeleteProduct \/ DeletePhoto
                \/ \E p \in Versions : CreateProduct(p) \/ LoadProduct(p) \/ WritePhoto(p)

Next == \/ Requests \/ BackupSteps \/ RestoreSteps \/ Download \/ Shop \/ Fail \/ Crash
        \/ \E m \in imports : Import(m) \/ ImportDies(m)

Spec == Init /\ [][Next]_vars

\* The handler's own steps run as its awaits settle, and mysql processes that
\* are waited for go on.
Fairness ==
  /\ WF_vars(BackupSteps) /\ WF_vars(RestoreSteps)
  /\ WF_vars(\E m \in imports : m.mine /\ Import(m))
FairSpec == Spec /\ Fairness

-----------------------------------------------------------------------------
(* Properties *)

Stages == {"idle", "clear", "dump", "list", "archive", "unlink",
           "extract", "mysql", "files", "unpack", "linger"}
Jobs   == [at : Stages, arch : Archives \cup {None}, named : BOOLEAN,
           todo : SUBSET Versions, done : BOOLEAN]

\* The types, which job has an archive at hand, and which request waits for a
\* mysql process: exactly the one that is at that stage.
TypeOK ==
  /\ db \subseteq Versions /\ used \subseteq Versions
  /\ uploads \in (SUBSET Versions) \cup {None}
  /\ backups \in [sql : (SUBSET Versions) \cup {None}, uploads : (SUBSET Versions) \cup {None},
                  zip : Archives \cup {None}]
  /\ kept \subseteq Archives
  /\ job \in Jobs
  /\ job.at \in {"list", "archive"} => backups.sql # None
  /\ job.at = "archive" => backups.uploads # None
  /\ job.at = "unlink" => backups.zip # None
  /\ job.at \in {"extract", "mysql", "files", "unpack"} => job.arch # None
  /\ imports \subseteq [sql : SUBSET Versions, at : {"drop", "insert"}, mine : BOOLEAN]
  /\ \A m \in imports : m.mine => job.at = "mysql" /\ \A n \in imports : n.mine => n = m
  /\ shop \in [at : {"idle", "loaded", "write", "save", "unlink"}, p : Versions \cup {None}]
  /\ shop.at # "idle" => shop.p # None
  /\ requests \in 0..MaxRequests /\ edits \in 0..MaxEdits /\ faults \in 0..MaxFaults
  /\ hist \in [gone : SUBSET Versions, new : SUBSET Versions, gap : SUBSET Versions,
               clean : BOOLEAN]

\* A finished archive holds the photo of every row it holds, but for products that
\* were deleted or given a new photo while it was made, and rows that had no photo
\* to begin with.  The order of the two parts matters: create and update write a
\* photo before the row that names it, so every row of the earlier dump has its
\* photo in the later archive of the uploads, unless it was removed in between.
BackupComplete ==
  job.at = "unlink" => backups.zip.sql \ backups.zip.files \subseteq hist.gap \cup hist.gone

\* A restore that answers "Database backup restored successfully" has put back
\* exactly the archive, in the database and on disk, but for what the product
\* handlers did meanwhile: whatever crashes and half-done restores came before,
\* as long as none of their mysql processes still runs.
RestoreExact ==
  [][job.at = "linger" /\ job.done /\ job'.at = "idle" /\ faults' = faults /\ hist.clean
     => /\ job.arch.sql \ hist.gone \subseteq db /\ db \subseteq job.arch.sql \cup hist.new
        /\ job.arch.files \ hist.gone \subseteq Photos
        /\ Photos \subseteq job.arch.files \cup hist.new]_vars

\* The photos are given up only for an archive whose database is in place.
WipedAfterImport ==
  [][uploads # None /\ uploads' = None /\ hist.clean
     => job.arch.sql \ hist.gone \subseteq db]_vars

\* Every request is answered, so the mutex is released for the next one.
EveryRequestEnds == job.at # "idle" ~> job.at = "idle"
=============================================================================

---------------------------- MODULE BackupProofs ----------------------------
(***************************************************************************)
(* Theorems about Backup, for every set of rows and every bound: the       *)
(* types, with the request that waits for a mysql process, that a finished *)
(* archive misses no photo but those removed in the meantime, and that a   *)
(* restore puts back the archive.                                          *)
(***************************************************************************)
EXTENDS Backup, TLAPS

\* A handler that goes to another stage keeps everything else.
LEMMA GoesTyped ==
  ASSUME job \in Jobs, NEW at \in Stages, Goes(at)
  PROVE  /\ job' \in Jobs /\ job'.at = at /\ job'.arch = job.arch
         /\ job'.todo = job.todo /\ job'.done = job.done
BY DEF Goes, Jobs

LEMMA IdleTyped == Idle \in Jobs /\ Idle.at = "idle"
BY DEF Idle, Jobs, Stages

LEMMA PhotosTyped == TypeOK => Photos \subseteq Versions
BY DEF TypeOK, Photos

\* What a new job's history starts with.
LEMMA FreshTyped ==
  ASSUME TypeOK
  PROVE  Fresh \in [gone : SUBSET Versions, new : SUBSET Versions, gap : SUBSET Versions,
                    clean : BOOLEAN]
BY DEF TypeOK, Fresh

LEMMA RequestsTyped == ASSUME TypeOK, Requests PROVE TypeOK'
<1>1. CASE RequestBackup
  <2>1. job' \in Jobs /\ job'.at = "clear"
    BY <1>1, GoesTyped DEF RequestBackup, TypeOK, Stages
  <2>2. requests' \in 0..MaxRequests
    BY <1>1, BackupBounds DEF RequestBackup, TypeOK
  <2>3. \A m \in imports : ~m.mine
    BY <1>1, IdleTyped DEF RequestBackup, TypeOK
  <2> QED
    BY <1>1, <2>1, <2>2, <2>3, FreshTyped DEF RequestBackup, TypeOK
<1>2. ASSUME NEW a \in kept, NEW named \in BOOLEAN, RequestRestore(a, named) PROVE TypeOK'
  <2>1. a \in Archives /\ a # None
    BY NoneIsNoFile DEF TypeOK
  <2>2. job' \in Jobs /\ job'.at = "extract" /\ job'.arch = a
    BY <1>2, <2>1 DEF RequestRestore, Idle, Jobs, Stages
  <2>3. requests' \in 0..MaxRequests
    BY <1>2, BackupBounds DEF RequestRestore, TypeOK
  <2>4. \A m \in imports : ~m.mine
    BY <1>2, IdleTyped DEF RequestRestore, TypeOK
  <2> QED
    BY <1>2, <2>1, <2>2, <2>3, <2>4, FreshTyped DEF RequestRestore, TypeOK
<1> QED
  BY <1>1, <1>2 DEF Requests

LEMMA BackupStepsTyped == ASSUME TypeOK, BackupSteps PROVE TypeOK'
<1> DEFINE Directory == [sql : (SUBSET Versions) \cup {None}, uploads : (SUBSET Versions) \cup {None},
                         zip : Archives \cup {None}]
<1>1. CASE ClearBackups
  <2>1. job' \in Jobs /\ job'.at = "dump"
    BY <1>1, GoesTyped DEF ClearBackups, TypeOK, Stages
  <2> QED
    BY <1>1, <2>1 DEF ClearBackups, NoFiles, TypeOK
<1>2. CASE BackupDB
  <2>1. job' \in Jobs /\ job'.at = "list"
    BY <1>2, GoesTyped DEF BackupDB, TypeOK, Stages
  <2>2. backups' \in Directory /\ backups'.sql = db /\ db # None
    BY <1>2, NoneIsNoFile DEF BackupDB, TypeOK
  <2>3. hist' \in [gone : SUBSET Versions, new : SUBSET Versions, gap : SUBSET Versions,
                   clean : BOOLEAN]
    BY <1>2 DEF BackupDB, TypeOK
  <2> QED
    BY <1>2, <2>1, <2>2, <2>3 DEF BackupDB, TypeOK
<1>3. CASE BackupUploads
  <2>1. CASE uploads = None
    BY <1>3, <2>1, IdleTyped DEF BackupUploads, TypeOK
  <2>2. CASE uploads # None
    <3>1. uploads \subseteq Versions /\ {} # None
      BY <2>2, NoneIsNoFile DEF TypeOK
    <3>2. job' \in Jobs /\ job'.at = "archive"
      BY <1>3, <2>2, <3>1 DEF BackupUploads, TypeOK, Jobs, Stages
    <3>3. backups' \in Directory /\ backups'.sql = backups.sql /\ backups'.uploads = {}
      BY <1>3, <2>2 DEF BackupUploads, TypeOK
    <3> QED
      BY <1>3, <3>1, <3>2, <3>3 DEF BackupUploads, TypeOK
  <2> QED
    BY <2>1, <2>2
<1>4. CASE ZipFiles
  <2>1. job' \in Jobs /\ job'.at = "unlink"
    BY <1>4, GoesTyped DEF ZipFiles, TypeOK, Stages
  <2>2. [sql |-> backups.sql, files |-> backups.uploads] \in Archives
    BY <1>4 DEF ZipFiles, TypeOK, Archives
  <2>3. backups' \in Directory /\ backups'.zip # None
    BY <1>4, <2>2, NoneIsNoFile DEF ZipFiles, TypeOK
  <2> QED
    BY <1>4, <2>1, <2>3 DEF ZipFiles, TypeOK
<1>5. CASE DeleteParts
  <2>1. backups' \in Directory
    BY <1>5 DEF DeleteParts, NoFiles, TypeOK
  <2> QED
    BY <1>5, <2>1, IdleTyped DEF DeleteParts, TypeOK
<1>6. ASSUME NEW p \in Versions, ArchiveFile(p) PROVE TypeOK'
  <2>1. job' \in Jobs /\ job'.at = "archive"
    BY <1>6 DEF ArchiveFile, TypeOK, Jobs
  <2>2. backups.uploads \subseteq Versions /\ backups.uploads \cup ({p} \cap Photos) # None
    BY <1>6, NoneIsNoFile DEF ArchiveFile, TypeOK
  <2>3. backups' \in Directory /\ backups'.sql = backups.sql /\ backups'.uploads # None
    BY <1>6, <2>2 DEF ArchiveFile, TypeOK
  <2> QED
    BY <1>6, <2>1, <2>3 DEF ArchiveFile, TypeOK
<1> QED
  BY <1>1, <1>2, <1>3, <1>4, <1>5, <1>6 DEF BackupSteps

LEMMA RestoreStepsTyped == ASSUME TypeOK, RestoreSteps PROVE TypeOK'
<1>1. CASE Extract
  <2>1. CASE job.named
    <3>1. job' \in Jobs /\ job'.at = "mysql" /\ job'.arch = job.arch
      BY <1>1, <2>1, GoesTyped DEF Extract, TypeOK, Stages
    <3>2. job.arch \in Archives /\ job.arch.sql \in SUBSET Versions
      BY <1>1 DEF Extract, TypeOK, Jobs, Archives
    <3> DEFINE new == [sql |-> job.arch.sql, at |-> "drop", mine |-> TRUE]
    <3>3. new \in [sql : SUBSET Versions, at : {"drop", "insert"}, mine : BOOLEAN]
      BY <3>2
    <3>4. imports' = imports \cup {new} /\ \A m \in imports : ~m.mine
      BY <1>1, <2>1 DEF Extract, TypeOK
    <3> HIDE DEF new
    <3> QED
      BY <1>1, <3>1, <3>3, <3>4 DEF Extract, TypeOK
  <2>2. CASE ~job.named
    <3>1. job' \in Jobs /\ job'.at = "linger"
      BY <1>1, <2>2, GoesTyped DEF Extract, TypeOK, Stages
    <3> QED
      BY <1>1, <2>2, <3>1 DEF Extract, TypeOK
  <2> QED
    BY <2>1, <2>2
<1>2. CASE WipeUploads
  <2>1. job' \in Jobs /\ job'.at = "unpack" /\ job'.arch = job.arch
    BY <1>2, GoesTyped DEF WipeUploads, TypeOK, Stages
  <2> QED
    BY <1>2, <2>1 DEF WipeUploads, TypeOK
<1>3. CASE Unpack
  <2>1. job' \in Jobs /\ job'.at = "linger"
    BY <1>3 DEF Unpack, TypeOK, Jobs, Stages
  <2>2. job.arch \in Archives
    BY <1>3 DEF Unpack, TypeOK, Jobs
  <2>3. uploads' \in (SUBSET Versions) \cup {None}
    BY <1>3, <2>2, PhotosTyped DEF Unpack, TypeOK, Archives
  <2> QED
    BY <1>3, <2>1, <2>3 DEF Unpack, TypeOK
<1>4. CASE Answer
  BY <1>4, IdleTyped DEF Answer, TypeOK
<1> QED
  BY <1>1, <1>2, <1>3, <1>4 DEF RestoreSteps

\* Whichever way a mysql process goes, the request hears only from its own.
LEMMA ImportTyped ==
  ASSUME TypeOK, NEW m \in imports, Import(m) \/ ImportDies(m)
  PROVE  TypeOK'
<1>1. m \in [sql : SUBSET Versions, at : {"drop", "insert"}, mine : BOOLEAN]
  BY DEF TypeOK
<1>2. ASSUME m.mine PROVE job.at = "mysql" /\ job.arch # None
  BY <1>2 DEF TypeOK
<1>3. CASE ImportDies(m)
  BY <1>3 DEF ImportDies, Strays, TypeOK
<1>4. CASE Import(m)
  <2>1. CASE m.at = "drop"
    <3> DEFINE n == [m EXCEPT !.at = "insert"]
    <3>1. n \in [sql : SUBSET Versions, at : {"drop", "insert"}, mine : BOOLEAN]
          /\ n.mine = m.mine
      BY <1>1
    <3>2. db' = {} /\ imports' = (imports \ {m}) \cup {n} /\ job' = job
          /\ UNCHANGED <<uploads, backups, kept, shop, used, requests, edits, faults, hist>>
      BY <1>4, <2>1 DEF Import
    <3> HIDE DEF n
    <3> QED
      BY <1>2, <3>1, <3>2 DEF TypeOK
  <2>2. CASE m.at # "drop"
    <3>1. imports' = imports \ {m}
          /\ UNCHANGED <<uploads, backups, kept, shop, used, requests, edits, faults, hist>>
      BY <1>4, <2>2 DEF Import
    <3>2. db' \subseteq Versions
      BY <1>1, <1>4, <2>2 DEF Import, TypeOK
    <3>3. CASE m.mine
      <4>1. \A n \in imports' : ~n.mine
        BY <3>1, <3>3 DEF TypeOK
      <4>2. job' \in Jobs /\ ((job'.at = "files" /\ job'.arch = job.arch) \/ job'.at = "idle")
        BY <1>4, <2>2, <3>3, GoesTyped, IdleTyped DEF Import, TypeOK, Stages
      <4> QED
        BY <1>2, <3>1, <3>2, <3>3, <4>1, <4>2 DEF TypeOK
    <3>4. CASE ~m.mine
      <4>1. job' = job
        BY <1>4, <2>2, <3>4 DEF Import
      <4> QED
        BY <3>1, <3>2, <4>1 DEF TypeOK
    <3> QED
      BY <3>3, <3>4
  <2> QED
    BY <2>1, <2>2
<1> QED
  BY <1>3, <1>4

\* What a removal or an extraction leaves, and the abandoned processes.
LEMMA FaultTyped ==
  ASSUME TypeOK, NEW some \in SUBSET Versions
  PROVE  /\ Stopped(uploads, some) \in (SUBSET Versions) \cup {None}
         /\ Stopped(Photos, some) \in (SUBSET Versions) \cup {None}
         /\ Abandoned \subseteq [sql : SUBSET Versions, at : {"drop", "insert"}, mine : BOOLEAN]
         /\ \A m \in Abandoned : ~m.mine
<1>1. Photos \in SUBSET Versions
  BY PhotosTyped
<1>2. ASSUME job.at = "unpack" PROVE job.arch.files \in SUBSET Versions
  BY <1>2 DEF TypeOK, Jobs, Archives
<1>3. ASSUME NEW dir \in (SUBSET Versions) \cup {None}
      PROVE  Stopped(dir, some) \in (SUBSET Versions) \cup {None}
  <2>1. CASE job.at = "files"
    BY <2>1, <1>3 DEF Stopped
  <2>2. CASE job.at = "unpack"
    BY <2>2, <1>1, <1>2, <1>3 DEF Stopped
  <2>3. CASE job.at \notin {"files", "unpack"}
    BY <2>3, <1>3 DEF Stopped
  <2> QED
    BY <2>1, <2>2, <2>3
<1>4. ASSUME NEW m \in imports
      PROVE  /\ [m EXCEPT !.mine = FALSE] \in
                  [sql : SUBSET Versions, at : {"drop", "insert"}, mine : BOOLEAN]
             /\ ~[m EXCEPT !.mine = FALSE].mine
  BY DEF TypeOK
<1>5. uploads \in (SUBSET Versions) \cup {None}
  BY DEF TypeOK
<1> QED
  BY <1>1, <1>3, <1>4, <1>5 DEF Abandoned

LEMMA FailTyped == ASSUME TypeOK, Fail \/ Crash PROVE TypeOK'
<1>1. faults' \in 0..MaxFaults
  BY BackupBounds DEF Fail, Crash, TypeOK
<1>2. /\ imports' \subseteq [sql : SUBSET Versions, at : {"drop", "insert"}, mine : BOOLEAN]
      /\ \A m \in imports' : ~m.mine
      /\ uploads' \in (SUBSET Versions) \cup {None}
  BY FaultTyped DEF Fail, Crash
<1>3. backups' \in [sql : (SUBSET Versions) \cup {None}, uploads : (SUBSET Versions) \cup {None},
                    zip : Archives \cup {None}]
  BY DEF Fail, Crash, HalfCleared, NoFiles, TypeOK
<1>4. job' \in Jobs /\ job'.at = "idle"
  BY IdleTyped DEF Fail, Crash
<1>5. /\ shop' \in [at : {"idle", "loaded", "write", "save", "unlink"}, p : Versions \cup {None}]
      /\ shop'.at # "idle" => shop'.p # None
  BY DEF Fail, Crash, Closed, TypeOK
<1>6. UNCHANGED <<db, kept, used, requests, edits, hist>>
  BY DEF Fail, Crash
<1> QED
  BY <1>1, <1>2, <1>3, <1>4, <1>5, <1>6 DEF TypeOK

LEMMA ShopTyped == ASSUME TypeOK, Shop PROVE TypeOK'
<1> DEFINE Stage   == {"idle", "loaded", "write", "save", "unlink"}
           History == [gone : SUBSET Versions, new : SUBSET Versions, gap : SUBSET Versions,
                       clean : BOOLEAN]
<1>1. shop \in [at : Stage, p : Versions \cup {None}] /\ hist \in History
  BY DEF TypeOK
<1>2. \A vs \in SUBSET Versions : RowsOf(vs) \subseteq Versions
  BY DEF RowsOf, TypeOK
<1>3. CASE SaveProduct
  <2>1. shop.p \in Versions
    BY <1>3 DEF SaveProduct, TypeOK
  <2> QED
    BY <1>1, <1>2, <1>3, <2>1 DEF SaveProduct, Closed, TypeOK
<1>4. CASE DeletePhoto
  BY <1>4 DEF DeletePhoto, Closed, TypeOK
<1>5. ASSUME NEW p \in Versions, CreateProduct(p) PROVE TypeOK'
  BY <1>5, PhotosTyped, NoneIsNoFile DEF CreateProduct, TypeOK
<1>6. ASSUME NEW p \in Versions, LoadProduct(p) PROVE TypeOK'
  <2>1. edits' \in 0..MaxEdits
    BY <1>6, BackupBounds DEF LoadProduct, TypeOK
  <2> QED
    BY <1>6, <2>1, NoneIsNoFile DEF LoadProduct, TypeOK
<1>7. ASSUME NEW p \in Versions, WritePhoto(p) PROVE TypeOK'
  BY <1>7, PhotosTyped, NoneIsNoFile DEF WritePhoto, TypeOK
<1>8. CASE KeepPhoto \/ RemovePhoto \/ DeleteProduct
  <2>1. shop.p \in Versions /\ shop'.p = shop.p /\ shop' \in [at : Stage, p : Versions \cup {None}]
    BY <1>1, <1>8 DEF KeepPhoto, RemovePhoto, DeleteProduct, TypeOK
  <2>2. hist' \in History
    BY <1>1, <1>2, <1>8, <2>1 DEF KeepPhoto, RemovePhoto, DeleteProduct
  <2>3. uploads' \in (SUBSET Versions) \cup {None} /\ db' \subseteq Versions
    BY <1>8 DEF KeepPhoto, RemovePhoto, DeleteProduct, TypeOK
  <2> QED
    BY <1>8, <2>1, <2>2, <2>3, NoneIsNoFile DEF KeepPhoto, RemovePhoto, DeleteProduct, TypeOK
<1> QED
  BY <1>3, <1>4, <1>5, <1>6, <1>7, <1>8 DEF Shop

LEMMA DownloadTyped == ASSUME TypeOK, Download PROVE TypeOK'
BY DEF Download, TypeOK

LEMMA StutterTyped == ASSUME TypeOK, UNCHANGED vars PROVE TypeOK'
BY DEF vars, TypeOK

\* TypeOK: the directories, the archives, the handler in the mutex and the mysql
\* processes keep their shapes; in particular at most one process is waited for,
\* and only while the request is at that stage.
THEOREM BackupTyped == Spec => []TypeOK
<1>1. Init => TypeOK
  BY IdleTyped, BackupBounds DEF Init, TypeOK, NoFiles, Closed
<1>2. TypeOK /\ [Next]_vars => TypeOK'
  BY RequestsTyped, BackupStepsTyped, RestoreStepsTyped, ImportTyped, FailTyped, ShopTyped,
     DownloadTyped, StutterTyped DEF Next
<1> QED
  BY <1>1, <1>2, PTL DEF Spec

-----------------------------------------------------------------------------
\* BackupComplete is the last of four facts, one for each stage of a backup: what
\* is missing from the photos, from what was archived and is still to be, and from
\* the archive, was missing when the rows were dumped or has been removed since.  A
\* photo that a deletion is about to remove is counted already.
Saving   == shop.at = "save" => shop.p \in hist.new
Deleting == shop.at = "unlink" => shop.p \in hist.gone
Listing  == job.at = "list" => backups.sql \ Photos \subseteq hist.gap \cup hist.gone
Reading  == job.at = "archive" =>
              /\ backups.sql \ (backups.uploads \cup job.todo) \subseteq hist.gap \cup hist.gone
              /\ job.todo \ Photos \subseteq hist.gone
Covered  == TypeOK /\ Deleting /\ Listing /\ Reading /\ BackupComplete

\* A step that leaves the job and its files alone and takes only photos that are
\* counted keeps all four.
LEMMA CoveredAgain ==
  ASSUME Covered, TypeOK', job' = job \/ job' = Idle, job' = job => backups' = backups,
         job'.at \in {"list", "archive"} => Photos \ Photos' \subseteq hist'.gone,
         hist.gone \subseteq hist'.gone, hist'.gap = hist.gap, Deleting'
  PROVE  Covered'
<1>1. CASE job' = job
  BY <1>1 DEF Covered, Deleting, Listing, Reading, BackupComplete
<1>2. CASE job' = Idle
  BY <1>2, IdleTyped DEF Covered, Deleting, Listing, Reading, BackupComplete
<1> QED
  BY <1>1, <1>2

LEMMA RequestsCovered == ASSUME Covered, Requests PROVE Covered'
<1>1. TypeOK' /\ job.at = "idle"
  BY RequestsTyped, IdleTyped DEF Covered, Requests, RequestBackup, RequestRestore
<1>2. job'.at \in {"clear", "extract"} /\ hist' = Fresh /\ shop' = shop
  BY DEF Covered, TypeOK, Jobs, Requests, RequestBackup, RequestRestore, Goes, Idle
<1>3. shop'.at = "unlink" => shop'.p \in hist'.gone
  BY <1>2 DEF Fresh
<1> QED
  BY <1>1, <1>2, <1>3 DEF Covered, Deleting, Listing, Reading, BackupComplete

LEMMA BackupStepsCovered == ASSUME Covered, BackupSteps PROVE Covered'
<1>1. TypeOK' /\ shop' = shop /\ hist'.gone = hist.gone
  BY BackupStepsTyped
     DEF Covered, TypeOK, BackupSteps, ClearBackups, BackupDB, BackupUploads, ZipFiles,
         DeleteParts, ArchiveFile
<1>2. Deleting'
  BY <1>1 DEF Covered, Deleting
<1>3. CASE ClearBackups \/ DeleteParts
  <2>1. job'.at \in {"dump", "idle"}
    BY <1>3, IdleTyped DEF ClearBackups, DeleteParts, Goes, Covered, TypeOK, Jobs
  <2> QED
    BY <1>1, <1>2, <2>1 DEF Covered, Listing, Reading, BackupComplete
<1>4. CASE BackupDB
  <2>1. job'.at = "list" /\ backups'.sql = db /\ hist'.gap = db \ Photos /\ Photos' = Photos
    BY <1>4 DEF BackupDB, Goes, Covered, TypeOK, Jobs, Photos
  <2> QED
    BY <1>1, <1>2, <2>1 DEF Covered, Listing, Reading, BackupComplete
<1>5. CASE BackupUploads
  <2>1. CASE uploads = None
    BY <1>1, <1>2, <1>5, <2>1, IdleTyped
       DEF BackupUploads, Covered, Listing, Reading, BackupComplete
  <2>2. CASE uploads # None
    <3>1. /\ job'.at = "archive" /\ job'.todo = Photos /\ hist' = hist /\ Photos' = Photos
          /\ backups'.sql = backups.sql /\ backups'.uploads = {} /\ job.at = "list"
      BY <1>5, <2>2 DEF BackupUploads, Covered, TypeOK, Jobs, Photos
    <3> QED
      BY <1>1, <1>2, <3>1 DEF Covered, Listing, Reading, BackupComplete
  <2> QED
    BY <2>1, <2>2
<1>6. CASE ZipFiles
  <2>1. /\ job'.at = "unlink" /\ hist' = hist /\ job.at = "archive" /\ job.todo = {}
        /\ backups'.zip.sql = backups.sql /\ backups'.zip.files = backups.uploads
    BY <1>6 DEF ZipFiles, Goes, Covered, TypeOK, Jobs
  <2> QED
    BY <1>1, <1>2, <2>1 DEF Covered, Listing, Reading, BackupComplete
<1>7. ASSUME NEW p \in Versions, ArchiveFile(p) PROVE Covered'
  <2>1. /\ job'.at = "archive" /\ job'.todo = job.todo \ {p} /\ hist' = hist
        /\ Photos' = Photos /\ backups'.sql = backups.sql /\ job.at = "archive"
        /\ backups'.uploads = backups.uploads \cup ({p} \cap Photos) /\ p \in job.todo
    BY <1>7 DEF ArchiveFile, Covered, TypeOK, Jobs, Photos
  <2> QED
    BY <1>1, <1>2, <2>1 DEF Covered, Listing, Reading, BackupComplete
<1> QED
  BY <1>3, <1>4, <1>5, <1>6, <1>7 DEF BackupSteps

LEMMA RestoreStepsCovered == ASSUME Covered, RestoreSteps PROVE Covered'
<1>1. TypeOK' /\ shop' = shop /\ hist' = hist
  BY RestoreStepsTyped
     DEF Covered, RestoreSteps, Extract, WipeUploads, Unpack, Answer
<1>2. job'.at \in {"mysql", "linger", "unpack", "idle"}
  BY IdleTyped
     DEF Covered, TypeOK, Jobs, RestoreSteps, Extract, WipeUploads, Unpack, Answer, Goes
<1> QED
  BY <1>1, <1>2 DEF Covered, Deleting, Listing, Reading, BackupComplete

LEMMA ImportCovered ==
  ASSUME Covered, NEW m \in imports, Import(m) \/ ImportDies(m)
  PROVE  Covered'
<1>1. TypeOK' /\ UNCHANGED <<uploads, backups, shop, hist>>
  BY ImportTyped DEF Covered, Import, ImportDies
<1>2. job' = job \/ job'.at \in {"files", "idle"}
  BY IdleTyped DEF Covered, TypeOK, Jobs, Import, ImportDies, Goes
<1>3. CASE job' = job
  BY <1>1, <1>3 DEF Covered, Deleting, Listing, Reading, BackupComplete, Photos
<1>4. CASE job'.at \in {"files", "idle"}
  BY <1>1, <1>4 DEF Covered, Deleting, Listing, Reading, BackupComplete
<1> QED
  BY <1>2, <1>3, <1>4

\* What the product handlers take away and bring, rows and photos, is recorded.
LEMMA Recorded ==
  ASSUME TypeOK, Deleting, Shop
  PROVE  /\ UNCHANGED <<job, backups, imports>> /\ Deleting'
         /\ hist'.gap = hist.gap /\ hist'.clean = hist.clean
         /\ hist.gone \subseteq hist'.gone /\ hist.new \subseteq hist'.new
         /\ Photos \ Photos' \subseteq hist'.gone /\ Photos' \ Photos \subseteq hist'.new
         /\ db \ db' \subseteq hist'.gone
         /\ Saving => Saving' /\ db' \ db \subseteq hist'.new
<1>1. UNCHANGED <<job, backups, imports>>
  BY DEF Shop, KeepPhoto, RemovePhoto, SaveProduct, DeleteProduct, DeletePhoto, CreateProduct,
         LoadProduct, WritePhoto
<1>2. hist \in [gone : SUBSET Versions, new : SUBSET Versions, gap : SUBSET Versions,
                clean : BOOLEAN]
      /\ shop \in [at : {"idle", "loaded", "write", "save", "unlink"}, p : Versions \cup {None}]
  BY DEF TypeOK
<1>3. \A x : uploads' = (IF uploads = None THEN None ELSE uploads \ {x}) =>
        Photos \ Photos' \subseteq {x} /\ Photos' \subseteq Photos
  BY NoneIsNoFile DEF Photos, TypeOK
<1>4. ASSUME NEW p \in Versions, CreateProduct(p) \/ WritePhoto(p)
      PROVE  /\ Photos' = Photos \cup {p} /\ db' = db /\ hist' = [hist EXCEPT !.new = @ \cup {p}]
             /\ shop' = [at |-> "save", p |-> p]
  BY <1>4, PhotosTyped, NoneIsNoFile DEF CreateProduct, WritePhoto, Photos
<1>5. CASE \E p \in Versions : CreateProduct(p) \/ WritePhoto(p)
  BY <1>1, <1>2, <1>4, <1>5 DEF Deleting, Saving
<1>6. CASE \E p \in Versions : LoadProduct(p)
  BY <1>1, <1>2, <1>6 DEF LoadProduct, Deleting, Saving, Photos
<1>7. CASE KeepPhoto
  BY <1>1, <1>2, <1>7 DEF KeepPhoto, Deleting, Saving, Photos
<1>8. CASE RemovePhoto
  BY <1>1, <1>2, <1>3, <1>8 DEF RemovePhoto, Deleting, Saving
<1>9. CASE SaveProduct
  BY <1>1, <1>2, <1>9 DEF SaveProduct, Closed, Deleting, Saving, Photos
<1>10. CASE DeleteProduct
  BY <1>1, <1>2, <1>10 DEF DeleteProduct, Deleting, Saving, Photos
<1>11. CASE DeletePhoto
  BY <1>1, <1>2, <1>3, <1>11 DEF DeletePhoto, Closed, Deleting, Saving
<1> QED
  BY <1>5, <1>6, <1>7, <1>8, <1>9, <1>10, <1>11 DEF Shop

LEMMA ShopCovered == ASSUME Covered, Shop PROVE Covered'
BY ShopTyped, Recorded, CoveredAgain DEF Covered

LEMMA FailCovered == ASSUME Covered, Fail \/ Crash PROVE Covered'
<1>1. TypeOK' /\ job' = Idle /\ hist' = hist
  BY FailTyped DEF Covered, Fail, Crash
<1>2. Deleting'
  BY <1>1 DEF Fail, Crash, Covered, Deleting, Closed
<1> QED
  BY <1>1, <1>2, IdleTyped DEF Covered, Listing, Reading, BackupComplete

LEMMA RestCovered == ASSUME Covered, Download \/ UNCHANGED vars PROVE Covered'
<1>1. TypeOK' /\ UNCHANGED <<uploads, backups, shop, hist, job>>
  BY DownloadTyped, StutterTyped DEF Covered, Download, vars
<1> QED
  BY <1>1 DEF Covered, Deleting, Listing, Reading, BackupComplete, Photos

\* BackupComplete: whatever the product handlers, failures and abandoned mysql
\* processes do, an archive that is offered for download holds the photo of each
\* of its rows that had one, unless a product handler removed that photo during the
\* backup (a deletion, or an update with a new photo).
THEOREM BackupsAreComplete == Spec => []BackupComplete
<1>1. Init => Covered
  <2>1. Init => TypeOK
    BY IdleTyped, BackupBounds DEF Init, TypeOK, NoFiles, Closed
  <2> QED
    BY <2>1, IdleTyped
       DEF Init, Covered, Deleting, Listing, Reading, BackupComplete, Closed
<1>2. Covered /\ [Next]_vars => Covered'
  BY RequestsCovered, BackupStepsCovered, RestoreStepsCovered, ImportCovered, ShopCovered,
     FailCovered, RestCovered DEF Next
<1>3. Covered => BackupComplete
  BY DEF Covered
<1> QED
  BY <1>1, <1>2, <1>3, PTL DEF Spec

-----------------------------------------------------------------------------
\* A restore empties the database, fills it, empties the uploads and fills them, while
\* the product handlers go on; each fact belongs to one of these stages.  As long as no
\* abandoned mysql process was there when the request began, the only import is its own.
DoneLast   == job.done => job.at = "linger"
Alone      == hist.clean /\ job.at # "idle" =>
                \A m \in imports : m.mine /\ m.sql = job.arch.sql
Emptied    == \A m \in imports : hist.clean /\ m.mine /\ m.at = "insert" => db \subseteq hist.new
RowsBack   == hist.clean /\ (job.at \in {"files", "unpack"} \/ job.done) =>
                /\ job.arch.sql \ hist.gone \subseteq db
                /\ db \subseteq job.arch.sql \cup hist.new
Wiped      == job.at = "unpack" => Photos \subseteq hist.new
PhotosBack == job.done => /\ job.arch.files \ hist.gone \subseteq Photos
                          /\ Photos \subseteq job.arch.files \cup hist.new
Restored   == /\ Covered /\ Saving /\ DoneLast /\ Alone /\ Emptied
              /\ RowsBack /\ Wiped /\ PhotosBack

\* A request waits for its own import only.
LEMMA OwnImport ==
  ASSUME TypeOK, NEW m \in imports, m.mine
  PROVE  job.at = "mysql" /\ \A n \in imports : n.mine => n = m
BY DEF TypeOK

\* Between requests, and at the stages of a backup, nothing is claimed of the restore.
LEMMA NotRestoring ==
  ASSUME Covered', Saving', Alone', ~job'.done, job'.at \notin {"mysql", "files", "unpack"}
  PROVE  Restored'
<1>1. \A m \in imports' : ~m.mine
  BY DEF Covered, TypeOK
<1> QED
  BY <1>1 DEF Restored, DoneLast, Emptied, RowsBack, Wiped, PhotosBack

LEMMA RequestEnded ==
  ASSUME Covered', Saving', job' = Idle
  PROVE  Restored'
<1>1. ~job'.done /\ job'.at = "idle"
  BY DEF Idle
<1> QED
  BY <1>1, NotRestoring DEF Alone

LEMMA RequestsRestored == ASSUME Restored, Requests PROVE Restored'
<1>1. Covered' /\ job.at = "idle"
  BY RequestsCovered, IdleTyped DEF Restored, Requests, RequestBackup, RequestRestore
<1>2. /\ job'.at \in {"clear", "extract"} /\ ~job'.done
      /\ hist' = Fresh /\ shop' = shop /\ imports' = imports
  <2>1. CASE RequestBackup
    BY <2>1 DEF RequestBackup, Goes, Idle
  <2>2. ASSUME NEW a, NEW named, RequestRestore(a, named)
        PROVE  job'.at = "extract" /\ ~job'.done
    BY <2>2 DEF RequestRestore, Idle
  <2> QED
    BY <2>1, <2>2 DEF Requests, RequestRestore
<1>3. Saving'
  BY <1>2 DEF Saving, Fresh
<1>4. Alone'
  <2>1. hist'.clean => imports = {}
    BY <1>1, <1>2, OwnImport DEF Fresh, Strays, Restored, Covered
  <2> QED
    BY <1>2, <2>1 DEF Alone
<1> QED
  BY <1>1, <1>2, <1>3, <1>4, NotRestoring

LEMMA BackupStepsRestored == ASSUME Restored, BackupSteps PROVE Restored'
<1>1. Covered'
  BY BackupStepsCovered DEF Restored
<1>2. /\ shop' = shop /\ imports' = imports
      /\ hist'.new = hist.new /\ hist'.clean = hist.clean
  BY DEF Restored, Covered, TypeOK, BackupSteps, ClearBackups, BackupDB, BackupUploads,
         ZipFiles, DeleteParts, ArchiveFile
<1>3. job.at \in {"clear", "dump", "list", "archive", "unlink"} /\ ~job.done
  BY DEF Restored, DoneLast, BackupSteps, ClearBackups, BackupDB, BackupUploads, ZipFiles,
         DeleteParts, ArchiveFile
<1>4. \/ job' = Idle
      \/ /\ job'.at \in {"dump", "list", "archive", "unlink"} /\ ~job'.done
         /\ job'.arch = job.arch
  BY <1>3 DEF Restored, Covered, TypeOK, Jobs, Goes, BackupSteps, ClearBackups, BackupDB,
              BackupUploads, ZipFiles, DeleteParts, ArchiveFile
<1>5. Saving'
  BY <1>2 DEF Restored, Saving
<1>6. CASE job' = Idle
  BY <1>1, <1>5, <1>6, RequestEnded
<1>7. CASE job' # Idle
  <2>1. Alone'
    BY <1>2, <1>3, <1>4, <1>7 DEF Restored, Alone
  <2> QED
    BY <1>1, <1>4, <1>5, <1>7, <2>1, NotRestoring
<1> QED
  BY <1>6, <1>7

LEMMA RestoreStepsRestored == ASSUME Restored, RestoreSteps PROVE Restored'
<1>1. Covered' /\ Covered /\ TypeOK
  BY RestoreStepsCovered DEF Restored, Covered
<1>2. UNCHANGED <<db, shop, hist>>
  BY DEF RestoreSteps, Extract, WipeUploads, Unpack, Answer
<1>3. Saving'
  BY <1>2 DEF Restored, Saving
<1>4. CASE Extract
  <2>1. job.at = "extract" /\ ~job.done
    BY <1>4 DEF Extract, Restored, DoneLast
  <2>2. \A m \in imports : ~m.mine
    BY <1>1, <2>1, OwnImport
  <2>3. CASE job.named
    <3> DEFINE n == [sql |-> job.arch.sql, at |-> "drop", mine |-> TRUE]
    <3>1. imports' = imports \cup {n} /\ Goes("mysql")
      BY <1>4, <2>3 DEF Extract
    <3>2. job'.at = "mysql" /\ job'.arch = job.arch /\ ~job'.done
      BY <1>1, <2>1, <3>1 DEF Goes, TypeOK, Jobs
    <3>3. n.mine /\ n.sql = job.arch.sql /\ n.at = "drop"
      OBVIOUS
    <3> HIDE DEF n
    <3>4. Alone'
      BY <1>2, <2>1, <3>1, <3>2, <3>3 DEF Restored, Alone
    <3>5. Emptied'
      BY <2>2, <3>1, <3>3 DEF Emptied
    <3> QED
      BY <1>1, <1>3, <3>2, <3>4, <3>5 DEF Restored, DoneLast, RowsBack, Wiped, PhotosBack
  <2>4. CASE ~job.named
    <3>1. Goes("linger") /\ imports' = imports
      BY <1>4, <2>4 DEF Extract
    <3>2. job'.at = "linger" /\ job'.arch = job.arch /\ ~job'.done
      BY <1>1, <2>1, <3>1 DEF Goes, TypeOK, Jobs
    <3>3. Alone'
      BY <1>2, <2>1, <3>1, <3>2 DEF Restored, Alone
    <3> QED
      BY <1>1, <1>3, <3>2, <3>3, NotRestoring
  <2> QED
    BY <2>3, <2>4
<1>5. CASE WipeUploads
  <2>1. /\ job.at = "files" /\ job'.at = "unpack" /\ job'.arch = job.arch
        /\ job'.done = job.done /\ imports' = imports /\ uploads' = None
    BY <1>1, <1>5 DEF WipeUploads, Goes, TypeOK, Jobs
  <2>2. ~job'.done
    BY <2>1 DEF Restored, DoneLast
  <2>3. Photos' = {}
    BY <2>1 DEF Photos
  <2>4. Alone' /\ Emptied'
    BY <1>2, <2>1 DEF Restored, Alone, Emptied
  <2>5. RowsBack'
    BY <1>2, <2>1 DEF Restored, RowsBack
  <2> QED
    BY <1>1, <1>3, <2>2, <2>3, <2>4, <2>5 DEF Restored, DoneLast, Wiped, PhotosBack
<1>6. CASE Unpack
  <2>1. /\ job.at = "unpack" /\ job'.at = "linger" /\ job'.arch = job.arch
        /\ job'.done /\ imports' = imports /\ job.arch \in Archives
        /\ uploads' = IF job.arch.files = {} THEN uploads ELSE Photos \cup job.arch.files
    BY <1>1, <1>6 DEF Unpack, TypeOK, Jobs
  <2>2. Photos' = Photos \cup job.arch.files
    <3>1. CASE job.arch.files = {}
      BY <2>1, <3>1 DEF Photos
    <3>2. CASE job.arch.files # {}
      <4>1. uploads' = Photos \cup job.arch.files /\ uploads' \in SUBSET Versions
        BY <1>1, <2>1, <3>2, PhotosTyped DEF Archives
      <4> QED
        BY <4>1, NoneIsNoFile DEF Photos
    <3> QED
      BY <3>1, <3>2
  <2>3. Alone' /\ Emptied'
    BY <1>2, <2>1 DEF Restored, Alone, Emptied
  <2>4. RowsBack'
    BY <1>2, <2>1 DEF Restored, RowsBack
  <2>5. PhotosBack'
    BY <1>2, <2>1, <2>2 DEF Restored, Wiped, PhotosBack
  <2> QED
    BY <1>1, <1>3, <2>1, <2>3, <2>4, <2>5 DEF Restored, DoneLast, Wiped
<1>7. CASE Answer
  BY <1>1, <1>3, <1>7, RequestEnded DEF Answer
<1> QED
  BY <1>4, <1>5, <1>6, <1>7 DEF RestoreSteps

LEMMA ImportRestored ==
  ASSUME Restored, NEW m \in imports, Import(m) \/ ImportDies(m)
  PROVE  Restored'
<1>1. Covered' /\ TypeOK /\ UNCHANGED <<uploads, shop, hist>>
  BY ImportCovered DEF Restored, Covered, Import, ImportDies
<1>2. Saving' /\ Photos' = Photos
  BY <1>1 DEF Restored, Saving, Photos
<1>3. m \in [sql : SUBSET Versions, at : {"drop", "insert"}, mine : BOOLEAN]
  BY <1>1 DEF TypeOK
<1>4. CASE m.mine
  <2>1. Import(m) /\ job.at = "mysql" /\ \A n \in imports : n.mine => n = m
    BY <1>1, <1>4, OwnImport DEF ImportDies, Strays
  <2>2. ~job.done
    BY <2>1 DEF Restored, DoneLast
  <2>3. hist.clean => imports = {m} /\ m.sql = job.arch.sql
    BY <2>1 DEF Restored, Alone
  <2>4. CASE m.at = "drop"
    <3> DEFINE n == [m EXCEPT !.at = "insert"]
    <3>1. imports' = (imports \ {m}) \cup {n} /\ db' = {} /\ job' = job
      BY <2>1, <2>4 DEF Import
    <3>2. n.mine /\ n.sql = m.sql
      BY <1>3, <1>4
    <3> HIDE DEF n
    <3>3. Alone'
      BY <1>1, <2>1, <2>3, <3>1, <3>2 DEF Alone
    <3>4. Emptied'
      BY <3>1 DEF Emptied
    <3> QED
      BY <1>1, <1>2, <2>1, <2>2, <3>1, <3>3, <3>4
         DEF Restored, DoneLast, RowsBack, Wiped, PhotosBack
  <2>5. CASE m.at = "insert" /\ RowsOf(m.sql) = {}
    <3>1. imports' = imports \ {m} /\ db' = db \cup m.sql /\ Goes("files")
      BY <1>4, <2>1, <2>5 DEF Import
    <3>2. job'.at = "files" /\ job'.arch = job.arch /\ ~job'.done
      BY <1>1, <2>2, <3>1 DEF Goes, TypeOK, Jobs
    <3>3. Alone'
      BY <1>1, <2>1, <3>1, <3>2 DEF Restored, Alone
    <3>4. Emptied'
      BY <2>1, <3>1 DEF Emptied
    <3>5. hist.clean => db \subseteq hist.new
      BY <1>4, <2>5 DEF Restored, Emptied
    <3>6. RowsBack'
      BY <1>1, <2>3, <3>1, <3>2, <3>5 DEF RowsBack
    <3> QED
      BY <1>1, <1>2, <3>2, <3>3, <3>4, <3>6 DEF Restored, DoneLast, Wiped, PhotosBack
  <2>6. CASE m.at = "insert" /\ RowsOf(m.sql) # {}
    <3>1. job' = Idle
      BY <1>4, <2>1, <2>6 DEF Import
    <3> QED
      BY <1>1, <1>2, <3>1, RequestEnded
  <2> QED
    BY <1>3, <2>4, <2>5, <2>6
<1>5. CASE ~m.mine
  <2>1. job' = job /\ \A n \in imports' : n.mine => n \in imports
    BY <1>3, <1>5 DEF Import, ImportDies
  <2>2. hist.clean => job.at = "idle"
    BY <1>5 DEF Restored, Alone
  <2>3. hist.clean => ~job.done /\ \A n \in imports : ~n.mine
    BY <1>1, <2>2, OwnImport DEF Restored, DoneLast
  <2>4. Alone' /\ Emptied' /\ RowsBack'
    BY <1>1, <2>1, <2>2, <2>3 DEF Alone, Emptied, RowsBack
  <2> QED
    BY <1>1, <1>2, <2>1, <2>4 DEF Restored, DoneLast, Wiped, PhotosBack
<1> QED
  BY <1>3, <1>4, <1>5

LEMMA ShopRestored == ASSUME Restored, Shop PROVE Restored'
<1>1. Covered' /\ TypeOK /\ Deleting /\ Saving
  BY ShopCovered DEF Restored, Covered
<1>2. /\ UNCHANGED <<job, imports>> /\ Saving'
      /\ hist'.clean = hist.clean
      /\ hist.gone \subseteq hist'.gone /\ hist.new \subseteq hist'.new
      /\ Photos \ Photos' \subseteq hist'.gone /\ Photos' \ Photos \subseteq hist'.new
      /\ db \ db' \subseteq hist'.gone /\ db' \ db \subseteq hist'.new
  BY <1>1, Recorded
<1>3. DoneLast' /\ Alone' /\ Emptied'
  BY <1>2 DEF Restored, DoneLast, Alone, Emptied
<1>4. RowsBack' /\ Wiped' /\ PhotosBack'
  BY <1>2 DEF Restored, RowsBack, Wiped, PhotosBack
<1> QED
  BY <1>1, <1>2, <1>3, <1>4 DEF Restored

LEMMA FailRestored == ASSUME Restored, Fail \/ Crash PROVE Restored'
<1>1. Covered' /\ job' = Idle /\ hist' = hist /\ shop' \in {shop, Closed}
  BY FailCovered DEF Restored, Fail, Crash
<1>2. Saving'
  BY <1>1 DEF Restored, Saving, Closed
<1> QED
  BY <1>1, <1>2, RequestEnded

LEMMA RestRestored == ASSUME Restored, Download \/ UNCHANGED vars PROVE Restored'
<1>1. Covered' /\ UNCHANGED <<db, uploads, shop, hist, job, imports>>
  BY RestCovered DEF Restored, Download, vars
<1> QED
  BY <1>1 DEF Restored, Saving, DoneLast, Alone, Emptied, RowsBack, Wiped, PhotosBack, Photos

\* What a restore has done, and not yet undone, at each of its stages.
THEOREM RestoreStages == Spec => []Restored
<1>1. Init => Restored
  <2>1. Init => Covered
    BY IdleTyped, BackupBounds
       DEF Init, Covered, TypeOK, NoFiles, Closed, Deleting, Listing, Reading, BackupComplete
  <2> QED
    BY <2>1
       DEF Init, Idle, Closed, Restored, Saving, DoneLast, Alone, Emptied, RowsBack, Wiped, PhotosBack
<1>2. Restored /\ [Next]_vars => Restored'
  BY RequestsRestored, BackupStepsRestored, RestoreStepsRestored, ImportRestored, ShopRestored,
     FailRestored, RestRestored DEF Next
<1> QED
  BY <1>1, <1>2, PTL DEF Spec

\* RestoreExact: a restore that reports success has put back exactly the archive, in
\* the database and on disk, but for what the product handlers did meanwhile.
THEOREM RestoresAreExact == Spec => RestoreExact
<1>1. Restored /\ [Next]_vars =>
        [job.at = "linger" /\ job.done /\ job'.at = "idle" /\ faults' = faults /\ hist.clean
         => /\ job.arch.sql \ hist.gone \subseteq db /\ db \subseteq job.arch.sql \cup hist.new
            /\ job.arch.files \ hist.gone \subseteq Photos
            /\ Photos \subseteq job.arch.files \cup hist.new]_vars
  BY DEF Restored, RowsBack, PhotosBack
<1> QED
  BY <1>1, RestoreStages, PTL DEF Spec, RestoreExact

\* Only the restore that has its database in place removes the uploads directory.
LEMMA WipeStep ==
  ASSUME Restored, [Next]_vars, uploads # None, uploads' = None, hist.clean
  PROVE  job.arch.sql \ hist.gone \subseteq db
<1>1. TypeOK /\ Photos = uploads /\ uploads \in SUBSET Versions
  BY DEF Restored, Covered, TypeOK, Photos
<1>2. CASE WipeUploads
  BY <1>2 DEF WipeUploads, Restored, RowsBack
<1>3. ~Unpack
  <2>1. job.at = "unpack" => job.arch \in Archives
    BY <1>1 DEF TypeOK, Jobs
  <2>2. ASSUME Unpack PROVE FALSE
    <3>1. uploads' = Photos \cup job.arch.files /\ job.arch \in Archives
      BY <2>1, <2>2 DEF Unpack
    <3>2. uploads' \in SUBSET Versions
      BY <1>1, <3>1 DEF Archives
    <3> QED
      BY <3>2, NoneIsNoFile
  <2> QED
    BY <2>2
<1>4. ~Fail /\ ~Crash
  <2>1. ASSUME NEW some \in SUBSET Versions, uploads' = Stopped(uploads, some)
        PROVE  FALSE
    <3>1. job.at = "unpack" => job.arch \in Archives
      BY <1>1 DEF TypeOK, Jobs
    <3>2. Stopped(uploads, some) \in SUBSET Versions
      BY <1>1, <3>1 DEF Stopped, Archives
    <3> QED
      BY <2>1, <3>2, NoneIsNoFile
  <2> QED
    BY <1>1, <2>1 DEF Fail, Crash
<1>5. ~Shop
  <2>1. ~DeletePhoto /\ ~RemovePhoto
    <3>1. uploads \ {shop.p} \in SUBSET Versions
      BY <1>1
    <3> QED
      BY <3>1, NoneIsNoFile DEF DeletePhoto, RemovePhoto
  <2>2. \A p \in Versions : ~CreateProduct(p) /\ ~WritePhoto(p)
    BY <1>1, NoneIsNoFile DEF CreateProduct, WritePhoto
  <2> QED
    BY <2>1, <2>2 DEF Shop, SaveProduct, DeleteProduct, KeepPhoto, LoadProduct
<1> QED
  BY <1>2, <1>3, <1>4, <1>5
     DEF Next, Requests, RequestBackup, RequestRestore, BackupSteps, ClearBackups, BackupDB,
         BackupUploads, ZipFiles, DeleteParts, ArchiveFile, RestoreSteps, Extract, Answer,
         Download, Import, ImportDies, vars

\* WipedAfterImport: the photos are given up only for an archive whose rows are back.
THEOREM PhotosGoLast == Spec => WipedAfterImport
<1>1. Restored /\ [Next]_vars =>
        [uploads # None /\ uploads' = None /\ hist.clean
         => job.arch.sql \ hist.gone \subseteq db]_vars
  BY WipeStep
<1> QED
  BY <1>1, RestoreStages, PTL DEF Spec, WipedAfterImport

=============================================================================

------------------------------ MODULE Ingestion ------------------------------
(***************************************************************************)
(* Acquisition and ingestion of telemetry files: the upload API that stages *)
(* a batch, the two sources a worker reads (the staging area and the inbox  *)
(* directory), the Bronze object store, and the worker commands that take   *)
(* files through registration, analysis, coverage reconciliation and frame  *)
(* reconstruction.                                                          *)
(*                                                                          *)
(* Every worker command runs in ONE database transaction (session_scope):   *)
(* db is the committed database, tx the database as the running session     *)
(* sees it.  A clean exit commits tx; an exception or a killed process      *)
(* rolls back to db.  Files on disk (bronze, staging, inbox, archive, zone)  *)
(* are outside the transaction: what a step did to them survives a rollback. *)
(* One worker command runs at a time; API requests interleave with it.      *)
(***************************************************************************)
EXTENDS FileStatus, Integers, Sequences, FiniteSets

CONSTANTS
  Contents,    \* distinct file contents; a content stands for its SHA-256
  Names,       \* original filenames, numbered in sort order
  Batches,     \* upload batch ids, numbered in creation order
  Days,        \* the business dates of one charger
  InFleet,     \* the charger is in the expected fleet on those dates
  DaysOf,      \* content -> the days its event timestamps fall on
  UploadFiles, \* the files browsers upload
  InboxFiles,  \* the files senders put in the inbox
  NormalizeFiles, \* the files normalization is requested for
  OverLimit,   \* contents larger than ingest.max_file_size_bytes
  Objects,     \* Bronze object ids (the uuid4 of a landing)
  Archiving,   \* filesystem ack_strategy is ARCHIVE
  NoReconstruct, \* process-uploads may be given --no-reconstruct
  NoReconcile, \* run-daily may be given --no-reconcile
  MaxFiles,    \* upload.max_files_per_batch
  MaxCrashes,  \* bound: how often a worker process dies mid-command
  MaxFaults,   \* bound: how often an I/O or processing step raises
  None         \* SQL NULL

ASSUME NamesAssumption == Names \subseteq Nat /\ IsFiniteSet(Names)
ASSUME BatchesAssumption == Batches \subseteq Nat
ASSUME ObjectsAssumption == Objects \subseteq Nat
ASSUME DaysOfAssumption == DaysOf \in [Contents -> SUBSET Days]
ASSUME FlagsAssumption == {Archiving, NoReconstruct, NoReconcile, InFleet} \subseteq BOOLEAN
ASSUME BoundsAssumption == MaxFiles \in Nat /\ MaxCrashes \in Nat /\ MaxFaults \in Nat

(***************************************************************************)
(* A telemetry file is identified by its checksum and its original filename *)
(* (uq_telemetry_file_sha256_name).                                         *)
(***************************************************************************)
Keys == [sha : Contents, name : Names]

ASSUME FilesAssumption == 
  UploadFiles \subseteq Keys /\ InboxFiles \subseteq Keys /\ NormalizeFiles \subseteq Keys
ASSUME NoneAssumption ==
  /\ None \notin Keys /\ None \notin Objects /\ None \notin Contents
  /\ None \notin Batches /\ None \notin Names

BatchStates == {"REGISTERED", "PROCESSING", "COMPLETED",
                "COMPLETED_WITH_WARNINGS", "FAILED"}
RowStates == {"PENDING", "REGISTERED", "DUPLICATE", "REJECTED"}
RunStates == {"PROCESSING", "COMPLETED", "COMPLETED_WITH_WARNINGS", "FAILED"}
AckOutcomes == {"PROCESSED", "DUPLICATE", "QUARANTINED", "FAILED"}

Rows == [status : RowStates \cup {"ABSENT"},
         sha : Contents \cup {None}, file : Keys \cup {None}]
NoRow == [status |-> "ABSENT", sha |-> None, file |-> None]

(* What ingest_file reports for one reference (FileOutcome).                *)
Outcomes == [file : Keys \cup {None}, ack : AckOutcomes, already : BOOLEAN]
NoOutcomes == [n \in Names |-> None]

ASSUME OutcomesAssumption == None \notin Outcomes

(***************************************************************************)
(* The database: telemetry_file (status, dupOf, ref, origin), its file-day  *)
(* rows (days), upload_batch (batch) and upload_batch_file (row), the       *)
(* coverage each charger-day was last reconciled to, the status of the last *)
(* ingestion run, and the files with a completed normalization run.         *)
(***************************************************************************)
Databases ==
  [status : [Keys -> States \cup {"ABSENT"}],
   dupOf : [Keys -> Keys \cup {None}],
   ref : [Keys -> Objects \cup {None}],
   origin : [Keys -> Batches \cup {None}],
   days : SUBSET Keys,
   batch : [Batches -> BatchStates \cup {"ABSENT"}],
   row : [Batches -> [Names -> Rows]],
   coverage : [Days -> SUBSET Keys],
   run : RunStates \cup {"ABSENT"},
   normalized : SUBSET Keys]

EmptyDatabase ==
  [status |-> [k \in Keys |-> "ABSENT"],
   dupOf |-> [k \in Keys |-> None],
   ref |-> [k \in Keys |-> None],
   origin |-> [k \in Keys |-> None],
   days |-> {},
   batch |-> [b \in Batches |-> "ABSENT"],
   row |-> [b \in Batches |-> [n \in Names |-> NoRow]],
   coverage |-> [d \in Days |-> {}],
   run |-> "ABSENT",
   normalized |-> {}]

(***************************************************************************)
(* The worker: where it is (pc), which command it runs (job), the batches   *)
(* still queued, the batch and the filenames still to ingest, the reference *)
(* in hand (name, file, ack, already), the outcomes so far, and the files   *)
(* still to reconstruct.                                                    *)
(***************************************************************************)
PCs == {"idle", "next", "ingest", "analyse", "ack", "frames", "rebuild", "commit"}
Jobs == {"none", "uploads", "daily", "file", "day"}

Workers ==
  [pc : PCs, job : Jobs, queue : SUBSET Batches, batch : Batches \cup {None},
   todo : SUBSET Names, name : Names \cup {None}, file : Keys \cup {None},
   ack : AckOutcomes, already : BOOLEAN,
   outcomes : [Names -> Outcomes \cup {None}], files : SUBSET Keys]

Idle ==
  [pc |-> "idle", job |-> "none", queue |-> {}, batch |-> None, todo |-> {},
   name |-> None, file |-> None, ack |-> "PROCESSED", already |-> FALSE,
   outcomes |-> NoOutcomes, files |-> {}]

VARIABLES
  db,       \* committed database
  tx,       \* the database as the worker's session sees it
  bronze,   \* Bronze object store: object id -> content
  staging,  \* staged upload bytes on disk: <<batch, name>>
  inbox,    \* filesystem source directory: name -> content
  archive,  \* files acknowledged into the archive directory
  zone,     \* copies of quarantined files that operators inspect
  w,        \* the worker
  crashes, faults

vars == <<db, tx, bronze, staging, inbox, archive, zone, w, crashes, faults>>
disk == <<bronze, staging, inbox, archive, zone>>
budget == <<crashes, faults>>

Init ==
  /\ db = EmptyDatabase
  /\ tx = EmptyDatabase
  /\ bronze = [o \in Objects |-> None]
  /\ staging = {}
  /\ inbox = [n \in Names |-> None]
  /\ archive = {}
  /\ zone = {}
  /\ w = Idle
  /\ crashes = 0
  /\ faults = 0

IsLeast(i, S) == i \in S /\ \A j \in S : i <= j

SetStatus(d, k, s) == [d EXCEPT !.status[k] = s]

Fault == faults < MaxFaults /\ faults' = faults + 1 /\ UNCHANGED crashes

Rollback == tx' = db /\ w' = Idle /\ UNCHANGED db

-----------------------------------------------------------------------------
(***************************************************************************)
(* Derived batch outcome (repositories/uploads.py).                         *)
(***************************************************************************)
RowsIn(d, b, s) == {n \in Names : d.row[b][n].status = s}

(* Rows handed over to the pipeline whose telemetry file is in S; the inner *)
(* join drops a row that has no telemetry file.                             *)
Linked(d, b, S) ==
  {n \in RowsIn(d, b, "REGISTERED") :
     d.row[b][n].file # None /\ d.status[d.row[b][n].file] \in S}

BatchCounts(d, b) ==
  LET ready == Cardinality(Linked(d, b, ReadyStates))
      failed == Cardinality(Linked(d, b, {"FAILED"}))
      quarantined == Cardinality(Linked(d, b, {"QUARANTINED"}))
      moving == Cardinality(RowsIn(d, b, "REGISTERED"))
                  - (ready + failed + quarantined)
  IN [total |-> Cardinality({n \in Names : d.row[b][n].status # "ABSENT"}),
      pending |-> Cardinality(RowsIn(d, b, "PENDING")),
      processing |-> IF moving > 0 THEN moving ELSE 0,
      completed |-> ready,
      duplicate |-> Cardinality(RowsIn(d, b, "DUPLICATE"))
                      + Cardinality(Linked(d, b, {"DUPLICATE"})),
      failed |-> failed,
      quarantined |-> quarantined,
      rejected |-> Cardinality(RowsIn(d, b, "REJECTED"))]

(* Seeded error: a quarantined file is not counted as a problem.            *)
ResolveIgnoringQuarantine(d, b) ==
  LET c == BatchCounts(d, b)
      problems == c.failed + c.rejected
  IN IF c.pending > 0 \/ c.processing > 0 THEN "PROCESSING"
     ELSE IF c.completed = 0 /\ problems > 0 THEN "FAILED"
     ELSE IF problems > 0 \/ c.duplicate > 0 THEN "COMPLETED_WITH_WARNINGS"
     ELSE "COMPLETED"

ResolveBatchStatus(d, b) ==
  LET c == BatchCounts(d, b)
      problems == c.failed + c.quarantined + c.rejected
  IN IF c.pending > 0 \/ c.processing > 0 THEN "PROCESSING"
     ELSE IF c.completed = 0 /\ problems > 0 THEN "FAILED"
     ELSE IF problems > 0 \/ c.duplicate > 0 THEN "COMPLETED_WITH_WARNINGS"
     ELSE "COMPLETED"

(***************************************************************************)
(* Coverage (services/coverage_service.py): reconciling a day recomputes it *)
(* from the usable files that have a file-day row for it.  A charger that   *)
(* neither delivered nor is expected is not evaluated: its row stays.       *)
(***************************************************************************)
FilesForDay(d, day) ==
  {k \in d.days : day \in DaysOf[k.sha] /\ d.status[k] \in UsableFileStates}

ReconcileDates(d, dates) ==
  [d EXCEPT !.coverage =
     [day \in Days |-> IF day \in dates /\ (InFleet \/ FilesForDay(d, day) # {})
                       THEN FilesForDay(d, day) ELSE d.coverage[day]]]

DatesTouchedByFiles(d, files) == UNION {DaysOf[k.sha] : k \in files \cap d.days}

(***************************************************************************)
(* Outcome of an ingestion run (IngestionService._tally, _final_status).    *)
(***************************************************************************)
OutcomeFiles(outs) == {outs[n].file : n \in {m \in Names : outs[m] # None}} \ {None}

Tally(outs, ack) ==
  Cardinality({n \in Names : /\ outs[n] # None
                             /\ ~outs[n].already
                             /\ outs[n].ack = ack})

FinalStatus(outs) ==
  LET ready == Tally(outs, "PROCESSED")
      bad == Tally(outs, "FAILED") + Tally(outs, "QUARANTINED")
  IN IF bad = 0 THEN "COMPLETED"
     ELSE IF ready = 0 THEN "FAILED" ELSE "COMPLETED_WITH_WARNINGS"

-----------------------------------------------------------------------------
(***************************************************************************)
(* Environment and API requests.                                            *)
(***************************************************************************)

(* A charger's file arrives in the inbox.  A file already there is replaced *)
(* only between worker commands.                                            *)
Drop(k) ==
  /\ inbox[k.name] # k.sha
  /\ inbox[k.name] = None \/ w.pc = "idle"
  /\ inbox' = [inbox EXCEPT ![k.name] = k.sha]
  /\ UNCHANGED <<db, tx, bronze, staging, archive, zone, w, budget>>

(* The staged row for part i of a request (_stage_one).  A refused part is  *)
(* one that fails the extension, size, batch-size or emptiness check.       *)
StagedRow(parts, refused, i) ==
  LET seen == {parts[j].sha : j \in (1 .. i - 1) \ refused}
      status == IF i \in refused THEN "REJECTED"
                ELSE IF parts[i].sha \in seen THEN "DUPLICATE" ELSE "PENDING"
  IN [status |-> status,
      sha |-> IF i \in refused THEN None ELSE parts[i].sha,
      file |-> None]

(* The parts of one request; uq_upload_batch_file_identity makes the insert *)
(* of two parts with one filename fail, and the request with it.            *)
Requests ==
  {p \in UNION {[1 .. m -> UploadFiles] : m \in 1 .. MaxFiles} :
     \A i, j \in DOMAIN p : p[i].name = p[j].name => i = j}

StagedRows(parts, refused) ==
  [n \in Names |->
     IF \E i \in DOMAIN parts : parts[i].name = n
     THEN StagedRow(parts, refused,
                    CHOOSE i \in DOMAIN parts : parts[i].name = n)
     ELSE NoRow]

AddBatch(d, b, rows) == [d EXCEPT !.batch[b] = "REGISTERED", !.row[b] = rows]

(* POST /ingestion/uploads: stage the bytes, insert the batch and its rows, *)
(* commit.  A batch that the worker's session did not select is visible to  *)
(* it as soon as it is committed.                                           *)
StageBatch(b) ==
  /\ db.batch[b] = "ABSENT"
  /\ \A c \in Batches : c < b => db.batch[c] # "ABSENT"
  /\ \E parts \in Requests :
       \E refused \in SUBSET DOMAIN parts :
         LET rows == StagedRows(parts, refused)
         IN /\ db' = AddBatch(db, b, rows)
            /\ tx' = AddBatch(tx, b, rows)
            /\ staging' = staging \cup
                 {<<b, n>> : n \in {m \in Names : rows[m].status = "PENDING"}}
  /\ UNCHANGED <<bronze, inbox, archive, zone, w, budget>>

(* POST /ingestion/files/{id}/normalize: Silver rows and the normalization  *)
(* run are committed by the write session.  The status moves to NORMALIZING *)
(* and NORMALIZED are made on the object the READ session loaded, so its    *)
(* rollback at the end of the request discards them.                        *)
NormalizeFile(k) ==
  /\ db.status[k] # "ABSENT"
  /\ CanTransition(db.status[k], "NORMALIZING")
  /\ db' = [db EXCEPT !.normalized = @ \cup {k}]
  /\ tx' = [tx EXCEPT !.normalized = @ \cup {k}]
  /\ UNCHANGED <<disk, w, budget>>

-----------------------------------------------------------------------------
(***************************************************************************)
(* process-uploads.                                                         *)
(***************************************************************************)
QueuedBatches(d) == {b \in Batches : d.batch[b] \in {"REGISTERED", "PROCESSING"}}

StartUploads(targets) ==
  /\ w.pc = "idle"
  /\ targets # {}
  /\ w' = [Idle EXCEPT !.pc = "next", !.job = "uploads", !.queue = targets]
  /\ UNCHANGED <<db, tx, disk, budget>>

ProcessUploads == StartUploads(QueuedBatches(db))

(* --batch-id names one batch, whatever its status.                         *)
ProcessOne(b) ==
  /\ db.batch[b] # "ABSENT"
  /\ StartUploads({b})

(* process_batch on a batch with nothing pending only resolves its status.  *)
SkipBatch(b) ==
  /\ w.pc = "next" /\ IsLeast(b, w.queue)
  /\ RowsIn(tx, b, "PENDING") = {}
  /\ tx' = [tx EXCEPT !.batch[b] = ResolveBatchStatus(tx, b)]
  /\ w' = [w EXCEPT !.queue = @ \ {b}]
  /\ UNCHANGED <<db, disk, budget>>

(* Discovery lists the pending rows whose staged file still exists.         *)
StartBatch(b) ==
  /\ w.pc = "next" /\ IsLeast(b, w.queue)
  /\ RowsIn(tx, b, "PENDING") # {}
  /\ tx' = [tx EXCEPT !.batch[b] = "PROCESSING", !.run = "PROCESSING"]
  /\ w' = [w EXCEPT !.pc = "ingest", !.queue = @ \ {b}, !.batch = b,
                    !.todo = {n \in RowsIn(tx, b, "PENDING") : <<b, n>> \in staging}]
  /\ UNCHANGED <<db, disk, budget>>

(* Seeded error: the row copies the outcome instead of REGISTERED.          *)
LinkedRowCopiesOutcome(row, out) ==
  [row EXCEPT !.file = out.file,
              !.status = IF out.already THEN "DUPLICATE" ELSE out.ack]

(* The staged row of a reference takes its outcome (_link_outcomes).        *)
LinkedRow(row, out) ==
  [row EXCEPT !.file = out.file,
              !.status = IF out.already \/ out.ack = "DUPLICATE"
                         THEN "DUPLICATE" ELSE "REGISTERED"]

LinkOutcomes(d, b, outs) ==
  [d EXCEPT
     !.row[b] = [n \in Names |-> IF outs[n] # None
                                 THEN LinkedRow(d.row[b][n], outs[n])
                                 ELSE d.row[b][n]],
     !.origin = [k \in Keys |-> IF k \in OutcomeFiles(outs) /\ d.origin[k] = None
                                THEN b ELSE d.origin[k]]]

(* The end of the batch's ingestion run: link, reconcile the days its files *)
(* touch, then reconstruct them unless --no-reconstruct was given.          *)
SettleBatch ==
  /\ w.pc = "ingest" /\ w.todo = {} /\ w.job = "uploads"
  /\ LET files == OutcomeFiles(w.outcomes)
         linked == LinkOutcomes([tx EXCEPT !.run = FinalStatus(w.outcomes)],
                                w.batch, w.outcomes)
     IN /\ tx' = ReconcileDates(linked, DatesTouchedByFiles(linked, files))
        /\ \E chosen \in {files} \cup (IF NoReconstruct THEN {{}} ELSE {}) :
             w' = [w EXCEPT !.pc = "frames", !.files = chosen]
  /\ UNCHANGED <<db, disk, budget>>

CloseBatch ==
  /\ w.pc = "frames" /\ w.files = {} /\ w.job = "uploads"
  /\ tx' = [tx EXCEPT !.batch[w.batch] = ResolveBatchStatus(tx, w.batch)]
  /\ w' = [w EXCEPT !.pc = "next", !.batch = None, !.outcomes = NoOutcomes]
  /\ UNCHANGED <<db, disk, budget>>

-----------------------------------------------------------------------------
(***************************************************************************)
(* run-daily.                                                               *)
(***************************************************************************)
RunDaily ==
  /\ w.pc = "idle"
  /\ tx' = [tx EXCEPT !.run = "PROCESSING"]
  /\ w' = [Idle EXCEPT !.pc = "ingest", !.job = "daily",
                       !.todo = {n \in Names : inbox[n] # None}]
  /\ UNCHANGED <<db, disk, budget>>

(* The end of the run reconciles the days its files touch and the --date    *)
(* the operator named, unless --no-reconcile was given.                     *)
SettleDaily ==
  /\ w.pc = "ingest" /\ w.todo = {} /\ w.job = "daily"
  /\ LET done == [tx EXCEPT !.run = FinalStatus(w.outcomes)]
         touched == DatesTouchedByFiles(done, OutcomeFiles(w.outcomes))
     IN \E dates \in {touched} \cup {touched \cup {d} : d \in Days}
                       \cup (IF NoReconcile THEN {{}} ELSE {}) :
          tx' = ReconcileDates(done, dates)
  /\ w' = [w EXCEPT !.pc = "commit"]
  /\ UNCHANGED <<db, disk, budget>>

-----------------------------------------------------------------------------
(***************************************************************************)
(* ingest_file on the reference with the least filename still to do.        *)
(***************************************************************************)
Source(n) == IF w.job = "daily" THEN inbox[n] ELSE tx.row[w.batch][n].sha

Take(n) == w.pc = "ingest" /\ IsLeast(n, w.todo)

(* Hand the reference in hand over to the acknowledgement.                  *)
ToAck(n, k, ack, already) ==
  w' = [w EXCEPT !.pc = "ack", !.name = n, !.file = k, !.ack = ack,
                 !.already = already, !.todo = @ \ {n}]

(* _check_admission refuses it before anything is stored.                   *)
RefuseAdmission(n) ==
  /\ Take(n)
  /\ Source(n) \in OverLimit
  /\ ToAck(n, None, "QUARANTINED", FALSE)
  /\ UNCHANGED <<db, tx, disk, budget>>

(* Fetching or storing the bytes raises; no record exists yet.              *)
LandingFails(n) ==
  /\ Take(n)
  /\ Source(n) \notin OverLimit
  /\ ToAck(n, None, "FAILED", FALSE)
  /\ Fault
  /\ UNCHANGED <<db, tx, disk>>

(* Seeded error: the registered object is discarded instead of the copy.    *)
RecogniseDiscardsOriginal(n) ==
  LET k == [sha |-> Source(n), name |-> n] IN
  /\ Take(n)
  /\ Source(n) \notin OverLimit
  /\ tx.status[k] # "ABSENT"
  /\ bronze' = [bronze EXCEPT ![tx.ref[k]] = None]
  /\ ToAck(n, k, "PROCESSED", TRUE)
  /\ UNCHANGED <<db, tx, staging, inbox, archive, zone, budget>>

(* Seeded error: the record is moved to the new copy.                       *)
RecogniseAdoptsCopy(n) ==
  LET k == [sha |-> Source(n), name |-> n] IN
  /\ Take(n)
  /\ Source(n) \notin OverLimit
  /\ tx.status[k] # "ABSENT"
  /\ \E o \in Objects :
       /\ bronze[o] = None
       /\ bronze' = [bronze EXCEPT ![o] = Source(n)]
       /\ tx' = [tx EXCEPT !.ref[k] = o]
  /\ ToAck(n, k, "PROCESSED", TRUE)
  /\ UNCHANGED <<db, staging, inbox, archive, zone, budget>>

(* _register finds the same bytes under the same name: the copy it stored   *)
(* is discarded and the existing record stands.                             *)
RecogniseFile(n) ==
  LET k == [sha |-> Source(n), name |-> n] IN
  /\ Take(n)
  /\ Source(n) \notin OverLimit
  /\ tx.status[k] # "ABSENT"
  /\ ToAck(n, k, "PROCESSED", TRUE)
  /\ UNCHANGED <<db, tx, disk, budget>>

(* Seeded error: only files that are still of use are found.                *)
FindUsableByChecksum(d, sha) ==
  {j \in Keys : j.sha = sha /\ d.status[j] \in UsableFileStates}

FindByChecksum(d, sha) == {j \in Keys : j.sha = sha /\ d.status[j] # "ABSENT"}

FreshObject(o) ==
  bronze[o] = None /\ \A p \in Objects : bronze[p] = None => o <= p

AddFile(d, k, o, status, canonical) ==
  [d EXCEPT !.status[k] = status, !.ref[k] = o, !.dupOf[k] = canonical]

(* _register lands new bytes and records them; content already known under  *)
(* another filename makes the record a DUPLICATE of one of its carriers.    *)
RegisterDuplicate(n) ==
  LET k == [sha |-> Source(n), name |-> n] IN
  /\ Take(n)
  /\ Source(n) \notin OverLimit
  /\ tx.status[k] = "ABSENT"
  /\ \E o \in Objects : \E canonical \in FindByChecksum(tx, Source(n)) :
       /\ FreshObject(o)
       /\ bronze' = [bronze EXCEPT ![o] = Source(n)]
       /\ tx' = AddFile(tx, k, o, "DUPLICATE", canonical)
  /\ ToAck(n, k, "DUPLICATE", FALSE)
  /\ UNCHANGED <<db, staging, inbox, archive, zone, budget>>

RegisterFile(n) ==
  LET k == [sha |-> Source(n), name |-> n] IN
  /\ Take(n)
  /\ Source(n) \notin OverLimit
  /\ FindByChecksum(tx, Source(n)) = {}
  /\ \E o \in Objects :
       /\ FreshObject(o)
       /\ bronze' = [bronze EXCEPT ![o] = Source(n)]
       /\ tx' = AddFile(tx, k, o, "REGISTERED", None)
  /\ w' = [w EXCEPT !.pc = "analyse", !.name = n, !.file = k,
                    !.already = FALSE, !.todo = @ \ {n}]
  /\ UNCHANGED <<db, staging, inbox, archive, zone, budget>>

(* _analyse drives the file along PHASE_1A_HAPPY_PATH.                      *)
HappyNext(s) ==
  CASE s = "DISCOVERED" -> "REGISTERED"
    [] s = "REGISTERED" -> "LANDING"
    [] s = "LANDING" -> "PROFILING"
    [] s = "PROFILING" -> "SCHEMA_VALIDATION"
    [] s = "SCHEMA_VALIDATION" -> "QUALITY_VALIDATION"
    [] OTHER -> "READY_FOR_NORMALIZATION"

(* The file-day rows are replaced after profiling, before the move to       *)
(* SCHEMA_VALIDATION.                                                       *)
AdvanceFile ==
  /\ w.pc = "analyse"
  /\ LET k == w.file
         t == HappyNext(tx.status[k])
     IN /\ CanTransition(tx.status[k], t)
        /\ tx' = [SetStatus(tx, k, t) EXCEPT
                    !.days = IF t = "SCHEMA_VALIDATION" THEN @ \cup {k} ELSE @]
        /\ w' = IF t = "READY_FOR_NORMALIZATION"
                THEN [w EXCEPT !.pc = "ack", !.ack = "PROCESSED"] ELSE w
  /\ UNCHANGED <<db, disk, budget>>

(* An unreadable header, a limit, too many bad timestamps (PROFILING) or a  *)
(* CRITICAL finding (QUALITY_VALIDATION) raises QuarantineError.  A copy for *)
(* operators goes to the quarantine zone; where that fails, it is left out.  *)
QuarantineFile ==
  /\ w.pc = "analyse"
  /\ tx.status[w.file] \in {"PROFILING", "QUALITY_VALIDATION"}
  /\ tx' = SetStatus(tx, w.file, "QUARANTINED")
  /\ w' = [w EXCEPT !.pc = "ack", !.ack = "QUARANTINED"]
  /\ \/ zone' = zone \cup {w.file} /\ UNCHANGED budget
     \/ Fault /\ UNCHANGED zone
  /\ UNCHANGED <<db, bronze, staging, inbox, archive>>

(* Any other exception of the analysis: _mark_failed.                       *)
FailFile ==
  /\ w.pc = "analyse"
  /\ tx' = SetStatus(tx, w.file, "FAILED")
  /\ w' = [w EXCEPT !.pc = "ack", !.ack = "FAILED"]
  /\ Fault
  /\ UNCHANGED <<db, disk>>

Report(ack, already) ==
  w' = [w EXCEPT !.pc = "ingest", !.name = None, !.file = None,
                 !.ack = "PROCESSED", !.already = FALSE,
                 !.outcomes[w.name] =
                   [file |-> w.file, ack |-> ack, already |-> already]]

(* Seeded error: staged bytes of failures are deleted too.                  *)
AcknowledgeDeletesAlways ==
  /\ w.pc = "ack" /\ w.job = "uploads"
  /\ staging' = staging \ {<<w.batch, w.name>>}
  /\ Report(w.ack, w.already)
  /\ UNCHANGED <<db, tx, bronze, inbox, archive, zone, budget>>

(* The manual source deletes staged bytes it is done with.                  *)
AcknowledgeUpload ==
  /\ w.pc = "ack" /\ w.job = "uploads"
  /\ staging' = IF w.ack \in {"FAILED", "QUARANTINED"} THEN staging
                ELSE staging \ {<<w.batch, w.name>>}
  /\ Report(w.ack, w.already)
  /\ UNCHANGED <<db, tx, bronze, inbox, archive, zone, budget>>

(* Deleting staged bytes is best effort: an OSError only leaves them there. *)
StagedCleanupFails ==
  /\ w.pc = "ack" /\ w.job = "uploads"
  /\ w.ack \in {"PROCESSED", "DUPLICATE"}
  /\ Report(w.ack, w.already)
  /\ Fault
  /\ UNCHANGED <<db, tx, disk>>

(* The filesystem source moves everything but failures to the archive.      *)
Moves(ack) == Archiving /\ ack # "FAILED"

AcknowledgeInbox ==
  /\ w.pc = "ack" /\ w.job = "daily"
  /\ IF Moves(w.ack)
     THEN /\ archive' = archive \cup {[sha |-> inbox[w.name], name |-> w.name]}
          /\ inbox' = [inbox EXCEPT ![w.name] = None]
     ELSE UNCHANGED <<archive, inbox>>
  /\ Report(w.ack, w.already)
  /\ UNCHANGED <<db, tx, bronze, staging, zone, budget>>

(* Moving the file raises inside ingest_file's try: the record in hand, new *)
(* or long since registered, is marked FAILED without asking the state      *)
(* machine, and the file stays in the inbox.                                *)
ArchiveFails ==
  /\ w.pc = "ack" /\ w.job = "daily"
  /\ Moves(w.ack) /\ w.ack # "QUARANTINED"
  /\ tx' = SetStatus(tx, w.file, "FAILED")
  /\ Report("FAILED", FALSE)
  /\ Fault
  /\ UNCHANGED <<db, disk>>

(* Moving a quarantined file raises outside the try: the run ends.          *)
QuarantineArchiveFails ==
  /\ w.pc = "ack" /\ w.job = "daily"
  /\ Moves(w.ack) /\ w.ack = "QUARANTINED"
  /\ Rollback
  /\ Fault
  /\ UNCHANGED disk

-----------------------------------------------------------------------------
(***************************************************************************)
(* Frame reconstruction of a set of files: after a batch, for one file      *)
(* (reconstruct) or for every usable file of a day (reconstruct-day).       *)
(***************************************************************************)
ReconstructOne(k) ==
  /\ w.pc = "idle"
  /\ db.status[k] # "ABSENT"
  /\ w' = [Idle EXCEPT !.pc = "frames", !.job = "file", !.files = {k}]
  /\ UNCHANGED <<db, tx, disk, budget>>

ReconstructDay(day) ==
  /\ w.pc = "idle"
  /\ FilesForDay(db, day) # {}
  /\ w' = [Idle EXCEPT !.pc = "frames", !.job = "day",
                       !.files = FilesForDay(db, day)]
  /\ UNCHANGED <<db, tx, disk, budget>>

(* Seeded error: the move to FRAME_RECONSTRUCTION is not guarded.           *)
BeginFramesUnguarded(k) ==
  /\ w.pc = "frames" /\ k \in w.files
  /\ tx' = SetStatus(tx, k, "FRAME_RECONSTRUCTION")
  /\ w' = [w EXCEPT !.pc = "rebuild", !.file = k, !.files = @ \ {k}]
  /\ UNCHANGED <<db, disk, budget>>

BeginFrames(k) ==
  /\ w.pc = "frames" /\ k \in w.files
  /\ CanTransition(tx.status[k], "FRAME_RECONSTRUCTION")
  /\ tx' = SetStatus(tx, k, "FRAME_RECONSTRUCTION")
  /\ w' = [w EXCEPT !.pc = "rebuild", !.file = k, !.files = @ \ {k}]
  /\ UNCHANGED <<db, disk, budget>>

(* IllegalStateTransition: swallowed per file, except by reconstruct.       *)
SkipFrames(k) ==
  /\ w.pc = "frames" /\ k \in w.files
  /\ ~CanTransition(tx.status[k], "FRAME_RECONSTRUCTION")
  /\ IF w.job = "file"
     THEN Rollback
     ELSE w' = [w EXCEPT !.files = @ \ {k}] /\ UNCHANGED <<db, tx>>
  /\ UNCHANGED <<disk, budget>>

EndFrames ==
  /\ w.pc = "rebuild"
  /\ CanTransition(tx.status[w.file], "FRAMES_RECONSTRUCTED")
  /\ tx' = SetStatus(tx, w.file, "FRAMES_RECONSTRUCTED")
  /\ w' = [w EXCEPT !.pc = "frames", !.file = None]
  /\ UNCHANGED <<db, disk, budget>>

(* An exception after the first transition: swallowed per file, which keeps *)
(* the file in FRAME_RECONSTRUCTION, except by reconstruct.                 *)
FramesFail ==
  /\ w.pc = "rebuild"
  /\ IF w.job = "file"
     THEN Rollback
     ELSE w' = [w EXCEPT !.pc = "frames", !.file = None] /\ UNCHANGED <<db, tx>>
  /\ Fault
  /\ UNCHANGED disk

EndReconstruction ==
  /\ w.pc = "frames" /\ w.files = {} /\ w.job \in {"file", "day"}
  /\ w' = [w EXCEPT !.pc = "commit"]
  /\ UNCHANGED <<db, tx, disk, budget>>

(* reconcile --date: one read and one write inside one transaction.         *)
Reconcile(day) ==
  /\ w.pc = "idle"
  /\ db' = ReconcileDates(db, {day})
  /\ tx' = db'
  /\ UNCHANGED <<disk, w, budget>>

-----------------------------------------------------------------------------
(* session_scope: commit on a clean exit.                                   *)
Commit ==
  /\ w.pc = "commit" \/ (w.pc = "next" /\ w.queue = {})
  /\ db' = tx
  /\ w' = Idle
  /\ UNCHANGED <<tx, disk, budget>>

(* The process dies, or the database connection fails, inside a command.    *)
Crash ==
  /\ w.pc # "idle"
  /\ crashes < MaxCrashes
  /\ crashes' = crashes + 1
  /\ Rollback
  /\ UNCHANGED <<disk, faults>>

IngestFile ==
  \/ \E n \in Names : \/ RefuseAdmission(n) \/ LandingFails(n)
                      \/ RecogniseFile(n) \/ RegisterDuplicate(n)
                      \/ RegisterFile(n)
  \/ AdvanceFile \/ QuarantineFile \/ FailFile
  \/ AcknowledgeUpload \/ StagedCleanupFails \/ AcknowledgeInbox
  \/ ArchiveFails \/ QuarantineArchiveFails

ReconstructFrames ==
  \/ \E k \in Keys : BeginFrames(k) \/ SkipFrames(k)
  \/ EndFrames \/ FramesFail \/ EndReconstruction

WorkerStep ==
  \/ \E b \in Batches : SkipBatch(b) \/ StartBatch(b)
  \/ SettleBatch \/ CloseBatch \/ SettleDaily
  \/ IngestFile \/ ReconstructFrames \/ Commit

Command ==
  \/ ProcessUploads
  \/ \E b \in Batches : ProcessOne(b)
  \/ RunDaily
  \/ \E k \in Keys : ReconstructOne(k)
  \/ \E day \in Days : ReconstructDay(day) \/ Reconcile(day)

Request ==
  \/ \E k \in InboxFiles : Drop(k)
  \/ \E b \in Batches : StageBatch(b)
  \/ \E k \in NormalizeFiles : NormalizeFile(k)

Next == Request \/ Command \/ WorkerStep \/ Crash

Spec == Init /\ [][Next]_vars

-----------------------------------------------------------------------------
(***************************************************************************)
(* Properties.                                                              *)
(***************************************************************************)

(* Every variable stays in its declared domain.                             *)
TypeOK ==
  /\ db \in Databases /\ tx \in Databases
  /\ bronze \in [Objects -> Contents \cup {None}]
  /\ staging \subseteq Batches \X Names
  /\ inbox \in [Names -> Contents \cup {None}]
  /\ archive \subseteq Keys
  /\ zone \subseteq Keys
  /\ w \in Workers
  /\ crashes \in 0 .. MaxCrashes /\ faults \in 0 .. MaxFaults

Registered(d) == {k \in Keys : d.status[k] # "ABSENT"}

Backed(d) ==
  \A k \in Registered(d) :
    /\ d.ref[k] \in Objects
    /\ bronze[d.ref[k]] = k.sha
    /\ \A j \in Registered(d) : d.ref[j] = d.ref[k] => j = k

(* Every telemetry file, committed or not, is backed by a Bronze object of  *)
(* its own that holds exactly its content: whatever is landed, discarded,   *)
(* re-presented or rolled back (storage.py: "Registered objects remain      *)
(* immutable").                                                             *)
BronzeBacked == Backed(db) /\ Backed(tx)

OneRoot(d) ==
  /\ \A k \in Registered(d) :
       d.dupOf[k] # None => d.dupOf[k] \in Registered(d) /\ d.dupOf[k].sha = k.sha
  /\ \A j, k \in Registered(d) :
       j.sha = k.sha /\ d.dupOf[j] = None /\ d.dupOf[k] = None => j = k
  /\ \A k \in Registered(d) :
       \E j \in Registered(d) : j.sha = k.sha /\ d.dupOf[j] = None
  /\ \A k \in Registered(d) : d.status[k] = "DUPLICATE" => d.dupOf[k] # None

(* A content has one canonical record: of all files registered with one     *)
(* checksum, over any names, sources, runs and crashes, exactly one is not  *)
(* a duplicate of another registered file of the same content.              *)
SingleCanonical == OneRoot(db) /\ OneRoot(tx)

(* Files whose profile passed validation and that were not given up since:  *)
(* the files a charger-day should be made of.                               *)
Delivered(day) ==
  {k \in Keys : /\ day \in DaysOf[k.sha]
                /\ db.status[k] \notin {"ABSENT", "DISCOVERED", "REGISTERED",
                     "LANDING", "PROFILING", "SCHEMA_VALIDATION",
                     "QUALITY_VALIDATION", "DUPLICATE", "FAILED", "QUARANTINED"}}

(* Between commands the stored coverage of every charger-day is the one its *)
(* delivered files give: no later batch, reconstruction, failure or crash   *)
(* leaves it stale or drops a file that only moved on in the pipeline.      *)
CoverageFresh ==
  w.pc = "idle" => \A day \in Days : db.coverage[day] = Delivered(day)

(* batch_counts: every staged file lands in exactly one bucket.             *)
BucketsPartition ==
  \A b \in Batches :
    LET c == BatchCounts(tx, b)
    IN c.total = c.pending + c.processing + c.completed + c.duplicate
                   + c.failed + c.quarantined + c.rejected

(* No accepted upload is lost while its command runs to its end: its bytes  *)
(* are staged or its content is registered.                                 *)
UploadKept ==
  \A b \in Batches, n \in Names :
    tx.row[b][n].status \in {"PENDING", "REGISTERED"} =>
      \/ <<b, n>> \in staging
      \/ \E k \in Registered(tx) : k.sha = tx.row[b][n].sha

(* A batch reported COMPLETED stands on files that are usable: all of its   *)
(* rows were handed over and every one of their files still counts toward   *)
(* its charger-days.                                                        *)
CompletedMeansUsable ==
  \A b \in Batches, n \in Names :
    db.batch[b] = "COMPLETED" /\ db.row[b][n].status # "ABSENT" =>
      /\ db.row[b][n].status = "REGISTERED"
      /\ db.row[b][n].file # None
      /\ db.status[db.row[b][n].file] \in UsableFileStates

(* What an operator is told of a batch is true: its counts add up to its      *)
(* files and COMPLETED means usable.                                         *)
BatchTruthful == BucketsPartition /\ CompletedMeansUsable

(* Every status write is a move the state machine allows                    *)
(* (state_machine.py: "Guard used by the orchestrator before every status   *)
(* write").  A rollback undoes writes and is not one.                       *)
StatusWriteGuarded ==
  \A k \in Keys :
    tx'.status[k] # tx.status[k] =>
      \/ tx' = db /\ w' = Idle
      \/ tx.status[k] = "ABSENT" /\ tx'.status[k] \in {"REGISTERED", "DUPLICATE"}
      \/ CanTransition(tx.status[k], tx'.status[k])

GuardedWrites == [][StatusWriteGuarded]_vars

(* A committed telemetry file is never forgotten, re-identified or moved to *)
(* another Bronze object, nor is its object rewritten.                      *)
RecordsDurable ==
  \A k \in Registered(db) :
    /\ db'.status[k] # "ABSENT"
    /\ db'.ref[k] = db.ref[k]
    /\ db'.dupOf[k] = db.dupOf[k]
    /\ bronze'[db.ref[k]] = bronze[db.ref[k]]

DurableRecords == [][RecordsDurable]_vars

-----------------------------------------------------------------------------
(***************************************************************************)
(* What the documentation says and the code does not do.                    *)
(***************************************************************************)

(* "a worker killed mid-run resumes rather than stranding the batch": a row *)
(* still pending between commands has bytes to resume from.                 *)
PendingResumable ==
  w.pc = "idle" =>
    \A b \in Batches, n \in Names :
      db.row[b][n].status = "PENDING" => <<b, n>> \in staging

-----------------------------------------------------------------------------
(***************************************************************************)
(* Liveness.  A worker command that was started goes on (it is one process  *)
(* with no waiting); whoever schedules process-uploads runs it again and    *)
(* again, between other commands (docs/daily-ingestion.md leaves scheduling *)
(* to the host, so no command is assumed to run only once).                 *)
(***************************************************************************)
Fairness ==
  /\ WF_vars(WorkerStep)
  /\ SF_vars(ProcessUploads)

FairSpec == Spec /\ Fairness

(* Every accepted batch is eventually resolved: "COMPLETED,                 *)
(* COMPLETED_WITH_WARNINGS, or FAILED".                                     *)
BatchResolved ==
  \A b \in Batches :
    db.batch[b] = "REGISTERED" ~>
      db.batch[b] \in {"COMPLETED", "COMPLETED_WITH_WARNINGS", "FAILED"}

=============================================================================

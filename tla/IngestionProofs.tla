--------------------------- MODULE IngestionProofs ---------------------------
(***************************************************************************)
(* Theorems about Ingestion for every value of its constants: the types, the *)
(* records of files, and, from what a step does to the columns of the        *)
(* database, the uploads, the batches and the coverage.                      *)
(***************************************************************************)
EXTENDS Ingestion, FiniteSetTheorems, TLAPS

(* A pending row carries the content of the bytes staged for it.            *)
RowsOK(d) ==
  \A b \in Batches, n \in Names :
    d.row[b][n].status = "PENDING" => d.row[b][n].sha \in Contents

(* The reference n can still be read from the source of the running command. *)
Readable(n) ==
  /\ w.job = "daily" => inbox[n] \in Contents
  /\ w.job = "uploads" => tx.row[w.batch][n].sha \in Contents

Busy == w.pc \in {"ingest", "analyse", "ack"}

(* What the worker has in hand at each of its steps.                        *)
WorkerOK ==
  /\ Busy => w.job \in {"uploads", "daily"}
  /\ w.pc = "next" => w.job = "uploads"
  /\ (Busy \/ w.pc \in {"frames", "rebuild"}) /\ w.job = "uploads" =>
       w.batch \in Batches /\ db.batch[w.batch] # "ABSENT"
  /\ \A b \in w.queue : db.batch[b] # "ABSENT"
  /\ Busy => \A n \in w.todo : Readable(n)
  /\ w.pc \in {"analyse", "ack"} =>
       w.name \in Names /\ w.name \notin w.todo /\ Readable(w.name)
  /\ w.pc \in {"analyse", "rebuild"} => w.file \in Keys
  /\ w.pc = "ack" /\ w.ack \in {"PROCESSED", "DUPLICATE"} => w.file \in Keys

(* The inductive strengthening of TypeOK.                                   *)
TypeInv == TypeOK /\ RowsOK(db) /\ RowsOK(tx) /\ WorkerOK

(* The worker's session holds every committed file record as it was.        *)
Continues ==
  \A k \in Registered(db) :
    k \in Registered(tx) /\ tx.ref[k] = db.ref[k] /\ tx.dupOf[k] = db.dupOf[k]

(* The inductive strengthening of BronzeBacked and SingleCanonical.         *)
FileInv ==
  /\ BronzeBacked
  /\ SingleCanonical
  /\ Continues
  /\ w.pc = "analyse" => w.file \in Registered(tx)
  /\ w.pc = "ack" /\ w.ack \in {"PROCESSED", "DUPLICATE"} => w.file \in Registered(tx)
  /\ w.pc = "idle" => tx = db

-----------------------------------------------------------------------------
(***************************************************************************)
(* Lemmas: what the helpers return is again a database, a row, a status.    *)
(***************************************************************************)

(* Moving a file to a state leaves a well-formed database.                  *)
LEMMA SetStatusType ==
  ASSUME NEW d \in Databases, NEW k \in Keys, NEW s \in States
  PROVE  SetStatus(d, k, s) \in Databases
BY DEF SetStatus, Databases

(* A state the transition table leads to is a state, and nothing leads out  *)
(* of the absence of a record.                                              *)
LEMMA TransitionType ==
  ASSUME NEW s, NEW t, CanTransition(s, t)
  PROVE  t \in States /\ s # "ABSENT"
BY DEF CanTransition, NextStates, States, FailureExits

(* Registering a file leaves a well-formed database.                        *)
LEMMA AddFileType ==
  ASSUME NEW d \in Databases, NEW k \in Keys, NEW o \in Objects,
         NEW s \in States, NEW c \in Keys \cup {None}
  PROVE  AddFile(d, k, o, s, c) \in Databases
BY DEF AddFile, Databases

(* Reconciling dates leaves a well-formed database.                         *)
LEMMA ReconcileType ==
  ASSUME NEW d \in Databases, NEW dates
  PROVE  ReconcileDates(d, dates) \in Databases
<1>1. \A day \in Days : FilesForDay(d, day) \in SUBSET Keys
  BY DEF FilesForDay, Databases
<1> QED BY <1>1 DEF ReconcileDates, Databases

(* The derived status of a batch is a batch status.                         *)
LEMMA ResolveType ==
  ASSUME NEW d, NEW b
  PROVE  ResolveBatchStatus(d, b) \in BatchStates /\ ResolveBatchStatus(d, b) # "ABSENT"
BY DEF ResolveBatchStatus, BatchStates

(* A staged row is a row, and a pending one has its content.                *)
LEMMA StagedRowType ==
  ASSUME NEW parts \in Requests, NEW refused, NEW i \in DOMAIN parts
  PROVE  /\ StagedRow(parts, refused, i) \in Rows
         /\ StagedRow(parts, refused, i).status = "PENDING" =>
              StagedRow(parts, refused, i).sha \in Contents
<1>1. parts[i] \in Keys
  BY FilesAssumption DEF Requests
<1>2. parts[i].sha \in Contents
  BY <1>1 DEF Keys
<1> QED BY <1>2 DEF StagedRow, Rows, RowStates

(* The rows of a request are rows, and the pending ones have their content. *)
LEMMA StagedRowsType ==
  ASSUME NEW parts \in Requests, NEW refused
  PROVE  /\ StagedRows(parts, refused) \in [Names -> Rows]
         /\ \A n \in Names : StagedRows(parts, refused)[n].status = "PENDING" =>
                               StagedRows(parts, refused)[n].sha \in Contents
<1>1. ASSUME NEW n \in Names
      PROVE  StagedRows(parts, refused)[n] \in Rows /\
             (StagedRows(parts, refused)[n].status = "PENDING" =>
                StagedRows(parts, refused)[n].sha \in Contents)
  <2>1. CASE \E i \in DOMAIN parts : parts[i].name = n
    <3> DEFINE c == CHOOSE i \in DOMAIN parts : parts[i].name = n
    <3>1. c \in DOMAIN parts BY <2>1
    <3>2. StagedRows(parts, refused)[n] = StagedRow(parts, refused, c)
      BY <2>1 DEF StagedRows
    <3> QED BY <3>1, <3>2, StagedRowType
  <2>2. CASE ~ \E i \in DOMAIN parts : parts[i].name = n
    BY <2>2 DEF StagedRows, NoRow, Rows
  <2> QED BY <2>1, <2>2
<1> QED BY <1>1 DEF StagedRows

(* The row of a reference that was handed over is a row, no longer pending. *)
LEMMA LinkedRowType ==
  ASSUME NEW row \in Rows, NEW out \in Outcomes
  PROVE  LinkedRow(row, out) \in Rows /\ LinkedRow(row, out).status # "PENDING"
BY DEF LinkedRow, Rows, Outcomes, RowStates

(* The files of a run's outcomes are files.                                 *)
LEMMA OutcomeFilesType ==
  ASSUME NEW outs \in [Names -> Outcomes \cup {None}]
  PROVE  OutcomeFiles(outs) \in SUBSET Keys
BY DEF OutcomeFiles, Outcomes

(* Linking outcomes leaves a well-formed database.                          *)
LEMMA LinkOutcomesType ==
  ASSUME NEW d \in Databases, NEW b \in Batches, RowsOK(d),
         NEW outs \in [Names -> Outcomes \cup {None}]
  PROVE  LinkOutcomes(d, b, outs) \in Databases /\ RowsOK(LinkOutcomes(d, b, outs))
<1> DEFINE rows == [n \in Names |-> IF outs[n] # None
                                    THEN LinkedRow(d.row[b][n], outs[n])
                                    ELSE d.row[b][n]]
<1>1. \A n \in Names : rows[n] \in Rows /\ (rows[n].status = "PENDING" => rows[n].sha \in Contents)
  BY LinkedRowType DEF Databases, RowsOK
<1>2. rows \in [Names -> Rows] BY <1>1
<1> HIDE DEF rows
<1>3. LinkOutcomes(d, b, outs) \in Databases
  BY <1>2 DEF LinkOutcomes, Databases, rows
<1>4. LinkOutcomes(d, b, outs).row = [d.row EXCEPT ![b] = rows]
  BY DEF LinkOutcomes, Databases, rows
<1>5. RowsOK(LinkOutcomes(d, b, outs))
  BY <1>1, <1>4 DEF RowsOK, Databases
<1> QED BY <1>3, <1>5

(* The final status of a run is a run status.                               *)
LEMMA FinalStatusType ==
  ASSUME NEW outs
  PROVE  FinalStatus(outs) \in RunStates
BY DEF FinalStatus, RunStates

-----------------------------------------------------------------------------
(***************************************************************************)
(* Type correctness.                                                        *)
(***************************************************************************)

(* The initial state satisfies the invariant.                               *)
LEMMA TypeInit == Init => TypeInv
<1> SUFFICES ASSUME Init PROVE TypeInv
  OBVIOUS
<1>1. EmptyDatabase \in Databases /\ RowsOK(EmptyDatabase)
  BY DEF EmptyDatabase, Databases, NoRow, Rows, RowsOK
<1>2. Idle \in Workers
  BY DEF Idle, Workers, PCs, Jobs, AckOutcomes, NoOutcomes
<1>3. TypeOK
  BY <1>1, <1>2, BoundsAssumption DEF Init, TypeOK
<1>4. WorkerOK
  BY DEF Init, WorkerOK, Busy, Idle
<1> QED BY <1>1, <1>3, <1>4 DEF TypeInv, Init

(* A rollback returns to the committed database and an idle worker.         *)
LEMMA RollbackType ==
  ASSUME TypeInv, Rollback, UNCHANGED disk,
         crashes' \in 0 .. MaxCrashes, faults' \in 0 .. MaxFaults
  PROVE  TypeInv'
<1>1. Idle \in Workers
  BY DEF Idle, Workers, PCs, Jobs, AckOutcomes, NoOutcomes
<1>2. TypeOK'
  BY <1>1 DEF TypeInv, TypeOK, Rollback, disk
<1>3. WorkerOK'
  BY DEF Rollback, WorkerOK, Busy, Idle
<1> QED BY <1>2, <1>3 DEF TypeInv, Rollback, RowsOK

(* A fault stays within its bound.                                          *)
LEMMA FaultType ==
  ASSUME TypeInv, Fault
  PROVE  faults' \in 0 .. MaxFaults /\ crashes' \in 0 .. MaxCrashes
BY BoundsAssumption DEF TypeInv, TypeOK, Fault

(* An idle worker starting a command.                                       *)
LEMMA IdleType == Idle \in Workers
BY DEF Idle, Workers, PCs, Jobs, AckOutcomes, NoOutcomes

(* Recording a normalization run leaves a well-formed database.             *)
LEMMA NormalizedType ==
  ASSUME NEW d \in Databases, NEW k \in Keys
  PROVE  LET e == [d EXCEPT !.normalized = @ \cup {k}]
         IN e \in Databases /\ e.row = d.row /\ e.batch = d.batch
<1>1. d.normalized \cup {k} \in SUBSET Keys
  BY DEF Databases
<1> DEFINE x == d.normalized \cup {k}
<1>2. x \in SUBSET Keys
  BY <1>1
<1> HIDE DEF x
<1>3. [d EXCEPT !.normalized = x] \in Databases
  BY <1>2 DEF Databases
<1> QED BY <1>3 DEF Databases, x

(* Requests of the environment preserve the invariant.                      *)
LEMMA RequestType == ASSUME TypeInv, Request PROVE TypeInv'
<1>1. ASSUME NEW k \in InboxFiles, Drop(k) PROVE TypeInv'
  <2>t. TypeOK'
    BY <1>1, FilesAssumption DEF TypeInv, TypeOK, Drop, Keys, budget
  <2>r. RowsOK(db)' /\ RowsOK(tx)'
    BY <1>1 DEF TypeInv, TypeOK, RowsOK, Drop
  <2>w. WorkerOK'
    BY <1>1, FilesAssumption DEF TypeInv, TypeOK, WorkerOK, Readable, Busy, Drop, budget, Keys, Workers, PCs, Jobs, AckOutcomes
  <2> QED BY <2>t, <2>r, <2>w DEF TypeInv
<1>2. ASSUME NEW b \in Batches, StageBatch(b) PROVE TypeInv'
  <2>0. PICK parts \in Requests : \E refused \in SUBSET DOMAIN parts :
          /\ db' = AddBatch(db, b, StagedRows(parts, refused))
          /\ tx' = AddBatch(tx, b, StagedRows(parts, refused))
          /\ staging' = staging \cup
               {<<b, n>> : n \in {m \in Names :
                                   StagedRows(parts, refused)[m].status = "PENDING"}}
    BY <1>2 DEF StageBatch
  <2>1. PICK refused \in SUBSET DOMAIN parts :
          /\ db' = AddBatch(db, b, StagedRows(parts, refused))
          /\ tx' = AddBatch(tx, b, StagedRows(parts, refused))
          /\ staging' = staging \cup
               {<<b, n>> : n \in {m \in Names :
                                   StagedRows(parts, refused)[m].status = "PENDING"}}
    BY <2>0
  <2> DEFINE rows == StagedRows(parts, refused)
  <2>2. /\ rows \in [Names -> Rows]
        /\ \A n \in Names : rows[n].status = "PENDING" => rows[n].sha \in Contents
    BY StagedRowsType
  <2>3. /\ db' = AddBatch(db, b, rows) /\ tx' = AddBatch(tx, b, rows)
        /\ staging' \subseteq Batches \X Names
    BY <2>1 DEF TypeInv, TypeOK
  <2> HIDE DEF rows
  <2>t. TypeOK'
    BY <1>2, <2>2, <2>3 DEF TypeInv, TypeOK, StageBatch, AddBatch, Databases, BatchStates, budget
  <2>4. /\ db'.row = [db.row EXCEPT ![b] = rows] /\ tx'.row = [tx.row EXCEPT ![b] = rows]
        /\ db'.batch = [db.batch EXCEPT ![b] = "REGISTERED"]
    BY <2>3 DEF TypeInv, TypeOK, AddBatch, Databases
  <2>r. RowsOK(db)' /\ RowsOK(tx)'
    BY <2>2, <2>4 DEF TypeInv, TypeOK, RowsOK, Databases
  <2>5. db.batch[b] = "ABSENT" /\ w' = w /\ inbox' = inbox
    BY <1>2 DEF StageBatch
  <2>w. WorkerOK'
    BY <2>4, <2>5 DEF TypeInv, TypeOK, WorkerOK, Readable, Busy, Databases, Workers
  <2> QED BY <2>t, <2>r, <2>w DEF TypeInv
<1>3. ASSUME NEW k \in NormalizeFiles, NormalizeFile(k) PROVE TypeInv'
  <2>1. db' \in Databases /\ db'.row = db.row /\ db'.batch = db.batch
    BY <1>3, FilesAssumption, NormalizedType DEF TypeInv, TypeOK, NormalizeFile
  <2>2. tx' \in Databases /\ tx'.row = tx.row
    BY <1>3, FilesAssumption, NormalizedType DEF TypeInv, TypeOK, NormalizeFile
  <2>3. UNCHANGED <<disk, w, budget>>
    BY <1>3 DEF NormalizeFile
  <2>t. TypeOK'
    BY <2>1, <2>2, <2>3 DEF TypeInv, TypeOK, disk, budget
  <2>w. RowsOK(db)' /\ RowsOK(tx)' /\ WorkerOK'
    BY <2>1, <2>2, <2>3 DEF TypeInv, RowsOK, WorkerOK, Readable, Busy, disk
  <2> QED BY <2>t, <2>w DEF TypeInv
<1> QED BY <1>1, <1>2, <1>3 DEF Request

(* Commands a worker is started with preserve the invariant.                *)
LEMMA CommandType == ASSUME TypeInv, Command PROVE TypeInv'
<1>1. ASSUME NEW targets, StartUploads(targets),
             targets \subseteq Batches, \A b \in targets : db.batch[b] # "ABSENT"
      PROVE  TypeInv'
  <2>1. tx' \in Databases /\ tx'.row = tx.row
    BY <1>1 DEF TypeInv, TypeOK, WorkerOK, StartUploads
  <2>2. w' \in Workers
    BY <1>1, IdleType DEF TypeInv, TypeOK, WorkerOK, Busy, Workers, PCs, Jobs, StartUploads, Idle
  <2>t. TypeOK'
    BY <1>1, <2>1, <2>2, IdleType DEF TypeInv, TypeOK, StartUploads, disk, budget
  <2>r. RowsOK(db)' /\ RowsOK(tx)'
    BY <1>1, <2>1 DEF TypeInv, RowsOK, StartUploads
  <2>w. WorkerOK'
    BY <1>1, <2>1, IdleType DEF TypeInv, TypeOK, WorkerOK, Readable, Busy, Workers, StartUploads, disk, Idle
  <2> QED BY <2>t, <2>r, <2>w DEF TypeInv
<1>2. ASSUME RunDaily PROVE TypeInv'
  <2>1. tx' \in Databases /\ tx'.row = tx.row
    BY <1>2 DEF TypeInv, TypeOK, WorkerOK, RunDaily, Databases, RunStates
  <2>2. w' \in Workers
    BY <1>2, IdleType DEF TypeInv, TypeOK, WorkerOK, Busy, Workers, PCs, Jobs, RunDaily, Idle
  <2>t. TypeOK'
    BY <1>2, <2>1, <2>2, IdleType DEF TypeInv, TypeOK, RunDaily, disk, budget
  <2>r. RowsOK(db)' /\ RowsOK(tx)'
    BY <1>2, <2>1 DEF TypeInv, RowsOK, RunDaily
  <2>w. WorkerOK'
    BY <1>2, <2>1, IdleType DEF TypeInv, TypeOK, WorkerOK, Readable, Busy, Workers, RunDaily, disk, Idle
  <2> QED BY <2>t, <2>r, <2>w DEF TypeInv
<1>3. ASSUME NEW k \in Keys, ReconstructOne(k) PROVE TypeInv'
  <2>1. tx' \in Databases /\ tx'.row = tx.row
    BY <1>3 DEF TypeInv, TypeOK, WorkerOK, ReconstructOne
  <2>2. w' \in Workers
    BY <1>3, IdleType DEF TypeInv, TypeOK, WorkerOK, Busy, Workers, PCs, Jobs, ReconstructOne, Idle
  <2>t. TypeOK'
    BY <1>3, <2>1, <2>2, IdleType DEF TypeInv, TypeOK, ReconstructOne, disk, budget
  <2>r. RowsOK(db)' /\ RowsOK(tx)'
    BY <1>3, <2>1 DEF TypeInv, RowsOK, ReconstructOne
  <2>w. WorkerOK'
    BY <1>3, <2>1, IdleType DEF TypeInv, TypeOK, WorkerOK, Readable, Busy, Workers, ReconstructOne, disk, Idle
  <2> QED BY <2>t, <2>r, <2>w DEF TypeInv
<1>4. ASSUME NEW day \in Days, ReconstructDay(day) PROVE TypeInv'
  <2>0. FilesForDay(db, day) \subseteq Keys
    BY DEF FilesForDay, TypeInv, TypeOK, Databases
  <2>1. tx' \in Databases /\ tx'.row = tx.row
    BY <1>4 DEF TypeInv, TypeOK, WorkerOK, ReconstructDay
  <2>2. w' \in Workers
    BY <1>4, <2>0, IdleType DEF TypeInv, TypeOK, WorkerOK, Busy, Workers, PCs, Jobs, ReconstructDay, Idle
  <2>t. TypeOK'
    BY <1>4, <2>1, <2>2, <2>0, IdleType DEF TypeInv, TypeOK, ReconstructDay, disk, budget
  <2>r. RowsOK(db)' /\ RowsOK(tx)'
    BY <1>4, <2>1 DEF TypeInv, RowsOK, ReconstructDay
  <2>w. WorkerOK'
    BY <1>4, <2>1, <2>0, IdleType DEF TypeInv, TypeOK, WorkerOK, Readable, Busy, Workers, ReconstructDay, disk, Idle
  <2> QED BY <2>t, <2>r, <2>w DEF TypeInv
<1>5. ASSUME NEW day \in Days, Reconcile(day) PROVE TypeInv'
  <2>1. db' \in Databases
    BY <1>5, ReconcileType DEF TypeInv, TypeOK, Reconcile
  <2>2. db'.row = db.row /\ db'.batch = db.batch
    BY <1>5 DEF TypeInv, TypeOK, Reconcile, ReconcileDates, Databases
  <2>3. w.pc = "idle" /\ tx' = db' /\ UNCHANGED <<disk, w, budget>>
    BY <1>5 DEF Reconcile
  <2>t. TypeOK'
    BY <2>1, <2>3 DEF TypeInv, TypeOK, disk, budget
  <2>w. RowsOK(db)' /\ RowsOK(tx)' /\ WorkerOK'
    BY <2>2, <2>3 DEF TypeInv, RowsOK, WorkerOK, Readable, Busy, disk
  <2> QED BY <2>t, <2>w DEF TypeInv
<1>6. ASSUME ProcessUploads \/ \E b \in Batches : ProcessOne(b) PROVE TypeInv'
  BY <1>1, <1>6 DEF ProcessUploads, ProcessOne, QueuedBatches
<1> QED BY <1>2, <1>3, <1>4, <1>5, <1>6 DEF Command

(* The steps of process-uploads and run-daily around the files preserve the *)
(* invariant.                                                               *)
LEMMA BatchType ==
  ASSUME TypeInv,
         \/ \E b \in Batches : SkipBatch(b) \/ StartBatch(b)
         \/ SettleBatch \/ CloseBatch \/ SettleDaily
  PROVE  TypeInv'
<1>1. ASSUME NEW b \in Batches, SkipBatch(b) PROVE TypeInv'
  <2>1. tx' \in Databases /\ tx'.row = tx.row
    BY <1>1, ResolveType DEF TypeInv, TypeOK, SkipBatch, Databases
  <2>2. w' \in Workers
    BY <1>1 DEF TypeInv, TypeOK, Workers, PCs, Jobs, SkipBatch, IsLeast
  <2>t. TypeOK'
    BY <1>1, <2>1, <2>2 DEF TypeInv, TypeOK, SkipBatch, disk, budget
  <2>r. RowsOK(db)' /\ RowsOK(tx)'
    BY <1>1, <2>1 DEF TypeInv, RowsOK, SkipBatch
  <2>w. WorkerOK'
    BY <1>1, <2>1 DEF TypeInv, TypeOK, WorkerOK, Readable, Busy, Workers, SkipBatch, disk, budget, IsLeast
  <2> QED BY <2>t, <2>r, <2>w DEF TypeInv
<1>2. ASSUME NEW b \in Batches, StartBatch(b) PROVE TypeInv'
  <2>1. tx' \in Databases /\ tx'.row = tx.row
    BY <1>2 DEF TypeInv, TypeOK, StartBatch, Databases, BatchStates, RunStates
  <2>2. w' \in Workers
    BY <1>2 DEF TypeInv, TypeOK, Workers, PCs, Jobs, StartBatch, IsLeast, RowsIn, RowsOK
  <2>t. TypeOK'
    BY <1>2, <2>1, <2>2 DEF TypeInv, TypeOK, StartBatch, disk, budget
  <2>r. RowsOK(db)' /\ RowsOK(tx)'
    BY <1>2, <2>1 DEF TypeInv, RowsOK, StartBatch
  <2>3. /\ w'.pc = "ingest" /\ w'.job = "uploads" /\ w'.batch = b
        /\ w'.todo \subseteq RowsIn(tx, b, "PENDING") /\ w'.queue \subseteq w.queue
        /\ b \in w.queue /\ db' = db
    BY <1>2 DEF TypeInv, TypeOK, WorkerOK, Workers, StartBatch, IsLeast
  <2>4. \A n \in w'.todo : tx.row[b][n].sha \in Contents
    BY <2>3 DEF TypeInv, RowsOK, RowsIn
  <2>w. WorkerOK'
    BY <2>1, <2>3, <2>4 DEF TypeInv, WorkerOK, Readable, Busy
  <2> QED BY <2>t, <2>r, <2>w DEF TypeInv
<1>3. ASSUME SettleBatch PROVE TypeInv'
  <2> DEFINE files == OutcomeFiles(w.outcomes)
             done == [tx EXCEPT !.run = FinalStatus(w.outcomes)]
             linked == LinkOutcomes(done, w.batch, w.outcomes)
             dates == DatesTouchedByFiles(linked, files)
  <2>1. w.outcomes \in [Names -> Outcomes \cup {None}] /\ w.batch \in Batches
    BY <1>3 DEF SettleBatch, TypeInv, TypeOK, WorkerOK, Busy, Workers
  <2>2. done \in Databases /\ RowsOK(done)
    BY FinalStatusType DEF TypeInv, TypeOK, Databases, RowsOK
  <2>3. linked \in Databases /\ RowsOK(linked)
    BY <2>1, <2>2, LinkOutcomesType
  <2>4. tx' = ReconcileDates(linked, dates)
    BY <1>3 DEF SettleBatch
  <2>5. w' = [w EXCEPT !.pc = "frames", !.files = files] \/
        w' = [w EXCEPT !.pc = "frames", !.files = {}]
    BY <1>3 DEF SettleBatch
  <2>6. w.pc = "ingest" /\ w.job = "uploads" /\ UNCHANGED <<db, disk, budget>>
    BY <1>3 DEF SettleBatch
  <2>7. files \in SUBSET Keys
    BY <2>1, OutcomeFilesType
  <2> HIDE DEF files, linked, dates
  <2>8. tx' \in Databases
    BY <2>3, <2>4, ReconcileType
  <2>9. tx'.row = linked.row
    BY <2>3, <2>4 DEF ReconcileDates, Databases
  <2>10. w' \in Workers
    <3>1. w \in Workers
      BY DEF TypeInv, TypeOK
    <3>2. \A x \in SUBSET Keys : [w EXCEPT !.pc = "frames", !.files = x] \in Workers
      BY <3>1 DEF Workers, PCs
    <3>3. {} \in SUBSET Keys
      OBVIOUS
    <3> QED
      BY <2>5, <2>7, <3>2, <3>3, Zenon
  <2>t. TypeOK'
    BY <2>6, <2>8, <2>10 DEF TypeInv, TypeOK, disk, budget
  <2>r. RowsOK(db)' /\ RowsOK(tx)'
    BY <2>3, <2>6, <2>9 DEF TypeInv, RowsOK
  <2>w. WorkerOK'
    BY <2>5, <2>6 DEF TypeInv, TypeOK, WorkerOK, Busy, Workers
  <2> QED BY <2>t, <2>r, <2>w DEF TypeInv
<1>4. ASSUME CloseBatch PROVE TypeInv'
  <2>1. tx' \in Databases /\ tx'.row = tx.row
    BY <1>4, ResolveType DEF TypeInv, TypeOK, CloseBatch, Databases
  <2>2. w' \in Workers
    BY <1>4 DEF TypeInv, TypeOK, Workers, PCs, Jobs, CloseBatch, NoOutcomes
  <2>t. TypeOK'
    BY <1>4, <2>1, <2>2 DEF TypeInv, TypeOK, CloseBatch, disk, budget
  <2>r. RowsOK(db)' /\ RowsOK(tx)'
    BY <1>4, <2>1 DEF TypeInv, RowsOK, CloseBatch
  <2>w. WorkerOK'
    BY <1>4, <2>1 DEF TypeInv, TypeOK, WorkerOK, Readable, Busy, Workers, CloseBatch, disk, budget, NoOutcomes
  <2> QED BY <2>t, <2>r, <2>w DEF TypeInv
<1>5. ASSUME SettleDaily PROVE TypeInv'
  <2> DEFINE done == [tx EXCEPT !.run = FinalStatus(w.outcomes)]
  <2>1. done \in Databases /\ done.row = tx.row
    BY FinalStatusType DEF TypeInv, TypeOK, Databases
  <2>2. PICK dates : tx' = ReconcileDates(done, dates)
    BY <1>5 DEF SettleDaily
  <2>3. w.pc = "ingest" /\ w' = [w EXCEPT !.pc = "commit"] /\ UNCHANGED <<db, disk, budget>>
    BY <1>5 DEF SettleDaily
  <2> HIDE DEF done
  <2>4. tx' \in Databases
    BY <2>1, <2>2, ReconcileType
  <2>5. tx'.row = tx.row
    BY <2>1, <2>2 DEF ReconcileDates, Databases
  <2>t. TypeOK'
    BY <2>3, <2>4 DEF TypeInv, TypeOK, disk, budget, Workers, PCs
  <2>r. RowsOK(db)' /\ RowsOK(tx)'
    BY <2>3, <2>5 DEF TypeInv, RowsOK
  <2>w. WorkerOK'
    BY <2>3 DEF TypeInv, TypeOK, WorkerOK, Busy, Workers
  <2> QED BY <2>t, <2>r, <2>w DEF TypeInv
<1> QED BY <1>1, <1>2, <1>3, <1>4, <1>5

(* The reference the worker takes can be read, and names a file.            *)
LEMMA TakeType ==
  ASSUME TypeInv, NEW n \in Names, Take(n)
  PROVE  /\ Source(n) \in Contents
         /\ [sha |-> Source(n), name |-> n] \in Keys
<1>1. w.pc = "ingest" /\ n \in w.todo
  BY DEF Take, IsLeast
<1>2. Source(n) \in Contents
  BY <1>1 DEF TypeInv, WorkerOK, Busy, Readable, Source
<1> QED BY <1>2 DEF Keys

(* Handing a reference over to the acknowledgement preserves what is known  *)
(* of the worker.                                                           *)
LEMMA ToAckType ==
  ASSUME TypeInv, NEW n \in Names, Take(n), NEW k \in Keys \cup {None},
         NEW ack \in AckOutcomes, NEW already \in BOOLEAN,
         ack \in {"PROCESSED", "DUPLICATE"} => k \in Keys,
         ToAck(n, k, ack, already),
         tx'.row = tx.row, UNCHANGED <<db, inbox>>
  PROVE  w' \in Workers /\ WorkerOK'
<1>1. w.pc = "ingest" /\ n \in w.todo
  BY DEF Take, IsLeast
<1>2. w' \in Workers
  BY DEF ToAck, TypeInv, TypeOK, Workers, PCs
<1>3. WorkerOK'
  BY <1>1 DEF ToAck, TypeInv, TypeOK, WorkerOK, Readable, Busy, Workers
<1> QED BY <1>2, <1>3

(* Reporting an outcome preserves what is known of the worker.              *)
LEMMA ReportType ==
  ASSUME TypeInv, w.pc = "ack", NEW ack \in AckOutcomes, NEW already \in BOOLEAN,
         Report(ack, already), tx'.row = tx.row, db' = db,
         \A n \in Names : n # w.name => inbox'[n] = inbox[n]
  PROVE  w' \in Workers /\ WorkerOK'
<1>1. w.name \in Names /\ w.name \notin w.todo /\ w.file \in Keys \cup {None}
  BY DEF TypeInv, TypeOK, WorkerOK, Workers
<1> DEFINE out == [file |-> w.file, ack |-> ack, already |-> already]
<1>2. out \in Outcomes
  BY <1>1 DEF Outcomes
<1> HIDE DEF out
<1>3. w' = [w EXCEPT !.pc = "ingest", !.name = None, !.file = None,
                     !.ack = "PROCESSED", !.already = FALSE, !.outcomes[w.name] = out]
  BY DEF Report, out
<1>4. w' \in Workers
  BY <1>1, <1>2, <1>3 DEF TypeInv, TypeOK, Workers, PCs, AckOutcomes
<1>5. WorkerOK'
  BY <1>1, <1>3 DEF TypeInv, TypeOK, WorkerOK, Readable, Busy, Workers
<1> QED BY <1>4, <1>5

(* Setting a file's status in the session changes neither its shape nor its *)
(* rows.                                                                    *)
LEMMA SetStatusTx ==
  ASSUME TypeInv, NEW k \in Keys, NEW s \in States, tx' = SetStatus(tx, k, s)
  PROVE  tx' \in Databases /\ tx'.row = tx.row
BY SetStatusType DEF TypeInv, TypeOK, SetStatus, Databases

(* The steps of ingest_file preserve the invariant.                         *)
LEMMA IngestType == ASSUME TypeInv, IngestFile PROVE TypeInv'
<1>1. ASSUME NEW n \in Names, RefuseAdmission(n) PROVE TypeInv'
  <2>1. Take(n) /\ ToAck(n, None, "QUARANTINED", FALSE) /\ UNCHANGED <<db, tx, disk, budget>>
    BY <1>1 DEF RefuseAdmission
  <2>2. w' \in Workers /\ WorkerOK'
    BY <2>1, ToAckType DEF AckOutcomes, disk
  <2> QED BY <2>1, <2>2 DEF TypeInv, TypeOK, RowsOK, disk, budget
<1>2. ASSUME NEW n \in Names, LandingFails(n) PROVE TypeInv'
  <2>1. Take(n) /\ ToAck(n, None, "FAILED", FALSE) /\ Fault /\ UNCHANGED <<db, tx, disk>>
    BY <1>2 DEF LandingFails
  <2>2. w' \in Workers /\ WorkerOK'
    BY <2>1, ToAckType DEF AckOutcomes, disk
  <2> QED BY <2>1, <2>2, FaultType DEF TypeInv, TypeOK, RowsOK, disk
<1>3. ASSUME NEW n \in Names, RecogniseFile(n) PROVE TypeInv'
  <2> DEFINE k == [sha |-> Source(n), name |-> n]
  <2>1. Take(n) /\ ToAck(n, k, "PROCESSED", TRUE) /\ UNCHANGED <<db, tx, disk, budget>>
    BY <1>3 DEF RecogniseFile
  <2>2. k \in Keys
    BY <2>1, TakeType
  <2> HIDE DEF k
  <2>3. w' \in Workers /\ WorkerOK'
    BY <2>1, <2>2, ToAckType DEF AckOutcomes, disk
  <2> QED BY <2>1, <2>3 DEF TypeInv, TypeOK, RowsOK, disk, budget
<1>4. ASSUME NEW n \in Names, RegisterDuplicate(n) PROVE TypeInv'
  <2> DEFINE k == [sha |-> Source(n), name |-> n]
  <2>1. PICK o \in Objects, canonical \in FindByChecksum(tx, Source(n)) :
          /\ bronze' = [bronze EXCEPT ![o] = Source(n)]
          /\ tx' = AddFile(tx, k, o, "DUPLICATE", canonical)
    BY <1>4 DEF RegisterDuplicate
  <2>2. /\ Take(n) /\ ToAck(n, k, "DUPLICATE", FALSE)
        /\ UNCHANGED <<db, staging, inbox, archive, zone, budget>>
    BY <1>4 DEF RegisterDuplicate
  <2>3. k \in Keys /\ Source(n) \in Contents /\ canonical \in Keys
    BY <2>2, TakeType DEF FindByChecksum
  <2> HIDE DEF k
  <2>4. tx' \in Databases
    BY <2>1, <2>3, AddFileType DEF TypeInv, TypeOK, States
  <2>5. tx'.row = tx.row
    BY <2>1 DEF TypeInv, TypeOK, AddFile, Databases
  <2>6. w' \in Workers /\ WorkerOK'
    BY <2>2, <2>3, <2>5, ToAckType DEF AckOutcomes
  <2> QED BY <2>1, <2>2, <2>3, <2>4, <2>5, <2>6 DEF TypeInv, TypeOK, RowsOK, budget
<1>5. ASSUME NEW n \in Names, RegisterFile(n) PROVE TypeInv'
  <2> DEFINE k == [sha |-> Source(n), name |-> n]
  <2>1. PICK o \in Objects :
          /\ bronze' = [bronze EXCEPT ![o] = Source(n)]
          /\ tx' = AddFile(tx, k, o, "REGISTERED", None)
    BY <1>5 DEF RegisterFile
  <2>2. /\ Take(n) /\ UNCHANGED <<db, staging, inbox, archive, zone, budget>>
        /\ w' = [w EXCEPT !.pc = "analyse", !.name = n, !.file = k,
                          !.already = FALSE, !.todo = @ \ {n}]
    BY <1>5 DEF RegisterFile
  <2>3. k \in Keys /\ Source(n) \in Contents
    BY <2>2, TakeType
  <2> HIDE DEF k
  <2>4. tx' \in Databases
    BY <2>1, <2>3, AddFileType DEF TypeInv, TypeOK, States
  <2>5. tx'.row = tx.row
    BY <2>1 DEF TypeInv, TypeOK, AddFile, Databases
  <2>6. w' \in Workers
    BY <2>2, <2>3 DEF TypeInv, TypeOK, Workers, PCs
  <2>7. WorkerOK'
    BY <2>2, <2>3, <2>5 DEF Take, IsLeast, TypeInv, TypeOK, WorkerOK, Readable, Busy, Workers
  <2> QED BY <2>1, <2>2, <2>3, <2>4, <2>5, <2>6, <2>7 DEF TypeInv, TypeOK, RowsOK, budget
<1>6. ASSUME AdvanceFile PROVE TypeInv'
  <2> DEFINE k == w.file
             t == HappyNext(tx.status[k])
             days == IF t = "SCHEMA_VALIDATION" THEN tx.days \cup {k} ELSE tx.days
  <2>1. /\ w.pc = "analyse" /\ CanTransition(tx.status[k], t)
        /\ tx' = [SetStatus(tx, k, t) EXCEPT !.days = days]
        /\ w' = IF t = "READY_FOR_NORMALIZATION"
                THEN [w EXCEPT !.pc = "ack", !.ack = "PROCESSED"] ELSE w
        /\ UNCHANGED <<db, disk, budget>>
    BY <1>6 DEF AdvanceFile, SetStatus, TypeInv, TypeOK, Databases
  <2>2. k \in Keys /\ t \in States
    BY <2>1, TransitionType DEF TypeInv, WorkerOK
  <2>3. days \in SUBSET Keys
    BY <2>2 DEF TypeInv, TypeOK, Databases
  <2>4. SetStatus(tx, k, t) \in Databases /\ SetStatus(tx, k, t).row = tx.row
    BY <2>2, SetStatusType DEF TypeInv, TypeOK, SetStatus, Databases
  <2> HIDE DEF t, days
  <2>5. tx' \in Databases /\ tx'.row = tx.row
    BY <2>1, <2>3, <2>4 DEF Databases
  <2>6. w' \in Workers
    BY <2>1 DEF TypeInv, TypeOK, Workers, PCs, AckOutcomes
  <2>7. WorkerOK'
    BY <2>1, <2>5 DEF TypeInv, TypeOK, WorkerOK, Readable, Busy, Workers, disk
  <2> QED BY <2>1, <2>5, <2>6, <2>7 DEF TypeInv, TypeOK, RowsOK, disk, budget
<1>7. ASSUME QuarantineFile \/ FailFile PROVE TypeInv'
  <2>1. /\ w.pc = "analyse" /\ UNCHANGED <<db, bronze, staging, inbox, archive>>
        /\ zone' \subseteq zone \cup {w.file}
        /\ \E s \in {"QUARANTINED", "FAILED"} :
             tx' = SetStatus(tx, w.file, s) /\ w' = [w EXCEPT !.pc = "ack", !.ack = s]
    BY <1>7 DEF QuarantineFile, FailFile, disk
  <2>2. faults' \in 0 .. MaxFaults /\ crashes' \in 0 .. MaxCrashes
    BY <1>7, FaultType DEF QuarantineFile, FailFile, budget, TypeInv, TypeOK
  <2>3. tx' \in Databases /\ tx'.row = tx.row
    BY <2>1, SetStatusTx DEF TypeInv, WorkerOK, States
  <2>4. w' \in Workers
    <3>1. w \in Workers
      BY DEF TypeInv, TypeOK
    <3>2. \A s \in AckOutcomes : [w EXCEPT !.pc = "ack", !.ack = s] \in Workers
      BY <3>1 DEF Workers, PCs
    <3>3. {"QUARANTINED", "FAILED"} \subseteq AckOutcomes
      BY DEF AckOutcomes
    <3> QED
      BY <2>1, <3>2, <3>3, Zenon
  <2>5. WorkerOK'
    BY <2>1, <2>3 DEF TypeInv, TypeOK, WorkerOK, Readable, Busy, Workers
  <2>6. zone' \subseteq Keys
    BY <2>1 DEF TypeInv, TypeOK, WorkerOK
  <2> QED BY <2>1, <2>2, <2>3, <2>4, <2>5, <2>6 DEF TypeInv, TypeOK, RowsOK
<1>8. ASSUME AcknowledgeUpload \/ StagedCleanupFails PROVE TypeInv'
  <2>1. /\ w.pc = "ack" /\ Report(w.ack, w.already) /\ staging' \subseteq staging
        /\ UNCHANGED <<db, tx, bronze, inbox, archive, zone>>
    BY <1>8 DEF AcknowledgeUpload, StagedCleanupFails, disk
  <2>2. faults' \in 0 .. MaxFaults /\ crashes' \in 0 .. MaxCrashes
    BY <1>8, FaultType DEF AcknowledgeUpload, StagedCleanupFails, budget, TypeInv, TypeOK
  <2>3. w.ack \in AckOutcomes /\ w.already \in BOOLEAN
    BY DEF TypeInv, TypeOK, Workers
  <2>4. w' \in Workers /\ WorkerOK'
    BY <2>1, <2>3, ReportType
  <2> QED BY <2>1, <2>2, <2>4 DEF TypeInv, TypeOK, RowsOK
<1>9. ASSUME AcknowledgeInbox PROVE TypeInv'
  <2>1. /\ w.pc = "ack" /\ w.job = "daily" /\ Report(w.ack, w.already)
        /\ UNCHANGED <<db, tx, bronze, staging, zone, budget>>
        /\ \/ /\ archive' = archive \cup {[sha |-> inbox[w.name], name |-> w.name]}
              /\ inbox' = [inbox EXCEPT ![w.name] = None]
           \/ UNCHANGED <<archive, inbox>>
    BY <1>9 DEF AcknowledgeInbox
  <2>2. w.name \in Names /\ inbox[w.name] \in Contents
    BY <2>1 DEF TypeInv, WorkerOK, Readable
  <2>3. [sha |-> inbox[w.name], name |-> w.name] \in Keys
    BY <2>2 DEF Keys
  <2>4. w.ack \in AckOutcomes /\ w.already \in BOOLEAN
    BY DEF TypeInv, TypeOK, Workers
  <2>5. \A n \in Names : n # w.name => inbox'[n] = inbox[n]
    BY <2>1 DEF TypeInv, TypeOK
  <2>6. w' \in Workers /\ WorkerOK'
    BY <2>1, <2>4, <2>5, ReportType
  <2> QED BY <2>1, <2>3, <2>6 DEF TypeInv, TypeOK, RowsOK, budget
<1>10. ASSUME ArchiveFails PROVE TypeInv'
  <2>1. /\ w.pc = "ack" /\ w.ack \notin {"FAILED", "QUARANTINED"}
        /\ tx' = SetStatus(tx, w.file, "FAILED") /\ Report("FAILED", FALSE)
        /\ Fault /\ UNCHANGED <<db, disk>>
    BY <1>10 DEF ArchiveFails, Moves
  <2>2. w.file \in Keys
    BY <2>1 DEF TypeInv, TypeOK, WorkerOK, Workers, AckOutcomes
  <2>3. tx' \in Databases /\ tx'.row = tx.row
    BY <2>1, <2>2, SetStatusTx DEF States
  <2>4. w' \in Workers /\ WorkerOK'
    BY <2>1, <2>3, ReportType DEF AckOutcomes, disk
  <2> QED BY <2>1, <2>3, <2>4, FaultType DEF TypeInv, TypeOK, RowsOK, disk
<1>11. ASSUME QuarantineArchiveFails PROVE TypeInv'
  BY <1>11, RollbackType, FaultType DEF QuarantineArchiveFails
<1> QED
  BY <1>1, <1>2, <1>3, <1>4, <1>5, <1>6, <1>7, <1>8, <1>9, <1>10, <1>11 DEF IngestFile

(* The steps of frame reconstruction preserve the invariant.                *)
LEMMA FramesType == ASSUME TypeInv, ReconstructFrames PROVE TypeInv'
<1>1. ASSUME NEW k \in Keys, BeginFrames(k) PROVE TypeInv'
  <2>1. /\ w.pc = "frames" /\ tx' = SetStatus(tx, k, "FRAME_RECONSTRUCTION")
        /\ w' = [w EXCEPT !.pc = "rebuild", !.file = k, !.files = @ \ {k}]
        /\ UNCHANGED <<db, disk, budget>>
    BY <1>1 DEF BeginFrames
  <2>2. tx' \in Databases /\ tx'.row = tx.row
    BY <2>1, SetStatusTx DEF States
  <2>3. w' \in Workers
    BY <2>1 DEF TypeInv, TypeOK, Workers, PCs
  <2>4. WorkerOK'
    BY <2>1 DEF TypeInv, TypeOK, WorkerOK, Busy, Workers
  <2> QED BY <2>1, <2>2, <2>3, <2>4 DEF TypeInv, TypeOK, RowsOK, disk, budget
<1>2. ASSUME NEW k \in Keys, SkipFrames(k) PROVE TypeInv'
  <2>1. CASE w.job = "file"
    BY <1>2, <2>1, RollbackType DEF SkipFrames, budget, TypeInv, TypeOK
  <2>2. CASE w.job # "file"
    <3>1. /\ w.pc = "frames" /\ w' = [w EXCEPT !.files = @ \ {k}]
          /\ UNCHANGED <<db, tx, disk, budget>>
      BY <1>2, <2>2 DEF SkipFrames
    <3>2. w' \in Workers
      BY <3>1 DEF TypeInv, TypeOK, Workers
    <3>3. WorkerOK'
      BY <3>1 DEF TypeInv, TypeOK, WorkerOK, Busy, Workers
    <3> QED BY <3>1, <3>2, <3>3 DEF TypeInv, TypeOK, RowsOK, disk, budget
  <2> QED BY <2>1, <2>2
<1>3. ASSUME EndFrames PROVE TypeInv'
  <2>1. /\ w.pc = "rebuild" /\ tx' = SetStatus(tx, w.file, "FRAMES_RECONSTRUCTED")
        /\ w' = [w EXCEPT !.pc = "frames", !.file = None]
        /\ UNCHANGED <<db, disk, budget>>
    BY <1>3 DEF EndFrames
  <2>2. tx' \in Databases /\ tx'.row = tx.row
    BY <2>1, SetStatusTx DEF States, TypeInv, WorkerOK
  <2>3. w' \in Workers
    BY <2>1 DEF TypeInv, TypeOK, Workers, PCs
  <2>4. WorkerOK'
    BY <2>1 DEF TypeInv, TypeOK, WorkerOK, Busy, Workers
  <2> QED BY <2>1, <2>2, <2>3, <2>4 DEF TypeInv, TypeOK, RowsOK, disk, budget
<1>4. ASSUME FramesFail PROVE TypeInv'
  <2>0. Fault /\ UNCHANGED disk
    BY <1>4 DEF FramesFail
  <2>1. CASE w.job = "file"
    BY <1>4, <2>0, <2>1, RollbackType, FaultType DEF FramesFail
  <2>2. CASE w.job # "file"
    <3>1. /\ w.pc = "rebuild" /\ w' = [w EXCEPT !.pc = "frames", !.file = None]
          /\ UNCHANGED <<db, tx>>
      BY <1>4, <2>2 DEF FramesFail
    <3>2. w' \in Workers
      BY <3>1 DEF TypeInv, TypeOK, Workers, PCs
    <3>3. WorkerOK'
      BY <3>1 DEF TypeInv, TypeOK, WorkerOK, Busy, Workers
    <3> QED BY <2>0, <3>1, <3>2, <3>3, FaultType DEF TypeInv, TypeOK, RowsOK, disk
  <2> QED BY <2>1, <2>2
<1>5. ASSUME EndReconstruction PROVE TypeInv'
  <2>1. /\ w.pc = "frames" /\ w' = [w EXCEPT !.pc = "commit"]
        /\ UNCHANGED <<db, tx, disk, budget>>
    BY <1>5 DEF EndReconstruction
  <2>2. w' \in Workers
    BY <2>1 DEF TypeInv, TypeOK, Workers, PCs
  <2>3. WorkerOK'
    BY <2>1 DEF TypeInv, TypeOK, WorkerOK, Busy, Workers
  <2> QED BY <2>1, <2>2, <2>3 DEF TypeInv, TypeOK, RowsOK, disk, budget
<1> QED BY <1>1, <1>2, <1>3, <1>4, <1>5 DEF ReconstructFrames

(* Every step preserves the invariant.                                      *)
LEMMA TypeStep == TypeInv /\ [Next]_vars => TypeInv'
<1> SUFFICES ASSUME TypeInv, [Next]_vars PROVE TypeInv'
  OBVIOUS
<1>1. CASE Request
  BY <1>1, RequestType
<1>2. CASE Command
  BY <1>2, CommandType
<1>3. CASE WorkerStep
  <2>1. CASE Commit
    <3>1. db' = tx /\ tx' = tx /\ w' = Idle /\ UNCHANGED <<disk, budget>>
      BY <2>1 DEF Commit
    <3>2. TypeOK'
      BY <3>1, IdleType DEF TypeInv, TypeOK, disk, budget
    <3>3. WorkerOK'
      BY <3>1 DEF WorkerOK, Busy, Idle
    <3> QED BY <3>1, <3>2, <3>3 DEF TypeInv, RowsOK
  <2> QED BY <1>3, <2>1, BatchType, IngestType, FramesType DEF WorkerStep
<1>4. CASE Crash
  BY <1>4, RollbackType, BoundsAssumption DEF Crash, TypeInv, TypeOK
<1>5. CASE UNCHANGED vars
  BY <1>5 DEF vars, TypeInv, TypeOK, RowsOK, WorkerOK, Readable, Busy
<1> QED BY <1>1, <1>2, <1>3, <1>4, <1>5 DEF Next

(* Type correctness, with what the worker needs at each step: a reference   *)
(* it takes can be read, the file in hand exists, the batch it works on is  *)
(* known.  No step of ingest_file, process_batch or reconstruct_file is     *)
(* reached with a value it does not expect.                                 *)
THEOREM TypeCorrect == Spec => []TypeInv
BY TypeInit, TypeStep, PTL DEF Spec

(* The declared domains of the state are respected.                         *)
THEOREM TypeSafe == Spec => []TypeOK
<1>1. TypeInv => TypeOK
  BY DEF TypeInv
<1> QED BY <1>1, TypeCorrect, PTL

-----------------------------------------------------------------------------
(***************************************************************************)
(* The file records and the Bronze objects behind them.                     *)
(***************************************************************************)

(* e holds the file records of d: same files, references and duplicates,    *)
(* whatever became of their statuses.                                       *)
SameFiles(d, e) ==
  /\ e.ref = d.ref /\ e.dupOf = d.dupOf
  /\ Registered(e) = Registered(d)
  /\ \A k \in Keys : e.status[k] = "DUPLICATE" => d.status[k] = "DUPLICATE"

(* What is known of the file records alone.                                 *)
RecordInv == BronzeBacked /\ SingleCanonical /\ Continues

(* A step that keeps the file records and the objects keeps what is known.  *)
LEMMA SameRecords ==
  ASSUME RecordInv, SameFiles(db, db'), SameFiles(tx, tx'), bronze' = bronze
  PROVE  RecordInv'
<1>1. Backed(db)' /\ Backed(tx)'
  BY DEF RecordInv, BronzeBacked, Backed, SameFiles
<1>2. OneRoot(db)'
  BY DEF RecordInv, SingleCanonical, OneRoot, SameFiles, Registered
<1>3. OneRoot(tx)'
  BY DEF RecordInv, SingleCanonical, OneRoot, SameFiles, Registered
<1>4. Continues'
  BY DEF RecordInv, Continues, SameFiles
<1> QED BY <1>1, <1>2, <1>3, <1>4 DEF RecordInv, BronzeBacked, SingleCanonical

(* Moving a registered file to a state that is neither absence nor          *)
(* DUPLICATE keeps the file records.                                        *)
LEMMA SetStatusSame ==
  ASSUME NEW d \in Databases, NEW k \in Keys, k \in Registered(d),
         NEW s \in States, s # "DUPLICATE"
  PROVE  SameFiles(d, SetStatus(d, k, s))
<1>1. s # "ABSENT"
  BY DEF States
<1> QED BY <1>1 DEF SetStatus, SameFiles, Registered, Databases

(* A rollback restores the committed records.                               *)
LEMMA RollbackFiles ==
  ASSUME TypeInv, FileInv, Rollback, bronze' = bronze
  PROVE  FileInv'
BY DEF FileInv, Rollback, BronzeBacked, SingleCanonical, Backed, OneRoot,
       Continues, Registered, Idle

(* A step of the worker that keeps the records and ends outside the states  *)
(* that hold a file keeps the invariant.                                    *)
LEMMA PlainStep ==
  ASSUME FileInv, SameFiles(tx, tx'), UNCHANGED <<db, bronze>>,
         w'.pc \notin {"analyse", "ack", "idle"}
  PROVE  FileInv'
<1>1. SameFiles(db, db')
  BY DEF SameFiles, Registered
<1>2. RecordInv'
  BY <1>1, SameRecords DEF FileInv, RecordInv
<1> QED BY <1>2 DEF FileInv, RecordInv

(* The initial state satisfies the invariant.                               *)
LEMMA FileInit == Init => FileInv
<1> SUFFICES ASSUME Init PROVE FileInv
  OBVIOUS
<1>1. Registered(EmptyDatabase) = {}
  BY DEF Registered, EmptyDatabase
<1> QED
  BY <1>1 DEF Init, FileInv, BronzeBacked, SingleCanonical, Backed, OneRoot, Continues, Idle

(* Requests keep the records.                                               *)
LEMMA RequestFiles == ASSUME TypeInv, FileInv, Request PROVE FileInv'
<1>1. ASSUME SameFiles(db, db'), SameFiles(tx, tx'), UNCHANGED <<w, bronze>>,
             tx = db => tx' = db'
      PROVE  FileInv'
  <2>1. RecordInv'
    BY <1>1, SameRecords DEF FileInv, RecordInv
  <2> QED BY <1>1, <2>1 DEF FileInv, RecordInv, SameFiles
<1>2. ASSUME NEW k \in InboxFiles, Drop(k) PROVE FileInv'
  BY <1>1, <1>2 DEF Drop, SameFiles, Registered
<1>3. ASSUME NEW b \in Batches, StageBatch(b) PROVE FileInv'
  <2>1. /\ \E rows : db' = AddBatch(db, b, rows) /\ tx' = AddBatch(tx, b, rows)
        /\ UNCHANGED <<w, bronze>>
    BY <1>3 DEF StageBatch
  <2>2. SameFiles(db, db') /\ SameFiles(tx, tx')
    BY <2>1 DEF TypeInv, TypeOK, AddBatch, SameFiles, Registered, Databases
  <2> QED BY <1>1, <2>1, <2>2
<1>4. ASSUME NEW k \in NormalizeFiles, NormalizeFile(k) PROVE FileInv'
  <2>1. /\ db' = [db EXCEPT !.normalized = @ \cup {k}]
        /\ tx' = [tx EXCEPT !.normalized = @ \cup {k}]
        /\ UNCHANGED <<w, bronze>>
    BY <1>4 DEF NormalizeFile, disk
  <2>2. SameFiles(db, db') /\ SameFiles(tx, tx')
    BY <2>1 DEF TypeInv, TypeOK, SameFiles, Registered, Databases
  <2> QED BY <1>1, <2>1, <2>2
<1> QED BY <1>2, <1>3, <1>4 DEF Request

(* Starting a command keeps the records; so does reconciling a day.         *)
LEMMA CommandFiles == ASSUME TypeInv, FileInv, Command PROVE FileInv'
<1>1. ASSUME NEW targets, StartUploads(targets) PROVE FileInv'
  <2>1. /\ UNCHANGED <<db, tx, bronze>> /\ w'.pc = "next"
    BY <1>1, IdleType DEF StartUploads, disk, Workers
  <2> QED BY <2>1, PlainStep DEF SameFiles, Registered
<1>2. ASSUME RunDaily PROVE FileInv'
  <2>1. UNCHANGED <<db, bronze>> /\ tx' = [tx EXCEPT !.run = "PROCESSING"] /\ w'.pc = "ingest"
    BY <1>2, IdleType DEF RunDaily, disk, Workers
  <2>2. SameFiles(tx, tx')
    BY <2>1 DEF TypeInv, TypeOK, SameFiles, Registered, Databases
  <2> QED BY <2>1, <2>2, PlainStep
<1>3. ASSUME NEW k \in Keys, ReconstructOne(k) PROVE FileInv'
  <2>1. UNCHANGED <<db, tx, bronze>> /\ w'.pc = "frames"
    BY <1>3, IdleType DEF ReconstructOne, disk, Workers
  <2> QED BY <2>1, PlainStep DEF SameFiles, Registered
<1>4. ASSUME NEW day \in Days, ReconstructDay(day) PROVE FileInv'
  <2>1. UNCHANGED <<db, tx, bronze>> /\ w'.pc = "frames"
    BY <1>4, IdleType DEF ReconstructDay, disk, Workers
  <2> QED BY <2>1, PlainStep DEF SameFiles, Registered
<1>5. ASSUME NEW day \in Days, Reconcile(day) PROVE FileInv'
  <2>1. /\ w.pc = "idle" /\ w' = w /\ bronze' = bronze
        /\ db' = ReconcileDates(db, {day}) /\ tx' = db'
    BY <1>5 DEF Reconcile, disk
  <2>2. SameFiles(db, db')
    BY <2>1 DEF TypeInv, TypeOK, ReconcileDates, SameFiles, Registered, Databases
  <2>3. tx = db
    BY <2>1 DEF FileInv
  <2>4. RecordInv'
    BY <2>1, <2>2, <2>3, SameRecords DEF FileInv, RecordInv
  <2> QED BY <2>1, <2>4 DEF FileInv, RecordInv
<1> QED BY <1>1, <1>2, <1>3, <1>4, <1>5 DEF Command, ProcessUploads, ProcessOne

(* The steps around the files of a batch or a daily run keep the records.   *)
LEMMA BatchFiles ==
  ASSUME TypeInv, FileInv,
         \/ \E b \in Batches : SkipBatch(b) \/ StartBatch(b)
         \/ SettleBatch \/ CloseBatch \/ SettleDaily
  PROVE  FileInv'
<1>1. ASSUME NEW b \in Batches, SkipBatch(b) PROVE FileInv'
  <2>1. /\ tx' = [tx EXCEPT !.batch[b] = ResolveBatchStatus(tx, b)]
        /\ UNCHANGED <<db, bronze>> /\ w'.pc = "next"
    BY <1>1 DEF SkipBatch, disk, TypeInv, TypeOK, Workers
  <2>2. SameFiles(tx, tx')
    BY <2>1 DEF TypeInv, TypeOK, SameFiles, Registered, Databases
  <2> QED BY <2>1, <2>2, PlainStep
<1>2. ASSUME NEW b \in Batches, StartBatch(b) PROVE FileInv'
  <2>1. /\ tx' = [tx EXCEPT !.batch[b] = "PROCESSING", !.run = "PROCESSING"]
        /\ UNCHANGED <<db, bronze>> /\ w'.pc = "ingest"
    BY <1>2 DEF StartBatch, disk, TypeInv, TypeOK, Workers
  <2>2. SameFiles(tx, tx')
    BY <2>1 DEF TypeInv, TypeOK, SameFiles, Registered, Databases
  <2> QED BY <2>1, <2>2, PlainStep
<1>3. ASSUME SettleBatch PROVE FileInv'
  <2> DEFINE done == [tx EXCEPT !.run = FinalStatus(w.outcomes)]
             linked == LinkOutcomes(done, w.batch, w.outcomes)
  <2>1. /\ tx' = ReconcileDates(linked, DatesTouchedByFiles(linked, OutcomeFiles(w.outcomes)))
        /\ UNCHANGED <<db, bronze>> /\ w'.pc = "frames"
    BY <1>3 DEF SettleBatch, disk, TypeInv, TypeOK, Workers
  <2>2. done.status = tx.status /\ done.ref = tx.ref /\ done.dupOf = tx.dupOf
    BY DEF TypeInv, TypeOK, Databases
  <2> HIDE DEF done
  <2>3. linked.status = done.status /\ linked.ref = done.ref /\ linked.dupOf = done.dupOf
    BY DEF LinkOutcomes
  <2> HIDE DEF linked
  <2>4. tx'.status = linked.status /\ tx'.ref = linked.ref /\ tx'.dupOf = linked.dupOf
    BY <2>1 DEF ReconcileDates
  <2>5. SameFiles(tx, tx')
    BY <2>2, <2>3, <2>4 DEF SameFiles, Registered
  <2> QED BY <2>1, <2>5, PlainStep
<1>4. ASSUME CloseBatch PROVE FileInv'
  <2>1. /\ tx' = [tx EXCEPT !.batch[w.batch] = ResolveBatchStatus(tx, w.batch)]
        /\ UNCHANGED <<db, bronze>> /\ w'.pc = "next"
    BY <1>4 DEF CloseBatch, disk, TypeInv, TypeOK, Workers
  <2>2. SameFiles(tx, tx')
    BY <2>1 DEF TypeInv, TypeOK, SameFiles, Registered, Databases
  <2> QED BY <2>1, <2>2, PlainStep
<1>5. ASSUME SettleDaily PROVE FileInv'
  <2> DEFINE done == [tx EXCEPT !.run = FinalStatus(w.outcomes)]
  <2>1. /\ \E dates : tx' = ReconcileDates(done, dates)
        /\ UNCHANGED <<db, bronze>> /\ w'.pc = "commit"
    BY <1>5 DEF SettleDaily, disk, TypeInv, TypeOK, Workers
  <2>2. done.status = tx.status /\ done.ref = tx.ref /\ done.dupOf = tx.dupOf
    BY DEF TypeInv, TypeOK, Databases
  <2> HIDE DEF done
  <2>3. tx'.status = done.status /\ tx'.ref = done.ref /\ tx'.dupOf = done.dupOf
    BY <2>1 DEF ReconcileDates
  <2>4. SameFiles(tx, tx')
    BY <2>2, <2>3 DEF SameFiles, Registered
  <2> QED BY <2>1, <2>4, PlainStep
<1> QED BY <1>1, <1>2, <1>3, <1>4, <1>5

(* Landing a new object and recording the file it backs keeps the records   *)
(* sound: the object was no other file's, and the file is a duplicate       *)
(* exactly when its content was known.                                      *)
LEMMA AddFileRecords ==
  ASSUME TypeInv, RecordInv, NEW k \in Keys, k \notin Registered(tx),
         NEW o \in Objects, bronze[o] = None,
         NEW s \in States, NEW c \in Keys \cup {None},
         IF c = None
         THEN s # "DUPLICATE" /\ \A j \in Registered(tx) : j.sha # k.sha
         ELSE c \in Registered(tx) /\ c.sha = k.sha,
         bronze' = [bronze EXCEPT ![o] = k.sha],
         tx' = AddFile(tx, k, o, s, c), db' = db
  PROVE  RecordInv' /\ Registered(tx)' = Registered(tx) \cup {k}
<1>1. s # "ABSENT" /\ k.sha \in Contents /\ k.sha # None
  BY NoneAssumption DEF States, Keys
<1>2. /\ tx'.status = [tx.status EXCEPT ![k] = s]
      /\ tx'.ref = [tx.ref EXCEPT ![k] = o]
      /\ tx'.dupOf = [tx.dupOf EXCEPT ![k] = c]
      /\ tx.status \in [Keys -> States \cup {"ABSENT"}]
      /\ tx.ref \in [Keys -> Objects \cup {None}]
      /\ tx.dupOf \in [Keys -> Keys \cup {None}]
  BY DEF TypeInv, TypeOK, AddFile, Databases
<1>3. Registered(tx)' = Registered(tx) \cup {k}
  BY <1>1, <1>2 DEF Registered
<1>4. \A j \in Keys : j.sha \in Contents /\ j.sha # None
  BY NoneAssumption DEF Keys
<1>5. /\ \A j \in Registered(tx) : j \in Keys /\ bronze[tx.ref[j]] = j.sha /\ tx.ref[j] # o
      /\ \A j \in Registered(db) : j \in Keys /\ bronze[db.ref[j]] = j.sha /\ db.ref[j] # o
  BY <1>4 DEF RecordInv, BronzeBacked, Backed, Registered
<1>6. Backed(db)'
  BY <1>5 DEF RecordInv, BronzeBacked, Backed, TypeInv, TypeOK, Registered
<1>7. Backed(tx)'
  BY <1>2, <1>3, <1>5 DEF RecordInv, BronzeBacked, Backed, TypeInv, TypeOK
<1>8. OneRoot(db)'
  BY DEF RecordInv, SingleCanonical, OneRoot, Registered
<1>9. OneRoot(tx)'
  <2>1. \A j \in Registered(tx) :
          /\ j # k /\ j \in Keys
          /\ tx'.dupOf[j] = tx.dupOf[j] /\ tx'.status[j] = tx.status[j]
    BY <1>2 DEF Registered
  <2>2. tx'.dupOf[k] = c /\ tx'.status[k] = s
    BY <1>2
  <2>3. \A j \in Registered(tx)' :
          tx'.dupOf[j] # None => tx'.dupOf[j] \in Registered(tx)' /\ tx'.dupOf[j].sha = j.sha
    BY <1>3, <2>1, <2>2 DEF RecordInv, SingleCanonical, OneRoot
  <2>4. ASSUME NEW i \in Registered(tx)', NEW j \in Registered(tx)',
               j.sha = i.sha, tx'.dupOf[j] = None, tx'.dupOf[i] = None
        PROVE  i = j
    BY <1>3, <2>1, <2>2, <2>4 DEF RecordInv, SingleCanonical, OneRoot
  <2>5. ASSUME NEW i \in Registered(tx)'
        PROVE  \E j \in Registered(tx)' : j.sha = i.sha /\ tx'.dupOf[j] = None
    BY <1>3, <2>1, <2>2 DEF RecordInv, SingleCanonical, OneRoot
  <2>6. \A j \in Registered(tx)' : tx'.status[j] = "DUPLICATE" => tx'.dupOf[j] # None
    BY <1>3, <2>1, <2>2 DEF RecordInv, SingleCanonical, OneRoot
  <2> QED BY <2>3, <2>4, <2>5, <2>6 DEF OneRoot
<1>10. Continues'
  BY <1>2, <1>3 DEF RecordInv, Continues, Registered
<1> QED BY <1>3, <1>6, <1>7, <1>8, <1>9, <1>10 DEF RecordInv, BronzeBacked, SingleCanonical

(* A step that keeps the records and hands over a registered file.          *)
LEMMA HandOver ==
  ASSUME FileInv, SameFiles(tx, tx'), UNCHANGED <<db, bronze>>,
         w'.pc # "idle",
         w'.pc = "analyse" => w'.file \in Registered(tx),
         w'.pc = "ack" /\ w'.ack \in {"PROCESSED", "DUPLICATE"} => w'.file \in Registered(tx)
  PROVE  FileInv'
<1>1. SameFiles(db, db')
  BY DEF SameFiles, Registered
<1>2. RecordInv'
  BY <1>1, SameRecords DEF FileInv, RecordInv
<1> QED BY <1>2 DEF FileInv, RecordInv, SameFiles

(* The steps of ingest_file keep the records sound.                         *)
LEMMA IngestFiles == ASSUME TypeInv, FileInv, IngestFile PROVE FileInv'
<1>1. ASSUME NEW n \in Names, RefuseAdmission(n) \/ LandingFails(n) PROVE FileInv'
  <2>1. /\ UNCHANGED <<db, tx, bronze>> /\ w'.pc = "ack"
        /\ w'.ack \in {"QUARANTINED", "FAILED"}
    BY <1>1 DEF RefuseAdmission, LandingFails, ToAck, disk, TypeInv, TypeOK, Workers
  <2> QED BY <2>1, HandOver DEF SameFiles, Registered
<1>2. ASSUME NEW n \in Names, RecogniseFile(n) PROVE FileInv'
  <2> DEFINE k == [sha |-> Source(n), name |-> n]
  <2>1. k \in Keys
    BY <1>2, TakeType DEF RecogniseFile
  <2>2. /\ UNCHANGED <<db, tx, bronze>> /\ w'.pc = "ack" /\ w'.file = k
        /\ tx.status[k] # "ABSENT"
    BY <1>2 DEF RecogniseFile, ToAck, disk, TypeInv, TypeOK, Workers
  <2> QED BY <2>1, <2>2, HandOver DEF SameFiles, Registered
<1>3. ASSUME NEW n \in Names, RegisterDuplicate(n) PROVE FileInv'
  <2> DEFINE k == [sha |-> Source(n), name |-> n]
  <2>1. PICK o \in Objects, canonical \in FindByChecksum(tx, Source(n)) :
          /\ FreshObject(o)
          /\ bronze' = [bronze EXCEPT ![o] = Source(n)]
          /\ tx' = AddFile(tx, k, o, "DUPLICATE", canonical)
    BY <1>3 DEF RegisterDuplicate
  <2>2. /\ tx.status[k] = "ABSENT" /\ db' = db /\ w'.pc = "ack" /\ w'.file = k
    BY <1>3 DEF RegisterDuplicate, ToAck, TypeInv, TypeOK, Workers
  <2>3. k \in Keys /\ k.sha = Source(n)
    BY <1>3, TakeType DEF RegisterDuplicate
  <2>4. canonical \in Registered(tx) /\ canonical.sha = k.sha /\ canonical # None
    BY <2>3, NoneAssumption DEF FindByChecksum, Registered
  <2>5. bronze[o] = None /\ k \notin Registered(tx)
    BY <2>1, <2>2 DEF FreshObject, Registered
  <2> HIDE DEF k
  <2>6. RecordInv' /\ Registered(tx)' = Registered(tx) \cup {k}
    <3>1. canonical \in Keys /\ "DUPLICATE" \in States
      BY <2>4 DEF Registered, States
    <3> QED BY <2>1, <2>2, <2>3, <2>4, <2>5, <3>1, AddFileRecords DEF FileInv, RecordInv
  <2> QED BY <2>2, <2>6 DEF FileInv, RecordInv
<1>4. ASSUME NEW n \in Names, RegisterFile(n) PROVE FileInv'
  <2> DEFINE k == [sha |-> Source(n), name |-> n]
  <2>1. PICK o \in Objects :
          /\ FreshObject(o)
          /\ bronze' = [bronze EXCEPT ![o] = Source(n)]
          /\ tx' = AddFile(tx, k, o, "REGISTERED", None)
    BY <1>4 DEF RegisterFile
  <2>2. /\ FindByChecksum(tx, Source(n)) = {} /\ db' = db
        /\ w'.pc = "analyse" /\ w'.file = k
    BY <1>4 DEF RegisterFile, TypeInv, TypeOK, Workers
  <2>3. k \in Keys /\ k.sha = Source(n)
    BY <1>4, TakeType DEF RegisterFile
  <2>4. \A j \in Registered(tx) : j.sha # k.sha
    BY <2>2, <2>3 DEF FindByChecksum, Registered
  <2>5. bronze[o] = None /\ k \notin Registered(tx)
    BY <2>1, <2>4 DEF FreshObject
  <2> HIDE DEF k
  <2>6. RecordInv' /\ Registered(tx)' = Registered(tx) \cup {k}
    <3>1. "REGISTERED" \in States
      BY DEF States
    <3> QED BY <2>1, <2>2, <2>3, <2>4, <2>5, <3>1, AddFileRecords DEF FileInv, RecordInv
  <2> QED BY <2>2, <2>6 DEF FileInv, RecordInv
<1>5. ASSUME AdvanceFile PROVE FileInv'
  <2> DEFINE k == w.file
             t == HappyNext(tx.status[k])
             moved == SetStatus(tx, k, t)
  <2>1. /\ w.pc = "analyse" /\ UNCHANGED <<db, bronze>>
        /\ tx'.status = moved.status /\ tx'.ref = moved.ref /\ tx'.dupOf = moved.dupOf
    BY <1>5 DEF AdvanceFile, disk
  <2>2. w'.pc \in {"analyse", "ack"} /\ w'.file = k
    BY <1>5 DEF AdvanceFile, TypeInv, TypeOK, Workers
  <2>3. k \in Registered(tx) /\ k \in Keys
    BY <2>1 DEF FileInv, Registered
  <2>4. t \in States /\ t # "DUPLICATE"
    BY DEF HappyNext, States
  <2>5. SameFiles(tx, moved)
    BY <2>3, <2>4, SetStatusSame DEF TypeInv, TypeOK
  <2>6. SameFiles(tx, tx')
    BY <2>1, <2>5 DEF SameFiles, Registered
  <2> QED BY <2>1, <2>2, <2>3, <2>6, HandOver
<1>6. ASSUME QuarantineFile \/ FailFile PROVE FileInv'
  <2>1. /\ w.pc = "analyse" /\ UNCHANGED <<db, bronze>>
        /\ \E s \in {"QUARANTINED", "FAILED"} : tx' = SetStatus(tx, w.file, s)
        /\ w'.pc = "ack" /\ w'.ack \in {"QUARANTINED", "FAILED"}
    BY <1>6 DEF QuarantineFile, FailFile, disk, TypeInv, TypeOK, Workers
  <2>2. w.file \in Registered(tx) /\ w.file \in Keys
    BY <2>1 DEF FileInv, Registered
  <2>3. SameFiles(tx, tx')
    BY <2>1, <2>2, SetStatusSame DEF TypeInv, TypeOK, States
  <2> QED BY <2>1, <2>3, HandOver
<1>7. ASSUME AcknowledgeUpload \/ StagedCleanupFails \/ AcknowledgeInbox PROVE FileInv'
  <2>1. UNCHANGED <<db, tx, bronze>> /\ w'.pc = "ingest"
    BY <1>7 DEF AcknowledgeUpload, StagedCleanupFails, AcknowledgeInbox, Report, disk,
                TypeInv, TypeOK, Workers
  <2> QED BY <2>1, PlainStep DEF SameFiles, Registered
<1>8. ASSUME ArchiveFails PROVE FileInv'
  <2>1. /\ w.pc = "ack" /\ w.ack \notin {"FAILED", "QUARANTINED"}
        /\ UNCHANGED <<db, bronze>> /\ tx' = SetStatus(tx, w.file, "FAILED")
        /\ w'.pc = "ingest"
    BY <1>8 DEF ArchiveFails, Moves, Report, disk, TypeInv, TypeOK, Workers
  <2>2. w.file \in Registered(tx) /\ w.file \in Keys
    BY <2>1 DEF FileInv, Registered, TypeInv, TypeOK, Workers, AckOutcomes
  <2>3. SameFiles(tx, tx')
    BY <2>1, <2>2, SetStatusSame DEF TypeInv, TypeOK, States
  <2> QED BY <2>1, <2>3, PlainStep
<1>9. ASSUME QuarantineArchiveFails PROVE FileInv'
  BY <1>9, RollbackFiles DEF QuarantineArchiveFails, disk
<1> QED
  BY <1>1, <1>2, <1>3, <1>4, <1>5, <1>6, <1>7, <1>8, <1>9 DEF IngestFile

(* The steps of frame reconstruction keep the records.                      *)
LEMMA FramesFiles == ASSUME TypeInv, FileInv, ReconstructFrames PROVE FileInv'
<1>1. ASSUME NEW k \in Keys, BeginFrames(k) PROVE FileInv'
  <2>1. /\ UNCHANGED <<db, bronze>> /\ tx' = SetStatus(tx, k, "FRAME_RECONSTRUCTION")
        /\ CanTransition(tx.status[k], "FRAME_RECONSTRUCTION") /\ w'.pc = "rebuild"
    BY <1>1 DEF BeginFrames, disk, TypeInv, TypeOK, Workers
  <2>2. k \in Registered(tx)
    BY <2>1, TransitionType DEF Registered
  <2>3. SameFiles(tx, tx')
    BY <2>1, <2>2, SetStatusSame DEF TypeInv, TypeOK, States
  <2> QED BY <2>1, <2>3, PlainStep
<1>2. ASSUME NEW k \in Keys, SkipFrames(k) PROVE FileInv'
  <2>1. CASE Rollback
    BY <1>2, <2>1, RollbackFiles DEF SkipFrames, disk
  <2>2. CASE UNCHANGED <<db, tx>> /\ w' = [w EXCEPT !.files = @ \ {k}]
    <3>1. w'.pc = "frames" /\ bronze' = bronze
      BY <1>2, <2>2 DEF SkipFrames, disk, TypeInv, TypeOK, Workers
    <3> QED BY <2>2, <3>1, PlainStep DEF SameFiles, Registered
  <2> QED BY <1>2, <2>1, <2>2 DEF SkipFrames
<1>3. ASSUME EndFrames PROVE FileInv'
  <2>1. /\ w.pc = "rebuild" /\ UNCHANGED <<db, bronze>>
        /\ tx' = SetStatus(tx, w.file, "FRAMES_RECONSTRUCTED")
        /\ CanTransition(tx.status[w.file], "FRAMES_RECONSTRUCTED") /\ w'.pc = "frames"
    BY <1>3 DEF EndFrames, disk, TypeInv, TypeOK, Workers
  <2>2. w.file \in Keys
    BY <2>1 DEF TypeInv, WorkerOK
  <2>3. w.file \in Registered(tx)
    BY <2>1, <2>2, TransitionType DEF Registered
  <2>4. SameFiles(tx, tx')
    BY <2>1, <2>2, <2>3, SetStatusSame DEF TypeInv, TypeOK, States
  <2> QED BY <2>1, <2>4, PlainStep
<1>4. ASSUME FramesFail PROVE FileInv'
  <2>1. CASE Rollback
    BY <1>4, <2>1, RollbackFiles DEF FramesFail, disk
  <2>2. CASE UNCHANGED <<db, tx>> /\ w' = [w EXCEPT !.pc = "frames", !.file = None]
    <3>1. w'.pc = "frames" /\ bronze' = bronze
      BY <1>4, <2>2 DEF FramesFail, disk, TypeInv, TypeOK, Workers
    <3> QED BY <2>2, <3>1, PlainStep DEF SameFiles, Registered
  <2> QED BY <1>4, <2>1, <2>2 DEF FramesFail
<1>5. ASSUME EndReconstruction PROVE FileInv'
  <2>1. UNCHANGED <<db, tx, bronze>> /\ w'.pc = "commit"
    BY <1>5 DEF EndReconstruction, disk, TypeInv, TypeOK, Workers
  <2> QED BY <2>1, PlainStep DEF SameFiles, Registered
<1> QED BY <1>1, <1>2, <1>3, <1>4, <1>5 DEF ReconstructFrames

(* Every step keeps the records sound.                                      *)
LEMMA FileStep == TypeInv /\ FileInv /\ [Next]_vars => FileInv'
<1> SUFFICES ASSUME TypeInv, FileInv, [Next]_vars PROVE FileInv'
  OBVIOUS
<1>1. CASE Request
  BY <1>1, RequestFiles
<1>2. CASE Command
  BY <1>2, CommandFiles
<1>3. CASE WorkerStep
  <2>1. CASE Commit
    <3>1. db' = tx /\ tx' = tx /\ w' = Idle /\ bronze' = bronze
      BY <2>1 DEF Commit, disk
    <3> QED BY <3>1 DEF FileInv, BronzeBacked, SingleCanonical, Backed, OneRoot,
                        Continues, Registered, Idle
  <2> QED BY <1>3, <2>1, BatchFiles, IngestFiles, FramesFiles DEF WorkerStep
<1>4. CASE Crash
  BY <1>4, RollbackFiles DEF Crash, disk
<1>5. CASE UNCHANGED vars
  BY <1>5 DEF vars, FileInv, BronzeBacked, SingleCanonical, Backed, OneRoot,
              Continues, Registered
<1> QED BY <1>1, <1>2, <1>3, <1>4, <1>5 DEF Next

(* The file records are sound in every reachable state.                     *)
THEOREM RecordsSound == Spec => []FileInv
<1>1. Init /\ [][Next]_vars /\ []TypeInv => []FileInv
  BY FileInit, FileStep, PTL
<1> QED BY <1>1, TypeCorrect, PTL DEF Spec

(* Every telemetry file, committed or not, has a Bronze object of its own   *)
(* that holds exactly its content, for any number of files, batches,        *)
(* crashes and faults (storage.py store and discard, _register).            *)
THEOREM FilesBacked == Spec => []BronzeBacked
<1>1. FileInv => BronzeBacked
  BY DEF FileInv
<1> QED BY <1>1, RecordsSound, PTL

(* Every content has exactly one canonical record, and every other record   *)
(* of it is a duplicate of a registered one (_register).                    *)
THEOREM OneCanonicalRecord == Spec => []SingleCanonical
<1>1. FileInv => SingleCanonical
  BY DEF FileInv
<1> QED BY <1>1, RecordsSound, PTL

(* The only steps that touch Bronze fill an object that was empty.          *)
LEMMA BronzeStep ==
  ASSUME [Next]_vars
  PROVE  \/ bronze' = bronze
         \/ \E o \in Objects : \E c : bronze[o] = None /\ bronze' = [bronze EXCEPT ![o] = c]
<1>1. ASSUME NEW n \in Names, RegisterDuplicate(n) \/ RegisterFile(n)
      PROVE  \E o \in Objects : \E c : bronze[o] = None /\ bronze' = [bronze EXCEPT ![o] = c]
  BY <1>1 DEF RegisterDuplicate, RegisterFile, FreshObject
<1>2. CASE Request \/ Command
  BY <1>2 DEF Request, Drop, StageBatch, NormalizeFile, Command, ProcessUploads, ProcessOne, StartUploads, RunDaily,
              ReconstructOne, ReconstructDay, Reconcile, disk
<1>3. CASE IngestFile
  BY <1>1, <1>3 DEF IngestFile, RefuseAdmission, LandingFails, RecogniseFile, AdvanceFile,
              QuarantineFile, FailFile, AcknowledgeUpload, StagedCleanupFails,
              AcknowledgeInbox, ArchiveFails, QuarantineArchiveFails, disk
<1>4. CASE ReconstructFrames
  BY <1>4 DEF ReconstructFrames, BeginFrames, SkipFrames, EndFrames, FramesFail,
              EndReconstruction, disk
<1>5. CASE WorkerStep /\ ~IngestFile /\ ~ReconstructFrames
  BY <1>5 DEF WorkerStep, SkipBatch, StartBatch, SettleBatch, CloseBatch, SettleDaily,
              Commit, disk
<1>6. CASE Crash \/ UNCHANGED vars
  BY <1>6 DEF Crash, disk, vars
<1> QED BY <1>2, <1>3, <1>4, <1>5, <1>6 DEF Next, WorkerStep

(* A step keeps the committed records or commits the session's.             *)
LEMMA CommittedStep ==
  ASSUME TypeInv, [Next]_vars
  PROVE  db' = db \/ db' = tx \/ SameFiles(db, db')
<1>1. ASSUME NEW b \in Batches, StageBatch(b) PROVE SameFiles(db, db')
  <2>1. \E rows : db' = AddBatch(db, b, rows)
    BY <1>1 DEF StageBatch
  <2> QED BY <2>1 DEF TypeInv, TypeOK, AddBatch, SameFiles, Registered, Databases
<1>2. ASSUME NEW k \in NormalizeFiles, NormalizeFile(k) PROVE SameFiles(db, db')
  BY <1>2 DEF NormalizeFile, TypeInv, TypeOK, SameFiles, Registered, Databases
<1>3. ASSUME NEW day \in Days, Reconcile(day) PROVE SameFiles(db, db')
  BY <1>3 DEF Reconcile, ReconcileDates, TypeInv, TypeOK, SameFiles, Registered, Databases
<1>4. CASE Request
  BY <1>1, <1>2, <1>4 DEF Request, Drop
<1>5. CASE Command
  BY <1>3, <1>5 DEF Command, ProcessUploads, ProcessOne, StartUploads, RunDaily, ReconstructOne, ReconstructDay
<1>6. CASE IngestFile
  BY <1>6 DEF IngestFile, RefuseAdmission, LandingFails, RecogniseFile, RegisterDuplicate,
              RegisterFile, AdvanceFile, QuarantineFile, FailFile, AcknowledgeUpload,
              StagedCleanupFails, AcknowledgeInbox, ArchiveFails,
              QuarantineArchiveFails, Rollback
<1>7. CASE ReconstructFrames
  BY <1>7 DEF ReconstructFrames, BeginFrames, SkipFrames, EndFrames, FramesFail,
              EndReconstruction, Rollback
<1>8. CASE WorkerStep /\ ~IngestFile /\ ~ReconstructFrames
  BY <1>8 DEF WorkerStep, SkipBatch, StartBatch, SettleBatch, CloseBatch, SettleDaily, Commit
<1>9. CASE Crash \/ UNCHANGED vars
  BY <1>9 DEF Crash, Rollback, vars
<1> QED BY <1>4, <1>5, <1>6, <1>7, <1>8, <1>9 DEF Next, WorkerStep

(* No step forgets, re-identifies or moves a committed file or rewrites its *)
(* object.                                                                  *)
LEMMA DurableStep == TypeInv /\ FileInv /\ [Next]_vars => RecordsDurable
<1> SUFFICES ASSUME TypeInv, FileInv, [Next]_vars, NEW k \in Registered(db)
             PROVE  /\ db'.status[k] # "ABSENT" /\ db'.ref[k] = db.ref[k]
                    /\ db'.dupOf[k] = db.dupOf[k]
                    /\ bronze'[db.ref[k]] = bronze[db.ref[k]]
  BY DEF RecordsDurable
<1>1. k \in Keys /\ k.sha # None
  BY NoneAssumption DEF Registered, Keys
<1>2. bronze[db.ref[k]] = k.sha /\ db.ref[k] \in Objects
  BY DEF FileInv, BronzeBacked, Backed
<1>3. bronze'[db.ref[k]] = bronze[db.ref[k]]
  BY <1>1, <1>2, BronzeStep DEF TypeInv, TypeOK
<1>4. db'.status[k] # "ABSENT" /\ db'.ref[k] = db.ref[k] /\ db'.dupOf[k] = db.dupOf[k]
  BY CommittedStep DEF FileInv, Continues, SameFiles, Registered
<1> QED BY <1>3, <1>4

(* A committed telemetry file is never forgotten, re-identified or moved to *)
(* another object, nor its object rewritten: not by a re-presented file, a  *)
(* rollback, a crash or a retry (_register, session_scope).                 *)
THEOREM RecordsAreDurable == Spec => DurableRecords
<1>1. TypeInv /\ FileInv /\ [Next]_vars => [RecordsDurable]_vars
  BY DurableStep
<1> QED BY <1>1, TypeCorrect, RecordsSound, PTL DEF Spec, DurableRecords

-----------------------------------------------------------------------------
(***************************************************************************)
(* What a step does to the columns status, row, batch, days and coverage.   *)
(***************************************************************************)

SameCols(d, e) ==
  /\ e.status = d.status /\ e.row = d.row /\ e.batch = d.batch
  /\ e.days = d.days /\ e.coverage = d.coverage

(* The batch b with its rows is added.                                      *)
BatchAdded(d, e, b, rows) ==
  /\ e.status = d.status /\ e.days = d.days /\ e.coverage = d.coverage
  /\ e.batch = [d.batch EXCEPT ![b] = "REGISTERED"]
  /\ e.row = [d.row EXCEPT ![b] = rows]

(* The status of the batch b is set.                                        *)
BatchSet(d, e, b, s) ==
  /\ e.status = d.status /\ e.row = d.row
  /\ e.days = d.days /\ e.coverage = d.coverage
  /\ e.batch = [d.batch EXCEPT ![b] = s]

(* The status of the file k is set; its file-days may have been written.    *)
FileSet(d, e, k, s) ==
  /\ e.row = d.row /\ e.batch = d.batch /\ e.coverage = d.coverage
  /\ e.status = [d.status EXCEPT ![k] = s]
  /\ e.days = d.days \/ (s = "SCHEMA_VALIDATION" /\ e.days = d.days \cup {k})
  /\ s = "SCHEMA_VALIDATION" => k \in e.days

(* The coverage the dates are reconciled to.                                *)
Recomputed(d, dates) ==
  [day \in Days |-> IF day \in dates /\ (InFleet \/ FilesForDay(d, day) # {})
                    THEN FilesForDay(d, day) ELSE d.coverage[day]]

(* The dates are reconciled.                                                *)
Recovered(d, e, dates) ==
  /\ e.status = d.status /\ e.batch = d.batch /\ e.days = d.days
  /\ e.coverage = Recomputed(d, dates)

(* Only the killing of a worker counts as a crash, and faults are not       *)
(* forgotten.                                                               *)
Budgeted == crashes' = crashes /\ (faults' = 0 => faults = 0)

(* The worker goes on with the same reference, batch and outcomes.          *)
KeepsRun == w'.job = w.job /\ w'.batch = w.batch /\ w'.outcomes = w.outcomes

-----------------------------------------------------------------------------
(***************************************************************************)
(* The kinds of steps.                                                      *)
(***************************************************************************)

StillStep ==
  /\ SameCols(db, db') /\ SameCols(tx, tx')
  /\ UNCHANGED <<staging, w, crashes, faults>>

StageStep(b, rows) ==
  /\ db.batch[b] = "ABSENT" /\ rows \in [Names -> Rows]
  /\ \A n \in Names : rows[n].status # "REGISTERED"
  /\ BatchAdded(db, db', b, rows) /\ BatchAdded(tx, tx', b, rows)
  /\ staging \subseteq staging'
  /\ \A n \in Names : rows[n].status = "PENDING" => <<b, n>> \in staging'
  /\ UNCHANGED <<w, crashes, faults>>

CommandStep ==
  /\ w.pc = "idle" /\ db' = db /\ SameCols(tx, tx')
  /\ w'.outcomes = NoOutcomes /\ w'.todo \subseteq Names
  /\ \/ w'.pc = "next" /\ w'.job = "uploads"
     \/ w'.pc = "frames" /\ w'.job \in {"file", "day"}
     \/ w'.pc = "ingest" /\ w'.job = "daily"
  /\ UNCHANGED <<staging, crashes, faults>>

ReconcileStep(day) ==
  /\ w.pc = "idle" /\ tx' = db'
  /\ Recovered(db, db', {day}) /\ db'.row = db.row
  /\ UNCHANGED <<staging, w, crashes, faults>>

ResolveStep(b) ==
  /\ w.pc \in {"next", "frames"} /\ w.job = "uploads" /\ db' = db
  /\ BatchSet(tx, tx', b, ResolveBatchStatus(tx, b))
  /\ w'.pc = "next" /\ w'.job = "uploads"
  /\ w'.outcomes = NoOutcomes \/ (w.pc = "next" /\ w'.outcomes = w.outcomes)
  /\ UNCHANGED <<staging, crashes, faults>>

OpenStep(b) ==
  /\ w.pc = "next" /\ db' = db
  /\ BatchSet(tx, tx', b, "PROCESSING")
  /\ w'.pc = "ingest" /\ w'.job = "uploads" /\ w'.batch = b
  /\ w'.outcomes = w.outcomes /\ w'.todo \subseteq RowsIn(tx, b, "PENDING")
  /\ UNCHANGED <<staging, crashes, faults>>

SettleBatchStep ==
  /\ w.pc = "ingest" /\ w.job = "uploads" /\ w.batch \in Batches /\ db' = db
  /\ Recovered(tx, tx', DatesTouchedByFiles(tx, OutcomeFiles(w.outcomes)))
  /\ tx'.row = [tx.row EXCEPT ![w.batch] =
                  [n \in Names |-> IF w.outcomes[n] # None
                                   THEN LinkedRow(tx.row[w.batch][n], w.outcomes[n])
                                   ELSE tx.row[w.batch][n]]]
  /\ w'.pc = "frames" /\ KeepsRun
  /\ UNCHANGED <<staging, crashes, faults>>

SettleDailyStep(dates) ==
  /\ w.pc = "ingest" /\ w.job = "daily" /\ db' = db
  /\ Recovered(tx, tx', dates) /\ tx'.row = tx.row
  /\ ~NoReconcile => DatesTouchedByFiles(tx, OutcomeFiles(w.outcomes)) \subseteq dates
  /\ w'.pc = "commit" /\ KeepsRun
  /\ UNCHANGED <<staging, crashes, faults>>

(* The worker takes the reference n.                                        *)
TakesReference(n) ==
  /\ w.pc = "ingest" /\ n \in w.todo /\ db' = db /\ staging' = staging
  /\ w'.name = n /\ w'.todo = w.todo \ {n} /\ KeepsRun
  /\ Budgeted

RefuseStep(n) ==
  /\ TakesReference(n) /\ tx' = tx
  /\ w'.pc = "ack" /\ w'.file = None

RecogniseStep(n, k) ==
  /\ TakesReference(n) /\ tx' = tx
  /\ k.sha = Source(n) /\ tx.status[k] # "ABSENT"
  /\ w'.pc = "ack" /\ w'.file = k /\ w'.already = TRUE

DuplicateStep(n, k) ==
  /\ TakesReference(n) /\ FileSet(tx, tx', k, "DUPLICATE")
  /\ k.sha = Source(n) /\ tx.status[k] = "ABSENT"
  /\ w'.pc = "ack" /\ w'.file = k /\ w'.ack = "DUPLICATE"

RegisterStep(n, k) ==
  /\ TakesReference(n) /\ FileSet(tx, tx', k, "REGISTERED")
  /\ k.sha = Source(n) /\ tx.status[k] = "ABSENT"
  /\ w'.pc = "analyse" /\ w'.file = k /\ w'.already = FALSE

(* The worker goes on with the file in hand.                                *)
KeepsReference ==
  w'.name = w.name /\ w'.file = w.file /\ w'.todo = w.todo /\ w'.already = w.already

AnalyseStep(s) ==
  /\ w.pc = "analyse" /\ db' = db /\ staging' = staging
  /\ FileSet(tx, tx', w.file, s)
  /\ \/ s \in {"QUARANTINED", "FAILED"} /\ w'.pc = "ack"
     \/ /\ s = HappyNext(tx.status[w.file]) /\ CanTransition(tx.status[w.file], s)
        /\ w'.pc = IF s = "READY_FOR_NORMALIZATION" THEN "ack" ELSE "analyse"
  /\ KeepsRun /\ KeepsReference /\ Budgeted

ReportsOutcome(ack, already) ==
  /\ w.pc = "ack" /\ w'.pc = "ingest" /\ db' = db
  /\ w'.job = w.job /\ w'.batch = w.batch /\ w'.todo = w.todo
  /\ w'.outcomes = [w.outcomes EXCEPT ![w.name] =
                      [file |-> w.file, ack |-> ack, already |-> already]]
  /\ Budgeted

AckStep ==
  /\ ReportsOutcome(w.ack, w.already) /\ tx' = tx
  /\ \/ staging' = staging
     \/ /\ w.job = "uploads" /\ w.ack \in {"PROCESSED", "DUPLICATE"}
        /\ staging' = staging \ {<<w.batch, w.name>>}

ArchiveFailsStep ==
  /\ ReportsOutcome("FAILED", FALSE) /\ w.job = "daily"
  /\ w.ack \in {"PROCESSED", "DUPLICATE"}
  /\ FileSet(tx, tx', w.file, "FAILED")
  /\ Archiving /\ faults' # 0 /\ staging' = staging

FramesStep(k, s) ==
  /\ w.pc \in {"frames", "rebuild"} /\ w'.pc \in {"frames", "rebuild"}
  /\ s \in {"FRAME_RECONSTRUCTION", "FRAMES_RECONSTRUCTED"}
  /\ FileSet(tx, tx', k, s) /\ CanTransition(tx.status[k], s)
  /\ db' = db /\ staging' = staging /\ KeepsRun /\ Budgeted

PassStep ==
  /\ w.pc \in {"frames", "rebuild"} /\ w'.pc \in {"frames", "commit"}
  /\ db' = db /\ tx' = tx /\ staging' = staging /\ KeepsRun /\ Budgeted

CommitStep ==
  /\ w.pc \in {"commit", "next"}
  /\ db' = tx /\ tx' = tx /\ w' = Idle /\ UNCHANGED <<staging, crashes, faults>>

RollbackStep ==
  /\ db' = db /\ tx' = db /\ w' = Idle /\ staging' = staging
  /\ w.job = "uploads" => crashes' # 0
  /\ crashes' = 0 => crashes = 0
  /\ faults' = 0 => faults = 0

-----------------------------------------------------------------------------
(***************************************************************************)
(* Every step of the specification is one of these kinds.                   *)
(***************************************************************************)

(* No row of a request is staged as handed over.                            *)
LEMMA StagedNotLinked ==
  ASSUME NEW parts, NEW refused, NEW n \in Names
  PROVE  StagedRows(parts, refused)[n].status # "REGISTERED"
BY DEF StagedRows, StagedRow, NoRow

(* A request of the environment.                                            *)
LEMMA RequestKind ==
  ASSUME TypeInv, Request
  PROVE  StillStep \/ \E b \in Batches : \E rows : StageStep(b, rows)
<1>1. ASSUME NEW k \in InboxFiles, Drop(k) PROVE StillStep
  BY <1>1 DEF Drop, StillStep, SameCols, budget
<1>2. ASSUME NEW k \in NormalizeFiles, NormalizeFile(k) PROVE StillStep
  BY <1>2 DEF NormalizeFile, StillStep, SameCols, disk, budget
<1>3. ASSUME NEW b \in Batches, StageBatch(b) PROVE \E rows : StageStep(b, rows)
  <2>0. PICK parts \in Requests : \E refused \in SUBSET DOMAIN parts :
          /\ db' = AddBatch(db, b, StagedRows(parts, refused))
          /\ tx' = AddBatch(tx, b, StagedRows(parts, refused))
          /\ staging' = staging \cup
               {<<b, n>> : n \in {m \in Names :
                                   StagedRows(parts, refused)[m].status = "PENDING"}}
    BY <1>3 DEF StageBatch
  <2>1. PICK refused \in SUBSET DOMAIN parts :
          /\ db' = AddBatch(db, b, StagedRows(parts, refused))
          /\ tx' = AddBatch(tx, b, StagedRows(parts, refused))
          /\ staging' = staging \cup
               {<<b, n>> : n \in {m \in Names :
                                   StagedRows(parts, refused)[m].status = "PENDING"}}
    BY <2>0
  <2> DEFINE rows == StagedRows(parts, refused)
  <2>2. rows \in [Names -> Rows] /\ \A n \in Names : rows[n].status # "REGISTERED"
    BY StagedRowsType, StagedNotLinked
  <2>3. /\ db' = AddBatch(db, b, rows) /\ tx' = AddBatch(tx, b, rows)
        /\ staging' = staging \cup {<<b, n>> : n \in {m \in Names : rows[m].status = "PENDING"}}
    BY <2>1
  <2> HIDE DEF rows
  <2>4. BatchAdded(db, db', b, rows) /\ BatchAdded(tx, tx', b, rows)
    BY <2>3 DEF AddBatch, BatchAdded
  <2>5. db.batch[b] = "ABSENT" /\ UNCHANGED <<w, crashes, faults>>
    BY <1>3 DEF StageBatch, budget
  <2>6. staging \subseteq staging' /\ \A n \in Names : rows[n].status = "PENDING" => <<b, n>> \in staging'
    BY <2>3
  <2> QED BY <2>2, <2>4, <2>5, <2>6 DEF StageStep
<1> QED BY <1>1, <1>2, <1>3 DEF Request

(* A command an idle worker is given.                                       *)
LEMMA CommandKind ==
  ASSUME TypeInv, Command
  PROVE  CommandStep \/ \E day \in Days : ReconcileStep(day)
<1>1. ASSUME NEW targets, StartUploads(targets) PROVE CommandStep
  BY <1>1 DEF StartUploads, CommandStep, SameCols, Idle, disk, budget
<1>2. ASSUME RunDaily PROVE CommandStep
  BY <1>2 DEF RunDaily, CommandStep, SameCols, Idle, disk, budget
<1>3. ASSUME NEW k \in Keys, ReconstructOne(k) PROVE CommandStep
  BY <1>3 DEF ReconstructOne, CommandStep, SameCols, Idle, disk, budget
<1>4. ASSUME NEW day \in Days, ReconstructDay(day) PROVE CommandStep
  BY <1>4 DEF ReconstructDay, CommandStep, SameCols, Idle, disk, budget
<1>5. ASSUME NEW day \in Days, Reconcile(day) PROVE ReconcileStep(day)
  BY <1>5 DEF Reconcile, ReconcileDates, ReconcileStep, Recovered, Recomputed, disk, budget
<1> QED BY <1>1, <1>2, <1>3, <1>4, <1>5 DEF Command, ProcessUploads, ProcessOne

(* A step of process-uploads or run-daily around the files.                 *)
LEMMA BatchKind ==
  ASSUME TypeInv,
         \/ \E b \in Batches : SkipBatch(b) \/ StartBatch(b)
         \/ SettleBatch \/ CloseBatch \/ SettleDaily
  PROVE  \/ \E b \in Batches : ResolveStep(b) \/ OpenStep(b)
         \/ SettleBatchStep
         \/ \E dates : SettleDailyStep(dates)
<1>1. ASSUME NEW b \in Batches, SkipBatch(b) PROVE ResolveStep(b)
  <2>1. w.pc = "next" /\ w.job = "uploads" /\ w \in Workers
    BY <1>1 DEF SkipBatch, TypeInv, TypeOK, WorkerOK
  <2> QED BY <1>1, <2>1 DEF SkipBatch, ResolveStep, BatchSet, Workers, disk, budget
<1>2. ASSUME NEW b \in Batches, StartBatch(b) PROVE OpenStep(b)
  <2>1. w.pc = "next" /\ w.job = "uploads" /\ w \in Workers
    BY <1>2 DEF StartBatch, TypeInv, TypeOK, WorkerOK
  <2>2. BatchSet(tx, tx', b, "PROCESSING") /\ db' = db /\ UNCHANGED <<staging, crashes, faults>>
    BY <1>2 DEF StartBatch, BatchSet, disk, budget, TypeInv, TypeOK, Databases
  <2>3. /\ w'.pc = "ingest" /\ w'.job = w.job /\ w'.batch = b /\ w'.outcomes = w.outcomes
        /\ w'.todo = {n \in RowsIn(tx, b, "PENDING") : <<b, n>> \in staging}
    BY <1>2, <2>1 DEF StartBatch, Workers
  <2> QED BY <2>1, <2>2, <2>3 DEF OpenStep
<1>3. ASSUME SettleBatch PROVE SettleBatchStep
  <2> DEFINE files == OutcomeFiles(w.outcomes)
             done == [tx EXCEPT !.run = FinalStatus(w.outcomes)]
             linked == LinkOutcomes(done, w.batch, w.outcomes)
  <2>1. w.pc = "ingest" /\ w.job = "uploads" /\ w.batch \in Batches
    BY <1>3 DEF SettleBatch, TypeInv, WorkerOK, Busy
  <2>2. /\ tx' = ReconcileDates(linked, DatesTouchedByFiles(linked, files))
        /\ UNCHANGED <<db, staging, crashes, faults>>
    BY <1>3 DEF SettleBatch, disk, budget
  <2>3. w'.pc = "frames" /\ KeepsRun
    BY <1>3 DEF SettleBatch, TypeInv, TypeOK, Workers, KeepsRun
  <2>4. /\ done.status = tx.status /\ done.batch = tx.batch /\ done.days = tx.days
        /\ done.coverage = tx.coverage /\ done.row = tx.row
    BY DEF TypeInv, TypeOK, Databases
  <2> HIDE DEF done
  <2>5. /\ linked.status = tx.status /\ linked.batch = tx.batch /\ linked.days = tx.days
        /\ linked.coverage = tx.coverage
        /\ linked.row = [tx.row EXCEPT ![w.batch] =
             [n \in Names |-> IF w.outcomes[n] # None
                              THEN LinkedRow(tx.row[w.batch][n], w.outcomes[n])
                              ELSE tx.row[w.batch][n]]]
    BY <2>4 DEF LinkOutcomes
  <2> HIDE DEF linked
  <2>6. /\ DatesTouchedByFiles(linked, files) = DatesTouchedByFiles(tx, files)
        /\ \A day \in Days : FilesForDay(linked, day) = FilesForDay(tx, day)
    BY <2>5 DEF DatesTouchedByFiles, FilesForDay
  <2> DEFINE dates == DatesTouchedByFiles(tx, files)
  <2>7. tx' = ReconcileDates(linked, dates)
    BY <2>2, <2>6
  <2> HIDE DEF dates
  <2>8. /\ tx'.status = linked.status /\ tx'.batch = linked.batch
        /\ tx'.days = linked.days /\ tx'.row = linked.row
        /\ tx'.coverage = [day \in Days |->
              IF day \in dates /\ (InFleet \/ FilesForDay(linked, day) # {})
              THEN FilesForDay(linked, day) ELSE linked.coverage[day]]
    BY <2>7 DEF ReconcileDates
  <2>9. tx'.coverage = Recomputed(tx, dates)
    BY <2>5, <2>6, <2>8 DEF Recomputed
  <2>10. Recovered(tx, tx', dates)
    BY <2>5, <2>8, <2>9 DEF Recovered
  <2> QED BY <2>1, <2>2, <2>3, <2>5, <2>8, <2>10 DEF SettleBatchStep, dates
<1>4. ASSUME CloseBatch PROVE \E b \in Batches : ResolveStep(b)
  <2>1. w.pc = "frames" /\ w.job = "uploads" /\ w \in Workers /\ w.batch \in Batches
    BY <1>4 DEF CloseBatch, TypeInv, TypeOK, WorkerOK
  <2>2. ResolveStep(w.batch)
    BY <1>4, <2>1 DEF CloseBatch, ResolveStep, BatchSet, Workers, disk, budget
  <2> QED BY <2>1, <2>2
<1>5. ASSUME SettleDaily PROVE \E dates : SettleDailyStep(dates)
  <2> DEFINE done == [tx EXCEPT !.run = FinalStatus(w.outcomes)]
             touched == DatesTouchedByFiles(done, OutcomeFiles(w.outcomes))
  <2>1. PICK dates \in {touched} \cup {touched \cup {d} : d \in Days}
                         \cup (IF NoReconcile THEN {{}} ELSE {}) :
          tx' = ReconcileDates(done, dates)
    BY <1>5 DEF SettleDaily
  <2>2. ~NoReconcile => touched \subseteq dates
    BY <2>1
  <2>3. /\ w.pc = "ingest" /\ w.job = "daily"
        /\ UNCHANGED <<db, staging, crashes, faults>>
        /\ w'.pc = "commit" /\ KeepsRun
    BY <1>5 DEF SettleDaily, disk, budget, TypeInv, TypeOK, Workers, KeepsRun
  <2>4. /\ done.status = tx.status /\ done.batch = tx.batch /\ done.days = tx.days
        /\ done.coverage = tx.coverage /\ done.row = tx.row
    BY DEF TypeInv, TypeOK, Databases
  <2> HIDE DEF done
  <2>5. /\ touched = DatesTouchedByFiles(tx, OutcomeFiles(w.outcomes))
        /\ \A day \in Days : FilesForDay(done, day) = FilesForDay(tx, day)
    BY <2>4 DEF DatesTouchedByFiles, FilesForDay
  <2> HIDE DEF touched
  <2>6. /\ tx'.status = done.status /\ tx'.batch = done.batch
        /\ tx'.days = done.days /\ tx'.row = done.row
        /\ tx'.coverage = [day \in Days |->
              IF day \in dates /\ (InFleet \/ FilesForDay(done, day) # {})
              THEN FilesForDay(done, day) ELSE done.coverage[day]]
    BY <2>1 DEF ReconcileDates
  <2>7. tx'.coverage = Recomputed(tx, dates)
    BY <2>4, <2>5, <2>6 DEF Recomputed
  <2>8. Recovered(tx, tx', dates) /\ tx'.row = tx.row
    BY <2>4, <2>6, <2>7 DEF Recovered
  <2> QED BY <2>2, <2>3, <2>5, <2>8 DEF SettleDailyStep
<1> QED BY <1>1, <1>2, <1>3, <1>4, <1>5

(* A step of ingest_file.                                                   *)
LEMMA IngestKind ==
  ASSUME TypeInv, FileInv, IngestFile
  PROVE  \/ \E n \in Names : RefuseStep(n)
         \/ \E n \in Names, k \in Keys :
              RecogniseStep(n, k) \/ DuplicateStep(n, k) \/ RegisterStep(n, k)
         \/ \E s \in States : AnalyseStep(s)
         \/ AckStep \/ ArchiveFailsStep \/ RollbackStep
<1>0. w \in Workers /\ faults \in Nat
  BY BoundsAssumption DEF TypeInv, TypeOK
<1>a. ASSUME NEW n \in Names, NEW k, NEW ack, NEW already,
             Take(n), ToAck(n, k, ack, already), Budgeted, UNCHANGED <<db, staging>>
      PROVE  /\ TakesReference(n)
             /\ w'.pc = "ack" /\ w'.file = k /\ w'.ack = ack /\ w'.already = already
  BY <1>0, <1>a DEF Take, IsLeast, ToAck, TakesReference, KeepsRun, Workers
<1>b. ASSUME Fault PROVE Budgeted /\ faults' # 0
  BY <1>0, <1>b DEF Fault, Budgeted
<1>c. ASSUME UNCHANGED budget PROVE Budgeted
  BY <1>c DEF Budgeted, budget
<1>d. ASSUME NEW ack, NEW already, w.pc = "ack", Report(ack, already), db' = db, Budgeted
      PROVE  ReportsOutcome(ack, already)
  <2>1. w.name \in Names /\ w.outcomes \in [Names -> Outcomes \cup {None}]
    BY <1>0, <1>d DEF TypeInv, WorkerOK, Workers
  <2> DEFINE out == [file |-> w.file, ack |-> ack, already |-> already]
  <2>2. w' = [w EXCEPT !.pc = "ingest", !.name = None, !.file = None,
                       !.ack = "PROCESSED", !.already = FALSE, !.outcomes[w.name] = out]
    BY <1>d DEF Report
  <2>3. w'.outcomes = [w.outcomes EXCEPT ![w.name] = out]
    <3> HIDE DEF out
    <3> QED BY <1>0, <2>2 DEF Workers
  <2>4. w'.pc = "ingest" /\ w'.job = w.job /\ w'.batch = w.batch /\ w'.todo = w.todo
    <3> HIDE DEF out
    <3> QED BY <1>0, <2>2 DEF Workers
  <2> QED BY <1>d, <2>3, <2>4 DEF ReportsOutcome
<1>1. ASSUME NEW n \in Names, RefuseAdmission(n) PROVE RefuseStep(n)
  BY <1>1, <1>a, <1>c DEF RefuseAdmission, RefuseStep, disk
<1>2. ASSUME NEW n \in Names, LandingFails(n) PROVE RefuseStep(n)
  BY <1>2, <1>a, <1>b DEF LandingFails, RefuseStep, disk
<1>3. ASSUME NEW n \in Names, RecogniseFile(n) PROVE \E k \in Keys : RecogniseStep(n, k)
  <2> DEFINE k == [sha |-> Source(n), name |-> n]
  <2>1. k \in Keys /\ k.sha = Source(n)
    BY <1>3, TakeType DEF RecogniseFile
  <2>2. /\ Take(n) /\ ToAck(n, k, "PROCESSED", TRUE) /\ tx.status[k] # "ABSENT"
        /\ UNCHANGED <<db, tx, staging>> /\ UNCHANGED budget
    BY <1>3 DEF RecogniseFile, disk
  <2> HIDE DEF k
  <2>3. /\ TakesReference(n) /\ w'.pc = "ack" /\ w'.file = k /\ w'.already = TRUE
    BY <2>2, <1>a, <1>c
  <2>4. RecogniseStep(n, k)
    BY <2>1, <2>2, <2>3 DEF RecogniseStep
  <2> QED BY <2>1, <2>4
<1>e. ASSUME NEW k \in Keys, NEW o, NEW s, NEW c, tx' = AddFile(tx, k, o, s, c),
             s # "SCHEMA_VALIDATION"
      PROVE  FileSet(tx, tx', k, s)
  BY <1>e DEF AddFile, FileSet
<1>4. ASSUME NEW n \in Names, RegisterDuplicate(n) PROVE \E k \in Keys : DuplicateStep(n, k)
  <2> DEFINE k == [sha |-> Source(n), name |-> n]
  <2>1. k \in Keys /\ k.sha = Source(n)
    BY <1>4, TakeType DEF RegisterDuplicate
  <2>2. /\ Take(n) /\ ToAck(n, k, "DUPLICATE", FALSE) /\ tx.status[k] = "ABSENT"
        /\ UNCHANGED <<db, staging>> /\ UNCHANGED budget
        /\ \E o, c : tx' = AddFile(tx, k, o, "DUPLICATE", c)
    BY <1>4 DEF RegisterDuplicate
  <2> HIDE DEF k
  <2>3. /\ TakesReference(n) /\ w'.pc = "ack" /\ w'.file = k /\ w'.ack = "DUPLICATE"
    BY <2>2, <1>a, <1>c
  <2>4. FileSet(tx, tx', k, "DUPLICATE")
    BY <2>1, <2>2, <1>e
  <2>5. DuplicateStep(n, k)
    BY <2>1, <2>2, <2>3, <2>4 DEF DuplicateStep
  <2> QED BY <2>1, <2>5
<1>5. ASSUME NEW n \in Names, RegisterFile(n) PROVE \E k \in Keys : RegisterStep(n, k)
  <2> DEFINE k == [sha |-> Source(n), name |-> n]
  <2>1. k \in Keys /\ k.sha = Source(n)
    BY <1>5, TakeType DEF RegisterFile
  <2>2. /\ Take(n) /\ FindByChecksum(tx, Source(n)) = {}
        /\ w' = [w EXCEPT !.pc = "analyse", !.name = n, !.file = k,
                          !.already = FALSE, !.todo = @ \ {n}]
        /\ UNCHANGED <<db, staging>> /\ UNCHANGED budget
        /\ \E o : tx' = AddFile(tx, k, o, "REGISTERED", None)
    BY <1>5 DEF RegisterFile
  <2> HIDE DEF k
  <2>3. /\ TakesReference(n) /\ w'.pc = "analyse" /\ w'.file = k /\ w'.already = FALSE
    BY <1>0, <2>2, <1>c DEF Take, IsLeast, TakesReference, KeepsRun, Workers
  <2>4. FileSet(tx, tx', k, "REGISTERED")
    BY <2>1, <2>2, <1>e
  <2>5. tx.status[k] = "ABSENT"
    BY <2>1, <2>2 DEF FindByChecksum
  <2>6. RegisterStep(n, k)
    BY <2>1, <2>3, <2>4, <2>5 DEF RegisterStep
  <2> QED BY <2>1, <2>6
<1>6. ASSUME AdvanceFile PROVE \E s \in States : AnalyseStep(s)
  <2> DEFINE s == HappyNext(tx.status[w.file])
  <2>1. /\ w.pc = "analyse" /\ CanTransition(tx.status[w.file], s)
        /\ tx' = [SetStatus(tx, w.file, s) EXCEPT
                    !.days = IF s = "SCHEMA_VALIDATION" THEN @ \cup {w.file} ELSE @]
        /\ w' = IF s = "READY_FOR_NORMALIZATION"
                THEN [w EXCEPT !.pc = "ack", !.ack = "PROCESSED"] ELSE w
        /\ UNCHANGED <<db, staging>> /\ UNCHANGED budget
    BY <1>6 DEF AdvanceFile, disk
  <2>2. s \in States
    BY <2>1, TransitionType
  <2>3. s = HappyNext(tx.status[w.file])
    OBVIOUS
  <2> HIDE DEF s
  <2>4. FileSet(tx, tx', w.file, s)
    <3>1. /\ tx'.row = tx.row /\ tx'.batch = tx.batch /\ tx'.coverage = tx.coverage
          /\ tx'.status = [tx.status EXCEPT ![w.file] = s]
          /\ tx'.days = IF s = "SCHEMA_VALIDATION" THEN tx.days \cup {w.file} ELSE tx.days
      BY <2>1 DEF SetStatus, TypeInv, TypeOK, Databases
    <3> QED BY <3>1 DEF FileSet
  <2>5. /\ w'.pc = IF s = "READY_FOR_NORMALIZATION" THEN "ack" ELSE "analyse"
        /\ KeepsRun /\ KeepsReference
    BY <1>0, <2>1 DEF KeepsRun, KeepsReference, Workers
  <2>6. AnalyseStep(s)
    BY <2>1, <2>3, <2>4, <2>5, <1>c DEF AnalyseStep
  <2> QED BY <2>2, <2>6
<1>7. ASSUME QuarantineFile \/ FailFile PROVE \E s \in States : AnalyseStep(s)
  <2>1. PICK s \in {"QUARANTINED", "FAILED"} :
          /\ w.pc = "analyse" /\ tx' = SetStatus(tx, w.file, s)
          /\ w' = [w EXCEPT !.pc = "ack", !.ack = s]
          /\ UNCHANGED <<db, staging>> /\ (UNCHANGED budget \/ Fault)
    BY <1>7 DEF QuarantineFile, FailFile, disk
  <2>2. FileSet(tx, tx', w.file, s)
    BY <2>1 DEF SetStatus, FileSet
  <2>3. w'.pc = "ack" /\ KeepsRun /\ KeepsReference
    BY <1>0, <2>1 DEF KeepsRun, KeepsReference, Workers
  <2>4. AnalyseStep(s)
    BY <2>1, <2>2, <2>3, <1>b, <1>c DEF AnalyseStep
  <2>5. s \in States
    BY DEF States
  <2> QED BY <2>4, <2>5
<1>8. ASSUME AcknowledgeUpload \/ StagedCleanupFails \/ AcknowledgeInbox PROVE AckStep
  <2>1. /\ w.pc = "ack" /\ Report(w.ack, w.already)
        /\ UNCHANGED <<db, tx>> /\ (UNCHANGED budget \/ Fault)
        /\ \/ staging' = staging
           \/ /\ w.job = "uploads" /\ w.ack \notin {"FAILED", "QUARANTINED"}
              /\ staging' = staging \ {<<w.batch, w.name>>}
    BY <1>8 DEF AcknowledgeUpload, StagedCleanupFails, AcknowledgeInbox, disk
  <2>2. ReportsOutcome(w.ack, w.already)
    BY <2>1, <1>b, <1>c, <1>d
  <2>3. w.ack \in {"PROCESSED", "DUPLICATE", "QUARANTINED", "FAILED"}
    BY <1>0 DEF Workers, AckOutcomes
  <2> QED BY <2>1, <2>2, <2>3 DEF AckStep
<1>9. ASSUME ArchiveFails PROVE ArchiveFailsStep
  <2>1. /\ w.pc = "ack" /\ w.job = "daily" /\ Archiving
        /\ w.ack # "FAILED" /\ w.ack # "QUARANTINED"
        /\ tx' = SetStatus(tx, w.file, "FAILED") /\ Report("FAILED", FALSE)
        /\ Fault /\ UNCHANGED <<db, staging>>
    BY <1>9 DEF ArchiveFails, Moves, disk
  <2>2. ReportsOutcome("FAILED", FALSE)
    BY <2>1, <1>b, <1>d
  <2>3. w.ack \in {"PROCESSED", "DUPLICATE", "QUARANTINED", "FAILED"}
    BY <1>0 DEF Workers, AckOutcomes
  <2>4. FileSet(tx, tx', w.file, "FAILED")
    BY <2>1 DEF SetStatus, FileSet
  <2> QED BY <2>1, <2>2, <2>3, <2>4, <1>b DEF ArchiveFailsStep
<1>10. ASSUME QuarantineArchiveFails PROVE RollbackStep
  <2>1. w.job = "daily" /\ Rollback /\ Fault /\ staging' = staging
    BY <1>10 DEF QuarantineArchiveFails, disk
  <2> QED BY <2>1, <1>b DEF Rollback, RollbackStep, Budgeted
<1> QED
  BY <1>1, <1>2, <1>3, <1>4, <1>5, <1>6, <1>7, <1>8, <1>9, <1>10 DEF IngestFile

(* A step of frame reconstruction.                                          *)
LEMMA FramesKind ==
  ASSUME TypeInv, ReconstructFrames
  PROVE  (\E k \in Keys, s \in States : FramesStep(k, s)) \/ PassStep \/ RollbackStep
<1>0. w \in Workers /\ faults \in Nat
  BY BoundsAssumption DEF TypeInv, TypeOK
<1>b. ASSUME Fault PROVE Budgeted
  BY <1>0, <1>b DEF Fault, Budgeted
<1>c. ASSUME UNCHANGED budget PROVE Budgeted
  BY <1>c DEF Budgeted, budget
<1>d. ASSUME w.job = "file", Rollback, Budgeted, staging' = staging PROVE RollbackStep
  BY <1>d DEF Rollback, RollbackStep, Budgeted
<1>1. ASSUME NEW k \in Keys, BeginFrames(k) PROVE \E s \in States : FramesStep(k, s)
  <2>1. /\ w.pc = "frames" /\ CanTransition(tx.status[k], "FRAME_RECONSTRUCTION")
        /\ tx' = SetStatus(tx, k, "FRAME_RECONSTRUCTION")
        /\ w' = [w EXCEPT !.pc = "rebuild", !.file = k, !.files = @ \ {k}]
        /\ UNCHANGED <<db, staging>> /\ UNCHANGED budget
    BY <1>1 DEF BeginFrames, disk
  <2>2. FileSet(tx, tx', k, "FRAME_RECONSTRUCTION")
    BY <2>1 DEF SetStatus, FileSet
  <2>3. w'.pc = "rebuild" /\ KeepsRun
    BY <1>0, <2>1 DEF KeepsRun, Workers
  <2>4. FramesStep(k, "FRAME_RECONSTRUCTION")
    BY <2>1, <2>2, <2>3, <1>c DEF FramesStep
  <2> QED BY <2>4 DEF States
<1>2. ASSUME NEW k \in Keys, SkipFrames(k) PROVE PassStep \/ RollbackStep
  <2>1. w.pc = "frames" /\ UNCHANGED staging /\ Budgeted
    BY <1>2, <1>c DEF SkipFrames, disk
  <2>2. CASE w.job = "file"
    BY <1>2, <2>1, <2>2, <1>d DEF SkipFrames
  <2>3. CASE w.job # "file"
    <3>1. w' = [w EXCEPT !.files = @ \ {k}] /\ UNCHANGED <<db, tx>>
      BY <1>2, <2>3 DEF SkipFrames
    <3>2. w'.pc = "frames" /\ KeepsRun
      BY <1>0, <2>1, <3>1 DEF KeepsRun, Workers
    <3> QED BY <2>1, <3>1, <3>2 DEF PassStep
  <2> QED BY <2>2, <2>3
<1>3. ASSUME EndFrames PROVE \E k \in Keys, s \in States : FramesStep(k, s)
  <2>1. /\ w.pc = "rebuild" /\ CanTransition(tx.status[w.file], "FRAMES_RECONSTRUCTED")
        /\ tx' = SetStatus(tx, w.file, "FRAMES_RECONSTRUCTED")
        /\ w' = [w EXCEPT !.pc = "frames", !.file = None]
        /\ UNCHANGED <<db, staging>> /\ UNCHANGED budget
    BY <1>3 DEF EndFrames, disk
  <2>2. FileSet(tx, tx', w.file, "FRAMES_RECONSTRUCTED")
    BY <2>1 DEF SetStatus, FileSet
  <2>3. w'.pc = "frames" /\ KeepsRun
    BY <1>0, <2>1 DEF KeepsRun, Workers
  <2>4. FramesStep(w.file, "FRAMES_RECONSTRUCTED")
    BY <2>1, <2>2, <2>3, <1>c DEF FramesStep
  <2>5. w.file \in Keys /\ "FRAMES_RECONSTRUCTED" \in States
    BY <2>1 DEF TypeInv, WorkerOK, States
  <2> QED BY <2>4, <2>5
<1>4. ASSUME FramesFail PROVE PassStep \/ RollbackStep
  <2>1. w.pc = "rebuild" /\ UNCHANGED staging /\ Budgeted
    BY <1>4, <1>b DEF FramesFail, disk
  <2>2. CASE w.job = "file"
    BY <1>4, <2>1, <2>2, <1>d DEF FramesFail
  <2>3. CASE w.job # "file"
    <3>1. w' = [w EXCEPT !.pc = "frames", !.file = None] /\ UNCHANGED <<db, tx>>
      BY <1>4, <2>3 DEF FramesFail
    <3>2. w'.pc = "frames" /\ KeepsRun
      BY <1>0, <3>1 DEF KeepsRun, Workers
    <3> QED BY <2>1, <3>1, <3>2 DEF PassStep
  <2> QED BY <2>2, <2>3
<1>5. ASSUME EndReconstruction PROVE PassStep
  <2>1. /\ w.pc = "frames" /\ w' = [w EXCEPT !.pc = "commit"]
        /\ UNCHANGED <<db, tx, staging>> /\ UNCHANGED budget
    BY <1>5 DEF EndReconstruction, disk
  <2>2. w'.pc = "commit" /\ KeepsRun
    BY <1>0, <2>1 DEF KeepsRun, Workers
  <2> QED BY <2>1, <2>2, <1>c DEF PassStep
<1> QED BY <1>1, <1>2, <1>3, <1>4, <1>5 DEF ReconstructFrames

(* The kinds of steps that involve the files of a batch or a run.           *)
IngestStep ==
  \/ \E n \in Names : RefuseStep(n)
  \/ \E n \in Names, k \in Keys :
       RecogniseStep(n, k) \/ DuplicateStep(n, k) \/ RegisterStep(n, k)
  \/ \E s \in States : AnalyseStep(s)
  \/ AckStep \/ ArchiveFailsStep

(* The remaining kinds.                                                     *)
OtherStep ==
  \/ StillStep
  \/ \E b \in Batches : \E rows : StageStep(b, rows)
  \/ CommandStep
  \/ \E day \in Days : ReconcileStep(day)
  \/ \E b \in Batches : ResolveStep(b) \/ OpenStep(b)
  \/ SettleBatchStep
  \/ \E dates : SettleDailyStep(dates)
  \/ \E k \in Keys, s \in States : FramesStep(k, s)
  \/ PassStep \/ CommitStep \/ RollbackStep

(* Every step of the specification is of one of the kinds.                  *)
LEMMA StepKind == TypeInv /\ FileInv /\ [Next]_vars => IngestStep \/ OtherStep
<1> SUFFICES ASSUME TypeInv, FileInv, [Next]_vars PROVE IngestStep \/ OtherStep
  OBVIOUS
<1>1. CASE Request
  BY <1>1, RequestKind DEF OtherStep
<1>2. CASE Command
  BY <1>2, CommandKind DEF OtherStep
<1>3. CASE IngestFile
  BY <1>3, IngestKind DEF IngestStep, OtherStep
<1>4. CASE ReconstructFrames
  BY <1>4, FramesKind DEF OtherStep
<1>5. CASE Commit
  <2>1. CommitStep
    BY <1>5 DEF Commit, CommitStep, disk, budget
  <2> QED BY <2>1 DEF OtherStep
<1>6. CASE \/ \E b \in Batches : SkipBatch(b) \/ StartBatch(b)
           \/ SettleBatch \/ CloseBatch \/ SettleDaily
  BY <1>6, BatchKind DEF OtherStep
<1>7. CASE Crash
  <2>1. crashes' # 0 /\ Rollback /\ UNCHANGED <<staging, faults>>
    BY <1>7, BoundsAssumption DEF Crash, disk, TypeInv, TypeOK
  <2>2. RollbackStep
    BY <2>1 DEF Rollback, RollbackStep
  <2> QED BY <2>2 DEF OtherStep
<1>8. CASE UNCHANGED vars
  <2>1. StillStep
    BY <1>8 DEF vars, StillStep, SameCols
  <2> QED BY <2>1 DEF OtherStep
<1> QED BY <1>1, <1>2, <1>3, <1>4, <1>5, <1>6, <1>7, <1>8 DEF Next, WorkerStep

-----------------------------------------------------------------------------
(***************************************************************************)
(* What the worker holds while it ingests, and what the rows of a batch     *)
(* point to.                                                                *)
(***************************************************************************)

(* The states _analyse takes a file through.                                *)
AnalysisStates ==
  {"REGISTERED", "LANDING", "PROFILING", "SCHEMA_VALIDATION", "QUALITY_VALIDATION"}

(* Registered files that are not duplicates.                                *)
Live(d) == {k \in Keys : d.status[k] \notin {"ABSENT", "DUPLICATE"}}

InHand == w.pc \in {"analyse", "ack"}

(* The references of the run: to do, in hand or reported.                   *)
Touched(n) == n \in w.todo \/ w.outcomes[n] # None \/ (InHand /\ n = w.name)

(* An outcome that hands a file over names a file that is no duplicate.     *)
OutcomeSound(d, o) ==
  o.file # None /\ o.already = FALSE /\ o.ack # "DUPLICATE" => o.file \in Live(d)

(* The file being analysed is in a state of the analysis.                   *)
AnalysisInv ==
  w.pc = "analyse" => tx.status[w.file] \in AnalysisStates /\ w.already = FALSE

(* A reference is reported once.                                            *)
ReportedOnce ==
  /\ Busy => \A n \in w.todo : w.outcomes[n] = None
  /\ InHand => w.outcomes[w.name] = None
  /\ w.pc = "next" => w.outcomes = NoOutcomes

(* The batch being processed is open, and its rows wait for their outcome.  *)
BatchOpen ==
  /\ (Busy \/ w.pc \in {"frames", "rebuild"}) /\ w.job = "uploads" =>
       tx.batch[w.batch] = "PROCESSING"
  /\ Busy /\ w.job = "uploads" =>
       \A n \in Names : Touched(n) => tx.row[w.batch][n].status = "PENDING"
  /\ InHand /\ w.job = "uploads" /\ w.file # None =>
       w.file.sha = tx.row[w.batch][w.name].sha

(* The outcome in hand and the outcomes reported are sound.                 *)
OutcomesSound ==
  /\ w.pc = "ack" => OutcomeSound(tx, [file |-> w.file, ack |-> w.ack, already |-> w.already])
  /\ Busy => \A n \in Names : w.outcomes[n] # None => OutcomeSound(tx, w.outcomes[n])

HandInv == AnalysisInv /\ ReportedOnce /\ BatchOpen /\ OutcomesSound

(* A row that was handed over names a file that is no duplicate.            *)
RowsLinked(d) ==
  \A b \in Batches, n \in Names :
    d.row[b][n].status = "REGISTERED" /\ d.row[b][n].file # None =>
      d.row[b][n].file \in Live(d)

LinkInv == HandInv /\ RowsLinked(db) /\ RowsLinked(tx)

(* A move along the happy path does not make a duplicate.                   *)
LEMMA HappyLive == \A s : HappyNext(s) \notin {"ABSENT", "DUPLICATE"}
BY DEF HappyNext

(* Setting a file to a state other than DUPLICATE keeps the live files.     *)
LEMMA SetLive ==
  ASSUME NEW d \in Databases, NEW e, NEW k \in Keys, NEW s,
         FileSet(d, e, k, s), s \notin {"ABSENT", "DUPLICATE"}
  PROVE  Live(d) \subseteq Live(e) /\ k \in Live(e)
BY DEF FileSet, Live, Databases

(* Registering a duplicate of an absent name keeps the live files.          *)
LEMMA DuplicateLive ==
  ASSUME NEW d \in Databases, NEW e, NEW k \in Keys, NEW s,
         FileSet(d, e, k, s), d.status[k] = "ABSENT"
  PROVE  Live(d) \subseteq Live(e)
BY DEF FileSet, Live, Databases

(* What the worker holds has no meaning outside the ingestion and the       *)
(* reconstruction of a batch.                                               *)
LEMMA HandFree ==
  ASSUME w'.pc \notin {"ingest", "analyse", "ack", "next"},
         w'.pc \in {"frames", "rebuild"} /\ w'.job = "uploads" =>
           tx'.batch[w'.batch] = "PROCESSING"
  PROVE  HandInv'
BY DEF HandInv, AnalysisInv, ReportedOnce, BatchOpen, OutcomesSound, Busy, InHand

(* A step that leaves the worker, its batch and the statuses alone keeps    *)
(* what it holds.                                                           *)
LEMMA HandKept ==
  ASSUME HandInv, w' = w, tx'.status = tx.status,
         (Busy \/ w.pc \in {"frames", "rebuild"}) /\ w.job = "uploads" =>
           tx'.batch[w.batch] = tx.batch[w.batch] /\ tx'.row[w.batch] = tx.row[w.batch]
  PROVE  HandInv'
<1>1. Live(tx)' = Live(tx)
  BY DEF Live
<1>2. AnalysisInv' /\ ReportedOnce'
  BY DEF HandInv, AnalysisInv, ReportedOnce, Busy, InHand
<1>3. BatchOpen'
  BY DEF HandInv, BatchOpen, Busy, InHand, Touched
<1>4. OutcomesSound'
  BY <1>1 DEF HandInv, OutcomesSound, OutcomeSound, Busy
<1> QED BY <1>2, <1>3, <1>4 DEF HandInv

(* Steps outside ingest_file keep what the worker holds.                    *)
LEMMA HandOther == ASSUME TypeInv, FileInv, HandInv, OtherStep PROVE HandInv'
<1>0. w \in Workers /\ tx \in Databases /\ db \in Databases
  BY DEF TypeInv, TypeOK
<1>1. CASE StillStep
  BY <1>1, HandKept DEF StillStep, SameCols
<1>2. ASSUME NEW b \in Batches, NEW rows, StageStep(b, rows) PROVE HandInv'
  <2>1. w' = w /\ tx'.status = tx.status
    BY <1>2 DEF StageStep, BatchAdded
  <2>2. (Busy \/ w.pc \in {"frames", "rebuild"}) /\ w.job = "uploads" =>
          w.batch \in Batches /\ w.batch # b
    BY <1>2 DEF StageStep, TypeInv, WorkerOK
  <2>3. (Busy \/ w.pc \in {"frames", "rebuild"}) /\ w.job = "uploads" =>
          tx'.batch[w.batch] = tx.batch[w.batch] /\ tx'.row[w.batch] = tx.row[w.batch]
    BY <1>0, <1>2, <2>2 DEF StageStep, BatchAdded, Databases
  <2> QED BY <2>1, <2>3, HandKept
<1>3. CASE CommandStep
  <2>1. CASE w'.pc = "frames"
    BY <1>3, <2>1, HandFree DEF CommandStep
  <2>2. CASE w'.pc = "next"
    BY <1>3, <2>2 DEF CommandStep, HandInv, AnalysisInv, ReportedOnce, BatchOpen,
                      OutcomesSound, Busy, InHand
  <2>3. CASE w'.pc = "ingest"
    BY <1>3, <2>3 DEF CommandStep, HandInv, AnalysisInv, ReportedOnce, BatchOpen,
                      OutcomesSound, Busy, InHand, NoOutcomes
  <2> QED BY <1>3, <2>1, <2>2, <2>3 DEF CommandStep
<1>4. ASSUME NEW day \in Days, ReconcileStep(day) PROVE HandInv'
  BY <1>4, HandFree DEF ReconcileStep
<1>5. ASSUME NEW b \in Batches, ResolveStep(b) PROVE HandInv'
  BY <1>5 DEF ResolveStep, HandInv, AnalysisInv, ReportedOnce, BatchOpen,
              OutcomesSound, Busy, InHand
<1>6. ASSUME NEW b \in Batches, OpenStep(b) PROVE HandInv'
  <2>1. \A n \in Names : w'.outcomes[n] = None
    BY <1>6 DEF OpenStep, HandInv, ReportedOnce, NoOutcomes
  <2>2. w'.todo \subseteq Names
    BY <1>6 DEF OpenStep, RowsIn
  <2>3. tx'.batch[b] = "PROCESSING" /\ \A n \in w'.todo : tx'.row[b][n].status = "PENDING"
    BY <1>0, <1>6 DEF OpenStep, BatchSet, RowsIn, Databases
  <2>4. AnalysisInv' /\ ReportedOnce'
    BY <1>6, <2>1, <2>2 DEF OpenStep, AnalysisInv, ReportedOnce, InHand
  <2>5. BatchOpen'
    BY <1>6, <2>1, <2>3 DEF OpenStep, BatchOpen, Touched, InHand
  <2>6. OutcomesSound'
    BY <1>6, <2>1 DEF OpenStep, OutcomesSound
  <2> QED BY <2>4, <2>5, <2>6 DEF HandInv
<1>7. CASE SettleBatchStep
  BY <1>7, HandFree DEF SettleBatchStep, Recovered, KeepsRun, HandInv, BatchOpen, Busy
<1>8. ASSUME NEW dates, SettleDailyStep(dates) PROVE HandInv'
  BY <1>8, HandFree DEF SettleDailyStep
<1>9. ASSUME NEW k \in Keys, NEW s \in States, FramesStep(k, s) PROVE HandInv'
  BY <1>9, HandFree DEF FramesStep, FileSet, KeepsRun, HandInv, BatchOpen
<1>10. CASE PassStep
  BY <1>10, HandFree DEF PassStep, KeepsRun, HandInv, BatchOpen
<1>11. CASE CommitStep \/ RollbackStep
  BY <1>11, HandFree DEF CommitStep, RollbackStep, Idle
<1> QED BY <1>1, <1>2, <1>3, <1>4, <1>5, <1>6, <1>7, <1>8, <1>9, <1>10, <1>11 DEF OtherStep

(* Taking a reference keeps what is known of the others, whatever becomes   *)
(* of it.                                                                   *)
LEMMA HandTaken ==
  ASSUME TypeInv, HandInv, NEW n \in Names, TakesReference(n),
         w'.pc \in {"analyse", "ack"}, w'.file = None \/ w'.file.sha = Source(n),
         tx'.batch = tx.batch, tx'.row = tx.row, Live(tx) \subseteq Live(tx')
  PROVE  /\ ReportedOnce' /\ BatchOpen'
         /\ \A m \in Names : w'.outcomes[m] # None => OutcomeSound(tx', w'.outcomes[m])
<1>1. /\ w.pc = "ingest" /\ n \in w.todo /\ w'.name = n /\ w'.todo = w.todo \ {n}
      /\ w'.job = w.job /\ w'.batch = w.batch /\ w'.outcomes = w.outcomes
  BY DEF TakesReference, KeepsRun
<1>2. ReportedOnce'
  BY <1>1 DEF HandInv, ReportedOnce, Busy, InHand
<1>3. w.job = "uploads" => Source(n) = tx.row[w.batch][n].sha
  BY DEF Source
<1>4. /\ w.job = "uploads" => tx'.batch[w'.batch] = "PROCESSING"
      /\ w.job = "uploads" =>
           \A m \in Names : m \in w.todo \/ w.outcomes[m] # None =>
             tx'.row[w'.batch][m].status = "PENDING"
  BY <1>1 DEF HandInv, BatchOpen, Busy, Touched
<1>5. BatchOpen'
  BY <1>1, <1>3, <1>4 DEF BatchOpen, Touched, InHand
<1>6. \A m \in Names : w'.outcomes[m] # None => OutcomeSound(tx', w'.outcomes[m])
  BY <1>1 DEF HandInv, OutcomesSound, OutcomeSound, Busy
<1> QED BY <1>2, <1>5, <1>6

(* Reporting a sound outcome keeps what the worker holds.                   *)
LEMMA HandReported ==
  ASSUME TypeInv, HandInv, NEW ack, NEW already, ReportsOutcome(ack, already),
         tx'.batch = tx.batch, tx'.row = tx.row, Live(tx) \subseteq Live(tx'),
         OutcomeSound(tx', [file |-> w.file, ack |-> ack, already |-> already])
  PROVE  HandInv'
<1> DEFINE out == [file |-> w.file, ack |-> ack, already |-> already]
<1>0. OutcomeSound(tx', out)
  OBVIOUS
<1>1. /\ w.pc = "ack" /\ w'.pc = "ingest"
      /\ w'.job = w.job /\ w'.batch = w.batch /\ w'.todo = w.todo
      /\ w'.outcomes = [w.outcomes EXCEPT ![w.name] = out]
  BY DEF ReportsOutcome
<1>2. w.name \in Names /\ w.name \notin w.todo /\ w.todo \subseteq Names
      /\ w.outcomes \in [Names -> Outcomes \cup {None}]
  BY <1>1 DEF TypeInv, TypeOK, WorkerOK, Workers
<1> HIDE DEF out
<1>3. \A m \in Names : w'.outcomes[m] = IF m = w.name THEN out ELSE w.outcomes[m]
  BY <1>1, <1>2
<1>4. AnalysisInv' /\ ReportedOnce'
  BY <1>1, <1>2, <1>3 DEF HandInv, AnalysisInv, ReportedOnce, Busy, InHand
<1>5. BatchOpen'
  BY <1>1, <1>3 DEF HandInv, BatchOpen, Touched, Busy, InHand
<1>6. \A m \in Names : w.outcomes[m] # None => OutcomeSound(tx', w.outcomes[m])
  BY <1>1 DEF HandInv, OutcomesSound, OutcomeSound, Busy
<1>7. OutcomesSound'
  BY <1>0, <1>1, <1>3, <1>6 DEF OutcomesSound
<1> QED BY <1>4, <1>5, <1>7 DEF HandInv

(* The steps of ingest_file keep what the worker holds.                     *)
LEMMA HandIngest == ASSUME TypeInv, FileInv, HandInv, IngestStep PROVE HandInv'
<1>0. w \in Workers /\ tx \in Databases
  BY DEF TypeInv, TypeOK
<1>1. ASSUME NEW n \in Names, RefuseStep(n) PROVE HandInv'
  <2>1. TakesReference(n) /\ tx' = tx /\ w'.pc = "ack" /\ w'.file = None
    BY <1>1 DEF RefuseStep
  <2>2. /\ ReportedOnce' /\ BatchOpen'
        /\ \A m \in Names : w'.outcomes[m] # None => OutcomeSound(tx', w'.outcomes[m])
    BY <2>1, HandTaken
  <2>3. AnalysisInv' /\ OutcomesSound'
    BY <2>1, <2>2 DEF AnalysisInv, OutcomesSound, OutcomeSound
  <2> QED BY <2>2, <2>3 DEF HandInv
<1>2. ASSUME NEW n \in Names, NEW k \in Keys, RecogniseStep(n, k) PROVE HandInv'
  <2>1. /\ TakesReference(n) /\ tx' = tx /\ w'.pc = "ack" /\ w'.file = k
        /\ k.sha = Source(n) /\ w'.already = TRUE
    BY <1>2 DEF RecogniseStep
  <2>2. /\ ReportedOnce' /\ BatchOpen'
        /\ \A m \in Names : w'.outcomes[m] # None => OutcomeSound(tx', w'.outcomes[m])
    BY <2>1, HandTaken
  <2>3. AnalysisInv' /\ OutcomesSound'
    BY <2>1, <2>2 DEF AnalysisInv, OutcomesSound, OutcomeSound
  <2> QED BY <2>2, <2>3 DEF HandInv
<1>3. ASSUME NEW n \in Names, NEW k \in Keys, DuplicateStep(n, k) PROVE HandInv'
  <2>1. /\ TakesReference(n) /\ FileSet(tx, tx', k, "DUPLICATE") /\ w'.pc = "ack"
        /\ w'.file = k /\ k.sha = Source(n) /\ w'.ack = "DUPLICATE"
        /\ tx.status[k] = "ABSENT"
    BY <1>3 DEF DuplicateStep
  <2>2. Live(tx) \subseteq Live(tx') /\ tx'.batch = tx.batch /\ tx'.row = tx.row
    BY <1>0, <2>1, DuplicateLive DEF FileSet
  <2>3. /\ ReportedOnce' /\ BatchOpen'
        /\ \A m \in Names : w'.outcomes[m] # None => OutcomeSound(tx', w'.outcomes[m])
    BY <2>1, <2>2, HandTaken
  <2>4. AnalysisInv' /\ OutcomesSound'
    BY <2>1, <2>3 DEF AnalysisInv, OutcomesSound, OutcomeSound
  <2> QED BY <2>3, <2>4 DEF HandInv
<1>4. ASSUME NEW n \in Names, NEW k \in Keys, RegisterStep(n, k) PROVE HandInv'
  <2>1. /\ TakesReference(n) /\ FileSet(tx, tx', k, "REGISTERED") /\ w'.pc = "analyse"
        /\ w'.file = k /\ k.sha = Source(n) /\ w'.already = FALSE
    BY <1>4 DEF RegisterStep
  <2>2. Live(tx) \subseteq Live(tx') /\ tx'.batch = tx.batch /\ tx'.row = tx.row
    BY <1>0, <2>1, SetLive DEF FileSet
  <2>3. /\ ReportedOnce' /\ BatchOpen'
        /\ \A m \in Names : w'.outcomes[m] # None => OutcomeSound(tx', w'.outcomes[m])
    BY <2>1, <2>2, HandTaken
  <2>4. tx'.status[k] = "REGISTERED"
    BY <1>0, <2>1 DEF FileSet, Databases
  <2>5. AnalysisInv' /\ OutcomesSound'
    BY <2>1, <2>3, <2>4 DEF AnalysisInv, AnalysisStates, OutcomesSound
  <2> QED BY <2>3, <2>5 DEF HandInv
<1>5. ASSUME NEW s \in States, AnalyseStep(s) PROVE HandInv'
  <2>1. /\ w.pc = "analyse" /\ FileSet(tx, tx', w.file, s)
        /\ w'.job = w.job /\ w'.batch = w.batch /\ w'.outcomes = w.outcomes
        /\ w'.name = w.name /\ w'.file = w.file /\ w'.todo = w.todo /\ w'.already = w.already
    BY <1>5 DEF AnalyseStep, KeepsRun, KeepsReference
  <2>2. w.file \in Keys /\ w.already = FALSE
    BY <2>1 DEF TypeInv, WorkerOK, HandInv, AnalysisInv
  <2>3. s \notin {"ABSENT", "DUPLICATE"}
    BY <1>5, HappyLive DEF AnalyseStep
  <2>4. Live(tx) \subseteq Live(tx') /\ w.file \in Live(tx')
    BY <1>0, <2>1, <2>2, <2>3, SetLive
  <2>5. tx'.batch = tx.batch /\ tx'.row = tx.row /\ tx'.status[w.file] = s
    BY <1>0, <2>1, <2>2 DEF FileSet, Databases
  <2>6. w'.pc \in {"analyse", "ack"}
    BY <1>5 DEF AnalyseStep
  <2>7. ReportedOnce'
    BY <2>1, <2>6 DEF HandInv, ReportedOnce, Busy, InHand
  <2>8. BatchOpen'
    BY <2>1, <2>5, <2>6 DEF HandInv, BatchOpen, Touched, Busy, InHand
  <2>9. \A m \in Names : w'.outcomes[m] # None => OutcomeSound(tx', w'.outcomes[m])
    BY <2>1, <2>4 DEF HandInv, OutcomesSound, OutcomeSound, Busy
  <2>10. OutcomesSound'
    BY <2>1, <2>4, <2>9 DEF OutcomesSound, OutcomeSound
  <2>11. w'.pc = "analyse" => s \in AnalysisStates
    <3>1. tx.status[w.file] \in AnalysisStates
      BY <2>1 DEF HandInv, AnalysisInv
    <3> QED BY <1>5, <3>1 DEF AnalyseStep, AnalysisStates, HappyNext
  <2>12. AnalysisInv'
    BY <2>1, <2>2, <2>5, <2>11 DEF AnalysisInv
  <2> QED BY <2>7, <2>8, <2>10, <2>12 DEF HandInv
<1>6. CASE AckStep
  <2>1. ReportsOutcome(w.ack, w.already) /\ tx' = tx /\ w.pc = "ack"
    BY <1>6 DEF AckStep, ReportsOutcome
  <2>2. OutcomeSound(tx', [file |-> w.file, ack |-> w.ack, already |-> w.already])
    BY <2>1 DEF HandInv, OutcomesSound
  <2> QED BY <2>1, <2>2, HandReported
<1>7. CASE ArchiveFailsStep
  <2>1. /\ ReportsOutcome("FAILED", FALSE) /\ FileSet(tx, tx', w.file, "FAILED")
        /\ w.pc = "ack" /\ w.ack \in {"PROCESSED", "DUPLICATE"}
    BY <1>7 DEF ArchiveFailsStep, ReportsOutcome
  <2>2. w.file \in Keys
    BY <2>1 DEF TypeInv, WorkerOK
  <2>3. Live(tx) \subseteq Live(tx') /\ w.file \in Live(tx')
    BY <1>0, <2>1, <2>2, SetLive
  <2>4. tx'.batch = tx.batch /\ tx'.row = tx.row
    BY <2>1 DEF FileSet
  <2>5. OutcomeSound(tx', [file |-> w.file, ack |-> "FAILED", already |-> FALSE])
    BY <2>3 DEF OutcomeSound
  <2> QED BY <2>1, <2>3, <2>4, <2>5, HandReported
<1> QED BY <1>1, <1>2, <1>3, <1>4, <1>5, <1>6, <1>7 DEF IngestStep

(* Where no step can put a row of a batch, its files stay linked.           *)
LEMMA SameLinked ==
  ASSUME NEW d, NEW e, RowsLinked(d), e.row = d.row, Live(d) \subseteq Live(e)
  PROVE  RowsLinked(e)
BY DEF RowsLinked

(* A staged batch hands nothing over yet.                                   *)
LEMMA AddedLinked ==
  ASSUME NEW d \in Databases, NEW e, RowsLinked(d), NEW b \in Batches, NEW rows,
         BatchAdded(d, e, b, rows), \A n \in Names : rows[n].status # "REGISTERED"
  PROVE  RowsLinked(e)
<1>1. Live(e) = Live(d)
  BY DEF BatchAdded, Live
<1>2. \A c \in Batches : e.row[c] = IF c = b THEN rows ELSE d.row[c]
  BY DEF BatchAdded, Databases
<1> QED BY <1>1, <1>2 DEF RowsLinked

(* Every step keeps the rows linked to files that are no duplicates.        *)
LEMMA LinkStep == TypeInv /\ FileInv /\ LinkInv /\ [Next]_vars => LinkInv'
<1> SUFFICES ASSUME TypeInv, FileInv, LinkInv, [Next]_vars PROVE LinkInv'
  OBVIOUS
<1>0. /\ w \in Workers /\ tx \in Databases /\ db \in Databases
      /\ HandInv /\ RowsLinked(db) /\ RowsLinked(tx)
  BY DEF TypeInv, TypeOK, LinkInv
<1>1. CASE IngestStep
  <2>1. HandInv'
    BY <1>0, <1>1, HandIngest
  <2>2. db' = db /\ tx'.row = tx.row
    BY <1>1 DEF IngestStep, RefuseStep, RecogniseStep, DuplicateStep, RegisterStep,
                AnalyseStep, AckStep, ArchiveFailsStep, TakesReference, ReportsOutcome, FileSet
  <2>3. Live(tx) \subseteq Live(tx')
    <3>1. ASSUME NEW n \in Names, NEW k \in Keys, DuplicateStep(n, k) \/ RegisterStep(n, k)
          PROVE  Live(tx) \subseteq Live(tx')
      <4>1. \E s : FileSet(tx, tx', k, s) /\ tx.status[k] = "ABSENT"
        BY <3>1 DEF DuplicateStep, RegisterStep
      <4> QED BY <1>0, <4>1, DuplicateLive
    <3>2. ASSUME NEW s \in States, AnalyseStep(s) PROVE Live(tx) \subseteq Live(tx')
      <4>1. FileSet(tx, tx', w.file, s) /\ s \notin {"ABSENT", "DUPLICATE"} /\ w.pc = "analyse"
        BY <3>2, HappyLive DEF AnalyseStep
      <4>2. w.file \in Keys
        BY <4>1 DEF TypeInv, WorkerOK
      <4> QED BY <1>0, <4>1, <4>2, SetLive
    <3>3. CASE ArchiveFailsStep
      <4>1. FileSet(tx, tx', w.file, "FAILED") /\ w.pc = "ack" /\ w.ack \in {"PROCESSED", "DUPLICATE"}
        BY <3>3 DEF ArchiveFailsStep, ReportsOutcome
      <4>2. w.file \in Keys
        BY <4>1 DEF TypeInv, WorkerOK
      <4>3. tx \in Databases /\ "FAILED" \notin {"ABSENT", "DUPLICATE"}
        BY <1>0
      <4> QED BY <4>1, <4>2, <4>3, SetLive
    <3> QED BY <1>1, <3>1, <3>2, <3>3 DEF IngestStep, RefuseStep, RecogniseStep, AckStep, Live
  <2> QED BY <1>0, <2>1, <2>2, <2>3, SameLinked DEF LinkInv
<1>2. CASE OtherStep
  <2>0. HandInv'
    BY <1>0, <1>2, HandOther
  <2>1. CASE StillStep
    <3>1. /\ db'.row = db.row /\ tx'.row = tx.row
          /\ Live(db) \subseteq Live(db') /\ Live(tx) \subseteq Live(tx')
      BY <2>1 DEF StillStep, SameCols, Live
    <3> QED BY <1>0, <2>0, <3>1, SameLinked DEF LinkInv
  <2>2. ASSUME NEW b \in Batches, NEW rows, StageStep(b, rows) PROVE LinkInv'
    <3>1. RowsLinked(db')
      BY <1>0, <2>2, AddedLinked DEF StageStep
    <3>2. RowsLinked(tx')
      BY <1>0, <2>2, AddedLinked DEF StageStep
    <3> QED BY <2>0, <3>1, <3>2 DEF LinkInv
  <2>3. CASE CommandStep
    <3>1. db' = db /\ tx'.row = tx.row /\ Live(tx) \subseteq Live(tx')
      BY <2>3 DEF CommandStep, SameCols, Live
    <3> QED BY <1>0, <2>0, <3>1, SameLinked DEF LinkInv
  <2>4. ASSUME NEW day \in Days, ReconcileStep(day) PROVE LinkInv'
    <3>1. tx' = db' /\ db'.row = db.row /\ Live(db) \subseteq Live(db')
      BY <2>4 DEF ReconcileStep, Recovered, Live
    <3> QED BY <1>0, <2>0, <3>1, SameLinked DEF LinkInv
  <2>5. ASSUME NEW b \in Batches, ResolveStep(b) \/ OpenStep(b) PROVE LinkInv'
    <3>1. db' = db /\ tx'.row = tx.row /\ Live(tx) \subseteq Live(tx')
      BY <2>5 DEF ResolveStep, OpenStep, BatchSet, Live
    <3> QED BY <1>0, <2>0, <3>1, SameLinked DEF LinkInv
  <2>6. CASE SettleBatchStep
    <3> DEFINE rows == [n \in Names |-> IF w.outcomes[n] # None
                                        THEN LinkedRow(tx.row[w.batch][n], w.outcomes[n])
                                        ELSE tx.row[w.batch][n]]
    <3>1. /\ db' = db /\ tx'.row = [tx.row EXCEPT ![w.batch] = rows]
          /\ w.batch \in Batches /\ w.pc = "ingest" /\ Live(tx') = Live(tx)
      BY <2>6 DEF SettleBatchStep, Recovered, Live
    <3>2. \A n \in Names : w.outcomes[n] # None => OutcomeSound(tx, w.outcomes[n])
      BY <1>0, <3>1 DEF HandInv, OutcomesSound, Busy
    <3>3. ASSUME NEW n \in Names, rows[n].status = "REGISTERED", rows[n].file # None
          PROVE  rows[n].file \in Live(tx)
      <4>1. CASE w.outcomes[n] = None
        <5>1. rows[n] = tx.row[w.batch][n]
          BY <4>1
        <5> QED BY <1>0, <3>1, <3>3, <5>1 DEF RowsLinked
      <4>2. CASE w.outcomes[n] # None
        <5>1. rows[n] = LinkedRow(tx.row[w.batch][n], w.outcomes[n])
          BY <4>2
        <5>2. w.outcomes[n] \in Outcomes /\ tx.row[w.batch][n] \in Rows
          BY <1>0, <3>1, <4>2 DEF Workers, Databases
        <5>3. /\ rows[n].file = w.outcomes[n].file
              /\ w.outcomes[n].already = FALSE /\ w.outcomes[n].ack # "DUPLICATE"
          BY <3>3, <5>1, <5>2 DEF LinkedRow, Rows, Outcomes
        <5> QED BY <3>2, <3>3, <4>2, <5>3 DEF OutcomeSound
      <4> QED BY <4>1, <4>2
    <3> HIDE DEF rows
    <3>4. \A c \in Batches : tx'.row[c] = IF c = w.batch THEN rows ELSE tx.row[c]
      BY <1>0, <3>1 DEF Databases
    <3>5. RowsLinked(tx')
      BY <1>0, <3>1, <3>3, <3>4 DEF RowsLinked
    <3> QED BY <1>0, <2>0, <3>1, <3>5 DEF LinkInv
  <2>7. ASSUME NEW dates, SettleDailyStep(dates) PROVE LinkInv'
    <3>1. db' = db /\ tx'.row = tx.row /\ Live(tx) \subseteq Live(tx')
      BY <2>7 DEF SettleDailyStep, Recovered, Live
    <3> QED BY <1>0, <2>0, <3>1, SameLinked DEF LinkInv
  <2>8. ASSUME NEW k \in Keys, NEW s \in States, FramesStep(k, s) PROVE LinkInv'
    <3>1. db' = db /\ FileSet(tx, tx', k, s) /\ s \notin {"ABSENT", "DUPLICATE"}
      BY <2>8 DEF FramesStep
    <3>2. Live(tx) \subseteq Live(tx') /\ tx'.row = tx.row
      BY <1>0, <3>1, SetLive DEF FileSet
    <3> QED BY <1>0, <2>0, <3>1, <3>2, SameLinked DEF LinkInv
  <2>9. CASE PassStep
    BY <1>0, <2>0, <2>9 DEF PassStep, LinkInv
  <2>10. CASE CommitStep
    BY <1>0, <2>0, <2>10 DEF CommitStep, LinkInv
  <2>11. CASE RollbackStep
    BY <1>0, <2>0, <2>11 DEF RollbackStep, LinkInv
  <2> QED BY <1>2, <2>1, <2>2, <2>3, <2>4, <2>5, <2>6, <2>7, <2>8, <2>9, <2>10, <2>11
          DEF OtherStep
<1> QED BY <1>1, <1>2, StepKind

(* The empty database hands nothing over.                                   *)
LEMMA LinkInit == Init => LinkInv
<1> SUFFICES ASSUME Init PROVE LinkInv
  OBVIOUS
<1>1. HandInv
  BY DEF Init, Idle, HandInv, AnalysisInv, ReportedOnce, BatchOpen, OutcomesSound, Busy, InHand
<1>2. RowsLinked(EmptyDatabase)
  BY DEF RowsLinked, EmptyDatabase, NoRow
<1> QED BY <1>1, <1>2 DEF Init, LinkInv

(* In every reachable state the worker reports each reference once, on an   *)
(* open batch, and no row hands over a duplicate (process_batch,            *)
(* _link_outcomes).                                                         *)
THEOREM RowsStayLinked == Spec => []LinkInv
<1>1. Init /\ [][Next]_vars /\ []TypeInv /\ []FileInv => []LinkInv
  BY LinkInit, LinkStep, PTL
<1> QED BY <1>1, TypeCorrect, RecordsSound, PTL DEF Spec

-----------------------------------------------------------------------------
(***************************************************************************)
(* The status writes.                                                       *)
(***************************************************************************)

(* Every state of the analysis may fail, and the happy path may be taken.   *)
LEMMA AnalysisExits ==
  \A s \in AnalysisStates : CanTransition(s, "FAILED") /\ CanTransition(s, "QUARANTINED")
BY DEF AnalysisStates, CanTransition, NextStates, FailureExits

(* Setting one file changes no other status.                                *)
LEMMA OneWritten ==
  ASSUME NEW d \in Databases, NEW e, NEW k \in Keys, NEW s, FileSet(d, e, k, s)
  PROVE  e.status[k] = s /\ \A j \in Keys : e.status[j] # d.status[j] => j = k
BY DEF FileSet, Databases

(* The only status write that does not ask the state machine is the one of  *)
(* a failed move to the archive.                                            *)
LEMMA GuardStep ==
  TypeInv /\ FileInv /\ LinkInv /\ [Next]_vars => Archiving \/ StatusWriteGuarded
<1> SUFFICES ASSUME TypeInv, FileInv, LinkInv, [Next]_vars, ~Archiving
             PROVE  StatusWriteGuarded
  OBVIOUS
<1>0. tx \in Databases
  BY DEF TypeInv, TypeOK
<1>1. ASSUME NEW k \in Keys, NEW s, FileSet(tx, tx', k, s),
             \/ tx.status[k] = "ABSENT" /\ s \in {"REGISTERED", "DUPLICATE"}
             \/ CanTransition(tx.status[k], s)
      PROVE  StatusWriteGuarded
  BY <1>0, <1>1, OneWritten DEF StatusWriteGuarded
<1>2. ASSUME tx'.status = tx.status PROVE StatusWriteGuarded
  BY <1>2 DEF StatusWriteGuarded
<1>3. CASE IngestStep
  <2>1. ASSUME NEW n \in Names, NEW k \in Keys, DuplicateStep(n, k) \/ RegisterStep(n, k)
        PROVE  StatusWriteGuarded
    BY <2>1, <1>1 DEF DuplicateStep, RegisterStep
  <2>2. ASSUME NEW s \in States, AnalyseStep(s) PROVE StatusWriteGuarded
    <3>1. w.pc = "analyse" /\ FileSet(tx, tx', w.file, s)
      BY <2>2 DEF AnalyseStep
    <3>2. w.file \in Keys /\ tx.status[w.file] \in AnalysisStates
      BY <3>1 DEF TypeInv, WorkerOK, LinkInv, HandInv, AnalysisInv
    <3>3. CanTransition(tx.status[w.file], s)
      BY <2>2, <3>2, AnalysisExits DEF AnalyseStep
    <3> QED BY <3>1, <3>2, <3>3, <1>1
  <2>3. ASSUME NEW n \in Names, RefuseStep(n) \/ \E k \in Keys : RecogniseStep(n, k)
        PROVE  StatusWriteGuarded
    BY <2>3, <1>2 DEF RefuseStep, RecogniseStep
  <2>4. CASE AckStep
    BY <2>4, <1>2 DEF AckStep
  <2> QED BY <1>3, <2>1, <2>2, <2>3, <2>4 DEF IngestStep, ArchiveFailsStep
<1>4. CASE OtherStep
  <2>1. CASE RollbackStep
    BY <2>1 DEF RollbackStep, StatusWriteGuarded
  <2>2. ASSUME NEW k \in Keys, NEW s \in States, FramesStep(k, s) PROVE StatusWriteGuarded
    BY <2>2, <1>1 DEF FramesStep
  <2>3. ASSUME NEW day \in Days, ReconcileStep(day) PROVE StatusWriteGuarded
    BY <2>3, <1>2 DEF ReconcileStep, Recovered, FileInv
  <2>4. CASE ~RollbackStep /\ ~(\E k \in Keys, s \in States : FramesStep(k, s))
             /\ ~(\E day \in Days : ReconcileStep(day))
    BY <1>4, <2>4, <1>2 DEF OtherStep, StillStep, SameCols, StageStep, BatchAdded, CommandStep,
         ResolveStep, OpenStep, BatchSet, SettleBatchStep, SettleDailyStep, Recovered,
         PassStep, CommitStep
  <2> QED BY <2>1, <2>2, <2>3, <2>4
<1> QED BY <1>3, <1>4, StepKind

(* Unless files are moved to an archive, every status write of the worker   *)
(* is a move the state machine allows: FAILED and QUARANTINED are written   *)
(* without asking it, and only to files the analysis holds (_mark_failed,   *)
(* _transition).                                                            *)
THEOREM StatusWritesGuarded ==
  ASSUME ~Archiving
  PROVE  Spec => GuardedWrites
<1>1. TypeInv /\ FileInv /\ LinkInv /\ [Next]_vars => [StatusWriteGuarded]_vars
  BY GuardStep
<1> QED BY <1>1, TypeCorrect, RecordsSound, RowsStayLinked, PTL DEF Spec, GuardedWrites

-----------------------------------------------------------------------------
(***************************************************************************)
(* No upload is lost.                                                       *)
(***************************************************************************)

(* The bytes of every accepted upload of d are staged or registered.        *)
Kept(d, staged) ==
  \A b \in Batches, n \in Names :
    d.row[b][n].status \in {"PENDING", "REGISTERED"} =>
      \/ <<b, n>> \in staged
      \/ \E k \in Registered(d) : k.sha = d.row[b][n].sha

(* While no worker was killed, the session keeps every upload, and so does  *)
(* the committed database whenever a rollback can return to it.             *)
UploadInv ==
  crashes = 0 => Kept(tx, staging) /\ (w.job # "uploads" => Kept(db, staging))

(* Registering more files and keeping the staged bytes keeps the uploads.   *)
LEMMA KeptGrows ==
  ASSUME NEW d, NEW e, NEW s, NEW t, Kept(d, s), e.row = d.row,
         Registered(d) \subseteq Registered(e), s \subseteq t
  PROVE  Kept(e, t)
BY DEF Kept

(* Statuses that are set to a state of the machine forget no file.          *)
LEMMA SetRegistered ==
  ASSUME NEW d \in Databases, NEW e, NEW k \in Keys, NEW s \in States, FileSet(d, e, k, s)
  PROVE  Registered(d) \subseteq Registered(e)
BY DEF FileSet, Registered, Databases, States

(* The rows a request adds have their bytes staged.                         *)
LEMMA KeptAdded ==
  ASSUME NEW d \in Databases, NEW e, NEW s, NEW t, Kept(d, s), s \subseteq t,
         NEW b \in Batches, NEW rows, BatchAdded(d, e, b, rows),
         \A n \in Names : rows[n].status # "REGISTERED",
         \A n \in Names : rows[n].status = "PENDING" => <<b, n>> \in t
  PROVE  Kept(e, t)
<1>1. Registered(e) = Registered(d)
  BY DEF BatchAdded, Registered
<1>2. \A c \in Batches : e.row[c] = IF c = b THEN rows ELSE d.row[c]
  BY DEF BatchAdded, Databases
<1>3. ASSUME NEW c \in Batches, NEW n \in Names, e.row[c][n].status \in {"PENDING", "REGISTERED"}
      PROVE  <<c, n>> \in t \/ \E k \in Registered(e) : k.sha = e.row[c][n].sha
  <2>1. CASE c = b
    BY <1>2, <1>3, <2>1
  <2>2. CASE c # b
    BY <1>1, <1>2, <1>3, <2>2 DEF Kept
  <2> QED BY <2>1, <2>2
<1> QED BY <1>3 DEF Kept

(* Every step keeps the uploads: staged bytes are deleted only for a        *)
(* reference whose content the session registered.                          *)
LEMMA UploadStep ==
  TypeInv /\ FileInv /\ LinkInv /\ UploadInv /\ [Next]_vars => UploadInv'
<1> SUFFICES ASSUME TypeInv, FileInv, LinkInv, UploadInv, [Next]_vars, crashes' = 0
             PROVE  Kept(tx', staging') /\ (w'.job # "uploads" => Kept(db', staging'))
  BY DEF UploadInv
<1>0. w \in Workers /\ tx \in Databases /\ db \in Databases /\ HandInv
  BY DEF TypeInv, TypeOK, LinkInv
<1>1. CASE IngestStep
  <2>1. crashes = 0 /\ db' = db /\ w'.job = w.job /\ tx'.row = tx.row
    BY <1>1 DEF IngestStep, RefuseStep, RecogniseStep, DuplicateStep, RegisterStep,
                AnalyseStep, AckStep, ArchiveFailsStep, TakesReference, ReportsOutcome,
                FileSet, KeepsRun, Budgeted
  <2>2. Kept(tx, staging) /\ (w.job # "uploads" => Kept(db, staging))
    BY <2>1 DEF UploadInv
  <2>3. Registered(tx) \subseteq Registered(tx')
    <3>1. ASSUME NEW n \in Names, NEW k \in Keys, DuplicateStep(n, k) \/ RegisterStep(n, k)
          PROVE  Registered(tx) \subseteq Registered(tx')
      <4>1. \E s \in States : FileSet(tx, tx', k, s)
        BY <3>1 DEF DuplicateStep, RegisterStep, States
      <4> QED BY <1>0, <4>1, SetRegistered
    <3>2. ASSUME NEW s \in States, AnalyseStep(s) PROVE Registered(tx) \subseteq Registered(tx')
      <4>1. FileSet(tx, tx', w.file, s) /\ w.file \in Keys
        BY <3>2 DEF AnalyseStep, TypeInv, WorkerOK
      <4> QED BY <1>0, <4>1, SetRegistered
    <3>3. CASE ArchiveFailsStep
      <4>1. FileSet(tx, tx', w.file, "FAILED") /\ w.pc = "ack" /\ w.ack \in {"PROCESSED", "DUPLICATE"}
        BY <3>3 DEF ArchiveFailsStep, ReportsOutcome
      <4>2. w.file \in Keys /\ "FAILED" \in States
        BY <4>1 DEF TypeInv, WorkerOK, States
      <4> QED BY <1>0, <4>1, <4>2, SetRegistered
    <3> QED BY <1>1, <3>1, <3>2, <3>3 DEF IngestStep, RefuseStep, RecogniseStep, AckStep
  <2>4. CASE staging' = staging
    BY <2>1, <2>2, <2>3, <2>4, KeptGrows
  <2>5. CASE staging' # staging
    <3>1. /\ w.pc = "ack" /\ tx' = tx /\ w.job = "uploads"
          /\ w.ack \in {"PROCESSED", "DUPLICATE"}
          /\ staging' = staging \ {<<w.batch, w.name>>}
      BY <1>1, <2>5 DEF IngestStep, RefuseStep, RecogniseStep, DuplicateStep, RegisterStep,
                AnalyseStep, AckStep, ArchiveFailsStep, TakesReference, ReportsOutcome
    <3>2. w.file \in Registered(tx) /\ w.file \in Keys /\ w.file # None
      BY <3>1, NoneAssumption DEF FileInv, Registered
    <3>3. w.file.sha = tx.row[w.batch][w.name].sha
      BY <1>0, <3>1, <3>2 DEF HandInv, BatchOpen, InHand
    <3>4. ASSUME NEW b \in Batches, NEW n \in Names,
                 tx.row[b][n].status \in {"PENDING", "REGISTERED"}
          PROVE  <<b, n>> \in staging' \/ \E k \in Registered(tx) : k.sha = tx.row[b][n].sha
      <4>1. CASE <<b, n>> = <<w.batch, w.name>>
        <5>1. b = w.batch /\ n = w.name
          BY <4>1
        <5> QED BY <3>2, <3>3, <5>1
      <4>2. CASE <<b, n>> # <<w.batch, w.name>>
        BY <2>2, <3>1, <3>4, <4>2 DEF Kept
      <4> QED BY <4>1, <4>2
    <3>5. Kept(tx', staging')
      BY <3>1, <3>4 DEF Kept
    <3> QED BY <2>1, <3>1, <3>5
  <2> QED BY <2>4, <2>5
<1>2. CASE OtherStep
  <2>1. crashes = 0
    BY <1>2 DEF OtherStep, StillStep, StageStep, CommandStep, ReconcileStep, ResolveStep, OpenStep,
         SettleBatchStep, SettleDailyStep, FramesStep, PassStep, CommitStep, RollbackStep, Budgeted
  <2>2. Kept(tx, staging) /\ (w.job # "uploads" => Kept(db, staging))
    BY <2>1 DEF UploadInv
  <2>3. CASE StillStep
    <3>1. /\ db'.row = db.row /\ tx'.row = tx.row /\ w' = w /\ staging' = staging
          /\ Registered(db) \subseteq Registered(db') /\ Registered(tx) \subseteq Registered(tx')
      BY <2>3 DEF StillStep, SameCols, Registered
    <3>2. Kept(tx', staging')
      BY <2>2, <3>1, KeptGrows
    <3>3. w.job # "uploads" => Kept(db', staging')
      BY <2>2, <3>1, KeptGrows
    <3> QED BY <3>1, <3>2, <3>3
  <2>4. ASSUME NEW b \in Batches, NEW rows, StageStep(b, rows)
        PROVE  Kept(tx', staging') /\ (w'.job # "uploads" => Kept(db', staging'))
    <3>1. /\ BatchAdded(db, db', b, rows) /\ BatchAdded(tx, tx', b, rows)
          /\ staging \subseteq staging' /\ w' = w
          /\ \A n \in Names : rows[n].status # "REGISTERED"
          /\ \A n \in Names : rows[n].status = "PENDING" => <<b, n>> \in staging'
      BY <2>4 DEF StageStep
    <3>2. Kept(tx', staging')
      BY <1>0, <2>2, <3>1, KeptAdded
    <3>3. w.job # "uploads" => Kept(db', staging')
      BY <1>0, <2>2, <3>1, KeptAdded
    <3> QED BY <3>1, <3>2, <3>3
  <2>5. CASE CommandStep
    <3>1. /\ tx = db /\ db' = db /\ tx'.row = tx.row /\ staging' = staging
          /\ Registered(tx) \subseteq Registered(tx')
      BY <2>5 DEF CommandStep, SameCols, FileInv, Registered
    <3>2. Kept(tx', staging')
      BY <2>2, <3>1, KeptGrows
    <3> QED BY <2>2, <3>1, <3>2
  <2>6. ASSUME NEW day \in Days, ReconcileStep(day)
        PROVE  Kept(tx', staging') /\ (w'.job # "uploads" => Kept(db', staging'))
    <3>1. /\ tx = db /\ tx' = db' /\ tx'.row = tx.row /\ staging' = staging
          /\ Registered(tx) \subseteq Registered(tx')
      BY <2>6 DEF ReconcileStep, Recovered, FileInv, Registered
    <3>2. Kept(tx', staging')
      BY <2>2, <3>1, KeptGrows
    <3> QED BY <3>1, <3>2
  <2>7. ASSUME NEW b \in Batches, ResolveStep(b) \/ OpenStep(b)
        PROVE  Kept(tx', staging') /\ (w'.job # "uploads" => Kept(db', staging'))
    <3>1. /\ w'.job = "uploads" /\ tx'.row = tx.row /\ staging' = staging
          /\ Registered(tx) \subseteq Registered(tx')
      BY <2>7 DEF ResolveStep, OpenStep, BatchSet, Registered
    <3>2. Kept(tx', staging')
      BY <2>2, <3>1, KeptGrows
    <3> QED BY <3>1, <3>2
  <2>8. CASE SettleBatchStep
    <3> DEFINE rows == [n \in Names |-> IF w.outcomes[n] # None
                                        THEN LinkedRow(tx.row[w.batch][n], w.outcomes[n])
                                        ELSE tx.row[w.batch][n]]
    <3>1. /\ w'.job = "uploads" /\ tx'.row = [tx.row EXCEPT ![w.batch] = rows]
          /\ w.batch \in Batches /\ w.pc = "ingest" /\ w.job = "uploads"
          /\ Registered(tx') = Registered(tx) /\ staging' = staging
      BY <2>8 DEF SettleBatchStep, Recovered, Registered, KeepsRun
    <3>2. \A n \in Names : w.outcomes[n] # None => tx.row[w.batch][n].status = "PENDING"
      BY <1>0, <3>1 DEF HandInv, BatchOpen, Touched, Busy
    <3>3. ASSUME NEW n \in Names
          PROVE  /\ rows[n].sha = tx.row[w.batch][n].sha
                 /\ rows[n].status \in {"PENDING", "REGISTERED"} =>
                      tx.row[w.batch][n].status \in {"PENDING", "REGISTERED"}
      <4>1. CASE w.outcomes[n] = None
        BY <4>1
      <4>2. CASE w.outcomes[n] # None
        <5>1. rows[n] = LinkedRow(tx.row[w.batch][n], w.outcomes[n])
          BY <4>2
        <5>2. tx.row[w.batch][n] \in Rows
          BY <1>0, <3>1 DEF Databases
        <5> QED BY <3>2, <4>2, <5>1, <5>2 DEF LinkedRow, Rows
      <4> QED BY <4>1, <4>2
    <3> HIDE DEF rows
    <3>4. \A c \in Batches : tx'.row[c] = IF c = w.batch THEN rows ELSE tx.row[c]
      BY <1>0, <3>1 DEF Databases
    <3>5. \A c \in Batches, n \in Names :
            /\ tx'.row[c][n].sha = tx.row[c][n].sha
            /\ tx'.row[c][n].status \in {"PENDING", "REGISTERED"} =>
                 tx.row[c][n].status \in {"PENDING", "REGISTERED"}
      BY <3>3, <3>4
    <3>6. Kept(tx', staging')
      BY <2>2, <3>1, <3>5 DEF Kept
    <3> QED BY <3>1, <3>6
  <2>9. ASSUME NEW dates, SettleDailyStep(dates)
        PROVE  Kept(tx', staging') /\ (w'.job # "uploads" => Kept(db', staging'))
    <3>1. /\ w'.job = w.job /\ tx'.row = tx.row /\ staging' = staging /\ db' = db
          /\ Registered(tx) \subseteq Registered(tx')
      BY <2>9 DEF SettleDailyStep, Recovered, Registered, KeepsRun
    <3>2. Kept(tx', staging')
      BY <2>2, <3>1, KeptGrows
    <3> QED BY <2>2, <3>1, <3>2
  <2>10. ASSUME NEW k \in Keys, NEW s \in States, FramesStep(k, s)
         PROVE  Kept(tx', staging') /\ (w'.job # "uploads" => Kept(db', staging'))
    <3>1. /\ w'.job = w.job /\ tx'.row = tx.row /\ staging' = staging /\ db' = db
          /\ FileSet(tx, tx', k, s)
      BY <2>10 DEF FramesStep, FileSet, KeepsRun
    <3>2. Registered(tx) \subseteq Registered(tx')
      BY <1>0, <3>1, SetRegistered
    <3>3. Kept(tx', staging')
      BY <2>2, <3>1, <3>2, KeptGrows
    <3> QED BY <2>2, <3>1, <3>3
  <2>11. CASE PassStep
    BY <2>2, <2>11 DEF PassStep, KeepsRun
  <2>12. CASE CommitStep
    BY <2>2, <2>12 DEF CommitStep
  <2>13. CASE RollbackStep
    BY <2>2, <2>13 DEF RollbackStep
  <2> QED BY <1>2, <2>3, <2>4, <2>5, <2>6, <2>7, <2>8, <2>9, <2>10, <2>11, <2>12, <2>13
          DEF OtherStep
<1> QED BY <1>1, <1>2, StepKind

(* As long as no worker process was killed, no accepted upload is lost:     *)
(* over every interleaving of requests, commands, faults and rollbacks its  *)
(* bytes are staged or its content is registered (ManualUploadSource        *)
(* acknowledge, process_batch).  A killed worker does lose uploads: its     *)
(* transaction is undone and its deletions are not.                         *)
THEOREM UploadsKept == Spec => [](crashes = 0 => UploadKept)
<1>1. Init => UploadInv
  <2>1. Kept(EmptyDatabase, {})
    BY DEF Kept, EmptyDatabase, NoRow
  <2> QED BY <2>1 DEF Init, UploadInv
<1>2. UploadInv => (crashes = 0 => UploadKept)
  BY DEF UploadInv, Kept, UploadKept
<1>3. Init /\ [][Next]_vars /\ []TypeInv /\ []FileInv /\ []LinkInv => []UploadInv
  BY <1>1, UploadStep, PTL
<1> QED BY <1>2, <1>3, TypeCorrect, RecordsSound, RowsStayLinked, PTL DEF Spec

-----------------------------------------------------------------------------
(***************************************************************************)
(* What an operator is told of a batch.                                     *)
(***************************************************************************)

(* Disjoint finite sets add up.                                             *)
LEMMA DisjointSum ==
  ASSUME NEW S, NEW T, IsFiniteSet(S), IsFiniteSet(T), S \cap T = {}
  PROVE  /\ IsFiniteSet(S \cup T)
         /\ Cardinality(S \cup T) = Cardinality(S) + Cardinality(T)
<1>1. Cardinality(S \cap T) = 0
  BY FS_EmptySet
<1>2. Cardinality(S) \in Nat /\ Cardinality(T) \in Nat
  BY FS_CardinalityType
<1>3. /\ IsFiniteSet(S \cup T)
      /\ Cardinality(S \cup T) = Cardinality(S) + Cardinality(T) - Cardinality(S \cap T)
  BY FS_Union
<1> QED BY <1>1, <1>2, <1>3

(* Sets of filenames are finite.                                            *)
LEMMA FiniteNames ==
  ASSUME NEW S \in SUBSET Names
  PROVE  /\ IsFiniteSet(S) /\ Cardinality(S) \in Nat
         /\ Cardinality(S) = 0 <=> S = {}
<1>1. IsFiniteSet(S)
  BY NamesAssumption, FS_Subset
<1> QED BY <1>1, FS_CardinalityType, FS_EmptySet

(* Four disjoint sets of filenames add up.                                  *)
LEMMA FourSum ==
  ASSUME NEW A \in SUBSET Names, NEW B \in SUBSET Names,
         NEW C \in SUBSET Names, NEW D \in SUBSET Names,
         A \cap B = {}, (A \cup B) \cap C = {}, (A \cup B \cup C) \cap D = {}
  PROVE  Cardinality(A \cup B \cup C \cup D) =
           Cardinality(A) + Cardinality(B) + Cardinality(C) + Cardinality(D)
<1>1. Cardinality(A \cup B) = Cardinality(A) + Cardinality(B)
  BY FiniteNames, DisjointSum
<1>2. A \cup B \in SUBSET Names /\ A \cup B \cup C \in SUBSET Names
  OBVIOUS
<1>3. Cardinality((A \cup B) \cup C) = Cardinality(A \cup B) + Cardinality(C)
  BY <1>2, FiniteNames, DisjointSum
<1>4. Cardinality((A \cup B \cup C) \cup D) = Cardinality(A \cup B \cup C) + Cardinality(D)
  BY <1>2, FiniteNames, DisjointSum
<1> QED BY <1>1, <1>3, <1>4

(* What the counts of a batch count: the sets of rows behind the numbers,   *)
(* the handed over rows in flight among them, and no row counted twice.     *)
LEMMA CountsMean ==
  ASSUME NEW d \in Databases, NEW b \in Batches, RowsLinked(d)
  PROVE  LET c == BatchCounts(d, b)
             registered == RowsIn(d, b, "REGISTERED")
             ready == Linked(d, b, ReadyStates)
             failed == Linked(d, b, {"FAILED"})
             quarantined == Linked(d, b, {"QUARANTINED"})
         IN /\ c.pending = Cardinality(RowsIn(d, b, "PENDING"))
            /\ c.duplicate = Cardinality(RowsIn(d, b, "DUPLICATE"))
            /\ c.rejected = Cardinality(RowsIn(d, b, "REJECTED"))
            /\ c.completed = Cardinality(ready)
            /\ c.failed = Cardinality(failed)
            /\ c.quarantined = Cardinality(quarantined)
            /\ c.completed + c.failed + c.quarantined + c.processing
                 = Cardinality(registered)
            /\ c.processing \in Nat
            /\ c.total = c.pending + c.processing + c.completed + c.duplicate
                           + c.failed + c.quarantined + c.rejected
<1> DEFINE c == BatchCounts(d, b)
           pending == RowsIn(d, b, "PENDING")
           registered == RowsIn(d, b, "REGISTERED")
           duplicate == RowsIn(d, b, "DUPLICATE")
           rejected == RowsIn(d, b, "REJECTED")
           ready == Linked(d, b, ReadyStates)
           failed == Linked(d, b, {"FAILED"})
           quarantined == Linked(d, b, {"QUARANTINED"})
           twice == Linked(d, b, {"DUPLICATE"})
           all == {n \in Names : d.row[b][n].status # "ABSENT"}
           flying == registered \ (ready \cup failed \cup quarantined)
<1>1. /\ pending \in SUBSET Names /\ registered \in SUBSET Names
      /\ duplicate \in SUBSET Names /\ rejected \in SUBSET Names
  BY DEF RowsIn
<1>2. /\ ready \in SUBSET Names /\ failed \in SUBSET Names
      /\ quarantined \in SUBSET Names /\ flying \in SUBSET Names
  BY <1>1 DEF Linked
<1>3. all = pending \cup registered \cup duplicate \cup rejected
  <2>1. \A n \in Names : d.row[b][n].status \in {"PENDING", "REGISTERED", "DUPLICATE", "REJECTED", "ABSENT"}
    BY DEF Databases, Rows, RowStates
  <2> QED BY <2>1 DEF RowsIn
<1>4. Cardinality(all) = Cardinality(pending) + Cardinality(registered)
                           + Cardinality(duplicate) + Cardinality(rejected)
  <2>1. /\ pending \cap registered = {} /\ (pending \cup registered) \cap duplicate = {}
        /\ (pending \cup registered \cup duplicate) \cap rejected = {}
    BY DEF RowsIn
  <2> HIDE DEF pending, registered, duplicate, rejected, all
  <2> QED BY <1>1, <1>3, <2>1, FourSum
<1>5. registered = ready \cup failed \cup quarantined \cup flying
  BY DEF Linked
<1>6. Cardinality(registered) = Cardinality(ready) + Cardinality(failed)
                                  + Cardinality(quarantined) + Cardinality(flying)
  <2>1. /\ ready \cap failed = {} /\ (ready \cup failed) \cap quarantined = {}
    BY DEF Linked, ReadyStates
  <2>2. (ready \cup failed \cup quarantined) \cap flying = {}
    OBVIOUS
  <2> HIDE DEF ready, failed, quarantined, flying, registered
  <2> QED BY <1>2, <1>5, <2>1, <2>2, FourSum
<1>7. twice = {}
  BY DEF Linked, RowsIn, RowsLinked, Live
<1>8. Cardinality(twice) = 0
  BY <1>7, FS_EmptySet
<1>9. /\ Cardinality(pending) \in Nat /\ Cardinality(registered) \in Nat
      /\ Cardinality(duplicate) \in Nat /\ Cardinality(rejected) \in Nat
      /\ Cardinality(ready) \in Nat /\ Cardinality(failed) \in Nat
      /\ Cardinality(quarantined) \in Nat /\ Cardinality(flying) \in Nat
  <2> HIDE DEF pending, registered, duplicate, rejected, ready, failed, quarantined, flying
  <2> QED BY <1>1, <1>2, FiniteNames
<1> DEFINE moving == Cardinality(registered)
                       - (Cardinality(ready) + Cardinality(failed) + Cardinality(quarantined))
<1>10. /\ c.total = Cardinality(all) /\ c.pending = Cardinality(pending)
       /\ c.processing = IF moving > 0 THEN moving ELSE 0
       /\ c.completed = Cardinality(ready) /\ c.failed = Cardinality(failed)
       /\ c.quarantined = Cardinality(quarantined) /\ c.rejected = Cardinality(rejected)
       /\ c.duplicate = Cardinality(duplicate) + Cardinality(twice)
  BY DEF BatchCounts
<1> HIDE DEF c, pending, registered, duplicate, rejected, ready, failed, quarantined, twice, all, flying
<1>11. moving = Cardinality(flying) /\ c.processing = Cardinality(flying)
  BY <1>6, <1>9, <1>10
<1>12. c.duplicate = Cardinality(duplicate)
  BY <1>8, <1>9, <1>10
<1>13. c.completed + c.failed + c.quarantined + c.processing = Cardinality(registered)
  BY <1>6, <1>9, <1>10, <1>11
<1>14. c.total = c.pending + c.processing + c.completed + c.duplicate
                   + c.failed + c.quarantined + c.rejected
  BY <1>4, <1>6, <1>9, <1>10, <1>11, <1>12
<1>15. c.processing \in Nat
  BY <1>9, <1>11
<1> QED BY <1>10, <1>11, <1>12, <1>13, <1>14, <1>15
        DEF c, pending, registered, duplicate, rejected, ready, failed, quarantined

(* Every row of a completed batch of d was handed over with a usable file.  *)
CompletedOK(d) ==
  \A b \in Batches, n \in Names :
    d.batch[b] = "COMPLETED" /\ d.row[b][n].status # "ABSENT" =>
      /\ d.row[b][n].status = "REGISTERED"
      /\ d.row[b][n].file # None
      /\ d.status[d.row[b][n].file] \in UsableFileStates

(* Completed batches stand on usable files until a move to the archive      *)
(* fails.                                                                   *)
CompletedInv == (Archiving => faults = 0) => CompletedOK(db) /\ CompletedOK(tx)

(* A batch resolves to COMPLETED only when every row is handed over and     *)
(* every file of it is ready.                                               *)
LEMMA ResolvedCompleted ==
  ASSUME NEW d \in Databases, NEW b \in Batches, RowsLinked(d),
         ResolveBatchStatus(d, b) = "COMPLETED", NEW n \in Names,
         d.row[b][n].status # "ABSENT"
  PROVE  /\ d.row[b][n].status = "REGISTERED"
         /\ d.row[b][n].file # None
         /\ d.status[d.row[b][n].file] \in UsableFileStates
<1> DEFINE c == BatchCounts(d, b)
           pending == RowsIn(d, b, "PENDING")
           registered == RowsIn(d, b, "REGISTERED")
           duplicate == RowsIn(d, b, "DUPLICATE")
           rejected == RowsIn(d, b, "REJECTED")
           ready == Linked(d, b, ReadyStates)
           failed == Linked(d, b, {"FAILED"})
           quarantined == Linked(d, b, {"QUARANTINED"})
<1>1. /\ c.pending = Cardinality(pending)
      /\ c.duplicate = Cardinality(duplicate)
      /\ c.rejected = Cardinality(rejected)
      /\ c.completed = Cardinality(ready)
      /\ c.failed = Cardinality(failed)
      /\ c.quarantined = Cardinality(quarantined)
      /\ c.completed + c.failed + c.quarantined + c.processing = Cardinality(registered)
      /\ c.processing \in Nat
  BY CountsMean
<1>2. /\ pending \in SUBSET Names /\ registered \in SUBSET Names
      /\ duplicate \in SUBSET Names /\ rejected \in SUBSET Names
      /\ ready \in SUBSET Names /\ failed \in SUBSET Names
      /\ quarantined \in SUBSET Names /\ ready \in SUBSET registered
  BY DEF RowsIn, Linked
<1>3. /\ ~(c.pending > 0 \/ c.processing > 0)
      /\ ~(c.failed + c.quarantined + c.rejected > 0 \/ c.duplicate > 0)
  BY DEF ResolveBatchStatus
<1>4. n \in pending \cup registered \cup duplicate \cup rejected
  <2>1. d.row[b][n].status \in {"PENDING", "REGISTERED", "DUPLICATE", "REJECTED", "ABSENT"}
    BY DEF Databases, Rows, RowStates
  <2> QED BY <2>1 DEF RowsIn
<1> HIDE DEF c, pending, registered, duplicate, rejected, ready, failed, quarantined
<1>5. /\ Cardinality(pending) \in Nat /\ Cardinality(registered) \in Nat
      /\ Cardinality(duplicate) \in Nat /\ Cardinality(rejected) \in Nat
      /\ Cardinality(ready) \in Nat /\ Cardinality(failed) \in Nat
      /\ Cardinality(quarantined) \in Nat
  BY <1>2, FiniteNames
<1>6. /\ Cardinality(pending) = 0 /\ Cardinality(duplicate) = 0 /\ Cardinality(rejected) = 0
      /\ Cardinality(ready) = Cardinality(registered)
  BY <1>1, <1>3, <1>5
<1>7. pending = {} /\ duplicate = {} /\ rejected = {}
  BY <1>2, <1>6, FiniteNames
<1>8. ready = registered
  <2>1. IsFiniteSet(registered)
    BY <1>2, FiniteNames
  <2> QED BY <1>2, <1>6, <2>1, FS_Subset
<1>9. n \in ready
  BY <1>4, <1>7, <1>8
<1> QED BY <1>9 DEF ready, Linked, RowsIn, ReadyStates, UsableFileStates

(* Completed batches are not disturbed by a file that was not usable, or    *)
(* that stays so.                                                           *)
LEMMA SetCompleted ==
  ASSUME NEW d \in Databases, NEW e, CompletedOK(d), NEW k \in Keys, NEW s,
         FileSet(d, e, k, s),
         d.status[k] \notin UsableFileStates \/ s \in UsableFileStates
  PROVE  CompletedOK(e)
<1>1. e.row = d.row /\ e.batch = d.batch
  BY DEF FileSet
<1>2. ASSUME NEW j \in Keys, d.status[j] \in UsableFileStates
      PROVE  e.status[j] \in UsableFileStates
  BY <1>2 DEF FileSet, Databases
<1>3. \A b \in Batches, n \in Names : d.row[b][n].file \in Keys \cup {None}
  BY DEF Databases, Rows
<1> QED BY <1>1, <1>2, <1>3 DEF CompletedOK

(* Neither by a step that leaves statuses, rows and batches alone.          *)
LEMMA SameCompleted ==
  ASSUME NEW d, NEW e, CompletedOK(d),
         e.row = d.row, e.batch = d.batch, e.status = d.status
  PROVE  CompletedOK(e)
BY DEF CompletedOK

(* Nor by a change of a batch that is not completed afterwards.             *)
LEMMA OpenCompleted ==
  ASSUME NEW d \in Databases, NEW e, CompletedOK(d), NEW b \in Batches,
         e.status = d.status, e.batch[b] # "COMPLETED",
         \A c \in Batches : c # b => e.batch[c] = d.batch[c] /\ e.row[c] = d.row[c]
  PROVE  CompletedOK(e)
<1>1. ASSUME NEW c \in Batches, NEW n \in Names, e.batch[c] = "COMPLETED",
             e.row[c][n].status # "ABSENT"
      PROVE  /\ e.row[c][n].status = "REGISTERED"
             /\ e.row[c][n].file # None
             /\ e.status[e.row[c][n].file] \in UsableFileStates
  <2>1. c # b
    BY <1>1
  <2>2. e.batch[c] = d.batch[c] /\ e.row[c] = d.row[c]
    BY <2>1
  <2> QED BY <1>1, <2>2 DEF CompletedOK
<1> QED BY <1>1 DEF CompletedOK

(* Every step keeps the completed batches usable.                           *)
LEMMA CompletedStep ==
  TypeInv /\ FileInv /\ LinkInv /\ CompletedInv /\ [Next]_vars => CompletedInv'
<1> SUFFICES ASSUME TypeInv, FileInv, LinkInv, CompletedInv, [Next]_vars,
                    Archiving => faults' = 0
             PROVE  CompletedOK(db') /\ CompletedOK(tx')
  BY DEF CompletedInv
<1>0. w \in Workers /\ tx \in Databases /\ db \in Databases /\ HandInv /\ RowsLinked(tx)
  BY DEF TypeInv, TypeOK, LinkInv
<1>1. faults' = 0 => faults = 0
  BY StepKind DEF IngestStep, RefuseStep, RecogniseStep, DuplicateStep, RegisterStep,
       AnalyseStep, AckStep, ArchiveFailsStep, TakesReference, ReportsOutcome, Budgeted,
       OtherStep, StillStep, StageStep, CommandStep, ReconcileStep, ResolveStep, OpenStep,
       SettleBatchStep, SettleDailyStep, FramesStep, PassStep, CommitStep, RollbackStep
<1>2. CompletedOK(db) /\ CompletedOK(tx)
  BY <1>1 DEF CompletedInv
<1>3. CASE IngestStep
  <2>0. db' = db
    BY <1>3 DEF IngestStep, RefuseStep, RecogniseStep, DuplicateStep, RegisterStep,
                AnalyseStep, AckStep, ArchiveFailsStep, TakesReference, ReportsOutcome
  <2>1. ASSUME NEW n \in Names, NEW k \in Keys, DuplicateStep(n, k) \/ RegisterStep(n, k)
        PROVE  CompletedOK(tx')
    <3>1. \E s : FileSet(tx, tx', k, s) /\ tx.status[k] \notin UsableFileStates
      BY <2>1 DEF DuplicateStep, RegisterStep, UsableFileStates
    <3> QED BY <1>0, <1>2, <3>1, SetCompleted
  <2>2. ASSUME NEW s \in States, AnalyseStep(s) PROVE CompletedOK(tx')
    <3>1. w.pc = "analyse" /\ FileSet(tx, tx', w.file, s)
      BY <2>2 DEF AnalyseStep
    <3>2. w.file \in Keys /\ tx.status[w.file] \notin UsableFileStates
      BY <1>0, <3>1 DEF TypeInv, WorkerOK, HandInv, AnalysisInv, AnalysisStates, UsableFileStates
    <3> QED BY <1>0, <1>2, <3>1, <3>2, SetCompleted
  <2>3. ASSUME NEW n \in Names, RefuseStep(n) \/ \E k \in Keys : RecogniseStep(n, k)
        PROVE  CompletedOK(tx')
    BY <1>2, <2>3 DEF RefuseStep, RecogniseStep
  <2>4. CASE AckStep
    BY <1>2, <2>0, <2>4 DEF AckStep
  <2>5. ~ArchiveFailsStep
    BY DEF ArchiveFailsStep
  <2> QED BY <1>2, <1>3, <2>0, <2>1, <2>2, <2>3, <2>4, <2>5 DEF IngestStep
<1>4. CASE OtherStep
  <2>1. CASE StillStep
    BY <1>2, <2>1, SameCompleted DEF StillStep, SameCols
  <2>2. ASSUME NEW b \in Batches, NEW rows, StageStep(b, rows)
        PROVE  CompletedOK(db') /\ CompletedOK(tx')
    <3>1. BatchAdded(db, db', b, rows) /\ BatchAdded(tx, tx', b, rows)
      BY <2>2 DEF StageStep
    <3>2. /\ db'.status = db.status /\ db'.batch[b] # "COMPLETED"
          /\ \A c \in Batches : c # b => db'.batch[c] = db.batch[c] /\ db'.row[c] = db.row[c]
      BY <1>0, <3>1 DEF BatchAdded, Databases
    <3>3. /\ tx'.status = tx.status /\ tx'.batch[b] # "COMPLETED"
          /\ \A c \in Batches : c # b => tx'.batch[c] = tx.batch[c] /\ tx'.row[c] = tx.row[c]
      BY <1>0, <3>1 DEF BatchAdded, Databases
    <3>4. CompletedOK(db')
      BY <1>0, <1>2, <3>2, OpenCompleted
    <3>5. CompletedOK(tx')
      BY <1>0, <1>2, <3>3, OpenCompleted
    <3> QED BY <3>4, <3>5
  <2>3. CASE CommandStep
    BY <1>2, <2>3, SameCompleted DEF CommandStep, SameCols
  <2>4. ASSUME NEW day \in Days, ReconcileStep(day)
        PROVE  CompletedOK(db') /\ CompletedOK(tx')
    BY <1>2, <2>4, SameCompleted DEF ReconcileStep, Recovered
  <2>5. ASSUME NEW b \in Batches, ResolveStep(b) PROVE CompletedOK(db') /\ CompletedOK(tx')
    <3>1. db' = db /\ BatchSet(tx, tx', b, ResolveBatchStatus(tx, b))
      BY <2>5 DEF ResolveStep
    <3>2. /\ tx'.status = tx.status /\ tx'.row = tx.row
          /\ tx'.batch[b] = ResolveBatchStatus(tx, b)
          /\ \A c \in Batches : c # b => tx'.batch[c] = tx.batch[c]
      BY <1>0, <3>1 DEF BatchSet, Databases
    <3>3. ASSUME NEW c \in Batches, NEW n \in Names, tx'.batch[c] = "COMPLETED",
                 tx'.row[c][n].status # "ABSENT"
          PROVE  /\ tx'.row[c][n].status = "REGISTERED"
                 /\ tx'.row[c][n].file # None
                 /\ tx'.status[tx'.row[c][n].file] \in UsableFileStates
      <4>1. CASE c = b
        <5>1. ResolveBatchStatus(tx, b) = "COMPLETED" /\ tx.row[b][n].status # "ABSENT"
          BY <3>2, <3>3, <4>1
        <5>2. /\ tx.row[b][n].status = "REGISTERED"
              /\ tx.row[b][n].file # None
              /\ tx.status[tx.row[b][n].file] \in UsableFileStates
          BY <1>0, <5>1, ResolvedCompleted
        <5> QED BY <3>2, <4>1, <5>2
      <4>2. CASE c # b
        BY <1>2, <3>2, <3>3, <4>2 DEF CompletedOK
      <4> QED BY <4>1, <4>2
    <3>4. CompletedOK(tx')
      BY <3>3 DEF CompletedOK
    <3> QED BY <1>2, <3>1, <3>4
  <2>6. ASSUME NEW b \in Batches, OpenStep(b) PROVE CompletedOK(db') /\ CompletedOK(tx')
    <3>1. db' = db /\ BatchSet(tx, tx', b, "PROCESSING")
      BY <2>6 DEF OpenStep
    <3>2. /\ tx'.status = tx.status /\ tx'.batch[b] # "COMPLETED"
          /\ \A c \in Batches : c # b => tx'.batch[c] = tx.batch[c] /\ tx'.row[c] = tx.row[c]
      BY <1>0, <3>1 DEF BatchSet, Databases
    <3>3. CompletedOK(tx')
      BY <1>0, <1>2, <3>2, OpenCompleted
    <3> QED BY <1>2, <3>1, <3>3
  <2>7. CASE SettleBatchStep
    <3> DEFINE b == w.batch
    <3>1. /\ db' = db /\ b \in Batches /\ w.pc = "ingest" /\ w.job = "uploads"
          /\ \E rows : tx'.row = [tx.row EXCEPT ![b] = rows]
          /\ tx'.status = tx.status /\ tx'.batch = tx.batch
      BY <2>7 DEF SettleBatchStep, Recovered
    <3>2. tx.batch[b] = "PROCESSING"
      BY <1>0, <3>1 DEF HandInv, BatchOpen, Busy
    <3> HIDE DEF b
    <3>3. /\ tx'.batch[b] # "COMPLETED"
          /\ \A c \in Batches : c # b => tx'.batch[c] = tx.batch[c] /\ tx'.row[c] = tx.row[c]
      BY <1>0, <3>1, <3>2 DEF Databases
    <3>4. CompletedOK(tx')
      BY <1>0, <1>2, <3>1, <3>3, OpenCompleted
    <3> QED BY <1>2, <3>1, <3>4
  <2>8. ASSUME NEW dates, SettleDailyStep(dates) PROVE CompletedOK(db') /\ CompletedOK(tx')
    BY <1>2, <2>8, SameCompleted DEF SettleDailyStep, Recovered
  <2>9. ASSUME NEW k \in Keys, NEW s \in States, FramesStep(k, s)
        PROVE  CompletedOK(db') /\ CompletedOK(tx')
    <3>1. db' = db /\ FileSet(tx, tx', k, s) /\ s \in UsableFileStates
      BY <2>9 DEF FramesStep, UsableFileStates
    <3>2. CompletedOK(tx')
      BY <1>0, <1>2, <3>1, SetCompleted
    <3> QED BY <1>2, <3>1, <3>2
  <2>10. CASE PassStep \/ CommitStep \/ RollbackStep
    BY <1>2, <2>10 DEF PassStep, CommitStep, RollbackStep
  <2> QED BY <1>4, <2>1, <2>2, <2>3, <2>4, <2>5, <2>6, <2>7, <2>8, <2>9, <2>10 DEF OtherStep
<1> QED BY <1>3, <1>4, StepKind

(* The counts of every batch add up to its files, at every step of every    *)
(* command (upload repository, batch_counts).                               *)
THEOREM CountsAddUp == Spec => []BucketsPartition
<1>1. TypeInv /\ LinkInv => BucketsPartition
  BY CountsMean DEF TypeInv, TypeOK, LinkInv, BucketsPartition
<1> QED BY <1>1, TypeCorrect, RowsStayLinked, PTL

(* What an operator is told of a batch is true: its counts add up to its    *)
(* files, and COMPLETED means that every row was handed over and every file *)
(* still counts toward its charger-days.  The one exception is a failed     *)
(* move to the archive, which marks a file FAILED whatever batch it         *)
(* completed (process_batch, resolve_batch_status, _acknowledge).           *)
THEOREM BatchesTruthful == Spec => []((Archiving => faults = 0) => BatchTruthful)
<1>1. Init => CompletedInv
  <2>1. CompletedOK(EmptyDatabase)
    BY DEF CompletedOK, EmptyDatabase
  <2> QED BY <2>1 DEF Init, CompletedInv
<1>2. Init /\ [][Next]_vars /\ []TypeInv /\ []FileInv /\ []LinkInv => []CompletedInv
  BY <1>1, CompletedStep, PTL
<1>3. BucketsPartition /\ CompletedInv => ((Archiving => faults = 0) => BatchTruthful)
  BY DEF CompletedInv, CompletedOK, BatchTruthful, CompletedMeansUsable
<1> QED BY <1>2, <1>3, TypeCorrect, RecordsSound, RowsStayLinked, CountsAddUp, PTL DEF Spec

-----------------------------------------------------------------------------
(***************************************************************************)
(* The coverage of the charger-days.                                        *)
(***************************************************************************)

(* The states of a file whose file-days were written.                       *)
ProfiledStates == UsableFileStates \cup {"SCHEMA_VALIDATION", "QUALITY_VALIDATION"}

(* Every file past profiling has its file-days.                             *)
DaysKnown(d) == \A k \in Keys : d.status[k] \in ProfiledStates => k \in d.days

(* Coverage is made of files that have the day among their file-days.       *)
CoverWithin(d) ==
  \A day \in Days : \A k \in d.coverage[day] : k \in d.days /\ day \in DaysOf[k.sha]

(* The files the coverage of the day is made of, once it is reconciled.     *)
DeliveredIn(d, day) ==
  {k \in Keys : day \in DaysOf[k.sha] /\ d.status[k] \in UsableFileStates}

(* Coverage is up to date but for the files in S.                           *)
FreshBut(d, S) ==
  \A day \in Days : \A k \in Keys : k \notin S =>
    (k \in d.coverage[day] <=> k \in DeliveredIn(d, day))

(* The files of the run that its end has still to reconcile.                *)
Unsettled ==
  IF Busy THEN OutcomeFiles(w.outcomes) \cup (IF InHand THEN {w.file} ELSE {}) ELSE {}

CoverInv ==
  /\ DaysKnown(db) /\ DaysKnown(tx) /\ CoverWithin(db) /\ CoverWithin(tx)
  /\ InFleet /\ ~NoReconcile => FreshBut(db, {}) /\ FreshBut(tx, Unsettled)

(* Usable files are profiled.                                               *)
LEMMA UsableProfiled == UsableFileStates \subseteq ProfiledStates
BY DEF ProfiledStates

(* What reconciling computes is what the delivered files give.              *)
LEMMA FilesDelivered ==
  ASSUME NEW d \in Databases, DaysKnown(d), NEW day
  PROVE  FilesForDay(d, day) = DeliveredIn(d, day)
BY UsableProfiled DEF FilesForDay, DeliveredIn, DaysKnown, Databases

(* Columns that stay keep what is known of the coverage.                    *)
LEMMA SameCover ==
  ASSUME NEW d, NEW e, e.status = d.status, e.days = d.days, e.coverage = d.coverage
  PROVE  /\ DaysKnown(d) => DaysKnown(e)
         /\ CoverWithin(d) => CoverWithin(e)
         /\ \A S : FreshBut(d, S) => FreshBut(e, S)
BY DEF DaysKnown, CoverWithin, FreshBut, DeliveredIn

(* A reconciled database, reconciled on the dates of every file that was    *)
(* not up to date, is up to date.                                           *)
LEMMA RecoveredCover ==
  ASSUME NEW d \in Databases, NEW e, NEW dates, Recovered(d, e, dates),
         DaysKnown(d), CoverWithin(d)
  PROVE  /\ DaysKnown(e) /\ CoverWithin(e)
         /\ \A S : InFleet /\ FreshBut(d, S) /\ DatesTouchedByFiles(d, S) \subseteq dates
              => FreshBut(e, {})
<1>1. e.status = d.status /\ e.days = d.days /\ e.coverage = Recomputed(d, dates)
  BY DEF Recovered
<1>2. DaysKnown(e)
  BY <1>1 DEF DaysKnown
<1>3. \A day \in Days :
        e.coverage[day] = IF day \in dates /\ (InFleet \/ FilesForDay(d, day) # {})
                          THEN FilesForDay(d, day) ELSE d.coverage[day]
  BY <1>1 DEF Recomputed
<1>4. CoverWithin(e)
  BY <1>1, <1>3 DEF CoverWithin, FilesForDay
<1>5. ASSUME NEW S, InFleet, FreshBut(d, S), DatesTouchedByFiles(d, S) \subseteq dates,
             NEW day \in Days, NEW k \in Keys
      PROVE  k \in e.coverage[day] <=> k \in DeliveredIn(e, day)
  <2>1. DeliveredIn(e, day) = DeliveredIn(d, day)
    BY <1>1 DEF DeliveredIn
  <2>2. CASE day \in dates
    BY <1>3, <1>5, <2>1, <2>2, FilesDelivered
  <2>3. CASE day \notin dates
    <3>1. e.coverage[day] = d.coverage[day]
      BY <1>3, <2>3
    <3>2. CASE k \notin S
      BY <1>5, <2>1, <3>1, <3>2 DEF FreshBut
    <3>3. CASE k \in S
      <4>1. k \notin d.days \/ day \notin DaysOf[k.sha]
        BY <1>5, <2>3, <3>3 DEF DatesTouchedByFiles
      <4>2. k \notin e.coverage[day]
        BY <3>1, <4>1 DEF CoverWithin
      <4>3. k \notin DeliveredIn(d, day)
        BY <4>1, UsableProfiled DEF DeliveredIn, DaysKnown
      <4> QED BY <2>1, <4>2, <4>3
    <3> QED BY <3>2, <3>3
  <2> QED BY <2>2, <2>3
<1>6. \A S : InFleet /\ FreshBut(d, S) /\ DatesTouchedByFiles(d, S) \subseteq dates
        => FreshBut(e, {})
  BY <1>5 DEF FreshBut
<1> QED BY <1>2, <1>4, <1>6

(* Setting the status of a file keeps its file-days known when it gets them *)
(* or needs none, and disturbs the coverage of that file only.              *)
LEMMA SetCover ==
  ASSUME NEW d \in Databases, NEW e, NEW k \in Keys, NEW s, FileSet(d, e, k, s),
         DaysKnown(d), CoverWithin(d),
         s \in ProfiledStates => s = "SCHEMA_VALIDATION" \/ d.status[k] \in ProfiledStates
  PROVE  /\ DaysKnown(e) /\ CoverWithin(e)
         /\ \A S, T : FreshBut(d, S) /\ S \cup {k} \subseteq T => FreshBut(e, T)
         /\ \A S : (s \in UsableFileStates <=> d.status[k] \in UsableFileStates)
              /\ FreshBut(d, S) => FreshBut(e, S)
<1>1. /\ e.coverage = d.coverage /\ d.days \subseteq e.days
      /\ s = "SCHEMA_VALIDATION" => k \in e.days
  BY DEF FileSet
<1>2. \A j \in Keys : e.status[j] = IF j = k THEN s ELSE d.status[j]
  BY DEF FileSet, Databases
<1>3. DaysKnown(e)
  <2> SUFFICES ASSUME NEW j \in Keys, e.status[j] \in ProfiledStates PROVE j \in e.days
    BY DEF DaysKnown
  <2>1. CASE j = k
    BY <1>1, <1>2, <2>1 DEF DaysKnown
  <2>2. CASE j # k
    BY <1>1, <1>2, <2>2 DEF DaysKnown
  <2> QED BY <2>1, <2>2
<1>4. CoverWithin(e)
  BY <1>1 DEF CoverWithin
<1>5. ASSUME NEW S, NEW T, FreshBut(d, S), S \cup {k} \subseteq T
      PROVE  FreshBut(e, T)
  BY <1>1, <1>2, <1>5 DEF FreshBut, DeliveredIn
<1>6. ASSUME NEW S, s \in UsableFileStates <=> d.status[k] \in UsableFileStates, FreshBut(d, S)
      PROVE  FreshBut(e, S)
  BY <1>1, <1>2, <1>6 DEF FreshBut, DeliveredIn
<1> QED BY <1>3, <1>4, <1>5, <1>6

(* Fewer files left out is more.                                            *)
LEMMA FreshWider ==
  ASSUME NEW d, NEW S, NEW T, FreshBut(d, S), \A k \in Keys : k \in S => k \in T
  PROVE  FreshBut(d, T)
BY DEF FreshBut

(* The analysis writes the file-days before it leaves profiling.            *)
LEMMA AnalysisProfiles ==
  ASSUME NEW s \in AnalysisStates, HappyNext(s) \in ProfiledStates
  PROVE  HappyNext(s) = "SCHEMA_VALIDATION" \/ s \in ProfiledStates
BY DEF AnalysisStates, HappyNext, ProfiledStates, UsableFileStates

(* Only usable files are reconstructed.                                     *)
LEMMA FramesUsable ==
  ASSUME NEW s, NEW t \in {"FRAME_RECONSTRUCTION", "FRAMES_RECONSTRUCTED"}, CanTransition(s, t)
  PROVE  s \in UsableFileStates /\ t \in UsableFileStates
BY DEF CanTransition, NextStates, FailureExits, UsableFileStates

(* A reported file is left to the end of the run.                           *)
LEMMA ReportUnsettled ==
  ASSUME TypeInv, LinkInv, NEW ack \in AckOutcomes, NEW already \in BOOLEAN,
         ReportsOutcome(ack, already)
  PROVE  \A k \in Keys : k \in Unsettled => k \in Unsettled'
<1> DEFINE out == [file |-> w.file, ack |-> ack, already |-> already]
<1>1. /\ w.pc = "ack" /\ w'.pc = "ingest"
      /\ w'.outcomes = [w.outcomes EXCEPT ![w.name] = out]
  BY DEF ReportsOutcome
<1>2. /\ w.name \in Names /\ w.outcomes \in [Names -> Outcomes \cup {None}]
      /\ w.outcomes[w.name] = None /\ w.file \in Keys \cup {None}
  BY <1>1 DEF TypeInv, TypeOK, WorkerOK, Workers, LinkInv, HandInv, ReportedOnce, InHand
<1>3. out \in Outcomes /\ out.file = w.file
  BY <1>2 DEF Outcomes
<1>4. out # None
  BY <1>3, OutcomesAssumption
<1> HIDE DEF out
<1>5. \A n \in Names : w'.outcomes[n] = IF n = w.name THEN out ELSE w.outcomes[n]
  BY <1>1, <1>2
<1>6. Unsettled = OutcomeFiles(w.outcomes) \cup {w.file} /\ Unsettled' = OutcomeFiles(w'.outcomes)
  BY <1>1 DEF Unsettled, Busy, InHand
<1>7. OutcomeFiles(w.outcomes) \subseteq OutcomeFiles(w'.outcomes)
  BY <1>2, <1>5 DEF OutcomeFiles
<1>8. w.file # None => w.file \in OutcomeFiles(w'.outcomes)
  BY <1>2, <1>3, <1>4, <1>5 DEF OutcomeFiles
<1> QED BY <1>6, <1>7, <1>8, NoneAssumption

(* The steps of ingest_file keep the coverage up to date but for the files  *)
(* of the run.                                                              *)
LEMMA CoverIngest ==
  ASSUME TypeInv, FileInv, LinkInv, CoverInv, IngestStep
  PROVE  CoverInv'
<1>0. /\ w \in Workers /\ tx \in Databases /\ HandInv
      /\ DaysKnown(db) /\ DaysKnown(tx) /\ CoverWithin(db) /\ CoverWithin(tx)
  BY DEF TypeInv, TypeOK, LinkInv, CoverInv
<1>a. ASSUME db' = db, DaysKnown(tx'), CoverWithin(tx'),
             FreshBut(tx, Unsettled) => FreshBut(tx', Unsettled')
      PROVE  CoverInv'
  BY <1>0, <1>a DEF CoverInv
<1>b. ASSUME NEW n \in Names, TakesReference(n), w'.pc \in {"analyse", "ack"}
      PROVE  Unsettled \cup {w'.file} \subseteq Unsettled'
  BY <1>b DEF TakesReference, KeepsRun, Unsettled, Busy, InHand
<1>1. ASSUME NEW n \in Names, RefuseStep(n) \/ \E k \in Keys : RecogniseStep(n, k) PROVE CoverInv'
  <2>1. TakesReference(n) /\ tx' = tx /\ w'.pc = "ack" /\ db' = db
    BY <1>1 DEF RefuseStep, RecogniseStep, TakesReference
  <2>2. Unsettled \subseteq Unsettled'
    BY <2>1, <1>b
  <2>3. FreshBut(tx, Unsettled) => FreshBut(tx, Unsettled')
    BY <2>2, FreshWider
  <2> QED BY <1>0, <1>a, <2>1, <2>3
<1>2. ASSUME NEW n \in Names, NEW k \in Keys, DuplicateStep(n, k) \/ RegisterStep(n, k)
      PROVE  CoverInv'
  <2>1. PICK s \in {"DUPLICATE", "REGISTERED"} :
          /\ TakesReference(n) /\ FileSet(tx, tx', k, s)
          /\ w'.pc \in {"analyse", "ack"} /\ w'.file = k /\ db' = db
    BY <1>2 DEF DuplicateStep, RegisterStep, TakesReference
  <2>2. s \notin ProfiledStates
    BY DEF ProfiledStates, UsableFileStates
  <2>3. Unsettled \cup {k} \subseteq Unsettled'
    BY <2>1, <1>b
  <2>4. DaysKnown(tx') /\ CoverWithin(tx') /\ (FreshBut(tx, Unsettled) => FreshBut(tx', Unsettled'))
    BY <1>0, <2>1, <2>2, <2>3, SetCover
  <2> QED BY <1>a, <2>1, <2>4
<1>3. ASSUME NEW s \in States, AnalyseStep(s) PROVE CoverInv'
  <2>1. /\ w.pc = "analyse" /\ FileSet(tx, tx', w.file, s) /\ db' = db
        /\ w'.pc \in {"analyse", "ack"} /\ w'.file = w.file /\ w'.outcomes = w.outcomes
    BY <1>3 DEF AnalyseStep, KeepsRun, KeepsReference
  <2>2. w.file \in Keys /\ tx.status[w.file] \in AnalysisStates
    BY <1>0, <2>1 DEF TypeInv, WorkerOK, HandInv, AnalysisInv
  <2>3. s \in ProfiledStates => s = "SCHEMA_VALIDATION" \/ tx.status[w.file] \in ProfiledStates
    <3>1. s = HappyNext(tx.status[w.file]) \/ s \in {"QUARANTINED", "FAILED"}
      BY <1>3 DEF AnalyseStep
    <3>2. CASE s \in {"QUARANTINED", "FAILED"}
      BY <3>2 DEF ProfiledStates, UsableFileStates
    <3>3. CASE s = HappyNext(tx.status[w.file])
      BY <2>2, <3>3, AnalysisProfiles
    <3> QED BY <3>1, <3>2, <3>3
  <2>4. Unsettled \cup {w.file} \subseteq Unsettled'
    BY <2>1 DEF Unsettled, Busy, InHand
  <2>5. DaysKnown(tx') /\ CoverWithin(tx') /\ (FreshBut(tx, Unsettled) => FreshBut(tx', Unsettled'))
    BY <1>0, <2>1, <2>2, <2>3, <2>4, SetCover
  <2> QED BY <1>a, <2>1, <2>5
<1>4. CASE AckStep
  <2>1. ReportsOutcome(w.ack, w.already) /\ tx' = tx /\ db' = db
    BY <1>4 DEF AckStep, ReportsOutcome
  <2>2. w.ack \in AckOutcomes /\ w.already \in BOOLEAN
    BY <1>0 DEF Workers
  <2>3. \A k \in Keys : k \in Unsettled => k \in Unsettled'
    BY <2>1, <2>2, ReportUnsettled
  <2>4. FreshBut(tx, Unsettled) => FreshBut(tx, Unsettled')
    BY <2>3, FreshWider
  <2> QED BY <1>0, <1>a, <2>1, <2>4
<1>5. CASE ArchiveFailsStep
  <2>1. /\ ReportsOutcome("FAILED", FALSE) /\ FileSet(tx, tx', w.file, "FAILED") /\ db' = db
        /\ w.pc = "ack" /\ w.ack \in {"PROCESSED", "DUPLICATE"}
    BY <1>5 DEF ArchiveFailsStep, ReportsOutcome
  <2>2. w.file \in Keys /\ "FAILED" \in AckOutcomes /\ FALSE \in BOOLEAN
    BY <2>1 DEF TypeInv, WorkerOK, AckOutcomes
  <2>3. \A k \in Keys : k \in Unsettled => k \in Unsettled'
    BY <2>1, <2>2, ReportUnsettled
  <2>4. w.file \in Unsettled
    BY <2>1 DEF Unsettled, Busy, InHand
  <2>5. Unsettled \in SUBSET Keys
    <3>1. w.outcomes \in [Names -> Outcomes \cup {None}]
      BY <1>0 DEF Workers
    <3> QED BY <2>2, <3>1, OutcomeFilesType DEF Unsettled
  <2>6. Unsettled \cup {w.file} \subseteq Unsettled'
    BY <2>2, <2>3, <2>4, <2>5
  <2>7. "FAILED" \notin ProfiledStates
    BY DEF ProfiledStates, UsableFileStates
  <2>8. DaysKnown(tx') /\ CoverWithin(tx') /\ (FreshBut(tx, Unsettled) => FreshBut(tx', Unsettled'))
    BY <1>0, <2>1, <2>2, <2>6, <2>7, SetCover
  <2> QED BY <1>a, <2>1, <2>8
<1> QED BY <1>1, <1>2, <1>3, <1>4, <1>5 DEF IngestStep

(* The other steps keep the coverage up to date: the end of a run           *)
(* reconciles every day one of its files has.                               *)
LEMMA CoverOther ==
  ASSUME TypeInv, FileInv, LinkInv, CoverInv, OtherStep
  PROVE  CoverInv'
<1>0. /\ w \in Workers /\ tx \in Databases /\ db \in Databases
      /\ DaysKnown(db) /\ DaysKnown(tx) /\ CoverWithin(db) /\ CoverWithin(tx)
  BY DEF TypeInv, TypeOK, CoverInv
<1>a. ASSUME db' = db, DaysKnown(tx'), CoverWithin(tx'),
             InFleet /\ ~NoReconcile /\ FreshBut(tx, Unsettled) => FreshBut(tx', Unsettled')
      PROVE  CoverInv'
  BY <1>0, <1>a DEF CoverInv
<1>b. ASSUME NEW S, ~Busy, FreshBut(tx, Unsettled) PROVE FreshBut(tx, S)
  <2>1. Unsettled = {}
    BY <1>b DEF Unsettled
  <2> QED BY <1>b, <2>1, FreshWider
<1>1. CASE StillStep
  <2>1. /\ SameCols(db, db') /\ SameCols(tx, tx') /\ w' = w
    BY <1>1 DEF StillStep
  <2>2. Unsettled' = Unsettled
    BY <2>1 DEF Unsettled, Busy, InHand
  <2>3. DaysKnown(db') /\ CoverWithin(db') /\ (FreshBut(db, {}) => FreshBut(db', {}))
    BY <1>0, <2>1, SameCover DEF SameCols
  <2>4. DaysKnown(tx') /\ CoverWithin(tx') /\ (FreshBut(tx, Unsettled) => FreshBut(tx', Unsettled'))
    BY <1>0, <2>1, <2>2, SameCover DEF SameCols
  <2> QED BY <2>3, <2>4 DEF CoverInv
<1>2. ASSUME NEW b \in Batches, NEW rows, StageStep(b, rows) PROVE CoverInv'
  <2>1. /\ BatchAdded(db, db', b, rows) /\ BatchAdded(tx, tx', b, rows) /\ w' = w
    BY <1>2 DEF StageStep
  <2>2. Unsettled' = Unsettled
    BY <2>1 DEF Unsettled, Busy, InHand
  <2>3. DaysKnown(db') /\ CoverWithin(db') /\ (FreshBut(db, {}) => FreshBut(db', {}))
    BY <1>0, <2>1, SameCover DEF BatchAdded
  <2>4. DaysKnown(tx') /\ CoverWithin(tx') /\ (FreshBut(tx, Unsettled) => FreshBut(tx', Unsettled'))
    BY <1>0, <2>1, <2>2, SameCover DEF BatchAdded
  <2> QED BY <2>3, <2>4 DEF CoverInv
<1>3. ASSUME CommandStep \/ \E b \in Batches : ResolveStep(b) \/ OpenStep(b) PROVE CoverInv'
  <2>1. /\ db' = db /\ ~Busy
        /\ tx'.status = tx.status /\ tx'.days = tx.days /\ tx'.coverage = tx.coverage
    BY <1>3 DEF CommandStep, ResolveStep, OpenStep, SameCols, BatchSet, Busy
  <2>2. DaysKnown(tx') /\ CoverWithin(tx') /\ \A S : FreshBut(tx, S) => FreshBut(tx', S)
    BY <1>0, <2>1, SameCover
  <2>3. FreshBut(tx, Unsettled) => FreshBut(tx', Unsettled')
    BY <1>b, <2>1, <2>2
  <2> QED BY <1>a, <2>1, <2>2, <2>3
<1>4. ASSUME NEW day \in Days, ReconcileStep(day) PROVE CoverInv'
  <2>1. w.pc = "idle" /\ tx' = db' /\ Recovered(db, db', {day}) /\ w' = w
    BY <1>4 DEF ReconcileStep
  <2>2. DatesTouchedByFiles(db, {}) \subseteq {day}
    BY DEF DatesTouchedByFiles
  <2>3. /\ DaysKnown(db') /\ CoverWithin(db')
        /\ InFleet /\ FreshBut(db, {}) => FreshBut(db', {})
    BY <1>0, <2>1, <2>2, RecoveredCover
  <2>4. Unsettled' = {}
    BY <2>1 DEF Unsettled, Busy
  <2> QED BY <2>1, <2>3, <2>4 DEF CoverInv
<1>5. ASSUME NEW dates, Recovered(tx, tx', dates), db' = db, w.pc = "ingest",
             ~NoReconcile => DatesTouchedByFiles(tx, OutcomeFiles(w.outcomes)) \subseteq dates,
             w'.pc \in {"frames", "commit"}
      PROVE  CoverInv'
  <2>1. Unsettled = OutcomeFiles(w.outcomes) /\ Unsettled' = {}
    BY <1>5 DEF Unsettled, Busy, InHand
  <2>2. /\ DaysKnown(tx') /\ CoverWithin(tx')
        /\ \A S : InFleet /\ FreshBut(tx, S) /\ DatesTouchedByFiles(tx, S) \subseteq dates
             => FreshBut(tx', {})
    BY <1>0, <1>5, RecoveredCover
  <2> QED BY <1>5, <1>a, <2>1, <2>2
<1>6. CASE SettleBatchStep
  BY <1>5, <1>6 DEF SettleBatchStep
<1>7. ASSUME NEW dates, SettleDailyStep(dates) PROVE CoverInv'
  BY <1>5, <1>7 DEF SettleDailyStep
<1>8. ASSUME NEW k \in Keys, NEW s \in States, FramesStep(k, s) PROVE CoverInv'
  <2>1. /\ db' = db /\ FileSet(tx, tx', k, s) /\ CanTransition(tx.status[k], s) /\ ~Busy
        /\ s \in {"FRAME_RECONSTRUCTION", "FRAMES_RECONSTRUCTED"} /\ w'.pc \in {"frames", "rebuild"}
    BY <1>8 DEF FramesStep, Busy
  <2>2. s \in UsableFileStates /\ tx.status[k] \in UsableFileStates
    BY <2>1, FramesUsable
  <2>3. tx.status[k] \in ProfiledStates
    BY <2>2, UsableProfiled
  <2>4. /\ DaysKnown(tx') /\ CoverWithin(tx')
        /\ \A S : FreshBut(tx, S) => FreshBut(tx', S)
    BY <1>0, <2>1, <2>2, <2>3, SetCover
  <2>5. FreshBut(tx, Unsettled) => FreshBut(tx', Unsettled')
    BY <1>b, <2>1, <2>4
  <2> QED BY <1>a, <2>1, <2>4, <2>5
<1>9. CASE PassStep
  <2>1. db' = db /\ tx' = tx /\ ~Busy
    BY <1>9 DEF PassStep, Busy
  <2> QED BY <1>0, <1>a, <1>b, <2>1
<1>10. CASE CommitStep
  <2>1. db' = tx /\ tx' = tx /\ ~Busy /\ Unsettled' = {}
    BY <1>10 DEF CommitStep, Busy, Unsettled, Idle
  <2> QED BY <1>0, <1>b, <2>1 DEF CoverInv
<1>11. CASE RollbackStep
  <2>1. db' = db /\ tx' = db /\ Unsettled' = {}
    BY <1>11 DEF RollbackStep, Busy, Unsettled, Idle
  <2> QED BY <1>0, <2>1 DEF CoverInv
<1> QED BY <1>1, <1>2, <1>3, <1>4, <1>6, <1>7, <1>8, <1>9, <1>10, <1>11 DEF OtherStep

(* For a charger of the fleet whose runs reconcile, the coverage of every   *)
(* charger-day is, between commands, the one its delivered files give: no   *)
(* later batch, reconstruction, failure, rollback or crash leaves it stale  *)
(* (reconcile_dates, dates_touched_by_files).                               *)
THEOREM CoverageStaysFresh ==
  ASSUME InFleet, ~NoReconcile
  PROVE  Spec => []CoverageFresh
<1>1. Init => CoverInv
  <2>1. /\ DaysKnown(EmptyDatabase) /\ CoverWithin(EmptyDatabase)
        /\ FreshBut(EmptyDatabase, {})
    BY DEF DaysKnown, CoverWithin, FreshBut, DeliveredIn, EmptyDatabase, ProfiledStates,
           UsableFileStates
  <2>2. Init => Unsettled = {}
    BY DEF Init, Idle, Unsettled, Busy
  <2> QED BY <2>1, <2>2 DEF Init, CoverInv
<1>2. TypeInv /\ FileInv /\ LinkInv /\ CoverInv /\ [Next]_vars => CoverInv'
  BY StepKind, CoverIngest, CoverOther
<1>3. TypeInv /\ CoverInv => CoverageFresh
  <2> SUFFICES ASSUME TypeInv, CoverInv, NEW day \in Days
               PROVE  db.coverage[day] = Delivered(day)
    BY DEF CoverageFresh
  <2>1. \A k \in Keys : db.status[k] \in States \cup {"ABSENT"}
    BY DEF TypeInv, TypeOK, Databases
  <2>2. Delivered(day) = DeliveredIn(db, day)
    BY <2>1 DEF Delivered, DeliveredIn, States, UsableFileStates
  <2>3. db.coverage[day] \subseteq Keys /\ DeliveredIn(db, day) \subseteq Keys
    BY DEF TypeInv, TypeOK, Databases, DeliveredIn
  <2>4. \A k \in Keys : k \in db.coverage[day] <=> k \in DeliveredIn(db, day)
    BY DEF CoverInv, FreshBut
  <2> QED BY <2>2, <2>3, <2>4
<1>4. Init /\ [][Next]_vars /\ []TypeInv /\ []FileInv /\ []LinkInv => []CoverInv
  BY <1>1, <1>2, PTL
<1> QED BY <1>3, <1>4, TypeCorrect, RecordsSound, RowsStayLinked, PTL DEF Spec

=============================================================================

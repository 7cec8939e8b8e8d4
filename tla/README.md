# Verification of the charger telemetry platform

TLA+ models of the telemetry platform in `src/` (Python backend and pipelines,
React frontend), the TLC runs that check them and the TLAPS proofs about them.
`PROJECT.json` maps every definition to the lines it models.

## 1. Inventory

| Component | State | Operations | Hard behaviour |
|---|---|---|---|
| File lifecycle (`pipelines/ingestion/state_machine.py`) | `telemetry_file.status` | guarded transitions | every writer must ask the table |
| Upload API (`api/v1/uploads.py`, `UploadService.stage_batch`) | `upload_batch`, `upload_batch_file`, staged bytes | POST upload | answers before the worker runs, interleaves with it |
| Worker, uploads (`process-uploads`, `UploadService.process_batch`) | batch and row status, provenance | link, reconcile, reconstruct, resolve | one transaction over several batches; files deleted before commit |
| Worker, inbox (`run-daily`, `IngestionService`) | `telemetry_file`, `ingestion_run`, file-day rows | register, analyse, acknowledge | re-presented files, failing moves, crashes |
| Sources (`pipelines/sources`) | staging area, inbox, archive | discover, stream, acknowledge | effects outside the transaction |
| Bronze storage (`pipelines/persistence/storage.py`) | objects by UUID | store, discard | written before the record, kept after a rollback |
| Sessions (`db/session.py`, `api/deps.py`) | transaction | commit, rollback | read session used by a writing endpoint |
| Coverage (`CoverageService`, `pipelines/ingestion/coverage.py`) | `charger_day_coverage`, gaps, findings | reconcile a date | late files, shared days, unexpected chargers, numeric boundaries |
| Frames (`FrameReconstructionService`, `pipelines/frame_reconstruction`) | frames, rows, sources | reconstruct file or day | frames shared by files, replays, re-runs |
| Silver (`NormalizationService`, `pipelines/normalization`) | silver rows, normalization runs | normalize file | replaced rows, session mix-up |
| Events (`EventReconstructionService`, `pipelines/events`) | sessions, alarms, transitions, config changes | rebuild a window | contradicting signals, frames of one second, late observations |
| History (`HistoricalContinuityService`, `pipelines/historical`) | none | pages, signal history, gaps, counters, eligibility | pages read while Silver is rewritten; numeric boundaries |
| Schema registry (`SchemaService`, `pipelines/validation`) | schema versions and their fields | resolve or register a header | two workers register at once |
| Quality (`QualityService`, `pipelines/quality`, `pipelines/profiling`) | findings, scores, file status | analyse a file | a database error of one file in a shared transaction; equal scores |
| Research, read API, frontend | derived data | queries | none that changes state |

Interaction: the browser posts a batch to the API, which stages bytes and rows.
A scheduled worker command selects queued batches and hands each one, through the
manual source, to the same `IngestionService.run` that the inbox uses. The outcomes
are linked back to the batch rows, the days touched are reconciled and frames are
reconstructed; the batch status is derived from row and file status. Everything a
command does to the database is one transaction; what it does to files is not.

What makes the core correct: no accepted upload is lost; every telemetry file is
backed by its own immutable Bronze object; one canonical record per content; stored
coverage equals what the delivered files give; batch counts and status tell the
truth; every batch is eventually resolved; every status write respects the table.
What makes frames correct: every reading of a file ends in a frame that later phases
use, no retransmission is counted twice, and files that overlap share frames without
damaging each other. What makes a charger-day correct: every delivered sample counts
once, gaps are real silence, and a second pass leaves nothing of the first behind.
What makes Silver correct: no value that no row reported, no stale record, pages that
neither repeat nor skip. What makes events correct: they are exactly what the
observations say. What makes the registry correct: concurrent runs leave what some
order of single runs would have left.

## 2. Modules

| Module | What it models |
|---|---|
| `FileStatus` | the transition table and the state groups read by the repositories |
| `Ingestion` | upload API, both sources, Bronze, the worker commands, sessions |
| `MCIngestion` | instances of `Ingestion` for TLC |
| `IngestionProofs` | theorems about `Ingestion`: types and records; uploads, batches and coverage |
| `FrameBuild` | reconstruction of one file: row keys, timestamp groups, slices, replay classification |
| `MCFrameBuild`, `FrameBuildProofs` | its instances for TLC, and its theorems |
| `FrameStore` | persistence of frames that files share, `reconstruct` and `reconstruct-day` |
| `MCFrameStore`, `FrameStoreProofs` | its instances for TLC, and its theorems |
| `Timeline` | the order of observations, neighbouring timestamps and medians, shared by the modules that read time series |
| `ChargerDay`, `MCChargerDay`, `ChargerDayProofs` | splitting files by local date, charger-day coverage, gaps, findings, registry, metrics |
| `Silver`, `MCSilver`, `SilverProofs` | resolving frames into typed records with provenance, reading the history in pages |
| `Continuity` | sampling, gaps, counters and research eligibility (`pipelines/historical`) |
| `Events`, `MCEvents`, `EventsProofs` | sessions, alarms, transitions and configuration changes, rebuilt by window |
| `FileQuality` | what profiling, the dictionary, the rules and the scores say of a file |
| `Analysis`, `MCAnalysis`, `AnalysisProofs` | schema registration and analysis by concurrent workers |
| `SchemaRegistry` | the abstract registry that `Analysis` implements |
| `SetFacts` | facts about numbers, finite sets, sums and the order of observations that several proofs rest on |

`FrameStore` extends `FileStatus`, as `Ingestion` does. `Ingestion` models when a
file is reconstructed and what becomes of its status; `FrameBuild` what one
reconstruction computes; `FrameStore` what several of them leave in the database.
`ChargerDay` refines the abstract coverage of `Ingestion` (the set of delivered files)
to samples and findings; `Analysis` refines its pass, quarantine or fail branches;
`Silver` starts from frames as `FrameStore` keeps them, and `Events` from the slots
that `Silver` fills. These joints are by design of the state, not by `INSTANCE`; the
one mechanical refinement is `Analysis` against `SchemaRegistry`.

### Ingestion

`db` is the committed database, `tx` the database as the worker's session sees it;
`Commit` (a clean exit of `session_scope`) copies `tx` to `db`, a rollback copies
`db` to `tx`. `bronze`, `staging`, `inbox`, `archive` and `zone` are outside the
transaction. `w` is the worker: a program counter (`pc`), the command (`job`) and
its local variables. API requests (`StageBatch`, `NormalizeFile`) commit on their
own and interleave with the worker at any step; they write rows no running worker
session has changed, so both `db` and `tx` show them (READ COMMITTED).

Abstractions: a content is its SHA-256; a telemetry file is the pair of content and
name (the unique constraint); a file-day row is membership in `days` together with
`DaysOf`; the coverage of a day is the set of files it was computed from; one
charger. The steps of `_analyse` are single moves along the happy path with
quarantine after profiling or quality validation and an exception anywhere. An
object that `_register` stores and discards again within one call does not appear.
`zone` holds the copies that quarantine leaves for operators; nothing reads it, and a
copy that fails is left out in silence.

Ingestion of one reference: `RefuseAdmission`, `LandingFails`, `RecogniseFile`,
`RegisterDuplicate`, `RegisterFile`, then `AdvanceFile`, `QuarantineFile` or
`FailFile`, then one of the acknowledgements (`AcknowledgeUpload`,
`StagedCleanupFails`, `AcknowledgeInbox`, `ArchiveFails`,
`QuarantineArchiveFails`). A batch: `SkipBatch` or `StartBatch`, `SettleBatch`,
frames, `CloseBatch`. Frames: `BeginFrames`, then `EndFrames` or `FramesFail`, or
`SkipFrames` when the transition is refused.

### FrameBuild

The loops of `pipelines/frame_reconstruction` are the steps: `KeyRow` is one row of
`LogicalKeyBuilder.build`, `EndOfFile` is `build_timestamp_groups`, and for each group
in time order `OpenGroup`, one `ClassifyNext` per candidate of `classify_group`, and
`CloseGroup` or, for a contained exception, `GroupFails`. The rows are chosen while
they are read, so a run covers every file within the bounds. Candidates are not
stored: `Slice(t, k)` is what `build_frame_candidates` puts at sequence `k`, and
`Capped(t)` is the safety valve `max_frames_per_timestamp`. A row fingerprint is a
value and a frame fingerprint the function from positions to values (no collisions);
the resolved topology is the constant `Expected`.

### FrameStore

What a file reconstructs to is fixed with its bytes (`content`, chosen in `Init` from
outcomes that `FrameBuild` can produce). `Persisted` is `reconstruct_file` from the
first transition to the last: `DeleteForFile`, then `InsertFor`. `db` holds the
committed tables and `tx` those of the session. `ReconstructFile` commits on its own
(or changes nothing); `reconstruct-day` is `StartDay`, then `DayFile`,
`DayFileSkipped`, `DayFileFails` or `DayFileCollides` per file in receipt order, then
`EndDay`. `Lookups` is a choice because the dict built by `_existing_fingerprints`
keeps whichever row of one payload the database returns last. A unique violation
aborts the transaction as PostgreSQL does. One charger, one reconstruction version.

### ChargerDay

`PersistFileDays` is the split of one file into business dates when it is ingested,
always with the default clock; `Reconcile(d)` is one pass of
`CoverageService.reconcile` over a date: expected chargers from the registry, the
evaluation of each charger-day, and the replacement of row, gaps and findings.
`ReconcileFails` is the pass that a unique violation rolls back. `UpsertCharger`
changes the registry between passes. `done` is the summary of the last pass and is
forgotten by anything that makes it stale, so the properties speak of a date just
reconciled. `coverage` is a partial function on charger and date: a row exists or it
does not. Percentages are integers in thousandths of a percent (`HundredPct` is all of
it); settings are constants; a finding is its identity, without wording and counts.

### Silver

`Reconstruct(f)` stores the frames of a file and deletes the records of frames it
alone held; `NormalizeFile(f)` is `normalize_file` from reading the Bronze rows to the
inserts, `NormalizeFails(f)` the request an exception rolls back. `OpenWalk` and
`GetChargerHistory` are a client that pages through the cabinet history between those
steps. `silver` and `runs` are partial functions: a frame has records, a file a completed
run, or not. Each of the eleven tables is the unit its records are kept for, whether its
conflicts are reported and whether it keeps the raw value of masked columns; its
columns are positions of `Dictionary`. Cells are a value, a sentinel, junk or nothing;
a line may break off before its last column, and `Reading` is then the cell under the
field's canonical name, if another column is headed so. `RowNumbers` has the fallback to
the range of `source_order`; reconstruction links every frame to its rows, so it is taken
for no frame that reconstruction wrote.

### Events and Continuity

The history of one connector is a function from slots (event time and frame sequence)
to observations. `Arrive` fills a slot late, `Reconstruct(w, order)` rebuilds the
events of a window; the choice of `order` is the unspecified order of snapshots of one
second. `ReconstructSessions`, `ReconstructAlarms`, `DetectTransitions` and
`DetectChanges` fold the loops of `pipelines/events` over the observations; a unique
violation leaves the tables as they were. Alarms and faults are built by one algorithm
and kept apart by their codes (`FaultCodes`) where the timeline reads each table up to its
limit. `Continuity` holds the pure analyses.

### FileQuality, Analysis and SchemaRegistry

`FileQuality` has no state: it says what the profiler, the dictionary, the rules and
the scoring compute for a file given by its header and rows. A canonical name is a
triple (base name, occurrence, attempt) in place of its text; scores are integers in
hundredths, rounded down; the heuristic classifier is the constant `Unlisted`.
`Analysis` runs workers statement by statement at READ COMMITTED: `FindVersion`,
`CompareWithActive`, `NextVersionNumber`, `AddVersion` (which waits while another open
transaction holds the key, and fails once that one has committed), `Analyse`, then
`Commit`; a failed statement leads to `RollBack`. `Registry == INSTANCE SchemaRegistry
WITH ...` maps the committed versions to the list of their headers and the records to
the version each file got; `SerialRegistry` is the abstract specification.

Definitions commented "Seeded error" are variants of the definition that follows
them; they show that the property they are paired with in `PROJECT.json` can fail.

## 3. Runs

| Run | Bounds | Checks |
|---|---|---|
| `uploads` | 2 batches of up to 2 files, 3 uploadable files (one content under two names, another content under the first name), 1 fault | `TypeOK`, `UploadKept`, `BatchTruthful`, `GuardedWrites` |
| `daily` | archiving inbox and one batch over copies of one content, 2 names, 2 days, an oversized file, 1 crash, 1 fault | `BronzeBacked`, `SingleCanonical`, `CoverageFresh`, `DurableRecords` |
| `liveness` | 2 batches, no fault | `BatchResolved` under fairness |
| `frames` | files of up to 5 rows from 8 kinds, 2 times, 3 positions (one unexpected), 2 values, safety valve at 3 | `TypeOK`, `EveryReadingCanonical`, `NoDoubleCount`, `ReplaysContained`, `RowsKept` |
| `store` | 2 files, 2 times, 3 payloads (one a fragment of another), 2 runs of each file | `TypeOK`, `SequencesSound`, `NoDangling`, `PayloadHeld`, `PointersTruthful`, `OthersUntouched` |
| `coverage` | 2 chargers, 4 files, 2 dates of 6 seconds, 4 registry records, 2 registry changes | `NoSampleLost`, `GapsAreSilence`, `ReportCurrent`, `CountsAgree`, `ReconcileIdempotent` |
| `silver` | 2 files, 4 frames, 5 columns, 24 contents, pages of 1, 4 commands | `NormalizedWhole`, `NothingFabricated`, `SignalTruthful`, `PagesExact`, `NormalizeIdempotent` |
| `events` | 5 slots, 576 histories, 1 late observation, 3 windows, 2 rebuilds | `SessionsTruthful`, `AlarmsExact`, `ChangesExact`, `ReadsTruthful`, `WindowIsolated` |
| `quality` | 3 interchangeable workers (symmetry), 10 files under 6 headers, 12 runs of up to 3 files | `RegistrySound`, `DriftTruthful`, `AbortExplained`, `JudgementSound`, `SerialRegistry` |

Some properties are conjunctions of named parts: `BatchTruthful` of `BucketsPartition`
and `CompletedMeansUsable`, `RowsKept` of `SourceOrder`, `EachRowOnce` and
`CompleteMeansWhole`, `SequencesSound` of `IdentityUnique` and `OwnOrderKept`,
`ReportCurrent` of `FindingsCurrent` and `LateByFirstReceipt`, `PagesExact` of
`PagesOrdered` and `PagesComplete`, `SessionsTruthful` of `ChargingCovered` and
`SessionsExact`, `ChangesExact` of `TransitionsReplay` and `ConfigsExact`,
`ReadsTruthful` of `TimelinePrefix`, `CounterLedger` and `ReadyMeansObserved`,
`RegistrySound` of `VersionsConsecutive` and `OneRegistrar`, `JudgementSound` of
`ReadyIsSound` and `ScoreWithinDimensions`. `ReportCurrent`, `NormalizedWhole`,
`SessionsTruthful` and `RegistrySound` include the `TypeOK` of their module.

Why the bounds are enough: two names and two contents give every relation between
two files (same file, same content under another name, other content under the same
name, unrelated); two batches give a batch before and after another; one crash and
one fault reach every error path from every step, and the interesting histories
(fail, then re-present; crash, then re-run) need one of each. Eight Bronze object
ids are never exhausted. Five rows give three frames at one time (a first one, one
that differs, a fragment of either) and four rows of one position close the safety
valve; two runs of a file give its first reconstruction and a replacement before and
after the other file's. The four files of `coverage` are one that crosses midnight and
leaves a gap, a late one that fills part of it, one of equal
name, and one of a whole day for another charger; an interval of exactly the threshold
and samples in the first second of a day occur. Pages of one record make every page
boundary happen, also between records of one second. Five slots hold two frames of one
second, two that follow and one after a gap; the values were chosen so that each branch
of the reconstructors is taken. `quality` cuts the lists of a finding after 2 entries
(`MaxListed`, 50 in the code) and gives timestamps no weight (`Timeless`), so a list is
cut and a headline of 0 beside a weightless perfect dimension occurs. Three workers let two runs commit between the two reads
of a third, which is what `DriftTruthful` has to allow for. `frames`, `store`,
`silver` and `events` stop when rows or commands are used up, so they are checked
without deadlock detection; `quality` is checked with it, which with `OneRegistrar`
shows that workers never wait for each other in a circle.

Fairness: `WF(WorkerStep)`, because a started command is one process that waits for
nobody, and `SF(ProcessUploads)`, because the host schedules
`process-uploads` repeatedly between other commands (`docs/daily-ingestion.md`
leaves scheduling to the host). No fairness is assumed of uploads, of other
commands, or of faults; `liveness` is the only run that needs any.

### Disagreements between the code and what it says

Each is a run with `expect: violation`:

* `killed`: staged bytes are deleted before the commit, so a worker killed in
  between strands the row (`PendingResumable`).
* `shifted`: frame rows are numbered from 0 and normalisation reads lines from 1, so a
  frame gets the values of the rows before its own (`OwnRowsRead`). The other
  properties of `silver` speak of the rows that are read.
* `contained`: a file that breaks a unique constraint takes the results of the whole
  run with it (`BadFileContained`).

The models show further disagreements that have no run of their own. They limit what
the passing runs say:

* `GuardedWrites` holds for uploads; with an archiving inbox a failing archive move
  marks a record FAILED without asking the table (`_mark_failed`).
* `CoverageFresh` holds for chargers of the fleet; for one outside it
  (`InFleet = FALSE`) a day whose files became unusable keeps its old coverage.
* A duplicate does become a Bronze file (`docs/manual-upload.md:78` says it never
  does); `BronzeBacked` counts it.
* Above the safety valve of `build_frame_candidates` only the first row of a position
  is kept, which is the exception in `EachRowOnce` and `EveryReadingCanonical`
  (`docs/frame-reconstruction.md:29` says repetition is never deleted).
* Re-running the file that owns a shared frame leaves the frame without a primary
  source (`tests/integration/test_frame_persistence.py:449` expects one).
* A file's earlier frame may be stored after a later one that was reused; only frames
  inserted by one run keep their order (`OwnOrderKept`).
* A new replay of a reused frame is stored without a pointer; a pointer that is set is
  right (`PointersTruthful`).
* Unassigned rows are stored only when the run inserted a frame (`PayloadHeld`); they
  are attached to its first frame (`frame_service.py:575`), and normalisation does not
  filter them out.
* A FAILED file left in the inbox is reported already registered by the next run and
  archived; `pipelines/sources/filesystem.py:134` says "Leave failures in the inbox so
  they can be retried after a fix."
* A file whose landing raises leaves a row without a telemetry file that counts as
  processing for ever (`repositories/uploads.py:193`), so with faults a batch may never
  resolve; `docs/manual-upload.md:54` promises an end status.
* The normalize endpoint moves the status of an object of the read session, whose
  rollback discards it (`api/v1/silver.py:95`; `api/deps.py:75` warns of that).
* A payload stored at one event time absorbs an equal frame of another time
  (`frame_service.py:373`; `models/telemetry_frame.py:62`).
* A unique violation in one file of `reconstruct-day` discards what the day had
  reconstructed (`frame_service.py:252`; `docs/frame-reconstruction.md:262` says "One bad
  file does not stop a charger-day.").
* File-days are cut with the default clock (`ingestion_service.py:554`) and evaluated
  with the charger's; samples near midnight are counted on neither date. `NoSampleLost`
  and `GapsAreSilence` are about chargers on the default clock.
* Two mismatched files of one name have one issue hash, and the date cannot be
  reconciled at all (`ReconcileFails`). The hash of a file finding leaves details and
  raw value out as well, so two missing structural roles, two missing required entries
  of one name, two sentinels in a column or both bounds broken in one lose the run.
  `AbortExplained` lists these and the two other reasons there are: another run
  committed the version first, or a column is described like another one in the
  dictionary.
* The rows of a charger that is neither expected nor delivering any more stay, and
  `MetricsService.daily` averages UNEXPECTED rows although its docstring leaves them
  out; `CountsAgree` excludes both.
* `NormalizationService` builds its issue with a `dimension` the model does not have, so
  any reported conflict raises; the raw value of a masked column is converted to a
  float without a guard (`Raises`).
* Duplicate header names collapse to the last column (`RowDict`), in a line that breaks
  off to the last one it reaches.
* `get_signal_history` finds provenance by frame and name only; with two units in a
  frame a value may be shown with the raw value of the other (`SignalTruthful` is about
  single units).
* A session that starts in the second another one starts in violates a unique
  constraint, and rebuilding a window next to stored sessions is not idempotent;
  `api/v1/events.py:39` calls the recomputation idempotent. `WindowIsolated` is about
  what a rebuild leaves alone.
* `compute_quality_score` keys its weights by score (`scoring.py:247`), so equal
  dimensions share one weight; the docstring promises the configured weighted mean. A
  dimension may be given weight 0 (`core/config.py:281` bounds nothing), and a file that is
  perfect in all five then shares that weight for every score: its headline is 0
  (`scoring.py:257`). `ScoreWithinDimensions` allows 0 for weightless dimensions only.
* Registered field names use the dictionary's spelling, so later comparisons may report
  drift that is not there; the comparison and the next number are separate reads, so
  versions of other runs may lie between (`Precedes` in `DriftTruthful`: the drift is
  against an earlier version, and those passed over were committed by other runs).
* `OutOfRangeRule` compares sentinels with the text of a float, and `InvalidTypeRule`
  counts every value of a column once fewer than 95% are numeric.

## 4. Proofs

TLAPS proves the theorems for every value of the constants that satisfies the named
assumptions. Every proof of an invariant has the same layout: an inductive invariant
that is a conjunction of named parts, one lemma per action or kind of step, and a short
last step that combines them. What is proved of each module:

| Proof module | Theorems (property) | Assumed of the constants |
|---|---|---|
| `IngestionProofs` | `TypeSafe` (`TypeOK`), `FilesBacked` (`BronzeBacked`), `OneCanonicalRecord` (`SingleCanonical`), `RecordsAreDurable` (`DurableRecords`), `CoverageStaysFresh` (`CoverageFresh`), `UploadsKept` (`UploadKept`), `BatchesTruthful` (`BatchTruthful`), `StatusWritesGuarded` (`GuardedWrites`), `CountsAddUp`, `RowsStayLinked` | names, batches, objects are naturals; files are drawn from `Keys`; natural bounds; `None` is none of these and no outcome; finitely many names (the column is `String(512)`) |
| `FrameBuildProofs` | `BuildTypeSafe`, `ReadingsSurvive`, `CountedOnce`, `ReplaysPointBack`, `RowsPartitioned` (`RowsKept`), `AmbiguousUnreachable`, `OutcomesAreStorable` | `BuildAssumption`: times and limits are naturals, positions finite |
| `FrameStoreProofs` | `TypeOK`, `SequencesSound`, `NoDangling`, `PayloadHeld`, `PointersTruthful`, `OthersUntouched` | `StoreAssumption`, `BuiltAssumption`: naturals; a file's frames stand in order and replays point back, which `OutcomesAreStorable` proves of the frames `FrameBuild` hands over, listed in the order of their sequences |
| `AnalysisProofs` | `RegistrySound`, `DriftTruthful`, `JudgementSound` (and its half `ReadyIsSound`), `AbortExplained`, and `RegistrationIsSerial` (the refinement `SerialRegistry`) | `RunsAssumption`: a run is a sequence that holds a file once; `QualityAssumption`, `FilesAssumption`: a file is a table under its header, the dictionary is one its loader accepts, there is a timestamp format, the limits are in their ranges and the weights are not negative |
| `ChargerDayProofs` | `NoSampleLost`, `GapsAreSilence`, `CountsAgree`, `ReportCurrent`, `ReconcileIdempotent` | `PolicyAssumption`, `FleetAssumption`: settings and dates are naturals, files, their samples and chargers finite, registry columns well formed |
| `SilverProofs` | `NormalizedWhole`, `NothingFabricated`, `SignalTruthful`, `PagesExact`, `NormalizeIdempotent` | `FramesAssumption`, `LimitAssumption`: finitely many frames of finitely many rows, integer keys, a page of at least one record |
| `EventsProofs` | `SessionsTruthful`, `AlarmsExact`, `ChangesExact`, `WindowIsolated`, `ReadsTruthful`, and `TimelineCutsNothing` for every limit | `HistoriesAssumption`, `ObservationsAssumption`, `BoundsAssumption`, `FloorAssumption`: finitely many slots with integer times and sequences, integer energies, begin times and counters, finitely many flags in an observation, `None` is none of these |

### The arguments

**`TypeSafe`.** `TypeOK` alone is not inductive: a step that reads `Source(n)` needs the
reference to be readable. `TypeInv` adds `RowsOK` (a pending row has its content) and
`WorkerOK` (what the worker holds at each `pc`).

**`FilesBacked`, `OneCanonicalRecord`, `RecordsAreDurable`.** `FileInv` adds `Continues`
(the session holds every committed record unchanged), that the file in hand is
registered, and `tx = db` when idle. The two registering steps rest on `AddFileRecords`:
a fresh object is nobody's, because a registered object holds a content and a fresh one
holds none.

**Uploads, batches and coverage.** Most actions touch one or two columns of the database, so
`StepKind` first reduces `Next` to a handful of kinds of step (`StillStep`, ...,
`RollbackStep`), and each invariant is proved over these. `LinkInv` says that a row that
leads to a file leads to a registered one, what the analysis and the outcomes in hand
stand for, and that each reference is reported once. On it rest three more. `UploadInv`
(`Kept`): an accepted content is staged or registered, in the session always and in the
committed database while no upload command runs, since between acknowledgement and
commit only the session knows the file. `CompletedInv`: a batch stored as COMPLETED
stands on usable files. `CoverInv`: committed coverage is what the usable files give, and
the session's is except for the files the command has still to reconcile (`FreshBut`,
`Unsettled`). The conditions of
the theorems are the ones the code needs, and the runs show that each is needed:
`UploadsKept` speaks of executions without a killed worker (run `killed`);
`StatusWritesGuarded` of hosts that do not archive, and `BatchesTruthful` of those or of
executions without a fault, because a failing archive move marks a record FAILED
without asking the table; `CoverageStaysFresh` of chargers of the fleet whose days are
reconciled.

**`FrameBuildProofs`.** `Inv` has three parts. `Keyed`: the occurrence indexes of a
position number its rows from 0 without a hole, so a slice has exactly one row per
position (`SliceRow`). `Grouped`: every verdict of the open group stands on the
canonical candidates before it, and these have different payloads. `Listed`: the frames
of a closed group are exactly its candidates. The heart is `VerdictSound`: the first
candidate holds every position of the group, so it stays the earliest canonical one, a
later candidate always shares a position with it (the AMBIGUOUS branch is dead), and one
that contradicts it nowhere is contained in it. The documentation counts AMBIGUOUS
frames as canonical and `CANONICAL_CLASSIFICATIONS` does not; `AmbiguousUnreachable`
shows that the difference has no effect. For `RowsPartitioned` a second layer, `Traced`,
follows each row to the one frame or list that took it: the slices of a group partition
it up to the safety valve. `OutcomesAreStorable` joins the two halves of the component:
it is what `BuiltAssumption` of `FrameStore` takes for granted.

**`FrameStoreProofs`.** `StoreInv` holds of the committed tables and of the session's:
identifiers are fresh, identities unique because an insert takes the next free sequence
of its time, sources and rows lead to stored frames, pointers to earlier canonical ones
(`Sound`), and the frames of a reconstructed file are there (`Held`). `Follows` relates
the two: the session keeps what is committed about a file until it has reconstructed it.
A frame disappears only with its last source, which gives `NoDangling` and
`OthersUntouched`.

**`AnalysisProofs`.** `AnalysisInv` says that the committed versions, and those each
worker sees, are numbered without a hole and do not clash, that one open transaction at
most holds new ones, and that a number a worker took is at most one more than what it
sees by now (`Numbering`). An insert that clashes with nothing then has exactly the next
number (`Extended`). Each commit is a step of `SchemaRegistry`: `RegistrationIsSerial`
maps `Init` to `Init`, a commit to a registration and every other step to a stutter.

`AbortsAreExplained` has a part about the findings and one about the registry. Rules
write findings of different codes, and within a rule the pairs of findings that share an
issue hash are listed one rule after the other. `AbortInv` (`Registering`) says that
the versions a worker sees have insertable fields, and that while it registers a header
none of its own new versions is of that header or numbered as high: so an insert can
clash only with a version another run committed. The list
of reasons used to be incomplete and held by the data of the instance only; the proof
completed it (`DescribedAlike`, `MissingTwice`, `FoundTwice`), and the files `glitch`
and `wild` were added to the run for two sentinels and for both bounds of a column.

`JudgementStaysSound` needs `ScoreInv`: what is scored had its event times read, so it
has a row, a column and a group of logical keys, and no dimension divides by zero. Each
dimension is clamped, so it is a percentage, and the headline is a weighted mean of
them. The weights are those the dictionary of `compute_quality_score` gives, so equal
dimensions share one; with a positive total the headline lies between the worst and the
best of them (`WeightedSum`, `QuotientBetween`), and with a total of 0 it is 0 and each
score is one of a dimension that weighs nothing (`Headlined`). Weights are natural numbers
(`QualityAssumption`); the settings also accept negative ones, of which nothing is said.

**`ChargerDayProofs`.** `DayInv` says that the summary of the last pass describes the
tables until anything changes (`Reconciled`) and that the file-days are those of the
profiled files (`Split`). Counting rests on the sum lemmas of `SetFacts`; that the gaps
are the silences rests on the neighbours of a finite set of instants.

**`SilverProofs`.** `SilverInv` says that the records and the provenance of a frame are
together the resolution of the rows of one file (`Derived`), whatever was normalised and
reconstructed before; what `ResolveSound` shows of one resolution then holds of the
tables. Its proof showed that `NormalizeIdempotent` used to be stated too strongly: a
frame whose last resolution had no field at all has no provenance that tells which file
wrote it. `WalkInv` says that a walk has returned, in order, every lasting record up to
its cursor; it needs that a finite set of keys can be put in order (`OrderExists`).

**`EventsProofs`.** A late frame voids the window and a failed rebuild changes nothing,
so all rests on what a successful rebuild stores (`Rebuild`). The observations of a
window, in order, list its rows once (`Listed`, `Rowed`), and each loop has an invariant
of the observations read so far. `AlarmsSoFar`: the open interval is a run of raised
observations up to the last, a closed one a run that a cleared observation ended, and
every raised observation is in one. `SessionsSoFar`: the open session tells the
observations since its first (`Told`: the one id, the largest energy, the last stop
reason, the charging span), the closed ones tell earlier, separate stretches, and every
charging observation is in one; closing keeps it wherever the code closes
(`CloseKeeps`: a new id, an end, the end of the data). `ToldFaithful` turns positions
into the sets of observations the property speaks of. The proof showed that two parts
of `SessionsTruthful` held by the data of the instance only. A charger may report a begin
time after the frame that carries it, and the code takes it as the start: a session may
then start after its end, and a gap between its first frame and that start does not lower
its confidence. `TypeOK` no longer orders start and end, and high confidence speaks of
the time from the session's start.

`ReadsStayTruthful` has an argument for each read. An event the timeline leaves out was
missed by its own table's page or cut after the merge, and in both cases as many
events that start no later are shown (`MergedPrefix`, `TableMisses`); this needs that
every table is finite and its events dated (`TablesDated`). The loop of the counter
keeps a ledger: after each reading the tallies are the numbers of consecutive pairs read
so far that rise, stay and fall, and the maximum is the largest reading
(`NextCounted`). The intervals between neighbouring timestamps add up to the extent of
the history (`NeighboursSpan`), so what is no gap is the rest (`ReadyIsObserved`).

**Induction.** The provers cannot use a theorem with an operator parameter, so
`SetFacts` gets its inductions from the existence of a least counterexample: a set of
naturals has a least element and a set of subsets of a finite set a smallest one
(`WFMin`), which speak of a set and not of a predicate. From these come greatest
elements, finite images, that a sum over a finite set exists, is unique, and adds up
over a partition, that a finite set of instants can be put in order, that a sum of
weighted values lies between the extremes, and induction over the positions of a
sequence (`Climb`). The loops of `Events` and `Continuity` are recursive functions over
positions; that such a function exists is proved where it is used (`AlarmRunExists`,
`SessionRunExists`, `CounterRunExists`).

### Only model-checked

* Liveness (`BatchResolved`), and anything with `ENABLED`: outside the prover's reach.
* The runs that expect a violation.

## 5. Not modelled, and what is left

* Two workers that race for one batch or one checksum (`Ingestion` runs one command at
  a time; `Analysis` models the race of the registry), and a sender that replaces an
  inbox file between the read and the move.
* The topology resolver, which decides `Expected` of `FrameBuild`, and the topology
  tracker of the history.
* Decoding CSV text, loading the dictionary files, the heuristic classifier, the mapping
  coverage report: text processing without state.
* Research (floating-point statistics over read-only queries), routing and response
  schemas of the API, rendering in the browser, DDL and deployment. The constraints the
  code relies on are in the models where they bite.

Every invariant and action property that a passing run checks is now also proved. What
would say more about the system, in this order: a second ingestion worker, so that the
unique constraint on the checksum and the status of a batch are raced for; the topology
resolver as a module whose result `FrameBuild` takes as `Expected`; the queries of
Research that read sessions and alarms back.

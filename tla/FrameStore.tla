----------------------------- MODULE FrameStore -----------------------------
(***************************************************************************)
(* Persistence of reconstructed frames (FrameReconstructionService and      *)
(* FrameRepository).  Files of one charger overlap: a payload that is       *)
(* already stored is not inserted again, the file becomes one more source   *)
(* of the stored frame.  reconstruct runs one file in a transaction,        *)
(* reconstruct-day runs a day's files in one.                               *)
(*                                                                          *)
(* What a file reconstructs to is fixed with its bytes: a sequence of       *)
(* frames, as FrameBuild produces it, in the variable content.  A frame's   *)
(* rows are named by its place in that sequence, a file's unassigned rows   *)
(* by 0.  One charger, one reconstruction version.                          *)
(***************************************************************************)
EXTENDS Naturals, Sequences, FiniteSets, FileStatus

CONSTANTS
  Files,        \* telemetry files, numbered in the order they were received
  Times,        \* event times
  Payloads,     \* frame fingerprints
  Outcomes,     \* what a file may reconstruct to
  MaxRuns,      \* bound on the reconstructions of a file that persist
  None          \* no replay target

(* EXACT_ROW_DUPLICATE is declared in the code and given to no frame.       *)
Classes == {"UNIQUE", "SAME_TIMESTAMP_DISTINCT_FRAME", "FULL_FRAME_REPLAY",
            "PARTIAL_FRAME_REPLAY", "AMBIGUOUS"}

(* A ReconstructedFrame; replayOf is the sequence of the frame it repeats.  *)
BuiltFrames == [time : Times, seq : Nat, fp : Payloads, class : Classes,
                replayOf : Nat \cup {None}]
Outcome == [frames : Seq(BuiltFrames), unassigned : BOOLEAN]

ASSUME StoreAssumption ==
  /\ Files \subseteq Nat /\ Times \subseteq Nat /\ MaxRuns \in Nat
  /\ Outcomes \subseteq Outcome
  /\ None \notin Nat

(* The frames of one event time stand in the order of their sequences, and  *)
(* a replay names an earlier canonical one: SourceOrder and                 *)
(* ReplaysContained of FrameBuild, for the list its groups are appended to. *)
InOrder(s) ==
  \A i, j \in DOMAIN s : i < j /\ s[i].time = s[j].time => s[i].seq < s[j].seq
PointsBack(s) ==
  \A i, j \in DOMAIN s :
    s[i].time = s[j].time /\ s[j].seq = s[i].replayOf =>
      /\ s[j].seq < s[i].seq
      /\ s[j].class \in {"UNIQUE", "SAME_TIMESTAMP_DISTINCT_FRAME"}
      /\ s[i].class = "FULL_FRAME_REPLAY" => s[j].fp = s[i].fp

ASSUME BuiltAssumption ==
  \A o \in Outcomes : InOrder(o.frames) /\ PointsBack(o.frames)

VARIABLES
  content,      \* what each file reconstructs to
  db,           \* committed tables
  tx,           \* the tables as the running session sees them
  day           \* the reconstruct-day command in progress

vars == <<content, db, tx, day>>

(* A uuid4 is fresh: the file, the place and the run that made the frame.   *)
FrameIds == [file : Files, place : Nat, run : Nat]
Stored == [time : Times, seq : Nat, fp : Payloads, class : Classes,
           replayOf : FrameIds \cup {None}]
Sources == [frame : FrameIds, file : Files, primary : BOOLEAN]
RowLinks == [frame : FrameIds, file : Files, place : Nat]
FrameStates == {"READY_FOR_NORMALIZATION", "FRAME_RECONSTRUCTION",
                "FRAMES_RECONSTRUCTED"}

(* The tables of the database, with frames as a function of their ids.      *)
Tables(d) ==
  /\ DOMAIN d = {"status", "runs", "frames", "sources", "rows", "findings"}
  /\ d.status \in [Files -> FrameStates] /\ d.runs \in [Files -> Nat]
  /\ DOMAIN d.frames \in SUBSET FrameIds
  /\ \A x \in DOMAIN d.frames : d.frames[x] \in Stored
  /\ d.sources \in SUBSET Sources /\ d.rows \in SUBSET RowLinks
  /\ d.findings \in [Files -> SUBSET (Classes \cup {"UNASSIGNED_RAW_ROW"})]

Commands == [active : BOOLEAN, queue : SUBSET Files, done : SUBSET Files,
             aborted : BOOLEAN]

NoCommand == [active |-> FALSE, queue |-> {}, done |-> {}, aborted |-> FALSE]

Init ==
  /\ content \in [Files -> Outcomes]
  /\ db = [status |-> [f \in Files |-> "READY_FOR_NORMALIZATION"],
           runs |-> [f \in Files |-> 0], frames |-> <<>>,
           sources |-> {}, rows |-> {}, findings |-> [f \in Files |-> {}]]
  /\ tx = db
  /\ day = NoCommand

-----------------------------------------------------------------------------
(* delete_for_file: the frames this file contributed to; only those it      *)
(* alone contributed to are deleted, after the replay pointers at them.     *)
SourcedBy(d, f) == {s.frame : s \in {s \in d.sources : s.file = f}}
SharedWith(d, f) == {x \in SourcedBy(d, f) :
                       \E s \in d.sources : s.frame = x /\ s.file # f}

(* Seeded error: pointers at the deleted frames stay.                       *)
DeleteKeepsPointers(d, f) ==
  LET candidates == SourcedBy(d, f)
      exclusive == candidates \ SharedWith(d, f) IN
  [d EXCEPT
     !.frames = [x \in DOMAIN d.frames \ exclusive |-> d.frames[x]],
     !.sources = {s \in @ : ~(s.frame \in candidates /\ s.file = f)},
     !.rows = {r \in @ : ~(r.frame \in candidates /\ r.file = f)}]

DeleteForFile(d, f) ==
  LET candidates == SourcedBy(d, f)
      exclusive == candidates \ SharedWith(d, f) IN
  [d EXCEPT
     !.frames = [x \in DOMAIN d.frames \ exclusive |->
                   IF d.frames[x].replayOf \in exclusive
                   THEN [d.frames[x] EXCEPT !.replayOf = None]
                   ELSE d.frames[x]],
     !.sources = {s \in @ : ~(s.frame \in candidates /\ s.file = f)},
     !.rows = {r \in @ : ~(r.frame \in candidates /\ r.file = f)}]

(* _existing_fingerprints: stored frames with a payload of the file, by     *)
(* payload alone.  Of several frames with one payload, which row the dict   *)
(* keeps is the database's choice.                                          *)
WithPayload(d, p) == {x \in DOMAIN d.frames : d.frames[x].fp = p}
Known(d) == {d.frames[x].fp : x \in DOMAIN d.frames}

(* The places of a file's frames that are new, and those that are reused.   *)
Places(f) == DOMAIN content[f].frames
New(d, f) == {i \in Places(f) : content[f].frames[i].fp \notin Known(d)}
Reused(d, f) == Places(f) \ New(d, f)

ReusedPayloads(d, f) == {content[f].frames[i].fp : i \in Reused(d, f)}
Lookups(d, f) == {e \in [ReusedPayloads(d, f) -> DOMAIN d.frames] :
                    \A p \in ReusedPayloads(d, f) : e[p] \in WithPayload(d, p)}

(* _next_free_sequences, and its fallback when nothing is stored at the     *)
(* time: the sequence of the file's first new frame there.                  *)
SequencesAt(d, t) == {d.frames[x].seq : x \in {y \in DOMAIN d.frames :
                                                 d.frames[y].time = t}}
NewAt(d, f, t) == {i \in New(d, f) : content[f].frames[i].time = t}
FirstFree(d, f, t) ==
  IF SequencesAt(d, t) # {}
  THEN 1 + CHOOSE n \in SequencesAt(d, t) : \A m \in SequencesAt(d, t) : m <= n
  ELSE content[f].frames[CHOOSE i \in NewAt(d, f, t) :
                           \A j \in NewAt(d, f, t) : i <= j].seq

(* Seeded errors: the algorithm's own sequence is stored; the allocation    *)
(* starts one too low.                                                      *)
AssignedPerFile(d, f, i) == content[f].frames[i].seq
AssignedOneLess(d, f, i) ==
  LET t == content[f].frames[i].time IN
  FirstFree(d, f, t) + Cardinality({j \in NewAt(d, f, t) : j < i}) - 1

AssignedSequence(d, f, i) ==
  LET t == content[f].frames[i].time IN
  FirstFree(d, f, t) + Cardinality({j \in NewAt(d, f, t) : j < i})

NewId(d, f, i) == [file |-> f, place |-> i, run |-> d.runs[f]]

(* Seeded error: the target is looked up by sequence alone.                 *)
ReplayTargetAnyTime(d, f, i) ==
  LET b == content[f].frames[i]
      targets == {j \in New(d, f) : content[f].frames[j].seq = b.replayOf} IN
  IF b.replayOf = None \/ targets = {}
  THEN None ELSE NewId(d, f, CHOOSE j \in targets : TRUE)

(* Replay pointers connect frames inserted by the same run.                 *)
ReplayTarget(d, f, i) ==
  LET b == content[f].frames[i]
      targets == {j \in NewAt(d, f, b.time) :
                    content[f].frames[j].seq = b.replayOf} IN
  IF b.replayOf = None \/ targets = {}
  THEN None ELSE NewId(d, f, CHOOSE j \in targets : TRUE)

NewFrame(d, f, i) ==
  LET b == content[f].frames[i] IN
  [time |-> b.time, seq |-> AssignedSequence(d, f, i), fp |-> b.fp,
   class |-> b.class, replayOf |-> ReplayTarget(d, f, i)]

(* The stored frame a place is mapped to, under the lookup e.               *)
FrameFor(d, f, i, e) ==
  IF i \in New(d, f) THEN NewId(d, f, i) ELSE e[content[f].frames[i].fp]

(* Unassigned rows are attached to the first frame the run inserted.        *)
Anchors(d, f) ==
  {i \in New(d, f) : \A j \in New(d, f) : i <= j}

(* _persist_findings: one finding per kind of issue, named here by the      *)
(* class that raises it; those of the frame's structure are left out.       *)
Issues(f) ==
  ({content[f].frames[i].class : i \in Places(f)} \ {"UNIQUE"})
    \cup {x \in {"UNASSIGNED_RAW_ROW"} : content[f].unassigned}

(* Seeded error: a reused frame takes the class it has in this file.        *)
FramesOverwritten(d, f, e) ==
  LET ids == {NewId(d, f, i) : i \in New(d, f)}
      Reuse(x) == {i \in Reused(d, f) : e[content[f].frames[i].fp] = x} IN
  [x \in DOMAIN d.frames \cup ids |->
     IF x \in ids THEN NewFrame(d, f, x.place)
     ELSE IF Reuse(x) = {} THEN d.frames[x]
     ELSE [d.frames[x] EXCEPT !.class =
             content[f].frames[CHOOSE i \in Reuse(x) : TRUE].class]]

(* insert_frames; a stored frame that is reused stays as it is.             *)
FramesWith(d, f, e) ==
  LET ids == {NewId(d, f, i) : i \in New(d, f)} IN
  [x \in DOMAIN d.frames \cup ids |->
     IF x \in ids THEN NewFrame(d, f, x.place) ELSE d.frames[x]]

(* _source_row: the run that inserts a frame is its primary source.         *)
SourceRows(d, f, e) ==
  {[frame |-> FrameFor(d, f, i, e), file |-> f, primary |-> i \in New(d, f)] :
     i \in Places(f)}

(* Seeded error: the rows of reused frames are not mapped.                  *)
RowRowsOfNew(d, f, e) ==
  {[frame |-> NewId(d, f, i), file |-> f, place |-> i] : i \in New(d, f)}
    \cup {[frame |-> NewId(d, f, i), file |-> f, place |-> 0] :
            i \in {j \in Anchors(d, f) : content[f].unassigned}}

(* _row_rows and _unassigned_row_rows.                                      *)
RowRows(d, f, e) ==
  {[frame |-> FrameFor(d, f, i, e), file |-> f, place |-> i] : i \in Places(f)}
    \cup {[frame |-> NewId(d, f, i), file |-> f, place |-> 0] :
            i \in {j \in Anchors(d, f) : content[f].unassigned}}

(* _persist, on the tables that delete_for_file left.                       *)
InsertFor(d, f, e) ==
  [d EXCEPT !.runs[f] = @ + 1,
            !.frames = FramesWith(d, f, e),
            !.sources = @ \cup SourceRows(d, f, e),
            !.rows = @ \cup RowRows(d, f, e),
            !.findings[f] = Issues(f)]

(* Two frames of the file are mapped to one stored frame: the second source *)
(* row violates uq_telemetry_frame_source_identity.                         *)
Collides(d, f) ==
  \E i, j \in Reused(d, f) :
    i # j /\ content[f].frames[i].fp = content[f].frames[j].fp

-----------------------------------------------------------------------------
CanBegin(d, f) == CanTransition(d.status[f], "FRAME_RECONSTRUCTION")

Persisted(d, f, e) ==
  [InsertFor(DeleteForFile(d, f), f, e)
     EXCEPT !.status[f] = "FRAMES_RECONSTRUCTED"]

(* reconstruct <file>: commits, or changes nothing.                         *)
ReconstructFile(f) ==
  /\ ~day.active /\ db.runs[f] < MaxRuns
  /\ CanBegin(db, f)
  /\ ~Collides(DeleteForFile(db, f), f)
  /\ \E e \in Lookups(DeleteForFile(db, f), f) : db' = Persisted(db, f, e)
  /\ tx' = db'
  /\ UNCHANGED <<content, day>>

(* reconstruct-day: every usable file of the charger-day, in receipt order. *)
StartDay ==
  /\ ~day.active
  /\ \A f \in Files : db.runs[f] < MaxRuns
  /\ day' = [NoCommand EXCEPT !.active = TRUE,
               !.queue = {f \in Files : db.status[f] \in UsableFileStates}]
  /\ tx' = db
  /\ UNCHANGED <<content, db>>

NextInDay(f) == day.active /\ f \in day.queue /\ \A g \in day.queue : f <= g

DayFile(f) ==
  /\ NextInDay(f) /\ ~day.aborted
  /\ CanBegin(tx, f)
  /\ ~Collides(DeleteForFile(tx, f), f)
  /\ \E e \in Lookups(DeleteForFile(tx, f), f) : tx' = Persisted(tx, f, e)
  /\ day' = [day EXCEPT !.queue = @ \ {f}, !.done = @ \cup {f}]
  /\ UNCHANGED <<content, db>>

(* IllegalStateTransition, before anything else.                            *)
DayFileSkipped(f) ==
  /\ NextInDay(f) /\ ~CanBegin(tx, f)
  /\ day' = [day EXCEPT !.queue = @ \ {f}]
  /\ UNCHANGED <<content, db, tx>>

(* The file cannot be read, or the transaction is aborted already: the      *)
(* exception is swallowed, the first status write of the file stays.        *)
DayFileFails(f) ==
  /\ NextInDay(f) /\ CanBegin(tx, f)
  /\ tx' = [tx EXCEPT !.status[f] = "FRAME_RECONSTRUCTION"]
  /\ day' = [day EXCEPT !.queue = @ \ {f}]
  /\ UNCHANGED <<content, db>>

(* A unique violation inside the shared transaction: PostgreSQL refuses     *)
(* every later statement of it, the commit included.                        *)
DayFileCollides(f) ==
  /\ NextInDay(f) /\ ~day.aborted
  /\ CanBegin(tx, f)
  /\ Collides(DeleteForFile(tx, f), f)
  /\ tx' = [tx EXCEPT !.status[f] = "FRAME_RECONSTRUCTION"]
  /\ day' = [day EXCEPT !.queue = @ \ {f}, !.aborted = TRUE]
  /\ UNCHANGED <<content, db>>

EndDay ==
  /\ day.active /\ day.queue = {}
  /\ db' = IF day.aborted THEN db ELSE tx
  /\ tx' = db'
  /\ day' = NoCommand
  /\ UNCHANGED content

Next ==
  \/ StartDay \/ EndDay
  \/ \E f \in Files : \/ ReconstructFile(f) \/ DayFile(f) \/ DayFileSkipped(f)
                      \/ DayFileFails(f) \/ DayFileCollides(f)

Spec == Init /\ [][Next]_vars

-----------------------------------------------------------------------------
(* The tables and the command keep their types.                             *)
TypeOK ==
  /\ content \in [Files -> Outcomes]
  /\ Tables(db) /\ Tables(tx)
  /\ day \in Commands

(* Frame identity (uq_telemetry_source_frame_identity): two stored frames   *)
(* never share event time and sequence, whichever files put them there.     *)
IdentityUnique ==
  \A d \in {db, tx} : \A x, y \in DOMAIN d.frames :
    d.frames[x].time = d.frames[y].time /\ d.frames[x].seq = d.frames[y].seq
    => x = y

(* Nothing points at a frame that is gone, every frame has a file it came   *)
(* from, and rows are mapped only through a source of their file.           *)
NoDangling ==
  \A d \in {db, tx} :
    /\ \A s \in d.sources : s.frame \in DOMAIN d.frames
    /\ \A x \in DOMAIN d.frames :
         /\ \E s \in d.sources : s.frame = x
         /\ d.frames[x].replayOf \in DOMAIN d.frames \cup {None}
    /\ \A r \in d.rows : \E s \in d.sources :
         s.frame = r.frame /\ s.file = r.file

(* A reconstructed file finds each of its frames in the store: exactly one  *)
(* row mapping per place, onto a frame with that payload, whatever other    *)
(* files were reconstructed since.  Its unassigned rows are there too if    *)
(* its last run inserted a frame to attach them to.                         *)
PayloadHeld ==
  \A d \in {db, tx} : \A f \in Files :
    LET Links(i) == {r \in d.rows : r.file = f /\ r.place = i}
        own == {x \in DOMAIN d.frames : x.file = f /\ x.run + 1 = d.runs[f]} IN
    d.status[f] = "FRAMES_RECONSTRUCTED" =>
      /\ \A i \in Places(f) :
           /\ Cardinality(Links(i)) = 1
           /\ \A r \in Links(i) : d.frames[r.frame].fp = content[f].frames[i].fp
      /\ content[f].unassigned /\ own # {} => Cardinality(Links(0)) = 1

(* A stored replay pointer tells the truth, although sequences are          *)
(* reassigned and frames come and go: it leads to an earlier canonical      *)
(* frame of the same event time, and a full replay to an equal payload.     *)
PointersTruthful ==
  \A d \in {db, tx} : \A x \in DOMAIN d.frames :
    d.frames[x].replayOf # None =>
      LET target == d.frames[d.frames[x].replayOf] IN
      /\ target.time = d.frames[x].time /\ target.seq < d.frames[x].seq
      /\ target.class \in {"UNIQUE", "SAME_TIMESTAMP_DISTINCT_FRAME"}
      /\ d.frames[x].class = "FULL_FRAME_REPLAY" => target.fp = d.frames[x].fp

(* The frames that one run of a file inserts at one event time keep the     *)
(* order they have in the file.                                             *)
OwnOrderKept ==
  \A d \in {db, tx} : \A x, y \in DOMAIN d.frames :
    /\ x.file = y.file /\ x.run = y.run /\ x.place < y.place
    /\ d.frames[x].time = d.frames[y].time
    => d.frames[x].seq < d.frames[y].seq

(* Sequences allocated after the highest stored one neither collide nor run   *)
(* against the order of the file that brought them.                          *)
SequencesSound == IdentityUnique /\ OwnOrderKept

(* What the store knows of the frames of a file.                            *)
Provenance(d, g) ==
  [sources |-> {s \in d.sources : s.file = g},
   rows |-> {r \in d.rows : r.file = g},
   frames |-> {[d.frames[x] EXCEPT !.replayOf = None] : x \in SourcedBy(d, g)}]

(* delete_for_file: "reconstructing one file never destroys another file's  *)
(* provenance".  What is committed for a file changes only when that file   *)
(* is reconstructed itself.                                                 *)
OthersUntouched ==
  [][\A g \in Files : db'.runs[g] = db.runs[g] =>
       Provenance(db', g) = Provenance(db, g)]_vars
=============================================================================

----------------------------- MODULE FrameBuild -----------------------------
(***************************************************************************)
(* Reconstruction of one file's frames (pipelines/frame_reconstruction).    *)
(* The key builder reads the rows once, in source order; then every event   *)
(* time is sliced into frame candidates and each candidate is classified    *)
(* against the ones before it.  The loops of the code are the steps of this *)
(* module: one row, one group, one candidate at a time.                     *)
(*                                                                          *)
(* An event time stands for the pair (charger, event time) a group is keyed *)
(* by.  Fingerprints are perfect: a row fingerprint is a value, a frame's   *)
(* fingerprint is the function from its positions to their values.          *)
(***************************************************************************)
EXTENDS Naturals, Sequences, FiniteSets

CONSTANTS
  Times,        \* event times, in chronological order
  Positions,    \* logical positions a row can resolve to
  Values,       \* row fingerprints
  InputRows,    \* the rows a file may consist of
  Expected,     \* positions of the resolved topology
  MaxFrames,    \* max_frames_per_timestamp
  SeverePct,    \* severely_incomplete_below_pct
  MaxRows,      \* bound on the rows of a file
  None          \* an absent event time, position or replay target

(* A row as the profiler hands it over: time or position may be missing.    *)
SourceRows ==
  [time : Times \cup {None}, pos : Positions \cup {None}, fp : Values]

ASSUME BuildAssumption ==
  /\ Times \subseteq Nat /\ MaxRows \in Nat /\ MaxFrames \in Nat \ {0}
  /\ IsFiniteSet(Positions) /\ Expected \subseteq Positions
  /\ SeverePct \in 0 .. 100
  /\ InputRows \subseteq SourceRows
  /\ None \notin Times \cup Positions \cup Nat

VARIABLES
  file,         \* the rows read so far
  pc,           \* "key", "group", "classify" or "done"
  counter,      \* occurrence_counter
  byTime,       \* by_timestamp: the assigned rows of a group
  unassigned,   \* rows kept without a frame position
  todo,         \* groups still to be reconstructed
  now,          \* the group under construction
  results,      \* its classified candidates, by sequence
  seen,         \* sequences whose fingerprint is in seen_fingerprints
  canon,        \* sequences in canonical_payloads
  frames,       \* reconstructed frames
  failed        \* failed_groups

grouping == <<now, results, seen, canon>>
vars == <<file, pc, counter, byTime, unassigned, todo, grouping, frames, failed>>

(* EXACT_ROW_DUPLICATE is declared in the code and given to no frame.       *)
Classes == {"UNIQUE", "SAME_TIMESTAMP_DISTINCT_FRAME", "FULL_FRAME_REPLAY",
            "PARTIAL_FRAME_REPLAY", "AMBIGUOUS"}
Canonical == {"UNIQUE", "SAME_TIMESTAMP_DISTINCT_FRAME"}
Statuses == {"COMPLETE", "PARTIAL", "SEVERELY_INCOMPLETE", "MALFORMED",
             "AMBIGUOUS"}

RowNumbers == 1 .. MaxRows
Sequence == 0 .. MaxRows
Refs == [row : RowNumbers, pos : Positions, occ : Nat, fp : Values]
Payloads == UNION {[D -> Values] : D \in SUBSET Positions}
Verdicts == [class : Classes, replayOf : Nat \cup {None}]
Frames == [time : Times, seq : Sequence, payload : Payloads,
           rows : SUBSET RowNumbers, status : Statuses, class : Classes,
           replayOf : Nat \cup {None}]

Init ==
  /\ file = <<>> /\ pc = "key"
  /\ counter = [t \in Times |-> [p \in Positions |-> 0]]
  /\ byTime = [t \in Times |-> {}]
  /\ unassigned = {} /\ todo = {} /\ frames = {} /\ failed = {}
  /\ now = None /\ results = <<>> /\ seen = {} /\ canon = {}

-----------------------------------------------------------------------------
(* LogicalKeyBuilder.build: one row of the ordered pass.                    *)
KeyRow(r) ==
  LET n == Len(file) + 1 IN
  /\ pc = "key" /\ Len(file) < MaxRows
  /\ file' = Append(file, r)
  /\ IF r.time # None /\ r.pos # None
     THEN /\ byTime' = [byTime EXCEPT ![r.time] = @ \cup
               {[row |-> n, pos |-> r.pos, occ |-> counter[r.time][r.pos],
                 fp |-> r.fp]}]
          /\ counter' = [counter EXCEPT ![r.time][r.pos] = @ + 1]
          /\ UNCHANGED unassigned
     ELSE /\ unassigned' = unassigned \cup {[row |-> n, time |-> r.time]}
          /\ UNCHANGED <<byTime, counter>>
  /\ UNCHANGED <<pc, todo, grouping, frames, failed>>

(* build_timestamp_groups: a group per time, unassigned-only times too.     *)
EndOfFile ==
  /\ pc = "key"
  /\ todo' = {t \in Times : \/ byTime[t] # {}
                            \/ \E u \in unassigned : u.time = t}
  /\ pc' = "group"
  /\ UNCHANGED <<file, counter, byTime, unassigned, grouping, frames, failed>>

-----------------------------------------------------------------------------
(* The rows of a group by position, and group.occurrences, which counts     *)
(* them again.                                                              *)
Bucket(t, p) == {r \in byTime[t] : r.pos = p}
Occurrences(t, p) == Cardinality(Bucket(t, p))

(* Seeded error: the smallest count sets the number of frames.              *)
InRangeOfAll(t, k) ==
  \A p \in Positions : Occurrences(t, p) > 0 => k < Occurrences(t, p)

(* frame_count is the largest count, so the sequences below it are those    *)
(* below some position's count.                                             *)
InRange(t, k) == \E p \in Positions : k < Occurrences(t, p)

(* frame_count exceeds the safety valve.                                    *)
Capped(t) == InRange(t, MaxFrames)

(* build_frame_candidates: the sequences of the candidates of a group; one  *)
(* merged candidate when the safety valve closes.                           *)
IsCandidate(t, k) == IF Capped(t) THEN k = 0 ELSE InRange(t, k)

(* rows_by_position: occurrence k of every position that has one.           *)
Slice(t, k) ==
  [p \in {q \in Positions : k < Occurrences(t, q)} |->
     CHOOSE r \in byTime[t] : r.pos = p /\ r.occ = k]

Payload(t, k) == [p \in DOMAIN Slice(t, k) |-> Slice(t, k)[p].fp]

(* _classify_status, for the positions a candidate observed.                *)
ClassifyStatus(t, observed) ==
  LET n == Cardinality(observed)
      m == Cardinality(Expected) IN
  IF Capped(t) THEN "AMBIGUOUS"
  ELSE IF ~(observed \subseteq Expected) THEN "MALFORMED"
  ELSE IF m = 0 THEN "AMBIGUOUS"
  ELSE IF n >= m THEN "COMPLETE"
  ELSE IF 100 * n < SeverePct * m THEN "SEVERELY_INCOMPLETE" ELSE "PARTIAL"

(* _compare: shared positions with a different, or with the same, value.    *)
Differing(a, b) == {p \in DOMAIN a \cap DOMAIN b : a[p] # b[p]}
Matching(a, b) == {p \in DOMAIN a \cap DOMAIN b : a[p] = b[p]}

(* The earliest canonical sequence, and the frame a fingerprint points to.  *)
EarliestCanonical == CHOOSE j \in canon : \A i \in canon : j <= i
SeenAt(payload) == CHOOSE j \in seen : Payload(now, j) = payload

(* Seeded error: a match on some position is taken for a replay before the  *)
(* contradicting positions are looked at.                                   *)
VerdictByMatch(k) ==
  LET p == Payload(now, k)
      first == Payload(now, EarliestCanonical) IN
  IF DOMAIN results = {} THEN [class |-> "UNIQUE", replayOf |-> None]
  ELSE IF \E j \in seen : Payload(now, j) = p
  THEN [class |-> "FULL_FRAME_REPLAY", replayOf |-> SeenAt(p)]
  ELSE IF Matching(p, first) # {}
  THEN [class |-> "PARTIAL_FRAME_REPLAY", replayOf |-> EarliestCanonical]
  ELSE [class |-> "SAME_TIMESTAMP_DISTINCT_FRAME", replayOf |-> None]

(* Seeded error: only the first frame is remembered as a replay target.     *)
VerdictByFirst(k) ==
  LET p == Payload(now, k)
      first == Payload(now, EarliestCanonical) IN
  IF DOMAIN results = {} THEN [class |-> "UNIQUE", replayOf |-> None]
  ELSE IF p = first
  THEN [class |-> "FULL_FRAME_REPLAY", replayOf |-> EarliestCanonical]
  ELSE IF Differing(p, first) # {}
  THEN [class |-> "SAME_TIMESTAMP_DISTINCT_FRAME", replayOf |-> None]
  ELSE [class |-> "PARTIAL_FRAME_REPLAY", replayOf |-> EarliestCanonical]

(* Seeded error: a fragment points at the frame just before it.             *)
VerdictPrevious(k) ==
  LET p == Payload(now, k)
      first == Payload(now, EarliestCanonical) IN
  IF DOMAIN results = {} THEN [class |-> "UNIQUE", replayOf |-> None]
  ELSE IF \E j \in seen : Payload(now, j) = p
  THEN [class |-> "FULL_FRAME_REPLAY", replayOf |-> SeenAt(p)]
  ELSE IF Differing(p, first) # {}
  THEN [class |-> "SAME_TIMESTAMP_DISTINCT_FRAME", replayOf |-> None]
  ELSE [class |-> "PARTIAL_FRAME_REPLAY", replayOf |-> k - 1]

(* classify_group: the verdict on candidate k, in the code's order of       *)
(* tests.                                                                   *)
Verdict(k) ==
  LET p == Payload(now, k)
      first == Payload(now, EarliestCanonical) IN
  IF DOMAIN results = {} THEN [class |-> "UNIQUE", replayOf |-> None]
  ELSE IF \E j \in seen : Payload(now, j) = p
  THEN [class |-> "FULL_FRAME_REPLAY", replayOf |-> SeenAt(p)]
  ELSE IF Differing(p, first) # {}
  THEN [class |-> "SAME_TIMESTAMP_DISTINCT_FRAME", replayOf |-> None]
  ELSE IF Matching(p, first) # {}
  THEN [class |-> "PARTIAL_FRAME_REPLAY", replayOf |-> EarliestCanonical]
  ELSE [class |-> "AMBIGUOUS", replayOf |-> None]

-----------------------------------------------------------------------------
(* Seeded error: fingerprints of the group before are kept.                 *)
OpenGroupKeepsSeen(t) ==
  /\ pc = "group" /\ t \in todo /\ \A u \in todo : t <= u
  /\ now' = t /\ results' = <<>> /\ canon' = {}
  /\ pc' = "classify"
  /\ UNCHANGED <<file, counter, byTime, unassigned, todo, seen, frames, failed>>

(* Groups are reconstructed in chronological order.                         *)
OpenGroup(t) ==
  /\ pc = "group" /\ t \in todo /\ \A u \in todo : t <= u
  /\ now' = t /\ results' = <<>> /\ seen' = {} /\ canon' = {}
  /\ pc' = "classify"
  /\ UNCHANGED <<file, counter, byTime, unassigned, todo, frames, failed>>

(* One iteration of classify_group.  A replay is recorded nowhere: later    *)
(* candidates are compared with the frames that stand.                      *)
ClassifyNext(k) ==
  LET v == Verdict(k) IN
  /\ pc = "classify"
  /\ k \notin DOMAIN results /\ IsCandidate(now, k)
  /\ \A j \in 0 .. k - 1 : j \in DOMAIN results
  /\ results' = [j \in DOMAIN results \cup {k} |->
                   IF j = k THEN v ELSE results[j]]
  /\ IF v.class \in {"FULL_FRAME_REPLAY", "PARTIAL_FRAME_REPLAY"}
     THEN UNCHANGED <<seen, canon>>
     ELSE seen' = seen \cup {k} /\ canon' = canon \cup {k}
  /\ UNCHANGED <<file, pc, counter, byTime, unassigned, todo, now, frames,
                 failed>>

FrameOf(k) ==
  [time |-> now, seq |-> k, payload |-> Payload(now, k),
   rows |-> {Slice(now, k)[p].row : p \in DOMAIN Slice(now, k)},
   status |-> ClassifyStatus(now, DOMAIN Slice(now, k)),
   class |-> results[k].class, replayOf |-> results[k].replayOf]

(* The group's frames are appended once all of it is classified.            *)
CloseGroup ==
  /\ pc = "classify"
  /\ \A k \in Sequence : IsCandidate(now, k) => k \in DOMAIN results
  /\ frames' = frames \cup {FrameOf(k) : k \in DOMAIN results}
  /\ todo' = todo \ {now}
  /\ pc' = "group"
  /\ UNCHANGED <<file, counter, byTime, unassigned, grouping, failed>>

(* An exception in a group is contained: the group has no frames.           *)
GroupFails ==
  /\ pc = "classify"
  /\ failed' = failed \cup {now}
  /\ todo' = todo \ {now}
  /\ pc' = "group"
  /\ UNCHANGED <<file, counter, byTime, unassigned, grouping, frames>>

Finish ==
  /\ pc = "group" /\ todo = {}
  /\ pc' = "done"
  /\ UNCHANGED <<file, counter, byTime, unassigned, todo, grouping, frames,
                 failed>>

Next ==
  \/ \E r \in InputRows : KeyRow(r)
  \/ EndOfFile
  \/ \E t \in Times : OpenGroup(t)
  \/ \E k \in Sequence : ClassifyNext(k)
  \/ CloseGroup \/ GroupFails \/ Finish

Spec == Init /\ [][Next]_vars

-----------------------------------------------------------------------------
(* Every variable of the reconstruction keeps its type.                     *)
TypeOK ==
  /\ file \in Seq(InputRows) /\ Len(file) <= MaxRows
  /\ pc \in {"key", "group", "classify", "done"}
  /\ counter \in [Times -> [Positions -> Nat]]
  /\ byTime \in [Times -> SUBSET Refs]
  /\ unassigned \in SUBSET [row : RowNumbers, time : Times \cup {None}]
  /\ todo \in SUBSET Times /\ failed \in SUBSET Times
  /\ now \in Times \cup {None} /\ (pc = "classify" => now \in todo)
  /\ DOMAIN results \in SUBSET Sequence
  /\ \A k \in DOMAIN results : results[k] \in Verdicts
  /\ seen \in SUBSET DOMAIN results /\ canon \in SUBSET DOMAIN results
  /\ frames \in SUBSET Frames

(* Groups whose frames are in the outcome.                                  *)
Built == IF pc = "key" THEN {} ELSE Times \ (todo \cup failed)

(* Classification never suppresses a reading: every value a position        *)
(* reported at an event time is in a canonical frame of that time, so       *)
(* excluding replays downstream (CANONICAL_CLASSIFICATIONS) loses nothing.  *)
EveryReadingCanonical ==
  \A t \in Built : ~Capped(t) =>
    \A r \in byTime[t] :
      \E f \in frames :
        /\ f.time = t /\ f.class \in Canonical
        /\ r.pos \in DOMAIN f.payload /\ f.payload[r.pos] = r.fp

(* Two canonical frames of one event time never carry the same payload: a   *)
(* retransmission is not counted as a second observation.                   *)
NoDoubleCount ==
  \A f, g \in frames :
    /\ f.time = g.time /\ f.payload = g.payload
    /\ f.class \in Canonical /\ g.class \in Canonical
    => f = g

(* A replay names an earlier canonical frame of its time that holds all it  *)
(* repeats; no other frame names one.                                       *)
ReplaysContained ==
  \A f \in frames :
    IF f.class \in {"FULL_FRAME_REPLAY", "PARTIAL_FRAME_REPLAY"}
    THEN \E g \in frames :
           /\ g.time = f.time /\ g.seq = f.replayOf /\ g.seq < f.seq
           /\ g.class \in Canonical
           /\ \A p \in DOMAIN f.payload :
                p \in DOMAIN g.payload /\ g.payload[p] = f.payload[p]
           /\ f.class = "FULL_FRAME_REPLAY" => g.payload = f.payload
    ELSE f.replayOf = None

(* The last branch of classify_group is never taken: the positions of a     *)
(* candidate are among those of the first one.                              *)
NeverDisjoint == \A f \in frames : f.class # "AMBIGUOUS"

(* A position's rows keep their source order across the frame sequences of  *)
(* a time, and the sequences start at 0 without a hole.                     *)
SourceOrder ==
  \A f \in frames :
    /\ \A k \in 0 .. f.seq : \E g \in frames : g.time = f.time /\ g.seq = k
    /\ \A g \in frames : g.time = f.time /\ f.seq < g.seq =>
         \A m \in f.rows, n \in g.rows : file[m].pos = file[n].pos => m < n

(* Every row of the file is carried by the outcome exactly once: in one     *)
(* frame of its event time, or among the unassigned rows.  Above the safety *)
(* valve the code keeps the first row of each position only.                *)
Placed(n) ==
  LET homes == {f \in frames : n \in f.rows} IN
  \/ /\ \E u \in unassigned : u.row = n
     /\ homes = {}
  \/ /\ \A u \in unassigned : u.row # n
     /\ Cardinality(homes) = 1 /\ \A f \in homes : f.time = file[n].time

EachRowOnce ==
  pc = "done" =>
    \A n \in 1 .. Len(file) :
      \/ Placed(n)
      \/ file[n].time \in failed
      \/ file[n].time # None /\ Capped(file[n].time)

(* A frame is COMPLETE exactly when it holds the expected positions and     *)
(* nothing else (section 21: unexpected positions dominate).                *)
CompleteMeansWhole ==
  \A f \in frames :
    f.status = "COMPLETE" <=>
      DOMAIN f.payload = Expected /\ Expected # {} /\ ~Capped(f.time)

(* The frames of a file are an orderly partition of its rows: every row is    *)
(* carried once, in source order, and a frame said to be complete is whole.  *)
RowsKept == SourceOrder /\ EachRowOnce /\ CompleteMeansWhole
=============================================================================

-------------------------- MODULE FrameBuildProofs --------------------------
(***************************************************************************)
(* Proofs about FrameBuild, for every set of rows, positions, values and    *)
(* event times and for every limit.  Keyed describes the key builder's      *)
(* pass, Grouped the classification of the open group, Listed the frames of *)
(* the closed groups; together with the types they are inductive.  Traced,  *)
(* inductive on top of them, follows the rows of the file into the frames.  *)
(***************************************************************************)
EXTENDS FrameBuild, FiniteSetTheorems, TLAPS

Replays == {"FULL_FRAME_REPLAY", "PARTIAL_FRAME_REPLAY"}

(* Occurrence indexes number the rows of a position from 0 without a hole.  *)
Keyed ==
  \A t \in Times, p \in Positions :
    /\ IsFiniteSet(Bucket(t, p)) /\ Occurrences(t, p) = counter[t][p]
    /\ counter[t][p] <= Len(file)
    /\ \A r \in Bucket(t, p) : r.occ < counter[t][p]
    /\ \A n \in Nat : n < counter[t][p] => \E r \in Bucket(t, p) : r.occ = n
    /\ \A r, s \in Bucket(t, p) : r.occ = s.occ => r = s

(* Payload b holds all of payload a.                                        *)
Within(a, b) == \A p \in DOMAIN a : p \in DOMAIN b /\ b[p] = a[p]

(* A verdict of the open group stands on the candidates before it.          *)
Sound(k) ==
  LET v == results[k] IN
  /\ v.class \in Replays =>
       /\ v.replayOf \in canon /\ v.replayOf < k
       /\ Within(Payload(now, k), Payload(now, v.replayOf))
       /\ v.class = "FULL_FRAME_REPLAY" =>
            Payload(now, v.replayOf) = Payload(now, k)
  /\ v.class \notin Replays => v.class \in Canonical /\ v.replayOf = None

Grouped ==
  pc = "classify" =>
    /\ \A k \in DOMAIN results :
         /\ IsCandidate(now, k) /\ Sound(k)
         /\ \A j \in 0 .. k - 1 : j \in DOMAIN results
    /\ seen = canon
    /\ canon = {k \in DOMAIN results : results[k].class \notin Replays}
    /\ DOMAIN results # {} => 0 \in canon
    /\ \A i, j \in canon : Payload(now, i) = Payload(now, j) => i = j

Listed ==
  /\ pc = "key" => frames = {} /\ failed = {}
  /\ \A f \in frames :
       /\ f.time \notin todo /\ IsCandidate(f.time, f.seq)
       /\ f.payload = Payload(f.time, f.seq)
  /\ \A f, g \in frames : f.time = g.time /\ f.seq = g.seq => f = g
  /\ \A t \in Built : \A k \in Sequence :
       IsCandidate(t, k) => \E f \in frames : f.time = t /\ f.seq = k

Inv == TypeOK /\ Keyed /\ Grouped /\ Listed /\ ReplaysContained
         /\ NoDoubleCount /\ NeverDisjoint

-----------------------------------------------------------------------------
(* A candidate's row at a position is the one with its occurrence index.    *)
LEMMA SliceRow ==
  ASSUME TypeOK, Keyed, NEW t \in Times, NEW k \in Nat, NEW p \in Positions,
         k < Occurrences(t, p)
  PROVE  /\ p \in DOMAIN Slice(t, k) /\ p \in DOMAIN Payload(t, k)
         /\ Slice(t, k)[p] \in byTime[t]
         /\ Slice(t, k)[p].pos = p /\ Slice(t, k)[p].occ = k
         /\ Slice(t, k)[p] \in Refs
         /\ Payload(t, k)[p] = Slice(t, k)[p].fp
<1>0. \E r \in Bucket(t, p) : r.occ = k
  <2>1. k < counter[t][p]
    BY DEF Keyed
  <2> QED
    BY <2>1 DEF Keyed
<1>1. PICK r \in byTime[t] : r.pos = p /\ r.occ = k
  BY <1>0 DEF Bucket
<1>2. p \in DOMAIN Slice(t, k)
  BY DEF Slice
<1>3. Slice(t, k)[p] = CHOOSE s \in byTime[t] : s.pos = p /\ s.occ = k
  BY <1>2 DEF Slice
<1>4. /\ Slice(t, k)[p] \in byTime[t]
      /\ Slice(t, k)[p].pos = p /\ Slice(t, k)[p].occ = k
  BY <1>1, <1>3
<1>5. Slice(t, k)[p] \in Refs
  BY <1>4 DEF TypeOK
<1> QED
  BY <1>2, <1>4, <1>5 DEF Payload

(* The positions of a candidate, and that each of them has a value.         *)
LEMMA SliceDomain ==
  ASSUME NEW t, NEW k
  PROVE  /\ DOMAIN Slice(t, k) = {p \in Positions : k < Occurrences(t, p)}
         /\ DOMAIN Payload(t, k) = {p \in Positions : k < Occurrences(t, p)}
BY DEF Slice, Payload

(* Counts are natural numbers within the bound on the file.                 *)
LEMMA Counts ==
  ASSUME TypeOK, Keyed, NEW t \in Times, NEW p \in Positions
  PROVE  Occurrences(t, p) \in 0 .. MaxRows
<1>1. Occurrences(t, p) = counter[t][p] /\ counter[t][p] <= Len(file)
  BY DEF Keyed
<1>2. counter[t][p] \in Nat /\ Len(file) \in Nat /\ Len(file) <= MaxRows
  BY DEF TypeOK
<1> QED
  BY <1>1, <1>2, BuildAssumption

(* A later candidate repeats positions of the first one only.               *)
LEMMA LaterWithinFirst ==
  ASSUME TypeOK, Keyed, NEW t \in Times, NEW k \in Nat, k # 0,
         IsCandidate(t, k)
  PROVE  /\ ~Capped(t)
         /\ DOMAIN Payload(t, k) # {}
         /\ DOMAIN Payload(t, k) \subseteq DOMAIN Payload(t, 0)
<1>1. ~Capped(t) /\ InRange(t, k)
  BY DEF IsCandidate
<1>2. \A p \in Positions : Occurrences(t, p) \in Nat
  BY Counts
<1>3. /\ DOMAIN Payload(t, k) = {p \in Positions : k < Occurrences(t, p)}
      /\ DOMAIN Payload(t, 0) = {p \in Positions : 0 < Occurrences(t, p)}
  BY SliceDomain
<1>4. PICK p \in Positions : k < Occurrences(t, p)
  BY <1>1 DEF InRange
<1>5. \A q \in Positions : k < Occurrences(t, q) => 0 < Occurrences(t, q)
  BY <1>2
<1> QED
  BY <1>1, <1>3, <1>4, <1>5

(* What is sliced out of the groups depends on the keyed rows alone.        *)
LEMMA SameRows ==
  ASSUME UNCHANGED byTime
  PROVE  /\ \A t, p : /\ Bucket(t, p)' = Bucket(t, p)
                      /\ Occurrences(t, p)' = Occurrences(t, p)
         /\ \A t : Capped(t)' = Capped(t)
         /\ \A t, k : /\ IsCandidate(t, k)' = IsCandidate(t, k)
                      /\ Slice(t, k)' = Slice(t, k)
                      /\ Payload(t, k)' = Payload(t, k)
         /\ \A t, o : ClassifyStatus(t, o)' = ClassifyStatus(t, o)
<1>1. \A t, p : Bucket(t, p)' = Bucket(t, p)
  BY DEF Bucket
<1>2. \A t, p : Occurrences(t, p)' = Occurrences(t, p)
  BY <1>1 DEF Occurrences
<1>3. \A t, k : InRange(t, k)' = InRange(t, k)
  BY <1>2 DEF InRange
<1>4. \A t : Capped(t)' = Capped(t)
  BY <1>3 DEF Capped
<1>5. \A t, k : IsCandidate(t, k)' = IsCandidate(t, k)
  BY <1>3, <1>4 DEF IsCandidate
<1>6. \A t, k : Slice(t, k)' = Slice(t, k)
  BY <1>2 DEF Slice
<1>7. \A t, k : Payload(t, k)' = Payload(t, k)
  BY <1>6 DEF Payload
<1>8. \A t, o : ClassifyStatus(t, o)' = ClassifyStatus(t, o)
  BY <1>4 DEF ClassifyStatus
<1> QED
  BY <1>1, <1>2, <1>4, <1>5, <1>6, <1>7, <1>8

(* The file starts empty.                                                   *)
LEMMA Initial == Init => Inv
<1> SUFFICES ASSUME Init PROVE Inv
  OBVIOUS
<1> USE DEF Init
<1>1. TypeOK
  BY BuildAssumption DEF TypeOK, Refs, Frames
<1>2. \A t \in Times, p \in Positions : Bucket(t, p) = {}
  BY DEF Bucket
<1>3. \A t \in Times, p \in Positions : Occurrences(t, p) = 0
  BY <1>2, FS_EmptySet DEF Occurrences
<1>4. Keyed
  <2> SUFFICES ASSUME NEW t \in Times, NEW p \in Positions
               PROVE  /\ IsFiniteSet(Bucket(t, p))
                      /\ Occurrences(t, p) = counter[t][p]
                      /\ counter[t][p] <= Len(file)
                      /\ \A r \in Bucket(t, p) : r.occ < counter[t][p]
                      /\ \A n \in Nat : n < counter[t][p] =>
                           \E r \in Bucket(t, p) : r.occ = n
                      /\ \A r, s \in Bucket(t, p) : r.occ = s.occ => r = s
    BY DEF Keyed
  <2>1. Bucket(t, p) = {} /\ IsFiniteSet(Bucket(t, p))
    BY <1>2, FS_EmptySet
  <2>2. counter[t][p] = 0 /\ Len(file) = 0 /\ Occurrences(t, p) = 0
    BY <1>3
  <2>3. \A n \in Nat : ~(n < 0)
    OBVIOUS
  <2> QED
    BY <2>1, <2>2, <2>3
<1>5. Grouped /\ Listed
  BY DEF Grouped, Listed, Built
<1>6. ReplaysContained /\ NoDoubleCount /\ NeverDisjoint
  BY DEF ReplaysContained, NoDoubleCount, NeverDisjoint
<1> QED
  BY <1>1, <1>4, <1>5, <1>6 DEF Inv

(* One row of the ordered pass.                                             *)
LEMMA KeyRowStep ==
  ASSUME Inv, NEW r \in InputRows, KeyRow(r)
  PROVE  Inv'
<1> DEFINE n == Len(file) + 1
<1>1. TypeOK /\ Keyed /\ Listed
  BY DEF Inv
<1>2. pc = "key" /\ pc' = "key" /\ Len(file) < MaxRows /\ file' = Append(file, r)
  BY DEF KeyRow
<1>3. /\ file \in Seq(InputRows) /\ Len(file) \in Nat
      /\ file' \in Seq(InputRows) /\ Len(file') = Len(file) + 1
      /\ Len(file') <= MaxRows /\ n \in RowNumbers
  BY <1>1, <1>2, BuildAssumption DEF TypeOK, RowNumbers
<1>4. UNCHANGED <<todo, now, results, seen, canon, frames, failed>>
  BY DEF KeyRow, grouping
<1>5. r \in SourceRows
  BY BuildAssumption
<1>6. frames = {} /\ failed = {}
  BY <1>1, <1>2 DEF Listed
<1>7. (Grouped /\ Listed /\ ReplaysContained /\ NoDoubleCount /\ NeverDisjoint)'
  BY <1>2, <1>4, <1>6 DEF Grouped, Listed, ReplaysContained, NoDoubleCount,
                          NeverDisjoint, Built
<1>8. CASE r.time # None /\ r.pos # None
  <2> DEFINE t == r.time
             p == r.pos
             c == counter[t][p]
             x == [row |-> n, pos |-> p, occ |-> c, fp |-> r.fp]
  <2>1. t \in Times /\ p \in Positions /\ r.fp \in Values
    BY <1>5, <1>8 DEF SourceRows
  <2>2. c \in Nat
    BY <1>1, <2>1 DEF TypeOK
  <2>3. /\ byTime' = [byTime EXCEPT ![t] = @ \cup {x}]
        /\ counter' = [counter EXCEPT ![t][p] = @ + 1]
        /\ UNCHANGED unassigned
    BY <1>8 DEF KeyRow
  <2>4. x \in Refs
    BY <1>3, <2>1, <2>2 DEF Refs
  <2>5. byTime' \in [Times -> SUBSET Refs]
    BY <1>1, <2>1, <2>3, <2>4 DEF TypeOK
  <2>6. /\ counter' \in [Times -> [Positions -> Nat]]
        /\ \A u \in Times, q \in Positions :
             counter'[u][q] = IF u = t /\ q = p THEN c + 1 ELSE counter[u][q]
    BY <1>1, <2>1, <2>2, <2>3 DEF TypeOK
  <2>7. TypeOK'
    BY <1>1, <1>2, <1>3, <1>4, <2>3, <2>5, <2>6 DEF TypeOK
  <2>8. \A u \in Times, q \in Positions :
          Bucket(u, q)' = IF u = t /\ q = p THEN Bucket(u, q) \cup {x}
                          ELSE Bucket(u, q)
    BY <1>1, <2>1, <2>3 DEF Bucket, TypeOK
  <2>9. Keyed'
    <3> SUFFICES ASSUME NEW u \in Times, NEW q \in Positions
                 PROVE  /\ IsFiniteSet(Bucket(u, q)')
                        /\ Occurrences(u, q)' = counter'[u][q]
                        /\ counter'[u][q] <= Len(file')
                        /\ \A s \in Bucket(u, q)' : s.occ < counter'[u][q]
                        /\ \A m \in Nat : m < counter'[u][q] =>
                             \E s \in Bucket(u, q)' : s.occ = m
                        /\ \A s, v \in Bucket(u, q)' : s.occ = v.occ => s = v
      BY DEF Keyed
    <3>1. /\ IsFiniteSet(Bucket(u, q)) /\ Occurrences(u, q) = counter[u][q]
          /\ counter[u][q] <= Len(file)
          /\ \A s \in Bucket(u, q) : s.occ < counter[u][q]
          /\ \A m \in Nat : m < counter[u][q] =>
               \E s \in Bucket(u, q) : s.occ = m
          /\ \A s, v \in Bucket(u, q) : s.occ = v.occ => s = v
      BY <1>1 DEF Keyed
    <3>2. CASE u = t /\ q = p
      <4>1. Bucket(u, q)' = Bucket(u, q) \cup {x}
        BY <2>8, <3>2
      <4>2. x.occ = counter[u][q] /\ x \notin Bucket(u, q)
        BY <3>1, <3>2, <2>2
      <4>3. /\ IsFiniteSet(Bucket(u, q) \cup {x})
            /\ Cardinality(Bucket(u, q) \cup {x}) = Cardinality(Bucket(u, q)) + 1
        BY <3>1, <4>2, FS_AddElement
      <4>4. Occurrences(u, q)' = Occurrences(u, q) + 1
        BY <4>1, <4>3 DEF Occurrences
      <4>5. counter'[u][q] = counter[u][q] + 1 /\ counter[u][q] \in Nat
        BY <2>2, <2>6, <3>2
      <4>6. \A s \in Bucket(u, q) : s.occ \in Nat
        BY <1>1, <3>2 DEF Bucket, TypeOK, Refs
      <4>7. \A s \in Bucket(u, q)' : s.occ < counter'[u][q]
        BY <3>1, <4>1, <4>2, <4>5, <4>6
      <4>8. \A m \in Nat : m < counter'[u][q] => \E s \in Bucket(u, q)' : s.occ = m
        <5> SUFFICES ASSUME NEW m \in Nat, m < counter[u][q] + 1
                     PROVE  \E s \in Bucket(u, q)' : s.occ = m
          BY <4>5
        <5>1. m < counter[u][q] \/ m = counter[u][q]
          BY <4>5
        <5>2. CASE m < counter[u][q]
          BY <3>1, <4>1, <5>2
        <5>3. CASE m = counter[u][q]
          BY <4>1, <4>2, <5>3
        <5> QED
          BY <5>1, <5>2, <5>3
      <4>9. \A s, v \in Bucket(u, q)' : s.occ = v.occ => s = v
        BY <3>1, <4>1, <4>2, <4>5, <4>6
      <4> QED
        BY <3>1, <1>3, <4>1, <4>3, <4>4, <4>5, <4>7, <4>8, <4>9
    <3>3. CASE ~(u = t /\ q = p)
      <4>1. Bucket(u, q)' = Bucket(u, q) /\ counter'[u][q] = counter[u][q]
        BY <2>6, <2>8, <3>3
      <4>2. Occurrences(u, q)' = Occurrences(u, q)
        BY <4>1 DEF Occurrences
      <4>3. counter[u][q] \in Nat
        BY <1>1 DEF TypeOK
      <4> QED
        BY <1>3, <3>1, <4>1, <4>2, <4>3
    <3> QED
      BY <3>2, <3>3
  <2> QED
    BY <1>7, <2>7, <2>9 DEF Inv
<1>9. CASE ~(r.time # None /\ r.pos # None)
  <2>1. /\ unassigned' = unassigned \cup {[row |-> n, time |-> r.time]}
        /\ UNCHANGED <<byTime, counter>>
    BY <1>9 DEF KeyRow
  <2>2. r.time \in Times \cup {None}
    BY <1>5 DEF SourceRows
  <2>3. TypeOK'
    BY <1>1, <1>2, <1>3, <1>4, <2>1, <2>2 DEF TypeOK
  <2>4. Keyed'
    <3> SUFFICES ASSUME NEW u \in Times, NEW q \in Positions
                 PROVE  /\ IsFiniteSet(Bucket(u, q)')
                        /\ Occurrences(u, q)' = counter[u][q]
                        /\ counter[u][q] <= Len(file')
                        /\ \A s \in Bucket(u, q)' : s.occ < counter[u][q]
                        /\ \A m \in Nat : m < counter[u][q] =>
                             \E s \in Bucket(u, q)' : s.occ = m
                        /\ \A s, v \in Bucket(u, q)' : s.occ = v.occ => s = v
      BY <2>1 DEF Keyed
    <3>1. Bucket(u, q)' = Bucket(u, q) /\ Occurrences(u, q)' = Occurrences(u, q)
      BY <2>1, SameRows
    <3>2. counter[u][q] \in Nat
      BY <1>1 DEF TypeOK
    <3> QED
      BY <1>1, <1>3, <3>1, <3>2 DEF Keyed
  <2> QED
    BY <1>7, <2>3, <2>4 DEF Inv
<1> QED
  BY <1>8, <1>9

(* Keyed only speaks of the rows read.                                      *)
LEMMA KeyedKept ==
  ASSUME Keyed, UNCHANGED <<byTime, counter, file>>
  PROVE  Keyed'
<1>1. \A t, p : /\ Bucket(t, p)' = Bucket(t, p)
                /\ Occurrences(t, p)' = Occurrences(t, p)
  BY SameRows
<1> QED
  BY <1>1 DEF Keyed

(* Steps that leave the frames and their groups alone keep what is said of  *)
(* the frames.                                                              *)
LEMMA FramesKept ==
  ASSUME UNCHANGED <<byTime, frames>>,
         ReplaysContained, NoDoubleCount, NeverDisjoint
  PROVE  (ReplaysContained /\ NoDoubleCount /\ NeverDisjoint)'
BY DEF ReplaysContained, NoDoubleCount, NeverDisjoint

(* Times with no assigned row have no candidates to wait for.               *)
LEMMA EndOfFileStep ==
  ASSUME Inv, EndOfFile
  PROVE  Inv'
<1>1. /\ TypeOK /\ Keyed /\ Listed
      /\ ReplaysContained /\ NoDoubleCount /\ NeverDisjoint
  BY DEF Inv
<1>2. /\ pc = "key" /\ pc' = "group"
      /\ todo' = {t \in Times : \/ byTime[t] # {}
                                \/ \E u \in unassigned : u.time = t}
      /\ UNCHANGED <<file, counter, byTime, unassigned, now, results, seen,
                     canon, frames, failed>>
  BY DEF EndOfFile, grouping
<1>3. frames = {} /\ failed = {}
  BY <1>1, <1>2 DEF Listed
<1>4. TypeOK'
  BY <1>1, <1>2 DEF TypeOK
<1>5. Keyed'
  BY <1>1, <1>2, KeyedKept
<1>6. Grouped'
  BY <1>2 DEF Grouped
<1>7. \A t \in Times \ todo' : \A k \in Sequence : ~IsCandidate(t, k)
  <2> SUFFICES ASSUME NEW t \in Times \ todo', NEW k \in Sequence
               PROVE  ~IsCandidate(t, k)
    OBVIOUS
  <2>1. byTime[t] = {}
    BY <1>2
  <2>2. \A p \in Positions : Occurrences(t, p) = 0
    BY <2>1, FS_EmptySet DEF Occurrences, Bucket
  <2>3. k \in Nat /\ MaxFrames \in Nat
    BY BuildAssumption DEF Sequence
  <2> QED
    BY <2>2, <2>3 DEF IsCandidate, Capped, InRange
<1>8. \A t, k : IsCandidate(t, k)' = IsCandidate(t, k)
  BY <1>2, SameRows
<1>9. Listed'
  BY <1>2, <1>3, <1>7, <1>8 DEF Listed, Built
<1>10. (ReplaysContained /\ NoDoubleCount /\ NeverDisjoint)'
  BY <1>1, <1>2, FramesKept
<1> QED
  BY <1>4, <1>5, <1>6, <1>9, <1>10 DEF Inv

(* A group is opened with nothing remembered of the one before.             *)
LEMMA OpenGroupStep ==
  ASSUME Inv, NEW t \in Times, OpenGroup(t)
  PROVE  Inv'
<1>1. /\ TypeOK /\ Keyed /\ Listed
      /\ ReplaysContained /\ NoDoubleCount /\ NeverDisjoint
  BY DEF Inv
<1>2. /\ pc = "group" /\ pc' = "classify" /\ t \in todo /\ now' = t
      /\ results' = <<>> /\ seen' = {} /\ canon' = {}
      /\ UNCHANGED <<file, counter, byTime, unassigned, todo, frames, failed>>
  BY DEF OpenGroup
<1>3. TypeOK'
  BY <1>1, <1>2 DEF TypeOK
<1>4. Keyed'
  BY <1>1, <1>2, KeyedKept
<1>5. Grouped'
  BY <1>2 DEF Grouped
<1>6. \A u, k : /\ IsCandidate(u, k)' = IsCandidate(u, k)
                /\ Payload(u, k)' = Payload(u, k)
  BY <1>2, SameRows
<1>7. Listed'
  BY <1>1, <1>2, <1>6 DEF Listed, Built
<1>8. (ReplaysContained /\ NoDoubleCount /\ NeverDisjoint)'
  BY <1>1, <1>2, FramesKept
<1> QED
  BY <1>3, <1>4, <1>5, <1>7, <1>8 DEF Inv

(* The verdict on the next candidate stands on the canonical ones so far.   *)
LEMMA VerdictSound ==
  ASSUME Inv, NEW k \in Sequence, ClassifyNext(k)
  PROVE  /\ Verdict(k) \in Verdicts
         /\ \A j \in DOMAIN results : j < k
         /\ Verdict(k).class \in Replays =>
              /\ Verdict(k).replayOf \in canon
              /\ Within(Payload(now, k), Payload(now, Verdict(k).replayOf))
              /\ Verdict(k).class = "FULL_FRAME_REPLAY" =>
                   Payload(now, Verdict(k).replayOf) = Payload(now, k)
         /\ Verdict(k).class \notin Replays =>
              /\ Verdict(k).class \in Canonical /\ Verdict(k).replayOf = None
              /\ \A j \in canon : Payload(now, j) # Payload(now, k)
         /\ DOMAIN results = {} => k = 0 /\ Verdict(k).class \notin Replays
<1> DEFINE P(j) == Payload(now, j)
           v == Verdict(k)
<1>1. TypeOK /\ Keyed /\ Grouped
  BY DEF Inv
<1>2. /\ pc = "classify" /\ k \notin DOMAIN results /\ IsCandidate(now, k)
      /\ \A j \in 0 .. k - 1 : j \in DOMAIN results
  BY DEF ClassifyNext
<1>3. now \in Times /\ k \in Nat /\ DOMAIN results \subseteq Nat
  BY <1>1, <1>2, BuildAssumption DEF TypeOK, Sequence
<1>4. /\ seen = canon /\ canon \subseteq DOMAIN results
      /\ DOMAIN results # {} => 0 \in canon
      /\ \A j \in DOMAIN results : \A i \in 0 .. j - 1 : i \in DOMAIN results
  BY <1>1, <1>2 DEF Grouped
<1>5. \A j \in DOMAIN results : j < k
  BY <1>2, <1>3, <1>4
<1>6. CASE DOMAIN results = {}
  <2>1. v = [class |-> "UNIQUE", replayOf |-> None]
    BY <1>6 DEF Verdict
  <2>2. k = 0
    BY <1>2, <1>3, <1>6
  <2>3. canon = {}
    BY <1>4, <1>6
  <2> QED
    BY <1>5, <2>1, <2>2, <2>3 DEF Verdicts, Classes, Replays, Canonical
<1>7. CASE DOMAIN results # {}
  <2>1. 0 \in canon /\ k # 0 /\ canon \subseteq Nat
    BY <1>2, <1>3, <1>4, <1>7
  <2>2. EarliestCanonical = 0
    <3>1. \A i \in canon : 0 <= i
      BY <2>1
    <3>2. \A j \in canon : (\A i \in canon : j <= i) => j = 0
      BY <2>1
    <3> QED
      BY <2>1, <3>1, <3>2 DEF EarliestCanonical
  <2>3. DOMAIN P(k) # {} /\ DOMAIN P(k) \subseteq DOMAIN P(0)
    BY <1>1, <1>2, <1>3, <2>1, LaterWithinFirst
  <2>4. CASE \E j \in seen : P(j) = P(k)
    <3>1. v = [class |-> "FULL_FRAME_REPLAY", replayOf |-> SeenAt(P(k))]
      BY <1>7, <2>4 DEF Verdict
    <3>2. SeenAt(P(k)) \in canon /\ P(SeenAt(P(k))) = P(k)
      BY <1>4, <2>4 DEF SeenAt
    <3>3. Within(P(k), P(SeenAt(P(k))))
      BY <3>2 DEF Within
    <3>4. v.class = "FULL_FRAME_REPLAY" /\ v.replayOf = SeenAt(P(k))
      BY <3>1
    <3>5. v \in Verdicts
      <4>1. \A s \in Nat :
              [class |-> "FULL_FRAME_REPLAY", replayOf |-> s] \in Verdicts
        BY DEF Verdicts, Classes
      <4>2. SeenAt(P(k)) \in Nat
        BY <2>1, <3>2
      <4> HIDE DEF v
      <4> QED
        BY <3>1, <4>1, <4>2
    <3>6. v.class \in Replays
      BY <3>4 DEF Replays
    <3> HIDE DEF v
    <3>7. v.replayOf \in canon /\ Within(P(k), P(v.replayOf)) /\ P(v.replayOf) = P(k)
      BY <3>2, <3>3, <3>4
    <3> QED
      BY <1>5, <1>7, <3>5, <3>6, <3>7 DEF v
  <2>5. CASE ~(\E j \in seen : P(j) = P(k)) /\ Differing(P(k), P(0)) # {}
    <3>1. v = [class |-> "SAME_TIMESTAMP_DISTINCT_FRAME", replayOf |-> None]
      BY <1>7, <2>2, <2>5 DEF Verdict
    <3> QED
      BY <1>4, <1>5, <1>7, <2>5, <3>1 DEF Verdicts, Classes, Replays, Canonical
  <2>6. CASE ~(\E j \in seen : P(j) = P(k)) /\ Differing(P(k), P(0)) = {}
    <3>1. Within(P(k), P(0))
      BY <2>3, <2>6 DEF Differing, Within
    <3>2. Matching(P(k), P(0)) # {}
      BY <2>3, <3>1 DEF Matching, Within
    <3>3. v = [class |-> "PARTIAL_FRAME_REPLAY", replayOf |-> 0]
      BY <1>7, <2>2, <2>6, <3>2 DEF Verdict
    <3> QED
      BY <1>5, <1>7, <2>1, <3>1, <3>3 DEF Verdicts, Classes, Replays
  <2> QED
    BY <2>4, <2>5, <2>6
<1> QED
  BY <1>6, <1>7

(* One candidate classified: the verdicts before it still stand.            *)
LEMMA ClassifyStep ==
  ASSUME Inv, NEW k \in Sequence, ClassifyNext(k)
  PROVE  Inv'
<1> DEFINE v == Verdict(k)
<1>1. /\ TypeOK /\ Keyed /\ Grouped /\ Listed
      /\ ReplaysContained /\ NoDoubleCount /\ NeverDisjoint
  BY DEF Inv
<1>2. /\ pc = "classify" /\ k \notin DOMAIN results /\ IsCandidate(now, k)
      /\ \A j \in 0 .. k - 1 : j \in DOMAIN results
      /\ results' = [j \in DOMAIN results \cup {k} |->
                       IF j = k THEN v ELSE results[j]]
      /\ UNCHANGED <<file, pc, counter, byTime, unassigned, todo, now, frames,
                     failed>>
  BY DEF ClassifyNext
<1>3. /\ v.class \in Replays => seen' = seen /\ canon' = canon
      /\ v.class \notin Replays => seen' = seen \cup {k} /\ canon' = canon \cup {k}
  BY DEF ClassifyNext, Replays
<1>4. /\ v \in Verdicts
      /\ \A j \in DOMAIN results : j < k
      /\ v.class \in Replays =>
           /\ v.replayOf \in canon
           /\ Within(Payload(now, k), Payload(now, v.replayOf))
           /\ v.class = "FULL_FRAME_REPLAY" =>
                Payload(now, v.replayOf) = Payload(now, k)
      /\ v.class \notin Replays =>
           /\ v.class \in Canonical /\ v.replayOf = None
           /\ \A j \in canon : Payload(now, j) # Payload(now, k)
      /\ DOMAIN results = {} => k = 0 /\ v.class \notin Replays
  BY VerdictSound
<1> HIDE DEF v
<1>5. /\ DOMAIN results' = DOMAIN results \cup {k} /\ results'[k] = v
      /\ \A j \in DOMAIN results : results'[j] = results[j]
  BY <1>2
<1>6. /\ \A j \in DOMAIN results :
           /\ IsCandidate(now, j) /\ Sound(j)
           /\ \A i \in 0 .. j - 1 : i \in DOMAIN results
      /\ seen = canon
      /\ canon = {j \in DOMAIN results : results[j].class \notin Replays}
      /\ DOMAIN results # {} => 0 \in canon
      /\ \A i, j \in canon : Payload(now, i) = Payload(now, j) => i = j
  BY <1>1, <1>2 DEF Grouped
<1>7. /\ DOMAIN results' \in SUBSET Sequence
      /\ \A j \in DOMAIN results' : results'[j] \in Verdicts
  BY <1>1, <1>4, <1>5 DEF TypeOK
<1>8. /\ seen' = canon' /\ canon \subseteq canon'
      /\ canon' \subseteq canon \cup {k} /\ canon' \subseteq DOMAIN results'
  BY <1>3, <1>5, <1>6
<1>9. TypeOK'
  BY <1>1, <1>2, <1>7, <1>8 DEF TypeOK
<1>10. Keyed'
  BY <1>1, <1>2, KeyedKept
<1>11. \A t, j : /\ IsCandidate(t, j)' = IsCandidate(t, j)
                 /\ Payload(t, j)' = Payload(t, j)
  BY <1>2, SameRows
<1>12. \A j \in DOMAIN results' :
         /\ IsCandidate(now, j)' /\ Sound(j)'
         /\ \A i \in 0 .. j - 1 : i \in DOMAIN results'
  <2> SUFFICES ASSUME NEW j \in DOMAIN results'
               PROVE  /\ IsCandidate(now, j)' /\ Sound(j)'
                      /\ \A i \in 0 .. j - 1 : i \in DOMAIN results'
    OBVIOUS
  <2>1. CASE j \in DOMAIN results
    <3>1. Sound(j) /\ results'[j] = results[j]
      BY <1>5, <1>6, <2>1
    <3>2. Sound(j)'
      BY <1>2, <1>8, <1>11, <3>1 DEF Sound
    <3> QED
      BY <1>2, <1>5, <1>6, <1>11, <2>1, <3>2
  <2>2. CASE j = k
    <3>1. v.class \in Replays => v.replayOf < k
      BY <1>4, <1>6
    <3>2. Sound(k)'
      BY <1>2, <1>4, <1>5, <1>8, <1>11, <3>1 DEF Sound
    <3> QED
      BY <1>2, <1>5, <1>11, <2>2, <3>2
  <2> QED
    BY <1>5, <2>1, <2>2
<1>13. canon' = {j \in DOMAIN results' : results'[j].class \notin Replays}
  BY <1>2, <1>3, <1>5, <1>6
<1>14. 0 \in canon'
  BY <1>3, <1>4, <1>6, <1>8
<1>15. \A i, j \in canon' : Payload(now, i) = Payload(now, j) => i = j
  BY <1>3, <1>4, <1>6
<1>16. Grouped'
  BY <1>2, <1>8, <1>11, <1>12, <1>13, <1>14, <1>15 DEF Grouped
<1>17. Listed'
  BY <1>1, <1>2, <1>11 DEF Listed, Built
<1>18. (ReplaysContained /\ NoDoubleCount /\ NeverDisjoint)'
  BY <1>1, <1>2, FramesKept
<1> QED
  BY <1>9, <1>10, <1>16, <1>17, <1>18 DEF Inv

(* A frame of the closed group is well formed.                              *)
LEMMA FrameTyped ==
  ASSUME TypeOK, Keyed, pc = "classify", NEW k \in DOMAIN results
  PROVE  FrameOf(k) \in Frames
<1>1. now \in Times /\ k \in Sequence /\ k \in Nat /\ results[k] \in Verdicts
  BY BuildAssumption DEF TypeOK, Sequence
<1> DEFINE D == DOMAIN Slice(now, k)
<1>2. D = {p \in Positions : k < Occurrences(now, p)} /\ D = DOMAIN Payload(now, k)
  BY SliceDomain
<1>3. \A p \in D : /\ Slice(now, k)[p] \in Refs
                   /\ Payload(now, k)[p] = Slice(now, k)[p].fp
  BY <1>1, <1>2, SliceRow
<1>4. \A p \in D : Slice(now, k)[p].row \in RowNumbers /\ Payload(now, k)[p] \in Values
  BY <1>3 DEF Refs
<1>5. Payload(now, k) = [p \in D |-> Payload(now, k)[p]]
  BY DEF Payload
<1>6. Payload(now, k) \in [D -> Values] /\ D \in SUBSET Positions
  BY <1>2, <1>4, <1>5
<1>7. Payload(now, k) \in Payloads
  BY <1>6 DEF Payloads
<1>8. {Slice(now, k)[p].row : p \in D} \in SUBSET RowNumbers
  BY <1>4
<1>9. ClassifyStatus(now, D) \in Statuses
  BY DEF ClassifyStatus, Statuses
<1>10. results[k].class \in Classes /\ results[k].replayOf \in Nat \cup {None}
  BY <1>1 DEF Verdicts
<1> QED
  BY <1>1, <1>7, <1>8, <1>9, <1>10 DEF FrameOf, Frames

(* The frames of a classified group join those of the groups before it.     *)
LEMMA CloseGroupStep ==
  ASSUME Inv, CloseGroup
  PROVE  Inv'
<1> DEFINE New == {FrameOf(k) : k \in DOMAIN results}
<1>1. /\ TypeOK /\ Keyed /\ Grouped /\ Listed
      /\ ReplaysContained /\ NoDoubleCount /\ NeverDisjoint
  BY DEF Inv
<1>2. /\ pc = "classify" /\ pc' = "group" /\ frames' = frames \cup New
      /\ todo' = todo \ {now}
      /\ \A k \in Sequence : IsCandidate(now, k) => k \in DOMAIN results
      /\ UNCHANGED <<file, counter, byTime, unassigned, now, results, seen,
                     canon, failed>>
  BY DEF CloseGroup, grouping
<1>3. now \in todo
  BY <1>1, <1>2 DEF TypeOK
<1>4. \A k \in DOMAIN results : FrameOf(k) \in Frames
  BY <1>1, <1>2, FrameTyped
<1>5. TypeOK'
  BY <1>1, <1>2, <1>4 DEF TypeOK
<1>6. Keyed'
  BY <1>1, <1>2, KeyedKept
<1>7. Grouped'
  BY <1>2 DEF Grouped
<1>8. \A t, k : /\ IsCandidate(t, k)' = IsCandidate(t, k)
                /\ Payload(t, k)' = Payload(t, k)
  BY <1>2, SameRows
<1>9. \A k \in DOMAIN results :
        /\ FrameOf(k).time = now /\ FrameOf(k).seq = k
        /\ FrameOf(k).payload = Payload(now, k)
        /\ FrameOf(k).class = results[k].class
        /\ FrameOf(k).replayOf = results[k].replayOf
  BY DEF FrameOf
<1>10. /\ \A k \in DOMAIN results : IsCandidate(now, k) /\ Sound(k)
       /\ canon = {k \in DOMAIN results : results[k].class \notin Replays}
       /\ \A i, j \in canon : Payload(now, i) = Payload(now, j) => i = j
  BY <1>1, <1>2 DEF Grouped
<1>11. \A f \in frames : f.time # now
  BY <1>1, <1>3 DEF Listed
<1>12. \A f \in New : \E k \in DOMAIN results : f = FrameOf(k)
  OBVIOUS
<1>13. \A k \in DOMAIN results : FrameOf(k) \in frames'
  BY <1>2
<1> HIDE DEF New
<1>14. Listed'
  <2>1. \A f \in frames' : /\ f.time \notin todo' /\ IsCandidate(f.time, f.seq)
                           /\ f.payload = Payload(f.time, f.seq)
    <3>1. \A f \in frames : /\ f.time \notin todo' /\ IsCandidate(f.time, f.seq)
                            /\ f.payload = Payload(f.time, f.seq)
      BY <1>1, <1>2 DEF Listed
    <3>2. \A f \in New : /\ f.time \notin todo' /\ IsCandidate(f.time, f.seq)
                         /\ f.payload = Payload(f.time, f.seq)
      BY <1>2, <1>9, <1>10, <1>12
    <3> QED
      BY <1>2, <3>1, <3>2
  <2>2. \A f, g \in frames' : f.time = g.time /\ f.seq = g.seq => f = g
    <3>1. \A f, g \in frames : f.time = g.time /\ f.seq = g.seq => f = g
      BY <1>1 DEF Listed
    <3>2. \A f, g \in New : f.seq = g.seq => f = g
      BY <1>9, <1>12
    <3>3. \A f \in New : f.time = now
      BY <1>9, <1>12
    <3> QED
      BY <1>2, <1>11, <3>1, <3>2, <3>3
  <2>3. \A t \in Built' : \A k \in Sequence :
          IsCandidate(t, k) => \E f \in frames' : f.time = t /\ f.seq = k
    <3> SUFFICES ASSUME NEW t \in Built', NEW k \in Sequence, IsCandidate(t, k)
                 PROVE  \E f \in frames' : f.time = t /\ f.seq = k
      OBVIOUS
    <3>1. t = now \/ t \in Built
      BY <1>2 DEF Built
    <3>2. CASE t = now
      BY <1>2, <1>9, <1>13, <3>2
    <3>3. CASE t \in Built
      BY <1>1, <1>2, <3>3 DEF Listed
    <3> QED
      BY <3>1, <3>2, <3>3
  <2> QED
    BY <1>2, <1>8, <2>1, <2>2, <2>3 DEF Listed
<1>15. ReplaysContained'
  <2> SUFFICES ASSUME NEW f \in frames'
               PROVE  /\ f.class \in Replays =>
                           \E g \in frames' :
                             /\ g.time = f.time /\ g.seq = f.replayOf
                             /\ g.seq < f.seq /\ g.class \in Canonical
                             /\ Within(f.payload, g.payload)
                             /\ f.class = "FULL_FRAME_REPLAY" =>
                                  g.payload = f.payload
                      /\ f.class \notin Replays => f.replayOf = None
    BY DEF ReplaysContained, Replays, Within
  <2>1. CASE f \in frames
    BY <1>1, <1>2, <2>1 DEF ReplaysContained, Replays, Within
  <2>2. CASE f \in New
    <3>1. PICK k \in DOMAIN results : f = FrameOf(k)
      BY <1>12, <2>2
    <3>2. Sound(k)
      BY <1>10
    <3>3. CASE results[k].class \in Replays
      <4> DEFINE j == results[k].replayOf
      <4>1. /\ j \in canon /\ j < k
            /\ Within(Payload(now, k), Payload(now, j))
            /\ results[k].class = "FULL_FRAME_REPLAY" =>
                 Payload(now, j) = Payload(now, k)
        BY <3>2, <3>3 DEF Sound
      <4>2. j \in DOMAIN results /\ results[j].class \notin Replays
        BY <1>10, <4>1
      <4>3. Sound(j)
        BY <1>10, <4>2
      <4>4. results[j].class \in Canonical
        BY <4>2, <4>3 DEF Sound
      <4>5. FrameOf(j) \in frames'
        BY <1>13, <4>2
      <4>6. /\ FrameOf(j).time = f.time /\ FrameOf(j).seq = f.replayOf
            /\ FrameOf(j).seq < f.seq /\ FrameOf(j).class \in Canonical
            /\ Within(f.payload, FrameOf(j).payload)
            /\ f.class = "FULL_FRAME_REPLAY" => FrameOf(j).payload = f.payload
        BY <1>9, <3>1, <4>1, <4>2, <4>4
      <4>7. f.class \in Replays
        BY <1>9, <3>1, <3>3
      <4> QED
        BY <4>5, <4>6, <4>7
    <3>4. CASE results[k].class \notin Replays
      BY <1>9, <3>1, <3>2, <3>4 DEF Sound
    <3> QED
      BY <3>3, <3>4
  <2> QED
    BY <1>2, <2>1, <2>2
<1>16. NoDoubleCount'
  <2> SUFFICES ASSUME NEW f \in frames', NEW g \in frames',
                      f.time = g.time, f.payload = g.payload,
                      f.class \in Canonical, g.class \in Canonical
               PROVE  f = g
    BY DEF NoDoubleCount
  <2>1. CASE f \in frames /\ g \in frames
    BY <1>1, <2>1 DEF NoDoubleCount
  <2>2. CASE f \in New /\ g \in New
    <3>1. PICK i \in DOMAIN results : f = FrameOf(i)
      BY <1>12, <2>2
    <3>2. PICK j \in DOMAIN results : g = FrameOf(j)
      BY <1>12, <2>2
    <3>3. \A c \in Canonical : c \notin Replays
      BY DEF Canonical, Replays
    <3>4. i \in canon /\ j \in canon
      BY <1>9, <1>10, <3>1, <3>2, <3>3
    <3> QED
      BY <1>9, <1>10, <3>1, <3>2, <3>4
  <2>3. CASE (f \in frames /\ g \in New) \/ (f \in New /\ g \in frames)
    BY <1>9, <1>11, <1>12, <2>3
  <2> QED
    BY <1>2, <2>1, <2>2, <2>3
<1>17. NeverDisjoint'
  <2>1. \A k \in DOMAIN results : results[k].class # "AMBIGUOUS"
    BY <1>10 DEF Sound, Replays, Canonical
  <2> QED
    BY <1>1, <1>2, <1>9, <1>12, <2>1 DEF NeverDisjoint
<1> QED
  BY <1>5, <1>6, <1>7, <1>14, <1>15, <1>16, <1>17 DEF Inv

(* A contained failure adds no frame and takes its time out of the built.   *)
LEMMA GroupFailsStep ==
  ASSUME Inv, GroupFails
  PROVE  Inv'
<1>1. /\ TypeOK /\ Keyed /\ Listed
      /\ ReplaysContained /\ NoDoubleCount /\ NeverDisjoint
  BY DEF Inv
<1>2. /\ pc = "classify" /\ pc' = "group" /\ todo' = todo \ {now}
      /\ failed' = failed \cup {now}
      /\ UNCHANGED <<file, counter, byTime, unassigned, now, results, seen,
                     canon, frames>>
  BY DEF GroupFails, grouping
<1>3. now \in Times
  BY <1>1, <1>2 DEF TypeOK
<1>4. TypeOK'
  BY <1>1, <1>2, <1>3 DEF TypeOK
<1>5. Keyed'
  BY <1>1, <1>2, KeyedKept
<1>6. Grouped'
  BY <1>2 DEF Grouped
<1>7. \A t, k : /\ IsCandidate(t, k)' = IsCandidate(t, k)
                /\ Payload(t, k)' = Payload(t, k)
  BY <1>2, SameRows
<1>8. Built' \subseteq Built
  BY <1>2 DEF Built
<1>9. Listed'
  BY <1>1, <1>2, <1>7, <1>8 DEF Listed
<1>10. (ReplaysContained /\ NoDoubleCount /\ NeverDisjoint)'
  BY <1>1, <1>2, FramesKept
<1> QED
  BY <1>4, <1>5, <1>6, <1>9, <1>10 DEF Inv

(* Steps that only move the program counter past the groups, or nothing.    *)
LEMMA IdleStep ==
  ASSUME Inv, Finish \/ UNCHANGED vars
  PROVE  Inv'
<1>1. /\ TypeOK /\ Keyed /\ Grouped /\ Listed
      /\ ReplaysContained /\ NoDoubleCount /\ NeverDisjoint
  BY DEF Inv
<1>2. /\ UNCHANGED <<file, counter, byTime, unassigned, todo, now, results,
                     seen, canon, frames, failed>>
      /\ pc' = pc \/ (pc = "group" /\ pc' = "done")
  BY DEF Finish, grouping, vars
<1>3. TypeOK'
  BY <1>1, <1>2 DEF TypeOK
<1>4. Keyed'
  BY <1>1, <1>2, KeyedKept
<1>5. \A t, k : /\ IsCandidate(t, k)' = IsCandidate(t, k)
                /\ Payload(t, k)' = Payload(t, k)
  BY <1>2, SameRows
<1>6. \A k : Sound(k)' = Sound(k)
  BY <1>2, <1>5 DEF Sound
<1>7. Grouped'
  BY <1>1, <1>2, <1>5, <1>6 DEF Grouped
<1>8. Listed'
  BY <1>1, <1>2, <1>5 DEF Listed, Built
<1>9. (ReplaysContained /\ NoDoubleCount /\ NeverDisjoint)'
  BY <1>1, <1>2, FramesKept
<1> QED
  BY <1>3, <1>4, <1>7, <1>8, <1>9 DEF Inv

(* Every step keeps the invariant.                                          *)
LEMMA Inductive == Inv /\ [Next]_vars => Inv'
<1> SUFFICES ASSUME Inv, [Next]_vars PROVE Inv'
  OBVIOUS
<1>1. ASSUME NEW r \in InputRows, KeyRow(r) PROVE Inv'
  BY <1>1, KeyRowStep
<1>2. CASE EndOfFile
  BY <1>2, EndOfFileStep
<1>3. ASSUME NEW t \in Times, OpenGroup(t) PROVE Inv'
  BY <1>3, OpenGroupStep
<1>4. ASSUME NEW k \in Sequence, ClassifyNext(k) PROVE Inv'
  BY <1>4, ClassifyStep
<1>5. CASE CloseGroup
  BY <1>5, CloseGroupStep
<1>6. CASE GroupFails
  BY <1>6, GroupFailsStep
<1>7. CASE Finish \/ UNCHANGED vars
  BY <1>7, IdleStep
<1> QED
  BY <1>1, <1>2, <1>3, <1>4, <1>5, <1>6, <1>7 DEF Next

(* With the frames of a time listed and replays contained, every reading of *)
(* the time is in a canonical frame.                                        *)
LEMMA ReadingKept == Inv => EveryReadingCanonical
<1> SUFFICES ASSUME Inv, NEW t \in Built, ~Capped(t), NEW r \in byTime[t]
             PROVE  \E f \in frames :
                      /\ f.time = t /\ f.class \in Canonical
                      /\ r.pos \in DOMAIN f.payload /\ f.payload[r.pos] = r.fp
  BY DEF EveryReadingCanonical
<1>1. /\ TypeOK /\ Keyed /\ Listed /\ ReplaysContained /\ NeverDisjoint
  BY DEF Inv
<1>2. t \in Times
  BY DEF Built
<1> DEFINE p == r.pos
           k == r.occ
<1>3. r \in Refs /\ p \in Positions /\ k \in Nat /\ r \in Bucket(t, p)
  BY <1>1, <1>2 DEF TypeOK, Refs, Bucket
<1>4. k < Occurrences(t, p)
  BY <1>1, <1>2, <1>3 DEF Keyed
<1>5. Occurrences(t, p) \in 0 .. MaxRows
  BY <1>1, <1>2, <1>3, Counts
<1>6. k \in Sequence /\ IsCandidate(t, k)
  BY <1>3, <1>4, <1>5, BuildAssumption DEF Sequence, IsCandidate, InRange
<1>7. PICK f \in frames : f.time = t /\ f.seq = k
  BY <1>1, <1>6 DEF Listed
<1>8. f.payload = Payload(t, k)
  BY <1>1, <1>7 DEF Listed
<1>9. /\ p \in DOMAIN Payload(t, k) /\ Slice(t, k)[p] \in byTime[t]
      /\ Slice(t, k)[p].pos = p /\ Slice(t, k)[p].occ = k
      /\ Payload(t, k)[p] = Slice(t, k)[p].fp
  BY <1>1, <1>2, <1>3, <1>4, SliceRow
<1>10. Slice(t, k)[p] \in Bucket(t, p)
  BY <1>9 DEF Bucket
<1>11. Slice(t, k)[p] = r
  BY <1>1, <1>2, <1>3, <1>9, <1>10 DEF Keyed
<1>12. p \in DOMAIN f.payload /\ f.payload[p] = r.fp
  BY <1>8, <1>9, <1>11
<1>13. CASE f.class \in Replays
  <2>1. PICK g \in frames : /\ g.time = f.time /\ g.class \in Canonical
                            /\ \A q \in DOMAIN f.payload :
                                 q \in DOMAIN g.payload
                                 /\ g.payload[q] = f.payload[q]
    BY <1>1, <1>13 DEF ReplaysContained, Replays
  <2> QED
    BY <1>7, <1>12, <2>1
<1>14. CASE f.class \notin Replays
  <2>1. f \in Frames
    BY <1>1 DEF TypeOK
  <2>2. f.class \in Classes
    BY <2>1 DEF Frames
  <2>3. f.class \in Canonical
    BY <1>1, <1>14, <2>2 DEF NeverDisjoint, Classes, Canonical, Replays
  <2> QED
    BY <1>7, <1>12, <2>3
<1> QED
  BY <1>13, <1>14

-----------------------------------------------------------------------------
(* The keyed rows are those of the file: each carries its row number, its   *)
(* time and its position, and a position's occurrences are numbered in      *)
(* source order.                                                            *)
RowsTraced ==
  \A t \in Times : \A r \in byTime[t] :
    /\ r.row \in 1 .. Len(file)
    /\ file[r.row].time = t /\ file[r.row].pos = r.pos
    /\ \A s \in byTime[t] :
         /\ s.row = r.row => s = r
         /\ s.pos = r.pos /\ r.occ < s.occ => r.row < s.row

(* A row of the file is keyed or unassigned, never both.                    *)
HasKey(r) == r.time # None /\ r.pos # None
RowsAccounted ==
  /\ \A u \in unassigned : u.row \in 1 .. Len(file) /\ ~HasKey(file[u.row])
  /\ \A n \in 1 .. Len(file) :
       IF HasKey(file[n]) THEN \E r \in byTime[file[n].time] : r.row = n
       ELSE \E u \in unassigned : u.row = n

(* The rows and the status of a frame are those of its slice.               *)
SliceRows(t, k) == {Slice(t, k)[p].row : p \in DOMAIN Slice(t, k)}
FramesCut ==
  \A f \in frames :
    /\ f.time \notin failed
    /\ f.rows = SliceRows(f.time, f.seq)
    /\ f.status = ClassifyStatus(f.time, DOMAIN Slice(f.time, f.seq))

(* A group is reconstructed at most once, and all of them before the end.   *)
GroupsOnce == failed \cap todo = {} /\ (pc = "done" => todo = {})

Traced == RowsTraced /\ RowsAccounted /\ FramesCut /\ GroupsOnce

-----------------------------------------------------------------------------
(* Nothing is keyed or built before the first row.                          *)
LEMMA TracedAtFirst == Init => Traced
<1> SUFFICES ASSUME Init PROVE Traced
  OBVIOUS
<1>1. Len(file) = 0 /\ \A n \in 1 .. 0 : FALSE
  BY DEF Init
<1>2. RowsTraced /\ FramesCut /\ GroupsOnce
  BY DEF Init, RowsTraced, FramesCut, GroupsOnce
<1>3. RowsAccounted
  BY <1>1 DEF Init, RowsAccounted
<1> QED
  BY <1>2, <1>3 DEF Traced

(* A row takes the next number and, with a key, its position's next         *)
(* occurrence.                                                              *)
LEMMA KeyRowTraced ==
  ASSUME Inv, Traced, NEW r \in InputRows, KeyRow(r)
  PROVE  Traced'
<1> DEFINE L == Len(file)
           n == L + 1
<1>1. /\ TypeOK /\ Keyed /\ Listed /\ RowsTraced /\ RowsAccounted /\ GroupsOnce
  BY DEF Inv, Traced
<1>2. /\ pc = "key" /\ pc' = pc /\ file' = Append(file, r)
      /\ UNCHANGED <<todo, frames, failed>>
  BY DEF KeyRow
<1>3. L \in Nat /\ file \in Seq(InputRows) /\ byTime \in [Times -> SUBSET Refs]
  BY <1>1 DEF TypeOK
<1>4. /\ Len(file') = n
      /\ \A m \in 1 .. L : file'[m] = file[m]
      /\ file'[n] = r
  BY <1>2, <1>3
<1>5. frames = {}
  BY <1>1, <1>2 DEF Listed
<1>6. FramesCut' /\ GroupsOnce'
  BY <1>1, <1>2, <1>5 DEF FramesCut, GroupsOnce
<1>7. r \in SourceRows
  BY BuildAssumption
<1> HIDE DEF L
<1>8. CASE r.time # None /\ r.pos # None
  <2> DEFINE t == r.time
             p == r.pos
             c == counter[t][p]
             x == [row |-> n, pos |-> p, occ |-> c, fp |-> r.fp]
  <2>1. t \in Times /\ p \in Positions
    BY <1>7, <1>8 DEF SourceRows
  <2>2. /\ byTime' = [byTime EXCEPT ![t] = @ \cup {x}]
        /\ UNCHANGED unassigned
    BY <1>8 DEF KeyRow, L
  <2>3. /\ byTime'[t] = byTime[t] \cup {x}
        /\ \A u \in Times : u # t => byTime'[u] = byTime[u]
    BY <1>3, <2>1, <2>2
  <2>4. \A s \in byTime[t] : s.pos = p => s.occ < c
    BY <1>1, <2>1 DEF Keyed, Bucket
  <2>5. c \in Nat /\ \A u \in Times : \A s \in byTime[u] : s.occ \in Nat
    BY <1>1, <2>1 DEF TypeOK, Refs
  <2>6. x.row = n /\ x.pos = p /\ x.occ = c
    OBVIOUS
  <2> HIDE DEF x
  <2>7. RowsTraced'
    <3> SUFFICES ASSUME NEW u \in Times, NEW a \in byTime'[u]
                 PROVE  /\ a.row \in 1 .. n
                        /\ file'[a.row].time = u /\ file'[a.row].pos = a.pos
                        /\ \A s \in byTime'[u] :
                             /\ s.row = a.row => s = a
                             /\ s.pos = a.pos /\ a.occ < s.occ => a.row < s.row
      BY <1>4 DEF RowsTraced
    <3>1. \A s \in byTime[u] :
            /\ s.row \in 1 .. L /\ file[s.row].time = u /\ file[s.row].pos = s.pos
            /\ \A b \in byTime[u] :
                 /\ b.row = s.row => b = s
                 /\ b.pos = s.pos /\ s.occ < b.occ => s.row < b.row
      BY <1>1 DEF RowsTraced, L
    <3>2. CASE a \in byTime[u]
      <4>1. /\ a.row \in 1 .. n /\ a.row < n
            /\ file'[a.row].time = u /\ file'[a.row].pos = a.pos
        BY <1>3, <1>4, <3>1, <3>2
      <4>2. ASSUME NEW s \in byTime'[u]
            PROVE  /\ s.row = a.row => s = a
                   /\ s.pos = a.pos /\ a.occ < s.occ => a.row < s.row
        <5>1. s \in byTime[u] \/ s = x
          BY <2>3, <4>2
        <5>2. CASE s \in byTime[u]
          BY <3>1, <3>2, <5>2
        <5>3. CASE s = x
          BY <1>3, <2>6, <3>1, <3>2, <4>1, <5>3
        <5> QED
          BY <5>1, <5>2, <5>3
      <4> QED
        BY <4>1, <4>2
    <3>3. CASE a \notin byTime[u]
      <4>1. u = t /\ a = x
        BY <2>3, <3>3
      <4>2. /\ a.row \in 1 .. n
            /\ file'[a.row].time = u /\ file'[a.row].pos = a.pos
        BY <1>3, <1>4, <2>6, <4>1
      <4>3. ASSUME NEW s \in byTime'[u]
            PROVE  /\ s.row = a.row => s = a
                   /\ s.pos = a.pos /\ a.occ < s.occ => a.row < s.row
        <5>1. CASE s = x
          BY <2>5, <2>6, <4>1, <5>1
        <5>2. CASE s \in byTime[t]
          <6>1. s.row \in 1 .. L
            BY <3>1, <4>1, <5>2
          <6>2. s.row # a.row
            BY <1>3, <2>6, <4>1, <6>1
          <6>3. s.pos = a.pos => ~(a.occ < s.occ)
            BY <2>1, <2>4, <2>5, <2>6, <4>1, <5>2
          <6> QED
            BY <6>2, <6>3
        <5> QED
          BY <2>3, <4>1, <4>3, <5>1, <5>2
      <4> QED
        BY <4>2, <4>3
    <3> QED
      BY <3>2, <3>3
  <2>8. RowsAccounted'
    <3>1. \A m \in 1 .. L : HasKey(file'[m]) = HasKey(file[m])
      BY <1>4 DEF HasKey
    <3>2. HasKey(file'[n])
      BY <1>4, <1>8 DEF HasKey
    <3>3. \A u \in unassigned' : u.row \in 1 .. n /\ ~HasKey(file'[u.row])
      <4>1. \A u \in unassigned : u.row \in 1 .. L /\ ~HasKey(file[u.row])
        BY <1>1 DEF RowsAccounted, L
      <4> QED
        BY <1>3, <2>2, <3>1, <4>1
    <3>4. ASSUME NEW m \in 1 .. n
          PROVE  IF HasKey(file'[m]) THEN \E s \in byTime'[file'[m].time] : s.row = m
                 ELSE \E u \in unassigned' : u.row = m
      <4>1. CASE m = n
        BY <1>4, <2>3, <2>6, <3>2, <4>1
      <4>2. CASE m \in 1 .. L
        <5>1. IF HasKey(file[m]) THEN \E s \in byTime[file[m].time] : s.row = m
              ELSE \E u \in unassigned : u.row = m
          BY <1>1, <4>2 DEF RowsAccounted, L
        <5>2. file[m] \in SourceRows
          BY <1>3, <4>2, BuildAssumption DEF L
        <5>3. HasKey(file[m]) => file[m].time \in Times
          BY <5>2 DEF HasKey, SourceRows
        <5>4. HasKey(file[m]) => byTime[file[m].time] \subseteq byTime'[file[m].time]
          BY <2>3, <5>3
        <5> QED
          BY <1>4, <2>2, <3>1, <4>2, <5>1, <5>4
      <4> QED
        BY <1>3, <3>4, <4>1, <4>2
    <3> QED
      BY <1>4, <3>3, <3>4 DEF RowsAccounted, HasKey
  <2> QED
    BY <1>6, <2>7, <2>8 DEF Traced
<1>9. CASE ~(r.time # None /\ r.pos # None)
  <2> DEFINE x == [row |-> n, time |-> r.time]
  <2>1. unassigned' = unassigned \cup {x} /\ byTime' = byTime
    BY <1>9 DEF KeyRow, L
  <2>2. x.row = n
    OBVIOUS
  <2> HIDE DEF x
  <2>3. RowsTraced'
    <3> SUFFICES ASSUME NEW u \in Times, NEW a \in byTime[u]
                 PROVE  /\ a.row \in 1 .. n
                        /\ file'[a.row].time = u /\ file'[a.row].pos = a.pos
                        /\ \A s \in byTime[u] :
                             /\ s.row = a.row => s = a
                             /\ s.pos = a.pos /\ a.occ < s.occ => a.row < s.row
      BY <1>4, <2>1 DEF RowsTraced
    <3>1. /\ a.row \in 1 .. L /\ file[a.row].time = u /\ file[a.row].pos = a.pos
          /\ \A s \in byTime[u] :
               /\ s.row = a.row => s = a
               /\ s.pos = a.pos /\ a.occ < s.occ => a.row < s.row
      BY <1>1 DEF RowsTraced, L
    <3> QED
      BY <1>3, <1>4, <3>1
  <2>4. RowsAccounted'
    <3>1. \A m \in 1 .. L : HasKey(file'[m]) = HasKey(file[m])
      BY <1>4 DEF HasKey
    <3>2. ~HasKey(file'[n])
      BY <1>4, <1>9 DEF HasKey
    <3>3. ASSUME NEW u \in unassigned' PROVE u.row \in 1 .. n /\ ~HasKey(file'[u.row])
      <4>1. CASE u \in unassigned
        <5>1. u.row \in 1 .. L /\ ~HasKey(file[u.row])
          BY <1>1, <4>1 DEF RowsAccounted, L
        <5> QED
          BY <1>3, <3>1, <5>1
      <4>2. CASE u = x
        BY <1>3, <2>2, <3>2, <4>2
      <4> QED
        BY <2>1, <3>3, <4>1, <4>2
    <3>4. ASSUME NEW m \in 1 .. n
          PROVE  IF HasKey(file'[m]) THEN \E s \in byTime'[file'[m].time] : s.row = m
                 ELSE \E u \in unassigned' : u.row = m
      <4>1. CASE m = n
        BY <2>1, <2>2, <3>2, <4>1
      <4>2. CASE m \in 1 .. L
        <5>1. IF HasKey(file[m]) THEN \E s \in byTime[file[m].time] : s.row = m
              ELSE \E u \in unassigned : u.row = m
          BY <1>1, <4>2 DEF RowsAccounted, L
        <5> QED
          BY <1>4, <2>1, <3>1, <4>2, <5>1
      <4> QED
        BY <1>3, <3>4, <4>1, <4>2
    <3> QED
      BY <1>4, <3>3, <3>4 DEF RowsAccounted, HasKey
  <2> QED
    BY <1>6, <2>3, <2>4 DEF Traced
<1> QED
  BY <1>8, <1>9

(* What is said of the rows and of the frames survives a step that touches  *)
(* neither.                                                                 *)
LEMMA TracedKept ==
  ASSUME UNCHANGED <<file, byTime, unassigned>>
  PROVE  /\ RowsTraced' = RowsTraced /\ RowsAccounted' = RowsAccounted
         /\ \A t, k : SliceRows(t, k)' = SliceRows(t, k)
<1>1. \A t, k : Slice(t, k)' = Slice(t, k)
  BY SameRows
<1> QED
  BY <1>1 DEF RowsTraced, RowsAccounted, HasKey, SliceRows

(* The steps over the groups: a frame is cut from the open group once, and  *)
(* a group that fails had no frame.                                         *)
LEMMA GroupTraced ==
  ASSUME Inv, Traced,
         \/ EndOfFile \/ CloseGroup \/ GroupFails \/ Finish \/ UNCHANGED vars
         \/ \E t \in Times : OpenGroup(t)
         \/ \E k \in Sequence : ClassifyNext(k)
  PROVE  Traced'
<1>1. /\ TypeOK /\ Grouped /\ Listed
      /\ RowsTraced /\ RowsAccounted /\ FramesCut /\ GroupsOnce
  BY DEF Inv, Traced
<1>2. UNCHANGED <<file, byTime, unassigned>>
  BY DEF EndOfFile, CloseGroup, GroupFails, Finish, vars, OpenGroup, ClassifyNext
<1>3. RowsTraced' /\ RowsAccounted'
  BY <1>1, <1>2, TracedKept
<1>4. \A t, k : /\ SliceRows(t, k)' = SliceRows(t, k)
                /\ Slice(t, k)' = Slice(t, k)
  BY <1>2, TracedKept, SameRows
<1>5. \A t, o : ClassifyStatus(t, o)' = ClassifyStatus(t, o)
  BY <1>2, SameRows
<1>6. pc = "classify" => now \in todo
  BY <1>1 DEF TypeOK
<1>7. pc = "key" => frames = {} /\ failed = {}
  BY <1>1 DEF Listed
<1>8. GroupsOnce'
  BY <1>1, <1>6, <1>7 DEF GroupsOnce, EndOfFile, CloseGroup, GroupFails, Finish,
                          vars, OpenGroup, ClassifyNext
<1>9. FramesCut'
  <2>1. CASE CloseGroup
    <3>1. /\ frames' = frames \cup {FrameOf(k) : k \in DOMAIN results}
          /\ failed' = failed /\ now \in todo
      BY <1>6, <2>1 DEF CloseGroup
    <3>2. now \notin failed
      BY <1>1, <3>1 DEF GroupsOnce
    <3>3. \A k \in DOMAIN results :
            /\ FrameOf(k).time = now /\ FrameOf(k).seq = k
            /\ FrameOf(k).rows = SliceRows(now, k)
            /\ FrameOf(k).status = ClassifyStatus(now, DOMAIN Slice(now, k))
      BY DEF FrameOf, SliceRows
    <3>4. \A f \in frames' :
            /\ f.time \notin failed
            /\ f.rows = SliceRows(f.time, f.seq)
            /\ f.status = ClassifyStatus(f.time, DOMAIN Slice(f.time, f.seq))
      BY <1>1, <3>1, <3>2, <3>3 DEF FramesCut
    <3> QED
      BY <1>4, <1>5, <3>1, <3>4 DEF FramesCut
  <2>2. CASE GroupFails
    <3>1. /\ frames' = frames /\ failed' = failed \cup {now} /\ now \in todo
      BY <1>6, <2>2 DEF GroupFails
    <3>2. \A f \in frames : f.time # now
      BY <1>1, <3>1 DEF Listed
    <3> QED
      BY <1>1, <1>4, <1>5, <3>1, <3>2 DEF FramesCut
  <2>3. CASE ~CloseGroup /\ ~GroupFails
    <3>1. frames' = frames /\ failed' = failed
      BY <2>3 DEF EndOfFile, Finish, vars, OpenGroup, ClassifyNext
    <3> QED
      BY <1>1, <1>4, <1>5, <3>1 DEF FramesCut
  <2> QED
    BY <2>1, <2>2, <2>3
<1> QED
  BY <1>3, <1>8, <1>9 DEF Traced

(* Every step keeps the rows traced.                                        *)
LEMMA TracedInductive == Inv /\ Traced /\ [Next]_vars => Traced'
<1> SUFFICES ASSUME Inv, Traced, [Next]_vars PROVE Traced'
  OBVIOUS
<1>1. ASSUME NEW r \in InputRows, KeyRow(r) PROVE Traced'
  BY <1>1, KeyRowTraced
<1>2. CASE \/ EndOfFile \/ CloseGroup \/ GroupFails \/ Finish \/ UNCHANGED vars
           \/ \E t \in Times : OpenGroup(t)
           \/ \E k \in Sequence : ClassifyNext(k)
  BY <1>2, GroupTraced
<1> QED
  BY <1>1, <1>2 DEF Next

(* The rows of a frame are keyed rows of its time, one per position, with   *)
(* its sequence as their occurrence.                                        *)
LEMMA FrameRows ==
  ASSUME Inv, Traced, NEW f \in frames, NEW n \in f.rows
  PROVE  /\ f.time \in Times /\ f.seq \in Nat
         /\ \E r \in byTime[f.time] : r.row = n /\ r.occ = f.seq
<1>1. TypeOK /\ Keyed /\ FramesCut
  BY DEF Inv, Traced
<1>2. f \in Frames
  BY <1>1 DEF TypeOK
<1>3. f.time \in Times /\ f.seq \in Nat
  BY <1>2, BuildAssumption DEF Frames, Sequence
<1>4. PICK p \in DOMAIN Slice(f.time, f.seq) : n = Slice(f.time, f.seq)[p].row
  BY <1>1 DEF FramesCut, SliceRows
<1>5. p \in Positions /\ f.seq < Occurrences(f.time, p)
  BY <1>4, SliceDomain
<1>6. Slice(f.time, f.seq)[p] \in byTime[f.time] /\ Slice(f.time, f.seq)[p].occ = f.seq
  BY <1>1, <1>3, <1>5, SliceRow
<1> QED
  BY <1>3, <1>4, <1>6

(* A keyed row of a built group below the safety valve is in a frame of its *)
(* time.                                                                    *)
LEMMA RowHasFrame ==
  ASSUME Inv, Traced, NEW t \in Built, ~Capped(t), NEW r \in byTime[t]
  PROVE  \E f \in frames : f.time = t /\ f.seq = r.occ /\ r.row \in f.rows
<1>1. TypeOK /\ Keyed /\ Listed /\ FramesCut
  BY DEF Inv, Traced
<1>2. t \in Times
  BY DEF Built
<1> DEFINE p == r.pos
           k == r.occ
<1>3. r \in Refs /\ p \in Positions /\ k \in Nat /\ r \in Bucket(t, p)
  BY <1>1, <1>2 DEF TypeOK, Refs, Bucket
<1>4. k < Occurrences(t, p)
  BY <1>1, <1>2, <1>3 DEF Keyed
<1>5. Occurrences(t, p) \in 0 .. MaxRows
  BY <1>1, <1>2, <1>3, Counts
<1>6. k \in Sequence /\ IsCandidate(t, k)
  BY <1>3, <1>4, <1>5, BuildAssumption DEF Sequence, IsCandidate, InRange
<1>7. PICK f \in frames : f.time = t /\ f.seq = k
  BY <1>1, <1>6 DEF Listed
<1>8. /\ p \in DOMAIN Slice(t, k) /\ Slice(t, k)[p] \in byTime[t]
      /\ Slice(t, k)[p].pos = p /\ Slice(t, k)[p].occ = k
  BY <1>1, <1>2, <1>3, <1>4, SliceRow
<1>9. Slice(t, k)[p] \in Bucket(t, p)
  BY <1>8 DEF Bucket
<1>10. Slice(t, k)[p] = r
  BY <1>1, <1>2, <1>3, <1>8, <1>9 DEF Keyed
<1>11. r.row \in SliceRows(t, k)
  BY <1>8, <1>10 DEF SliceRows
<1>12. f.rows = SliceRows(t, k)
  BY <1>1, <1>7 DEF FramesCut
<1> QED
  BY <1>7, <1>11, <1>12

(* Occurrences follow the source order, and a group's candidates are all    *)
(* built or none is.                                                        *)
LEMMA OrderKept == Inv /\ Traced => SourceOrder
<1> SUFFICES ASSUME Inv, Traced, NEW f \in frames
             PROVE  /\ \A k \in 0 .. f.seq :
                         \E g \in frames : g.time = f.time /\ g.seq = k
                    /\ \A g \in frames : g.time = f.time /\ f.seq < g.seq =>
                         \A m \in f.rows, n \in g.rows :
                           file[m].pos = file[n].pos => m < n
  BY DEF SourceOrder
<1>1. TypeOK /\ Keyed /\ Listed /\ FramesCut /\ RowsTraced
  BY DEF Inv, Traced
<1>2. f \in Frames /\ f.time \in Times /\ f.seq \in Sequence
  BY <1>1 DEF TypeOK, Frames
<1>3. f.time \in Built
  BY <1>1, <1>2 DEF Listed, FramesCut, Built
<1>4. ASSUME NEW k \in 0 .. f.seq
      PROVE  \E g \in frames : g.time = f.time /\ g.seq = k
  <2>1. k \in Sequence /\ k \in Nat /\ f.seq \in Nat /\ k <= f.seq
    BY <1>2, BuildAssumption DEF Sequence
  <2>2. IsCandidate(f.time, f.seq)
    BY <1>1 DEF Listed
  <2>3. \A p \in Positions : Occurrences(f.time, p) \in Nat
    BY <1>1, <1>2, Counts
  <2>4. IsCandidate(f.time, k)
    BY <2>1, <2>2, <2>3 DEF IsCandidate, InRange
  <2> QED
    BY <1>1, <1>3, <2>1, <2>4 DEF Listed
<1>5. ASSUME NEW g \in frames, g.time = f.time, f.seq < g.seq,
             NEW m \in f.rows, NEW n \in g.rows, file[m].pos = file[n].pos
      PROVE  m < n
  <2>1. PICK r \in byTime[f.time] : r.row = m /\ r.occ = f.seq
    BY FrameRows
  <2>2. PICK s \in byTime[f.time] : s.row = n /\ s.occ = g.seq
    BY <1>5, FrameRows
  <2>3. r.pos = s.pos
    BY <1>1, <1>2, <1>5, <2>1, <2>2 DEF RowsTraced
  <2> QED
    BY <1>1, <1>2, <1>5, <2>1, <2>2, <2>3 DEF RowsTraced
<1> QED
  BY <1>4, <1>5

(* At the end every row is unassigned or in exactly one frame, a contained  *)
(* failure and the safety valve aside.                                      *)
LEMMA RowsPlaced == Inv /\ Traced => EachRowOnce
<1> SUFFICES ASSUME Inv, Traced, pc = "done", NEW n \in 1 .. Len(file),
                    file[n].time \notin failed,
                    ~(file[n].time # None /\ Capped(file[n].time))
             PROVE  Placed(n)
  BY DEF EachRowOnce
<1> DEFINE homes == {f \in frames : n \in f.rows}
<1>1. TypeOK /\ Listed /\ RowsTraced /\ RowsAccounted /\ GroupsOnce
  BY DEF Inv, Traced
<1>2. file[n] \in SourceRows
  BY <1>1, BuildAssumption DEF TypeOK
<1>3. ASSUME NEW f \in homes
      PROVE  \E r \in byTime[f.time] :
               /\ r.row = n /\ r.occ = f.seq /\ f.time \in Times
               /\ file[n].time = f.time /\ file[n].pos = r.pos /\ r \in Refs
  <2>1. f.time \in Times /\ \E r \in byTime[f.time] : r.row = n /\ r.occ = f.seq
    BY <1>3, FrameRows
  <2>2. PICK r \in byTime[f.time] : r.row = n /\ r.occ = f.seq
    BY <2>1
  <2>3. r \in Refs
    BY <1>1, <2>1 DEF TypeOK
  <2>4. file[r.row].time = f.time /\ file[r.row].pos = r.pos
    BY <1>1, <2>1 DEF RowsTraced
  <2> QED
    BY <2>1, <2>2, <2>3, <2>4
<1>4. CASE HasKey(file[n])
  <2> DEFINE t == file[n].time
  <2>1. t \in Times /\ t # None
    BY <1>2, <1>4 DEF HasKey, SourceRows
  <2>2. t \in Built /\ ~Capped(t)
    BY <1>1, <2>1 DEF Built, GroupsOnce
  <2>3. PICK r \in byTime[t] : r.row = n
    BY <1>1, <1>4 DEF RowsAccounted
  <2>4. PICK f \in frames : f.time = t /\ f.seq = r.occ /\ n \in f.rows
    BY <2>2, <2>3, RowHasFrame
  <2>5. ASSUME NEW g \in homes PROVE g = f
    <3>1. PICK s \in byTime[g.time] :
            /\ s.row = n /\ s.occ = g.seq /\ t = g.time
      BY <1>3, <2>5
    <3>2. s = r
      BY <1>1, <2>1, <2>3, <3>1 DEF RowsTraced
    <3> QED
      BY <1>1, <2>4, <3>1, <3>2 DEF Listed
  <2>6. homes = {f}
    BY <2>4, <2>5
  <2>7. Cardinality(homes) = 1 /\ \A g \in homes : g.time = t
    BY <2>4, <2>6, FS_Singleton
  <2>8. \A u \in unassigned : u.row # n
    BY <1>1, <1>4 DEF RowsAccounted
  <2> QED
    BY <2>7, <2>8 DEF Placed
<1>5. CASE ~HasKey(file[n])
  <2>1. \E u \in unassigned : u.row = n
    BY <1>1, <1>5 DEF RowsAccounted
  <2>2. ASSUME NEW f \in homes PROVE FALSE
    <3>1. PICK r \in byTime[f.time] :
            /\ f.time \in Times /\ file[n].time = f.time
            /\ file[n].pos = r.pos /\ r \in Refs
      BY <1>3, <2>2
    <3>2. file[n].time # None /\ file[n].pos # None
      BY <3>1, BuildAssumption DEF Refs
    <3> QED
      BY <1>5, <3>2 DEF HasKey
  <2>3. homes = {}
    BY <2>2
  <2> QED
    BY <2>1, <2>3 DEF Placed
<1> QED
  BY <1>4, <1>5

(* Within the expected positions, as many as expected means all of them.    *)
LEMMA WholeStatus ==
  ASSUME NEW t, NEW D \in SUBSET Positions
  PROVE  ClassifyStatus(t, D) = "COMPLETE"
           <=> D = Expected /\ Expected # {} /\ ~Capped(t)
<1> DEFINE n == Cardinality(D)
           m == Cardinality(Expected)
<1>1. IsFiniteSet(Expected) /\ IsFiniteSet(D)
  BY FS_Subset, BuildAssumption
<1>2. n \in Nat /\ m \in Nat /\ (m = 0 <=> Expected = {})
  BY <1>1, FS_CardinalityType, FS_EmptySet
<1>3. D \subseteq Expected => (n >= m <=> D = Expected)
  <2>1. ASSUME D \subseteq Expected
        PROVE  n <= m /\ (m = n => Expected = D)
    BY <1>1, <2>1, FS_Subset
  <2>2. D = Expected => n >= m
    BY <1>2
  <2> QED
    BY <1>2, <2>1, <2>2
<1> HIDE DEF n, m
<1>4. CASE Capped(t)
  BY <1>4 DEF ClassifyStatus
<1>5. CASE ~Capped(t) /\ ~(D \subseteq Expected)
  BY <1>5 DEF ClassifyStatus
<1>6. CASE ~Capped(t) /\ D \subseteq Expected /\ m = 0
  BY <1>2, <1>6 DEF ClassifyStatus, m
<1>7. CASE ~Capped(t) /\ D \subseteq Expected /\ m # 0
  <2>1. ClassifyStatus(t, D) = IF n >= m THEN "COMPLETE"
                               ELSE IF 100 * n < SeverePct * m
                               THEN "SEVERELY_INCOMPLETE" ELSE "PARTIAL"
    BY <1>7 DEF ClassifyStatus, m, n
  <2> QED
    BY <1>2, <1>3, <1>7, <2>1
<1> QED
  BY <1>4, <1>5, <1>6, <1>7

(* A frame's status is that of the positions it holds.                      *)
LEMMA StatusMeansWhole == Inv /\ Traced => CompleteMeansWhole
<1> SUFFICES ASSUME Inv, Traced, NEW f \in frames
             PROVE  f.status = "COMPLETE" <=>
                      DOMAIN f.payload = Expected /\ Expected # {}
                        /\ ~Capped(f.time)
  BY DEF CompleteMeansWhole
<1> DEFINE D == DOMAIN Slice(f.time, f.seq)
<1>0. Listed /\ FramesCut
  BY DEF Inv, Traced
<1>1. f.status = ClassifyStatus(f.time, D) /\ f.payload = Payload(f.time, f.seq)
  BY <1>0 DEF Listed, FramesCut
<1>2. DOMAIN f.payload = D /\ D \in SUBSET Positions
  <2>1. /\ D = {p \in Positions : f.seq < Occurrences(f.time, p)}
        /\ DOMAIN Payload(f.time, f.seq) = D
    BY SliceDomain
  <2> HIDE DEF D
  <2> QED
    BY <1>1, <2>1
<1> HIDE DEF D
<1>3. ClassifyStatus(f.time, D) = "COMPLETE"
        <=> D = Expected /\ Expected # {} /\ ~Capped(f.time)
  BY <1>2, WholeStatus
<1> QED
  BY <1>1, <1>2, <1>3

-----------------------------------------------------------------------------
(* The inductive invariant holds throughout a reconstruction.               *)
THEOREM Invariance == Spec => []Inv
BY Initial, Inductive, PTL DEF Spec

(* The reconstruction's variables keep their types.                         *)
THEOREM BuildTypeSafe == Spec => []TypeOK
<1>1. Inv => TypeOK
  BY DEF Inv
<1> QED
  BY Invariance, <1>1, PTL

(* Classification loses no reading: whatever a position reported at an      *)
(* event time is in a canonical frame of it.                                *)
THEOREM ReadingsSurvive == Spec => []EveryReadingCanonical
BY Invariance, ReadingKept, PTL

(* A payload is canonical at most once per event time.                      *)
THEOREM CountedOnce == Spec => []NoDoubleCount
<1>1. Inv => NoDoubleCount
  BY DEF Inv
<1> QED
  BY Invariance, <1>1, PTL

(* A replay points back at a canonical frame that holds what it repeats.    *)
THEOREM ReplaysPointBack == Spec => []ReplaysContained
<1>1. Inv => ReplaysContained
  BY DEF Inv
<1> QED
  BY Invariance, <1>1, PTL

(* The AMBIGUOUS branch of classify_group is unreachable.                   *)
THEOREM AmbiguousUnreachable == Spec => []NeverDisjoint
<1>1. Inv => NeverDisjoint
  BY DEF Inv
<1> QED
  BY Invariance, <1>1, PTL

(* The frames of a file carry every row once, in source order, and a frame  *)
(* said to be COMPLETE is whole.                                            *)
THEOREM RowsPartitioned == Spec => []RowsKept
<1>1. Inv /\ Traced => RowsKept
  BY OrderKept, RowsPlaced, StatusMeansWhole DEF RowsKept
<1>2. Spec => []Traced
  BY Invariance, TracedAtFirst, TracedInductive, PTL DEF Spec
<1> QED
  BY Invariance, <1>1, <1>2, PTL

(* What FrameStore assumes of the frames it is given: at one event time a     *)
(* sequence is given once, so that the frames can be listed in their order,  *)
(* and the frame a replay names is an earlier canonical one, with the same   *)
(* payload when the replay is a full one.                                    *)
OutcomeStorable ==
  \A f, g \in frames : g.time = f.time =>
    /\ g.seq = f.seq => g = f
    /\ g.seq = f.replayOf =>
         /\ g.seq < f.seq /\ g.class \in Canonical
         /\ f.class = "FULL_FRAME_REPLAY" => g.payload = f.payload

(* What a reconstruction hands over to persistence is what the theorems about *)
(* the stored frames start from (BuiltAssumption of FrameStore).              *)
THEOREM OutcomesAreStorable == Spec => []OutcomeStorable
<1>1. Inv => OutcomeStorable
  <2> SUFFICES ASSUME Inv, NEW f \in frames, NEW g \in frames, g.time = f.time
               PROVE  /\ g.seq = f.seq => g = f
                      /\ g.seq = f.replayOf =>
                           /\ g.seq < f.seq /\ g.class \in Canonical
                           /\ f.class = "FULL_FRAME_REPLAY" => g.payload = f.payload
    BY DEF OutcomeStorable
  <2>1. \A h \in frames : h.time = g.time /\ h.seq = g.seq => h = g
    BY DEF Inv, Listed
  <2>2. CASE f.class \in {"FULL_FRAME_REPLAY", "PARTIAL_FRAME_REPLAY"}
    <3>1. PICK h \in frames :
            /\ h.time = f.time /\ h.seq = f.replayOf /\ h.seq < f.seq
            /\ h.class \in Canonical
            /\ f.class = "FULL_FRAME_REPLAY" => h.payload = f.payload
      BY <2>2 DEF Inv, ReplaysContained
    <3> QED
      BY <2>1, <3>1
  <2>3. CASE f.class \notin {"FULL_FRAME_REPLAY", "PARTIAL_FRAME_REPLAY"}
    <3>1. f.replayOf = None
      BY <2>3 DEF Inv, ReplaysContained
    <3>2. g.seq \in Nat
      BY DEF Inv, TypeOK, Frames, Sequence
    <3> QED
      BY <2>1, <3>1, <3>2, BuildAssumption
  <2> QED
    BY <2>2, <2>3
<1> QED
  BY Invariance, <1>1, PTL
=============================================================================

-------------------------- MODULE FrameStoreProofs --------------------------
(***************************************************************************)
(* Theorems about FrameStore for every value of its constants.              *)
(***************************************************************************)
EXTENDS FrameStore, SetFacts

(* The identifiers of a run are not in use yet.                             *)
FreshIds(d) == \A x \in DOMAIN d.frames : x.run < d.runs[x.file]

(* The invariants of FrameStore, for one set of tables.                     *)
Unique(d) ==
  \A x, y \in DOMAIN d.frames :
    d.frames[x].time = d.frames[y].time /\ d.frames[x].seq = d.frames[y].seq
    => x = y
Ordered(d) ==
  \A x, y \in DOMAIN d.frames :
    /\ x.file = y.file /\ x.run = y.run /\ x.place < y.place
    /\ d.frames[x].time = d.frames[y].time
    => d.frames[x].seq < d.frames[y].seq
Linked(d) ==
  /\ \A s \in d.sources : s.frame \in DOMAIN d.frames
  /\ \A x \in DOMAIN d.frames :
       /\ \E s \in d.sources : s.frame = x
       /\ d.frames[x].replayOf \in DOMAIN d.frames \cup {None}
  /\ \A r \in d.rows : \E s \in d.sources : s.frame = r.frame /\ s.file = r.file
Truthful(d) ==
  \A x \in DOMAIN d.frames :
    d.frames[x].replayOf # None =>
      LET target == d.frames[d.frames[x].replayOf] IN
      /\ target.time = d.frames[x].time /\ target.seq < d.frames[x].seq
      /\ target.class \in {"UNIQUE", "SAME_TIMESTAMP_DISTINCT_FRAME"}
      /\ d.frames[x].class = "FULL_FRAME_REPLAY" => target.fp = d.frames[x].fp
Links(d, f, i) == {r \in d.rows : r.file = f /\ r.place = i}
OwnFrames(d, f) == {x \in DOMAIN d.frames : x.file = f /\ x.run + 1 = d.runs[f]}
Held(d) ==
  \A f \in Files :
    d.status[f] = "FRAMES_RECONSTRUCTED" =>
      /\ \A i \in Places(f) :
           /\ Cardinality(Links(d, f, i)) = 1
           /\ \A r \in Links(d, f, i) : d.frames[r.frame].fp = content[f].frames[i].fp
      /\ content[f].unassigned /\ OwnFrames(d, f) # {} =>
           Cardinality(Links(d, f, 0)) = 1

Sound(d) ==
  /\ Tables(d) /\ IsFiniteSet(DOMAIN d.frames) /\ FreshIds(d)
  /\ Unique(d) /\ Ordered(d) /\ Linked(d) /\ Truthful(d)

(* The session's tables keep what is committed about a file until the        *)
(* session has reconstructed the file.                                       *)
Follows(d, c) ==
  \A g \in Files : d.runs[g] >= c.runs[g] /\
                   (d.runs[g] = c.runs[g] => Provenance(d, g) = Provenance(c, g))

StoreInv ==
  /\ content \in [Files -> Outcomes] /\ day \in Commands
  /\ Sound(db) /\ Sound(tx) /\ Held(db) /\ Held(tx)
  /\ Follows(tx, db)

-----------------------------------------------------------------------------
(***************************************************************************)
(* Lemmas: what a file reconstructs to.                                     *)
(***************************************************************************)

(* A file's frames are numbered from 1, are built frames and stand in the   *)
(* order of BuiltAssumption.                                                *)
LEMMA ContentFacts ==
  ASSUME content \in [Files -> Outcomes], NEW f \in Files
  PROVE  /\ content[f] \in Outcome
         /\ Len(content[f].frames) \in Nat
         /\ Places(f) = 1 .. Len(content[f].frames)
         /\ \A i \in Places(f) : i \in Nat \ {0} /\ content[f].frames[i] \in BuiltFrames
         /\ IsFiniteSet(Places(f))
         /\ InOrder(content[f].frames) /\ PointsBack(content[f].frames)
<1>1. content[f] \in Outcomes
  OBVIOUS
<1>2. content[f] \in Outcome
  BY <1>1, StoreAssumption
<1>3. content[f].frames \in Seq(BuiltFrames)
  BY <1>2 DEF Outcome
<1>4. /\ Len(content[f].frames) \in Nat
      /\ Places(f) = 1 .. Len(content[f].frames)
      /\ \A i \in Places(f) : i \in Nat \ {0} /\ content[f].frames[i] \in BuiltFrames
  BY <1>3 DEF Places
<1>5. IsFiniteSet(Places(f))
  <2>1. Len(content[f].frames) \in Int /\ 1 \in Int
    BY <1>4
  <2>2. IsFiniteSet(1 .. Len(content[f].frames))
    BY <2>1, FS_Interval
  <2> QED BY <1>4, <2>2
<1> QED BY <1>1, <1>2, <1>4, <1>5, BuiltAssumption

(* The new frames of a file at a time are places of it.                     *)
LEMMA NewFacts ==
  ASSUME content \in [Files -> Outcomes], NEW f \in Files, NEW d, NEW t
  PROVE  /\ New(d, f) \subseteq Places(f) /\ IsFiniteSet(New(d, f))
         /\ NewAt(d, f, t) \subseteq New(d, f) /\ NewAt(d, f, t) \in SUBSET Nat
         /\ New(d, f) \in SUBSET Nat
<1>1. /\ IsFiniteSet(Places(f)) /\ \A i \in Places(f) : i \in Nat
  BY ContentFacts
<1>2. New(d, f) \subseteq Places(f)
  BY DEF New
<1>3. IsFiniteSet(New(d, f))
  BY <1>1, <1>2, FS_Subset
<1>4. NewAt(d, f, t) \subseteq New(d, f)
  BY DEF NewAt
<1> QED BY <1>1, <1>2, <1>3, <1>4

(* The first free sequence of a time is above every stored one.             *)
LEMMA FirstFreeFacts ==
  ASSUME content \in [Files -> Outcomes], NEW f \in Files,
         NEW d, Tables(d), IsFiniteSet(DOMAIN d.frames),
         NEW t, NewAt(d, f, t) # {}
  PROVE  /\ FirstFree(d, f, t) \in Nat
         /\ \A n \in SequencesAt(d, t) : n \in Nat /\ n < FirstFree(d, f, t)
<1> DEFINE at == {y \in DOMAIN d.frames : d.frames[y].time = t}
           g == [x \in at |-> d.frames[x].seq]
           S == SequencesAt(d, t)
<1>1. S = {g[x] : x \in at}
  BY DEF SequencesAt
<1>2. IsFiniteSet(at)
  <2>1. at \in SUBSET DOMAIN d.frames OBVIOUS
  <2> HIDE DEF at
  <2> QED BY <2>1, FS_Subset
<1>3. IsFiniteSet(S)
  <2>1. DOMAIN g = at /\ g = [x \in at |-> g[x]] OBVIOUS
  <2>2. IsFiniteSet({g[x] : x \in at})
    <3> HIDE DEF g, at
    <3> QED BY <1>2, <2>1, FiniteImage
  <2> QED BY <1>1, <2>2
<1>4. S \in SUBSET Nat
  <2>1. \A x \in at : g[x] \in Nat
    BY DEF Tables, Stored
  <2> HIDE DEF g, at
  <2> QED BY <1>1, <2>1
<1>5. CASE S # {}
  <2>1. \E m \in S : \A n \in S : n <= m
    <3> HIDE DEF S
    <3> QED BY <1>3, <1>4, <1>5, GreatestNumber
  <2> DEFINE m == CHOOSE n \in S : \A k \in S : k <= n
  <2>2. m \in S /\ \A k \in S : k <= m
    BY <2>1
  <2>3. FirstFree(d, f, t) = 1 + m
    BY <1>5 DEF FirstFree
  <2> HIDE DEF m, S
  <2>4. m \in Nat /\ \A k \in S : k \in Nat /\ k < 1 + m
    BY <1>4, <2>2
  <2> QED BY <2>3, <2>4 DEF S
<1>6. CASE S = {}
  <2>1. \E i \in NewAt(d, f, t) : \A j \in NewAt(d, f, t) : i <= j
    BY NewFacts, LeastNumber
  <2> DEFINE i == CHOOSE i \in NewAt(d, f, t) : \A j \in NewAt(d, f, t) : i <= j
  <2>2. i \in Places(f)
    BY <2>1, NewFacts
  <2>3. FirstFree(d, f, t) = content[f].frames[i].seq
    BY <1>6 DEF FirstFree
  <2>4. content[f].frames[i] \in BuiltFrames
    BY <2>2, ContentFacts
  <2> QED BY <1>6, <2>3, <2>4 DEF BuiltFrames
<1> QED BY <1>5, <1>6

(* Sequences are assigned above the stored ones, in the order of the file.  *)
LEMMA AssignedFacts ==
  ASSUME content \in [Files -> Outcomes], NEW f \in Files,
         NEW d, Tables(d), IsFiniteSet(DOMAIN d.frames), NEW i \in New(d, f)
  PROVE  /\ AssignedSequence(d, f, i) \in Nat
         /\ \A n \in SequencesAt(d, content[f].frames[i].time) :
              n \in Nat /\ n < AssignedSequence(d, f, i)
         /\ \A j \in New(d, f) :
              content[f].frames[j].time = content[f].frames[i].time /\ j < i =>
                AssignedSequence(d, f, j) < AssignedSequence(d, f, i)
<1> DEFINE t == content[f].frames[i].time
           Earlier(k) == {j \in NewAt(d, f, t) : j < k}
<1>1. i \in NewAt(d, f, t)
  BY DEF NewAt
<1>2. /\ FirstFree(d, f, t) \in Nat
      /\ \A n \in SequencesAt(d, t) : n \in Nat /\ n < FirstFree(d, f, t)
  BY <1>1, FirstFreeFacts
<1>3. \A k : Earlier(k) \subseteq New(d, f)
  BY NewFacts
<1>4. \A k : IsFiniteSet(Earlier(k)) /\ Cardinality(Earlier(k)) \in Nat
  <2> HIDE DEF Earlier
  <2> QED BY <1>3, NewFacts, FS_Subset, FS_CardinalityType
<1>5. AssignedSequence(d, f, i) = FirstFree(d, f, t) + Cardinality(Earlier(i))
  BY DEF AssignedSequence
<1>6. /\ AssignedSequence(d, f, i) \in Nat
      /\ \A n \in SequencesAt(d, t) : n \in Nat /\ n < AssignedSequence(d, f, i)
  <2>1. Cardinality(Earlier(i)) \in Nat BY <1>4
  <2> HIDE DEF Earlier, t
  <2> QED BY <1>2, <1>5, <2>1
<1>7. ASSUME NEW j \in New(d, f), content[f].frames[j].time = t, j < i
      PROVE  AssignedSequence(d, f, j) < AssignedSequence(d, f, i)
  <2>1. AssignedSequence(d, f, j) = FirstFree(d, f, t) + Cardinality(Earlier(j))
    BY <1>7 DEF AssignedSequence
  <2>2. j \in NewAt(d, f, t)
    BY <1>7 DEF NewAt
  <2>3. i \in Nat /\ j \in Nat /\ \A k \in NewAt(d, f, t) : k \in Nat
    BY NewFacts
  <2>4. Earlier(j) \subseteq Earlier(i) /\ j \in Earlier(i) /\ j \notin Earlier(j)
    <3> HIDE DEF t
    <3>1. \A k \in NewAt(d, f, t) : k < j => k < i
      BY <1>7, <2>3
    <3>2. ~(j < j)
      BY <2>3
    <3> QED BY <1>7, <2>2, <3>1, <3>2, Zenon
  <2>5. /\ Cardinality(Earlier(j)) <= Cardinality(Earlier(i))
        /\ Cardinality(Earlier(i)) = Cardinality(Earlier(j)) => Earlier(i) = Earlier(j)
    <3>1. IsFiniteSet(Earlier(i)) BY <1>4
    <3> HIDE DEF Earlier
    <3> QED BY <2>4, <3>1, FS_Subset
  <2>6. Cardinality(Earlier(i)) # Cardinality(Earlier(j))
    BY <2>4, <2>5
  <2>7. Cardinality(Earlier(j)) \in Nat /\ Cardinality(Earlier(i)) \in Nat
    BY <1>4
  <2>8. Cardinality(Earlier(j)) < Cardinality(Earlier(i))
    <3> HIDE DEF Earlier
    <3> QED BY <2>5, <2>6, <2>7
  <2> HIDE DEF Earlier, t
  <2>9. \A a, b, c \in Nat : a < b => c + a < c + b
    OBVIOUS
  <2>10. FirstFree(d, f, t) + Cardinality(Earlier(j)) < FirstFree(d, f, t) + Cardinality(Earlier(i))
    BY <1>2, <2>7, <2>8, <2>9
  <2> QED BY <1>5, <2>1, <2>10
<1> QED BY <1>6, <1>7

-----------------------------------------------------------------------------
(***************************************************************************)
(* Lemmas: delete_for_file.                                                 *)
(***************************************************************************)

(* The frames only this file contributed to.                                *)
Exclusive(d, f) == SourcedBy(d, f) \ SharedWith(d, f)

(* What delete_for_file leaves, table by table.                             *)
LEMMA DeletedTables ==
  ASSUME NEW d, Tables(d), Linked(d), NEW f \in Files,
         NEW D, D = DeleteForFile(d, f)
  PROVE  /\ D.status = d.status /\ D.runs = d.runs /\ D.findings = d.findings
         /\ DOMAIN D = DOMAIN d
         /\ D.sources = {s \in d.sources : s.file # f}
         /\ D.rows = {r \in d.rows : r.file # f}
         /\ DOMAIN D.frames = DOMAIN d.frames \ Exclusive(d, f)
         /\ \A x \in DOMAIN D.frames :
              /\ D.frames[x] \in Stored
              /\ D.frames[x].time = d.frames[x].time /\ D.frames[x].seq = d.frames[x].seq
              /\ D.frames[x].fp = d.frames[x].fp /\ D.frames[x].class = d.frames[x].class
              /\ IF d.frames[x].replayOf \in Exclusive(d, f)
                   THEN D.frames[x].replayOf = None
                   ELSE D.frames[x] = d.frames[x]
<1> USE DEF Exclusive
<1> DEFINE Frames == [x \in DOMAIN d.frames \ Exclusive(d, f) |->
                        IF d.frames[x].replayOf \in Exclusive(d, f)
                        THEN [d.frames[x] EXCEPT !.replayOf = None]
                        ELSE d.frames[x]]
           Srcs == {s \in d.sources : ~(s.frame \in SourcedBy(d, f) /\ s.file = f)}
           Rws == {r \in d.rows : ~(r.frame \in SourcedBy(d, f) /\ r.file = f)}
<1>1. D = [d EXCEPT !.frames = Frames, !.sources = Srcs, !.rows = Rws]
  BY DEF DeleteForFile
<1>2. /\ D.frames = Frames /\ D.sources = Srcs /\ D.rows = Rws
      /\ D.status = d.status /\ D.runs = d.runs /\ D.findings = d.findings
      /\ DOMAIN D = DOMAIN d
  <2> HIDE DEF Frames, Srcs, Rws
  <2> QED BY <1>1 DEF Tables
<1>3. D.sources = {s \in d.sources : s.file # f}
  BY <1>2 DEF SourcedBy
<1>4. D.rows = {r \in d.rows : r.file # f}
  <2>1. \A r \in d.rows : r.file = f => r.frame \in SourcedBy(d, f)
    BY DEF Linked, SourcedBy
  <2> QED BY <1>2, <2>1
<1>5. ASSUME NEW x \in DOMAIN D.frames
      PROVE  /\ D.frames[x] \in Stored
             /\ D.frames[x].time = d.frames[x].time /\ D.frames[x].seq = d.frames[x].seq
             /\ D.frames[x].fp = d.frames[x].fp /\ D.frames[x].class = d.frames[x].class
             /\ IF d.frames[x].replayOf \in Exclusive(d, f)
                  THEN D.frames[x].replayOf = None
                  ELSE D.frames[x] = d.frames[x]
  <2>1. x \in DOMAIN d.frames /\ d.frames[x] \in Stored
    BY <1>2 DEF Tables
  <2>2. D.frames[x] = IF d.frames[x].replayOf \in Exclusive(d, f)
                      THEN [d.frames[x] EXCEPT !.replayOf = None]
                      ELSE d.frames[x]
    BY <1>2
  <2> HIDE DEF Exclusive
  <2> QED BY <2>1, <2>2 DEF Stored
<1> QED BY <1>2, <1>3, <1>4, <1>5

(* delete_for_file leaves sound tables without a trace of the file.         *)
LEMMA DeletedSound ==
  ASSUME NEW d, Sound(d), NEW f \in Files, NEW D, D = DeleteForFile(d, f)
  PROVE  Sound(D)
<1> USE DEF Sound
<1>1. Tables(d) /\ Linked(d)
  OBVIOUS
<1>2. /\ D.status = d.status /\ D.runs = d.runs /\ D.findings = d.findings
      /\ DOMAIN D = DOMAIN d
      /\ D.sources = {s \in d.sources : s.file # f}
      /\ D.rows = {r \in d.rows : r.file # f}
      /\ DOMAIN D.frames = DOMAIN d.frames \ Exclusive(d, f)
  BY <1>1, DeletedTables
<1>3. \A x \in DOMAIN D.frames :
        /\ x \in DOMAIN d.frames
        /\ D.frames[x] \in Stored
        /\ D.frames[x].time = d.frames[x].time /\ D.frames[x].seq = d.frames[x].seq
        /\ D.frames[x].fp = d.frames[x].fp /\ D.frames[x].class = d.frames[x].class
        /\ IF d.frames[x].replayOf \in Exclusive(d, f)
             THEN D.frames[x].replayOf = None
             ELSE D.frames[x] = d.frames[x]
  BY <1>1, <1>2, DeletedTables
<1>4. Tables(D)
  BY <1>1, <1>2, <1>3 DEF Tables
<1>5. IsFiniteSet(DOMAIN D.frames)
  <2>1. DOMAIN D.frames \in SUBSET DOMAIN d.frames BY <1>2
  <2> QED BY <2>1, FS_Subset
<1>6. FreshIds(D)
  BY <1>2, <1>3 DEF FreshIds
<1>7. Unique(D)
  BY <1>3 DEF Unique
<1>8. Ordered(D)
  BY <1>3 DEF Ordered
<1>9. Linked(D)
  <2>1. \A s \in D.sources : s.frame \in DOMAIN D.frames
    BY <1>1, <1>2 DEF Linked, Exclusive, SourcedBy, SharedWith
  <2>2. ASSUME NEW x \in DOMAIN D.frames
        PROVE  \E s \in D.sources : s.frame = x
    <3>1. PICK s \in d.sources : s.frame = x
      BY <1>1, <1>3 DEF Linked
    <3>2. CASE s.file # f
      BY <1>2, <3>1, <3>2
    <3>3. CASE s.file = f
      <4>1. x \in SourcedBy(d, f) BY <3>1, <3>3 DEF SourcedBy
      <4>2. x \in SharedWith(d, f) BY <1>2, <4>1 DEF Exclusive
      <4> QED BY <1>2, <4>2 DEF SharedWith
    <3> QED BY <3>2, <3>3
  <2>3. ASSUME NEW x \in DOMAIN D.frames
        PROVE  D.frames[x].replayOf \in DOMAIN D.frames \cup {None}
    BY <1>1, <1>2, <1>3 DEF Linked
  <2>4. \A r \in D.rows : \E s \in D.sources : s.frame = r.frame /\ s.file = r.file
    BY <1>1, <1>2 DEF Linked
  <2> QED BY <2>1, <2>2, <2>3, <2>4 DEF Linked
<1>10. Truthful(D)
  <2> SUFFICES ASSUME NEW x \in DOMAIN D.frames, D.frames[x].replayOf # None
               PROVE  LET target == D.frames[D.frames[x].replayOf] IN
                      /\ target.time = D.frames[x].time /\ target.seq < D.frames[x].seq
                      /\ target.class \in {"UNIQUE", "SAME_TIMESTAMP_DISTINCT_FRAME"}
                      /\ D.frames[x].class = "FULL_FRAME_REPLAY" => target.fp = D.frames[x].fp
    BY DEF Truthful
  <2>1. D.frames[x] = d.frames[x] /\ x \in DOMAIN d.frames
    BY <1>3
  <2>2. D.frames[x].replayOf \in DOMAIN D.frames
    BY <1>9 DEF Linked
  <2> DEFINE y == d.frames[x].replayOf
  <2>3. /\ D.frames[y].time = d.frames[y].time /\ D.frames[y].seq = d.frames[y].seq
        /\ D.frames[y].fp = d.frames[y].fp /\ D.frames[y].class = d.frames[y].class
    BY <1>3, <2>1, <2>2
  <2>4. /\ d.frames[y].time = d.frames[x].time /\ d.frames[y].seq < d.frames[x].seq
        /\ d.frames[y].class \in {"UNIQUE", "SAME_TIMESTAMP_DISTINCT_FRAME"}
        /\ d.frames[x].class = "FULL_FRAME_REPLAY" => d.frames[y].fp = d.frames[x].fp
    BY <2>1 DEF Truthful
  <2> QED BY <2>1, <2>3, <2>4
<1> QED BY <1>4, <1>5, <1>6, <1>7, <1>8, <1>9, <1>10

-----------------------------------------------------------------------------
(***************************************************************************)
(* Lemmas: _persist, on tables without a trace of the file.                 *)
(***************************************************************************)

(* No table mentions the file as a source.                                  *)
Cleared(d, f) == (\A s \in d.sources : s.file # f) /\ (\A r \in d.rows : r.file # f)

(* The tables after _persist and the status write that ends it.             *)
Inserted(d, f, e) == [InsertFor(d, f, e) EXCEPT !.status[f] = "FRAMES_RECONSTRUCTED"]

(* A new frame has an unused identifier and is a frame; its replay target   *)
(* is a new frame of the same run at the same time, with an earlier place.  *)
LEMMA NewFrameFacts ==
  ASSUME content \in [Files -> Outcomes], NEW d, Sound(d), NEW f \in Files,
         NEW i \in New(d, f)
  PROVE  /\ NewId(d, f, i) \in FrameIds /\ NewId(d, f, i) \notin DOMAIN d.frames
         /\ NewFrame(d, f, i) \in Stored
         /\ NewFrame(d, f, i).replayOf # None =>
              \E j \in New(d, f) :
                /\ NewFrame(d, f, i).replayOf = NewId(d, f, j)
                /\ content[f].frames[j].time = content[f].frames[i].time
                /\ content[f].frames[j].seq = content[f].frames[i].replayOf
<1>1. Tables(d) /\ IsFiniteSet(DOMAIN d.frames) /\ FreshIds(d)
  BY DEF Sound
<1>2. i \in Nat /\ i \in Places(f) /\ content[f].frames[i] \in BuiltFrames
  BY ContentFacts, NewFacts
<1>3. \A j \in New(d, f) : NewId(d, f, j) \in FrameIds
  <2>1. \A j \in New(d, f) : j \in Nat BY NewFacts
  <2> QED BY <1>1, <2>1 DEF NewId, FrameIds, Tables
<1>4. NewId(d, f, i) \notin DOMAIN d.frames
  <2> SUFFICES ASSUME NewId(d, f, i) \in DOMAIN d.frames PROVE FALSE
    OBVIOUS
  <2>1. d.runs[f] < d.runs[f]
    BY <1>1 DEF NewId, FreshIds
  <2> QED BY <1>1, <2>1 DEF Tables
<1> DEFINE b == content[f].frames[i]
           targets == {j \in NewAt(d, f, b.time) : content[f].frames[j].seq = b.replayOf}
<1>5. CASE b.replayOf = None \/ targets = {}
  <2>1. ReplayTarget(d, f, i) = None
    BY <1>5 DEF ReplayTarget
  <2>2. AssignedSequence(d, f, i) \in Nat
    BY <1>1, AssignedFacts
  <2>3. NewFrame(d, f, i) \in Stored /\ NewFrame(d, f, i).replayOf = None
    BY <1>2, <2>1, <2>2 DEF NewFrame, Stored, BuiltFrames
  <2> QED BY <1>3, <1>4, <2>3
<1>6. CASE ~(b.replayOf = None \/ targets = {})
  <2> DEFINE j == CHOOSE j \in targets : TRUE
  <2>1. j \in targets
    BY <1>6
  <2>2. ReplayTarget(d, f, i) = NewId(d, f, j)
    BY <1>6 DEF ReplayTarget
  <2>3. /\ j \in New(d, f) /\ content[f].frames[j].time = b.time
        /\ content[f].frames[j].seq = b.replayOf
    BY <2>1 DEF NewAt
  <2> HIDE DEF j
  <2>4. AssignedSequence(d, f, i) \in Nat
    BY <1>1, AssignedFacts
  <2>5. NewId(d, f, j) \in FrameIds
    BY <1>3, <2>3
  <2>6. NewFrame(d, f, i) \in Stored /\ NewFrame(d, f, i).replayOf = NewId(d, f, j)
    BY <1>2, <2>2, <2>4, <2>5 DEF NewFrame, Stored, BuiltFrames
  <2> QED BY <1>3, <1>4, <2>3, <2>6
<1> QED BY <1>5, <1>6

(* What _persist makes of the tables, table by table.                       *)
InsertedAs(d, f, e, P) ==
  /\ DOMAIN P = DOMAIN d
  /\ P.status = [d.status EXCEPT ![f] = "FRAMES_RECONSTRUCTED"]
  /\ P.runs = [d.runs EXCEPT ![f] = @ + 1]
  /\ P.findings = [d.findings EXCEPT ![f] = Issues(f)]
  /\ P.sources = d.sources \cup SourceRows(d, f, e)
  /\ P.rows = d.rows \cup RowRows(d, f, e)
  /\ DOMAIN P.frames = DOMAIN d.frames \cup {NewId(d, f, i) : i \in New(d, f)}
  /\ \A x \in DOMAIN d.frames : P.frames[x] = d.frames[x]
  /\ \A i \in New(d, f) : P.frames[NewId(d, f, i)] = NewFrame(d, f, i)

(* _persist adds rows and frames and changes no stored frame.               *)
LEMMA InsertedTables ==
  ASSUME content \in [Files -> Outcomes], NEW d, Sound(d), NEW f \in Files,
         NEW e \in Lookups(d, f), NEW P, P = Inserted(d, f, e)
  PROVE  InsertedAs(d, f, e, P)
<1>1. Tables(d)
  BY DEF Sound
<1> DEFINE S == SourceRows(d, f, e)
           R == RowRows(d, f, e)
           F == FramesWith(d, f, e)
           ids == {NewId(d, f, i) : i \in New(d, f)}
<1>2. /\ DOMAIN P = DOMAIN d
      /\ P.status = [d.status EXCEPT ![f] = "FRAMES_RECONSTRUCTED"]
      /\ P.runs = [d.runs EXCEPT ![f] = @ + 1]
      /\ P.findings = [d.findings EXCEPT ![f] = Issues(f)]
      /\ P.sources = d.sources \cup S
      /\ P.rows = d.rows \cup R
      /\ P.frames = F
  <2> HIDE DEF S, R, F
  <2> QED BY <1>1 DEF Inserted, InsertFor, Tables, S, R, F
<1>3. F = [x \in DOMAIN d.frames \cup ids |->
             IF x \in ids THEN NewFrame(d, f, x.place) ELSE d.frames[x]]
  BY DEF FramesWith
<1>4. \A i \in New(d, f) : NewId(d, f, i) \in ids /\ NewId(d, f, i).place = i
  BY DEF NewId
<1>5. \A x \in DOMAIN d.frames : x \notin ids
  <2>1. \A i \in New(d, f) : NewId(d, f, i) \notin DOMAIN d.frames
    BY NewFrameFacts
  <2> QED BY <2>1
<1> QED BY <1>2, <1>3, <1>4, <1>5 DEF InsertedAs

(* The stored frame a place is mapped to exists and holds its payload.      *)
LEMMA FrameForFacts ==
  ASSUME content \in [Files -> Outcomes], NEW d, Sound(d), NEW f \in Files,
         NEW e \in Lookups(d, f), NEW P, P = Inserted(d, f, e), NEW k \in Places(f)
  PROVE  /\ FrameFor(d, f, k, e) \in DOMAIN P.frames
         /\ FrameFor(d, f, k, e) \in FrameIds
         /\ P.frames[FrameFor(d, f, k, e)].fp = content[f].frames[k].fp
<1> DEFINE p == content[f].frames[k].fp
           ids == {NewId(d, f, i) : i \in New(d, f)}
<1>1. /\ DOMAIN P.frames = DOMAIN d.frames \cup ids
      /\ \A x \in DOMAIN d.frames : P.frames[x] = d.frames[x]
      /\ \A i \in New(d, f) : P.frames[NewId(d, f, i)] = NewFrame(d, f, i)
  <2>1. InsertedAs(d, f, e, P)
    BY InsertedTables
  <2> QED BY <2>1 DEF InsertedAs
<1>2. CASE k \in New(d, f)
  <2>1. FrameFor(d, f, k, e) = NewId(d, f, k)
    BY <1>2 DEF FrameFor
  <2>2. NewFrame(d, f, k).fp = p
    BY DEF NewFrame
  <2> QED BY <1>1, <1>2, <2>1, <2>2, NewFrameFacts
<1>3. CASE k \notin New(d, f)
  <2>1. FrameFor(d, f, k, e) = e[p]
    BY <1>3 DEF FrameFor
  <2>2. p \in ReusedPayloads(d, f)
    BY <1>3 DEF ReusedPayloads, Reused
  <2>3. e[p] \in DOMAIN d.frames /\ d.frames[e[p]].fp = p
    BY <2>2 DEF Lookups, WithPayload
  <2>4. e[p] \in FrameIds
    BY <2>3 DEF Sound, Tables
  <2> QED BY <1>1, <2>1, <2>3, <2>4
<1> QED BY <1>2, <1>3

(* _persist leaves sound tables.                                            *)
LEMMA InsertedSound ==
  ASSUME content \in [Files -> Outcomes], NEW d, Sound(d), NEW f \in Files,
         NEW e \in Lookups(d, f), NEW P, P = Inserted(d, f, e)
  PROVE  Sound(P)
<1> DEFINE ids == {NewId(d, f, i) : i \in New(d, f)}
           time(i) == content[f].frames[i].time
<1>1. /\ Tables(d) /\ IsFiniteSet(DOMAIN d.frames) /\ FreshIds(d)
      /\ Unique(d) /\ Ordered(d) /\ Linked(d) /\ Truthful(d)
  BY DEF Sound
<1>2. /\ DOMAIN P = DOMAIN d
      /\ P.status = [d.status EXCEPT ![f] = "FRAMES_RECONSTRUCTED"]
      /\ P.runs = [d.runs EXCEPT ![f] = @ + 1]
      /\ P.findings = [d.findings EXCEPT ![f] = Issues(f)]
      /\ P.sources = d.sources \cup SourceRows(d, f, e)
      /\ P.rows = d.rows \cup RowRows(d, f, e)
      /\ DOMAIN P.frames = DOMAIN d.frames \cup ids
      /\ \A x \in DOMAIN d.frames : P.frames[x] = d.frames[x]
      /\ \A i \in New(d, f) : P.frames[NewId(d, f, i)] = NewFrame(d, f, i)
  <2>1. InsertedAs(d, f, e, P) BY InsertedTables
  <2> QED BY <2>1 DEF InsertedAs
<1>3. \A i \in New(d, f) :
        /\ NewId(d, f, i).file = f /\ NewId(d, f, i).place = i
        /\ NewId(d, f, i).run = d.runs[f]
        /\ NewFrame(d, f, i).time = time(i)
        /\ NewFrame(d, f, i).seq = AssignedSequence(d, f, i)
        /\ NewFrame(d, f, i).fp = content[f].frames[i].fp
        /\ NewFrame(d, f, i).class = content[f].frames[i].class
  BY DEF NewId, NewFrame
<1>4. \A i \in New(d, f) : i \in Nat /\ i \in Places(f)
  BY NewFacts
<1>5. \A i \in New(d, f) :
        /\ NewId(d, f, i) \in FrameIds /\ NewId(d, f, i) \notin DOMAIN d.frames
        /\ NewFrame(d, f, i) \in Stored
  BY NewFrameFacts
<1>6. \A i \in New(d, f) : AssignedSequence(d, f, i) \in Nat
  BY <1>1, AssignedFacts
<1>7. \A i \in New(d, f) : \A x \in DOMAIN d.frames :
        d.frames[x].time = time(i) =>
          d.frames[x].seq \in Nat /\ d.frames[x].seq < AssignedSequence(d, f, i)
  <2> SUFFICES ASSUME NEW i \in New(d, f), NEW x \in DOMAIN d.frames,
                      d.frames[x].time = time(i)
               PROVE  d.frames[x].seq \in Nat /\ d.frames[x].seq < AssignedSequence(d, f, i)
    OBVIOUS
  <2>1. d.frames[x].seq \in SequencesAt(d, time(i))
    BY DEF SequencesAt
  <2> QED BY <1>1, <2>1, AssignedFacts
<1>8. \A i, j \in New(d, f) : time(i) = time(j) /\ j < i =>
        AssignedSequence(d, f, j) < AssignedSequence(d, f, i)
  BY <1>1, AssignedFacts
<1> HIDE DEF time
<1>9. Tables(P)
  <2>1. SourceRows(d, f, e) \in SUBSET Sources
    <3>1. \A i \in Places(f) : FrameFor(d, f, i, e) \in FrameIds
      BY FrameForFacts
    <3>2. ASSUME NEW i \in Places(f)
          PROVE  [frame |-> FrameFor(d, f, i, e), file |-> f, primary |-> i \in New(d, f)] \in Sources
      <4>1. (i \in New(d, f)) \in BOOLEAN
        OBVIOUS
      <4> DEFINE q == i \in New(d, f)
      <4> HIDE DEF q
      <4>2. q \in BOOLEAN
        BY <4>1 DEF q
      <4>3. [frame |-> FrameFor(d, f, i, e), file |-> f, primary |-> q] \in Sources
        BY <3>1, <4>2 DEF Sources
      <4> QED BY <4>3 DEF q
    <3> QED BY <3>2, Zenon DEF SourceRows
  <2>2. RowRows(d, f, e) \in SUBSET RowLinks
    <3>1. \A i \in Places(f) : FrameFor(d, f, i, e) \in FrameIds /\ i \in Nat
      BY FrameForFacts, ContentFacts
    <3>2. \A i \in Anchors(d, f) : NewId(d, f, i) \in FrameIds
      BY <1>5 DEF Anchors
    <3> QED BY <3>1, <3>2 DEF RowRows, RowLinks
  <2>3. Issues(f) \in SUBSET (Classes \cup {"UNASSIGNED_RAW_ROW"})
    <3>1. \A i \in Places(f) : content[f].frames[i].class \in Classes
      BY ContentFacts DEF BuiltFrames
    <3> QED BY <3>1 DEF Issues
  <2>4. DOMAIN P.frames \in SUBSET FrameIds
    BY <1>1, <1>2, <1>5 DEF Tables
  <2>5. \A x \in DOMAIN P.frames : P.frames[x] \in Stored
    BY <1>1, <1>2, <1>5 DEF Tables
  <2>6. P.status \in [Files -> FrameStates] /\ P.runs \in [Files -> Nat]
    BY <1>1, <1>2 DEF Tables, FrameStates
  <2>7. P.findings \in [Files -> SUBSET (Classes \cup {"UNASSIGNED_RAW_ROW"})]
    BY <1>1, <1>2, <2>3 DEF Tables
  <2>8. P.sources \in SUBSET Sources /\ P.rows \in SUBSET RowLinks
    BY <1>1, <1>2, <2>1, <2>2 DEF Tables
  <2> QED BY <1>1, <1>2, <2>4, <2>5, <2>6, <2>7, <2>8 DEF Tables
<1>10. IsFiniteSet(DOMAIN P.frames)
  <2> DEFINE g == [i \in New(d, f) |-> NewId(d, f, i)]
  <2>1. IsFiniteSet(New(d, f))
    BY NewFacts
  <2>2. DOMAIN g = New(d, f) /\ g = [i \in New(d, f) |-> g[i]] /\ ids = {g[i] : i \in New(d, f)}
    OBVIOUS
  <2>3. IsFiniteSet(ids)
    <3>1. IsFiniteSet({g[i] : i \in New(d, f)})
      <4> HIDE DEF g
      <4> QED BY <2>1, <2>2, FiniteImage
    <3> QED BY <2>2, <3>1
  <2>4. IsFiniteSet(DOMAIN d.frames \cup ids)
    <3> HIDE DEF ids
    <3> QED BY <1>1, <2>3, FS_Union
  <2> QED BY <1>2, <2>4
<1>11. FreshIds(P)
  <2>1. \A g \in Files : d.runs[g] \in Nat
    BY <1>1 DEF Tables
  <2>2. \A x \in DOMAIN d.frames : x.file \in Files /\ x.run \in Nat
    BY <1>1 DEF Tables, FrameIds
  <2>3. \A g \in Files : d.runs[g] <= P.runs[g] /\ P.runs[g] \in Nat
    BY <1>1, <1>2, <2>1 DEF Tables
  <2>4. P.runs[f] = d.runs[f] + 1
    BY <1>1, <1>2 DEF Tables
  <2>5. \A x \in DOMAIN d.frames : x.run < P.runs[x.file]
    BY <1>1, <2>1, <2>2, <2>3 DEF FreshIds
  <2>6. \A i \in New(d, f) : NewId(d, f, i).run < P.runs[NewId(d, f, i).file]
    BY <1>3, <2>1, <2>4
  <2> QED BY <1>2, <2>5, <2>6 DEF FreshIds
<1>12. Unique(P)
  <2> SUFFICES ASSUME NEW x \in DOMAIN P.frames, NEW y \in DOMAIN P.frames,
                      P.frames[x].time = P.frames[y].time,
                      P.frames[x].seq = P.frames[y].seq
               PROVE  x = y
    BY DEF Unique
  <2>1. CASE x \in DOMAIN d.frames /\ y \in DOMAIN d.frames
    BY <1>1, <1>2, <2>1 DEF Unique
  <2>2. ASSUME NEW i \in New(d, f), NEW z \in DOMAIN d.frames,
               d.frames[z].time = time(i), d.frames[z].seq = AssignedSequence(d, f, i)
        PROVE  FALSE
    BY <1>6, <1>7, <2>2
  <2>3. CASE x \in ids /\ y \in DOMAIN d.frames
    BY <1>2, <1>3, <2>2, <2>3
  <2>4. CASE x \in DOMAIN d.frames /\ y \in ids
    BY <1>2, <1>3, <2>2, <2>4
  <2>5. CASE x \in ids /\ y \in ids
    <3>1. PICK i \in New(d, f), j \in New(d, f) : x = NewId(d, f, i) /\ y = NewId(d, f, j)
      BY <2>5
    <3>2. time(i) = time(j) /\ AssignedSequence(d, f, i) = AssignedSequence(d, f, j)
      BY <1>2, <1>3, <3>1
    <3>3. i = j
      BY <1>4, <1>6, <1>8, <3>2
    <3> QED BY <3>1, <3>3
  <2> QED BY <1>2, <2>1, <2>3, <2>4, <2>5
<1>13. Ordered(P)
  <2> SUFFICES ASSUME NEW x \in DOMAIN P.frames, NEW y \in DOMAIN P.frames,
                      x.file = y.file, x.run = y.run, x.place < y.place,
                      P.frames[x].time = P.frames[y].time
               PROVE  P.frames[x].seq < P.frames[y].seq
    BY DEF Ordered
  <2>1. CASE x \in DOMAIN d.frames /\ y \in DOMAIN d.frames
    BY <1>1, <1>2, <2>1 DEF Ordered
  <2>2. ASSUME NEW i \in New(d, f), NEW z \in DOMAIN d.frames,
               z.file = f, z.run = d.runs[f]
        PROVE  FALSE
    <3>1. d.runs[f] < d.runs[f]
      BY <1>1, <2>2 DEF FreshIds
    <3> QED BY <1>1, <3>1 DEF Tables
  <2>3. CASE x \in ids /\ y \in DOMAIN d.frames
    BY <1>3, <2>2, <2>3
  <2>4. CASE x \in DOMAIN d.frames /\ y \in ids
    BY <1>3, <2>2, <2>4
  <2>5. CASE x \in ids /\ y \in ids
    <3>1. PICK i \in New(d, f), j \in New(d, f) : x = NewId(d, f, i) /\ y = NewId(d, f, j)
      BY <2>5
    <3>2. time(i) = time(j) /\ i < j
      BY <1>2, <1>3, <3>1
    <3>3. AssignedSequence(d, f, i) < AssignedSequence(d, f, j)
      BY <1>8, <3>2
    <3> QED BY <1>2, <1>3, <3>1, <3>3
  <2> QED BY <1>2, <2>1, <2>3, <2>4, <2>5
<1>14. Linked(P)
  <2>1. \A i \in Places(f) : FrameFor(d, f, i, e) \in DOMAIN P.frames
    BY FrameForFacts
  <2>2. \A s \in P.sources : s.frame \in DOMAIN P.frames
    BY <1>1, <1>2, <2>1 DEF Linked, SourceRows
  <2>8. \A i \in Places(f) : \E s \in SourceRows(d, f, e) :
          s.frame = FrameFor(d, f, i, e) /\ s.file = f
    <3> SUFFICES ASSUME NEW i \in Places(f)
                 PROVE  \E s \in SourceRows(d, f, e) :
                          s.frame = FrameFor(d, f, i, e) /\ s.file = f
      OBVIOUS
    <3> DEFINE q == i \in New(d, f)
               s == [frame |-> FrameFor(d, f, i, e), file |-> f, primary |-> q]
    <3>1. s \in SourceRows(d, f, e)
      BY Zenon DEF SourceRows
    <3>2. s.frame = FrameFor(d, f, i, e) /\ s.file = f
      <4> HIDE DEF q
      <4> QED OBVIOUS
    <3> QED BY <3>1, <3>2, Zenon
  <2>3. \A i \in New(d, f) : \E s \in SourceRows(d, f, e) :
          s.frame = NewId(d, f, i) /\ s.file = f
    <3>1. \A i \in New(d, f) : FrameFor(d, f, i, e) = NewId(d, f, i)
      BY DEF FrameFor
    <3> QED BY <1>4, <2>8, <3>1
  <2>4. \A x \in DOMAIN P.frames : \E s \in P.sources : s.frame = x
    BY <1>1, <1>2, <2>3 DEF Linked
  <2>5. \A x \in DOMAIN P.frames : P.frames[x].replayOf \in DOMAIN P.frames \cup {None}
    <3>1. \A i \in New(d, f) : NewFrame(d, f, i).replayOf \in ids \cup {None}
      BY NewFrameFacts
    <3>2. \A x \in DOMAIN d.frames : d.frames[x].replayOf \in DOMAIN d.frames \cup {None}
      BY <1>1 DEF Linked
    <3> QED BY <1>2, <3>1, <3>2
  <2>6. \A r \in RowRows(d, f, e) : \E s \in SourceRows(d, f, e) :
          s.frame = r.frame /\ s.file = r.file
    <3>1. \A i \in Anchors(d, f) : i \in New(d, f)
      BY DEF Anchors
    <3> QED BY <2>3, <2>8, <3>1 DEF RowRows
  <2>7. \A r \in P.rows : \E s \in P.sources : s.frame = r.frame /\ s.file = r.file
    BY <1>1, <1>2, <2>6 DEF Linked
  <2> QED BY <2>2, <2>4, <2>5, <2>7 DEF Linked
<1>15. Truthful(P)
  <2> SUFFICES ASSUME NEW x \in DOMAIN P.frames, P.frames[x].replayOf # None
               PROVE  LET target == P.frames[P.frames[x].replayOf] IN
                      /\ target.time = P.frames[x].time /\ target.seq < P.frames[x].seq
                      /\ target.class \in {"UNIQUE", "SAME_TIMESTAMP_DISTINCT_FRAME"}
                      /\ P.frames[x].class = "FULL_FRAME_REPLAY" => target.fp = P.frames[x].fp
    BY DEF Truthful
  <2>1. CASE x \in DOMAIN d.frames
    <3>1. P.frames[x] = d.frames[x] /\ d.frames[x].replayOf \in DOMAIN d.frames
      BY <1>1, <1>2, <2>1 DEF Linked
    <3>2. P.frames[d.frames[x].replayOf] = d.frames[d.frames[x].replayOf]
      BY <1>2, <3>1
    <3> QED BY <1>1, <2>1, <3>1, <3>2 DEF Truthful
  <2>2. CASE x \in ids
    <3>1. PICK i \in New(d, f) : x = NewId(d, f, i)
      BY <2>2
    <3>2. P.frames[x] = NewFrame(d, f, i)
      BY <1>2, <3>1
    <3>3. PICK j \in New(d, f) :
            /\ NewFrame(d, f, i).replayOf = NewId(d, f, j)
            /\ content[f].frames[j].time = content[f].frames[i].time
            /\ content[f].frames[j].seq = content[f].frames[i].replayOf
      BY <3>2, NewFrameFacts
    <3>4. P.frames[NewId(d, f, j)] = NewFrame(d, f, j)
      BY <1>2
    <3>5. PointsBack(content[f].frames) /\ InOrder(content[f].frames)
          /\ i \in DOMAIN content[f].frames /\ j \in DOMAIN content[f].frames
      BY <1>4, ContentFacts DEF Places
    <3>6. /\ content[f].frames[j].seq < content[f].frames[i].seq
          /\ content[f].frames[j].class \in {"UNIQUE", "SAME_TIMESTAMP_DISTINCT_FRAME"}
          /\ content[f].frames[i].class = "FULL_FRAME_REPLAY" =>
               content[f].frames[j].fp = content[f].frames[i].fp
      BY <3>3, <3>5 DEF PointsBack
    <3>7. content[f].frames[i].seq \in Nat /\ content[f].frames[j].seq \in Nat
      BY <1>4, ContentFacts DEF BuiltFrames
    <3>8. j < i
      <4>1. ~(i < j) /\ i # j
        BY <3>3, <3>5, <3>6, <3>7 DEF InOrder
      <4> QED BY <1>4, <4>1
    <3>9. AssignedSequence(d, f, j) < AssignedSequence(d, f, i)
      BY <1>8, <3>3, <3>8 DEF time
    <3> QED BY <1>3, <3>2, <3>3, <3>4, <3>6, <3>9 DEF time
  <2> QED BY <1>2, <2>1, <2>2
<1> QED BY <1>9, <1>10, <1>11, <1>12, <1>13, <1>14, <1>15 DEF Sound

-----------------------------------------------------------------------------
(***************************************************************************)
(* Lemmas: one reconstruction, delete_for_file and _persist together.       *)
(***************************************************************************)

(* The row mappings of the file after _persist: one for each place, and one *)
(* for its unassigned rows when the run inserted a frame.                   *)
LEMMA InsertedLinks ==
  ASSUME content \in [Files -> Outcomes], NEW d, Sound(d), NEW f \in Files, Cleared(d, f),
         NEW e \in Lookups(d, f), NEW P, P = Inserted(d, f, e)
  PROVE  /\ \A k \in Places(f) :
              Links(P, f, k) = {[frame |-> FrameFor(d, f, k, e), file |-> f, place |-> k]}
         /\ content[f].unassigned /\ New(d, f) # {} => Cardinality(Links(P, f, 0)) = 1
<1>1. P.rows = d.rows \cup RowRows(d, f, e)
  <2>1. InsertedAs(d, f, e, P) BY InsertedTables
  <2> QED BY <2>1 DEF InsertedAs
<1>2. \A k \in Places(f) : k \in Nat /\ k # 0
  BY ContentFacts
<1>3. \A k : Links(P, f, k) = {r \in RowRows(d, f, e) : r.place = k}
  BY <1>1 DEF Links, Cleared, RowRows
<1>4. ASSUME NEW k \in Places(f)
      PROVE  Links(P, f, k) = {[frame |-> FrameFor(d, f, k, e), file |-> f, place |-> k]}
  BY <1>2, <1>3 DEF RowRows
<1>5. ASSUME content[f].unassigned, New(d, f) # {}
      PROVE  Cardinality(Links(P, f, 0)) = 1
  <2>1. New(d, f) \in SUBSET Nat
    BY NewFacts
  <2>2. PICK m \in New(d, f) : \A j \in New(d, f) : m <= j
    BY <1>5, <2>1, LeastNumber
  <2>3. Anchors(d, f) = {m}
    <3>1. \A i \in New(d, f) : (\A j \in New(d, f) : i <= j) => i = m
      BY <2>1, <2>2
    <3> QED BY <2>2, <3>1 DEF Anchors
  <2>4. {j \in Anchors(d, f) : content[f].unassigned} = {m}
    BY <1>5, <2>3
  <2>5. Links(P, f, 0) = {[frame |-> NewId(d, f, m), file |-> f, place |-> 0]}
    BY <1>2, <1>3, <2>4 DEF RowRows
  <2> QED BY <2>5, FS_Singleton
<1> QED BY <1>4, <1>5

(* Reconstructing a file leaves the other files' mappings and frames.        *)
KeptAs(d, g, P) ==
  /\ {s \in P.sources : s.file = g} = {s \in d.sources : s.file = g}
  /\ {r \in P.rows : r.file = g} = {r \in d.rows : r.file = g}
  /\ \A s \in d.sources : s.file = g =>
       /\ s.frame \in DOMAIN P.frames /\ s.frame \in DOMAIN d.frames
       /\ P.frames[s.frame] \in Stored /\ d.frames[s.frame] \in Stored
       /\ P.frames[s.frame].time = d.frames[s.frame].time
       /\ P.frames[s.frame].seq = d.frames[s.frame].seq
       /\ P.frames[s.frame].fp = d.frames[s.frame].fp
       /\ P.frames[s.frame].class = d.frames[s.frame].class

(* delete_for_file and _persist of one file keep those of every other file.  *)
LEMMA OthersKept ==
  ASSUME content \in [Files -> Outcomes], NEW d, Sound(d), NEW f \in Files,
         NEW D, D = DeleteForFile(d, f), NEW e \in Lookups(D, f),
         NEW P, P = Inserted(D, f, e), NEW g \in Files, g # f
  PROVE  KeptAs(d, g, P)
<1>1. Sound(D)
  BY DeletedSound
<1>2. /\ Tables(d) /\ Linked(d) /\ Linked(D)
  BY <1>1 DEF Sound
<1>3. /\ D.sources = {s \in d.sources : s.file # f}
      /\ D.rows = {r \in d.rows : r.file # f}
      /\ \A x \in DOMAIN D.frames :
           /\ D.frames[x] \in Stored
           /\ D.frames[x].time = d.frames[x].time /\ D.frames[x].seq = d.frames[x].seq
           /\ D.frames[x].fp = d.frames[x].fp /\ D.frames[x].class = d.frames[x].class
  BY <1>2, DeletedTables
<1>4. /\ P.sources = D.sources \cup SourceRows(D, f, e)
      /\ P.rows = D.rows \cup RowRows(D, f, e)
      /\ DOMAIN P.frames = DOMAIN D.frames \cup {NewId(D, f, i) : i \in New(D, f)}
      /\ \A x \in DOMAIN D.frames : P.frames[x] = D.frames[x]
  <2>1. InsertedAs(D, f, e, P) BY <1>1, InsertedTables
  <2> QED BY <2>1 DEF InsertedAs
<1>5. \A s \in SourceRows(D, f, e) : s.file = f
  <2> SUFFICES ASSUME NEW i \in Places(f), NEW q
               PROVE  [frame |-> FrameFor(D, f, i, e), file |-> f, primary |-> q].file = f
    BY Zenon DEF SourceRows
  <2> QED OBVIOUS
<1>6. \A r \in RowRows(D, f, e) : r.file = f
  BY DEF RowRows
<1>7. {s \in P.sources : s.file = g} = {s \in d.sources : s.file = g}
  BY <1>3, <1>4, <1>5
<1>8. {r \in P.rows : r.file = g} = {r \in d.rows : r.file = g}
  BY <1>3, <1>4, <1>6
<1>9. ASSUME NEW s \in d.sources, s.file = g
      PROVE  /\ s.frame \in DOMAIN P.frames /\ s.frame \in DOMAIN d.frames
             /\ P.frames[s.frame] \in Stored /\ d.frames[s.frame] \in Stored
             /\ P.frames[s.frame].time = d.frames[s.frame].time
             /\ P.frames[s.frame].seq = d.frames[s.frame].seq
             /\ P.frames[s.frame].fp = d.frames[s.frame].fp
             /\ P.frames[s.frame].class = d.frames[s.frame].class
  <2>1. s \in D.sources
    BY <1>3, <1>9
  <2>2. s.frame \in DOMAIN D.frames /\ s.frame \in DOMAIN d.frames
    BY <1>2, <2>1 DEF Linked
  <2>3. s.frame \in DOMAIN P.frames /\ P.frames[s.frame] = D.frames[s.frame]
    BY <1>4, <2>2
  <2>4. d.frames[s.frame] \in Stored
    BY <1>2, <2>2 DEF Tables
  <2> QED BY <1>3, <2>2, <2>3, <2>4
<1> QED BY <1>7, <1>8, <1>9 DEF KeptAs

(* So what the store knows of another file is as it was.                    *)
LEMMA ProvenanceKept ==
  ASSUME content \in [Files -> Outcomes], NEW d, Sound(d), NEW f \in Files,
         NEW D, D = DeleteForFile(d, f), NEW e \in Lookups(D, f),
         NEW P, P = Inserted(D, f, e), NEW g \in Files, g # f
  PROVE  Provenance(P, g) = Provenance(d, g)
<1> DEFINE S == {s \in d.sources : s.file = g}
<1>1. /\ {s \in P.sources : s.file = g} = S
      /\ {r \in P.rows : r.file = g} = {r \in d.rows : r.file = g}
      /\ KeptAs(d, g, P)
  <2>1. KeptAs(d, g, P) BY OthersKept
  <2> QED BY <2>1 DEF KeptAs
<1>2. SourcedBy(P, g) = SourcedBy(d, g)
  BY <1>1 DEF SourcedBy
<1>3. ASSUME NEW x \in SourcedBy(d, g)
      PROVE  [P.frames[x] EXCEPT !.replayOf = None] = [d.frames[x] EXCEPT !.replayOf = None]
  <2>1. PICK s \in d.sources : s.file = g /\ s.frame = x
    BY DEF SourcedBy
  <2>2. /\ P.frames[x] \in Stored /\ d.frames[x] \in Stored
        /\ P.frames[x].time = d.frames[x].time /\ P.frames[x].seq = d.frames[x].seq
        /\ P.frames[x].fp = d.frames[x].fp /\ P.frames[x].class = d.frames[x].class
    BY <1>1, <2>1 DEF KeptAs
  <2> QED BY <2>2 DEF Stored
<1>4. {[P.frames[x] EXCEPT !.replayOf = None] : x \in SourcedBy(P, g)}
        = {[d.frames[x] EXCEPT !.replayOf = None] : x \in SourcedBy(d, g)}
  BY <1>2, <1>3
<1> QED BY <1>1, <1>4 DEF Provenance

(* A reconstruction keeps every file's payloads held.                       *)
LEMMA PersistedHeld ==
  ASSUME content \in [Files -> Outcomes], NEW d, Sound(d), Held(d), NEW f \in Files,
         NEW D, D = DeleteForFile(d, f), NEW e \in Lookups(D, f),
         NEW P, P = Inserted(D, f, e)
  PROVE  Held(P)
<1>1. Sound(D)
  BY DeletedSound
<1>2. /\ Tables(d) /\ Linked(d) /\ Tables(D) /\ FreshIds(D)
  BY <1>1 DEF Sound
<1>3. /\ D.status = d.status /\ D.runs = d.runs
      /\ D.sources = {s \in d.sources : s.file # f}
      /\ D.rows = {r \in d.rows : r.file # f}
      /\ DOMAIN D.frames \subseteq DOMAIN d.frames
  BY <1>2, DeletedTables
<1>4. Cleared(D, f)
  BY <1>3 DEF Cleared
<1>5. InsertedAs(D, f, e, P)
  BY <1>1, InsertedTables
<1>6. /\ P.status = [D.status EXCEPT ![f] = "FRAMES_RECONSTRUCTED"]
      /\ P.runs = [D.runs EXCEPT ![f] = @ + 1]
      /\ DOMAIN P.frames = DOMAIN D.frames \cup {NewId(D, f, i) : i \in New(D, f)}
  BY <1>5 DEF InsertedAs
<1>7. ASSUME NEW k \in Places(f)
      PROVE  /\ Cardinality(Links(P, f, k)) = 1
             /\ \A r \in Links(P, f, k) : P.frames[r.frame].fp = content[f].frames[k].fp
  <2> DEFINE l == [frame |-> FrameFor(D, f, k, e), file |-> f, place |-> k]
  <2>1. Links(P, f, k) = {l}
    BY <1>1, <1>4, InsertedLinks
  <2>2. P.frames[FrameFor(D, f, k, e)].fp = content[f].frames[k].fp
    BY <1>1, FrameForFacts
  <2>3. Cardinality({l}) = 1
    BY FS_Singleton
  <2> QED BY <2>1, <2>2, <2>3
<1>8. ASSUME content[f].unassigned, OwnFrames(P, f) # {}
      PROVE  Cardinality(Links(P, f, 0)) = 1
  <2>1. PICK x \in DOMAIN P.frames : x.file = f /\ x.run + 1 = P.runs[f]
    BY <1>8 DEF OwnFrames
  <2>2. D.runs[f] \in Nat /\ P.runs[f] = D.runs[f] + 1
    BY <1>2, <1>6 DEF Tables
  <2>3. x \notin DOMAIN D.frames
    <3> SUFFICES ASSUME x \in DOMAIN D.frames PROVE FALSE
      OBVIOUS
    <3>1. x.run \in Nat /\ x.run < D.runs[f]
      BY <1>2, <2>1 DEF FreshIds, Tables, FrameIds
    <3> QED BY <2>1, <2>2, <3>1
  <2>4. New(D, f) # {}
    BY <1>6, <2>1, <2>3
  <2> QED BY <1>1, <1>4, <1>8, <2>4, InsertedLinks
<1>9. ASSUME NEW g \in Files, g # f, P.status[g] = "FRAMES_RECONSTRUCTED"
      PROVE  /\ \A i \in Places(g) :
                  /\ Cardinality(Links(P, g, i)) = 1
                  /\ \A r \in Links(P, g, i) : P.frames[r.frame].fp = content[g].frames[i].fp
             /\ content[g].unassigned /\ OwnFrames(P, g) # {} =>
                  Cardinality(Links(P, g, 0)) = 1
  <2>1. KeptAs(d, g, P)
    BY <1>9, OthersKept
  <2>2. d.status[g] = "FRAMES_RECONSTRUCTED" /\ P.runs[g] = d.runs[g]
    BY <1>2, <1>3, <1>6, <1>9 DEF Tables
  <2>3. {r \in P.rows : r.file = g} = {r \in d.rows : r.file = g}
    BY <2>1 DEF KeptAs
  <2>4. \A i : Links(P, g, i) = Links(d, g, i)
    <3> SUFFICES ASSUME NEW i PROVE Links(P, g, i) = Links(d, g, i)
      OBVIOUS
    <3>1. Links(P, g, i) = {r \in {r \in P.rows : r.file = g} : r.place = i}
      BY DEF Links
    <3>2. Links(d, g, i) = {r \in {r \in d.rows : r.file = g} : r.place = i}
      BY DEF Links
    <3> QED BY <2>3, <3>1, <3>2
  <2>5. \A i : \A r \in Links(d, g, i) : P.frames[r.frame].fp = d.frames[r.frame].fp
    <3> SUFFICES ASSUME NEW i, NEW r \in Links(d, g, i)
                 PROVE  P.frames[r.frame].fp = d.frames[r.frame].fp
      OBVIOUS
    <3>1. PICK s \in d.sources : s.frame = r.frame /\ s.file = g
      BY <1>2 DEF Links, Linked
    <3> QED BY <2>1, <3>1 DEF KeptAs
  <2>6. OwnFrames(P, g) # {} => OwnFrames(d, g) # {}
    <3>1. \A i \in New(D, f) : NewId(D, f, i).file = f
      BY DEF NewId
    <3>2. \A x \in DOMAIN P.frames : x.file = g => x \in DOMAIN d.frames
      BY <1>3, <1>6, <1>9, <3>1
    <3> QED BY <2>2, <3>2 DEF OwnFrames
  <2>7. /\ \A i \in Places(g) :
             /\ Cardinality(Links(d, g, i)) = 1
             /\ \A r \in Links(d, g, i) : d.frames[r.frame].fp = content[g].frames[i].fp
        /\ content[g].unassigned /\ OwnFrames(d, g) # {} =>
             Cardinality(Links(d, g, 0)) = 1
    BY <2>2 DEF Held
  <2> QED BY <2>4, <2>5, <2>6, <2>7
<1> QED BY <1>7, <1>8, <1>9 DEF Held

(* One reconstruction of a file: the tables stay sound, every payload stays  *)
(* held, and nothing that is known of another file changes.                  *)
LEMMA PersistedFacts ==
  ASSUME content \in [Files -> Outcomes], NEW d, Sound(d), Held(d), NEW f \in Files,
         NEW e \in Lookups(DeleteForFile(d, f), f), NEW P, P = Persisted(d, f, e)
  PROVE  /\ Sound(P) /\ Held(P)
         /\ P.runs = [d.runs EXCEPT ![f] = @ + 1]
         /\ \A g \in Files : g # f => Provenance(P, g) = Provenance(d, g)
<1> DEFINE D == DeleteForFile(d, f)
<1>1. P = Inserted(D, f, e)
  BY DEF Persisted, Inserted
<1>2. D = DeleteForFile(d, f) /\ e \in Lookups(D, f)
  OBVIOUS
<1> HIDE DEF D
<1>3. Sound(D)
  BY <1>2, DeletedSound
<1>4. Sound(P)
  BY <1>1, <1>2, <1>3, InsertedSound
<1>5. Held(P)
  BY <1>1, <1>2, PersistedHeld
<1>6. P.runs = [d.runs EXCEPT ![f] = @ + 1]
  <2>1. InsertedAs(D, f, e, P)
    BY <1>1, <1>2, <1>3, InsertedTables
  <2>2. Tables(d) /\ Linked(d)
    BY DEF Sound
  <2>3. D.runs = d.runs
    BY <1>2, <2>2, DeletedTables
  <2> QED BY <2>1, <2>3 DEF InsertedAs
<1>7. \A g \in Files : g # f => Provenance(P, g) = Provenance(d, g)
  BY <1>1, <1>2, ProvenanceKept
<1> QED BY <1>4, <1>5, <1>6, <1>7

(* A file that failed inside the day keeps its first status write only.     *)
LEMMA StatusOnly ==
  ASSUME content \in [Files -> Outcomes], NEW d, Sound(d), Held(d), NEW f \in Files,
         NEW P, P = [d EXCEPT !.status[f] = "FRAME_RECONSTRUCTION"]
  PROVE  /\ Sound(P) /\ Held(P) /\ P.runs = d.runs
         /\ \A g : Provenance(P, g) = Provenance(d, g)
<1>1. Tables(d)
  BY DEF Sound
<1>2. /\ P.status = [d.status EXCEPT ![f] = "FRAME_RECONSTRUCTION"]
      /\ P.runs = d.runs /\ P.frames = d.frames /\ P.sources = d.sources
      /\ P.rows = d.rows /\ P.findings = d.findings /\ DOMAIN P = DOMAIN d
  BY <1>1 DEF Tables
<1>3. Tables(P)
  BY <1>1, <1>2 DEF Tables, FrameStates
<1>4. Sound(P)
  BY <1>2, <1>3 DEF Sound, FreshIds, Unique, Ordered, Linked, Truthful
<1>5. \A g \in Files : P.status[g] = "FRAMES_RECONSTRUCTED" =>
                         d.status[g] = "FRAMES_RECONSTRUCTED"
  BY <1>1, <1>2 DEF Tables
<1>6. \A g, i : Links(P, g, i) = Links(d, g, i) /\ OwnFrames(P, g) = OwnFrames(d, g)
  BY <1>2 DEF Links, OwnFrames
<1>7. Held(P)
  BY <1>2, <1>5, <1>6 DEF Held
<1>8. \A g : Provenance(P, g) = Provenance(d, g)
  BY <1>2 DEF Provenance, SourcedBy
<1> QED BY <1>2, <1>4, <1>7, <1>8

-----------------------------------------------------------------------------
(***************************************************************************)
(* The inductive invariant.                                                 *)
(***************************************************************************)

(* An empty store is sound.                                                 *)
LEMMA Initial == Init => StoreInv
<1> SUFFICES ASSUME Init PROVE StoreInv
  OBVIOUS
<1> USE DEF Init
<1>1. content \in [Files -> Outcomes] /\ day \in Commands
  BY DEF Commands, NoCommand
<1>2. /\ db.status = [f \in Files |-> "READY_FOR_NORMALIZATION"]
      /\ db.runs = [f \in Files |-> 0] /\ db.frames = <<>>
      /\ db.sources = {} /\ db.rows = {} /\ db.findings = [f \in Files |-> {}]
      /\ DOMAIN db = {"status", "runs", "frames", "sources", "rows", "findings"}
  OBVIOUS
<1>3. DOMAIN db.frames = {}
  BY <1>2
<1>4. Tables(db)
  BY <1>2, <1>3 DEF Tables, FrameStates
<1>5. IsFiniteSet(DOMAIN db.frames)
  BY <1>3, FS_EmptySet
<1>6. Sound(db)
  BY <1>2, <1>3, <1>4, <1>5 DEF Sound, FreshIds, Unique, Ordered, Linked, Truthful
<1>7. Held(db)
  BY <1>2 DEF Held
<1>8. Follows(tx, db)
  BY <1>4 DEF Follows, Tables
<1> QED BY <1>1, <1>6, <1>7, <1>8 DEF StoreInv

(* What is held of a file depends on the tables and on what the file          *)
(* reconstructs to, which never changes.                                     *)
LEMMA NextStore ==
  ASSUME content' = content, content \in [Files -> Outcomes], day' \in Commands,
         Sound(db'), Sound(tx'), Held(db'), Held(tx'), Follows(tx', db')
  PROVE  StoreInv'
<1>1. Held(db)' /\ Held(tx)'
  <2>1. Held(db)'
    BY DEF Held, Links, OwnFrames, Places
  <2>2. Held(tx)'
    BY DEF Held, Links, OwnFrames, Places
  <2> QED
    BY <2>1, <2>2
<1>2. Sound(db)' /\ Sound(tx)' /\ Follows(tx, db)'
  BY DEF Sound, Tables, FreshIds, Unique, Ordered, Linked, Truthful, Follows,
         Provenance, SourcedBy
<1> QED BY <1>1, <1>2 DEF StoreInv

(* Tables that a step takes over follow themselves.                         *)
LEMMA FollowsItself ==
  ASSUME NEW d, Tables(d)
  PROVE  Follows(d, d)
BY DEF Follows, Tables

(* reconstruct <file>.                                                      *)
LEMMA ReconstructStep ==
  ASSUME StoreInv, NEW f \in Files, ReconstructFile(f)
  PROVE  StoreInv'
<1>1. /\ content \in [Files -> Outcomes] /\ day \in Commands /\ Sound(db) /\ Held(db)
  BY DEF StoreInv
<1>2. content' = content /\ day' = day /\ tx' = db'
  BY DEF ReconstructFile
<1>3. PICK e \in Lookups(DeleteForFile(db, f), f) : db' = Persisted(db, f, e)
  BY DEF ReconstructFile
<1>4. Sound(db') /\ Held(db')
  BY <1>1, <1>3, PersistedFacts
<1>5. Follows(tx', db')
  BY <1>2, <1>4, FollowsItself DEF Sound
<1> QED BY <1>1, <1>2, <1>4, <1>5, NextStore

(* reconstruct-day, one file of it.                                         *)
LEMMA DayFileStep ==
  ASSUME StoreInv, NEW f \in Files, DayFile(f)
  PROVE  StoreInv'
<1>1. /\ content \in [Files -> Outcomes] /\ day \in Commands /\ Sound(db) /\ Held(db)
      /\ Sound(tx) /\ Held(tx) /\ Follows(tx, db)
  BY DEF StoreInv
<1>2. content' = content /\ db' = db /\ day' \in Commands
  BY <1>1 DEF DayFile, Commands
<1>3. PICK e \in Lookups(DeleteForFile(tx, f), f) : tx' = Persisted(tx, f, e)
  BY DEF DayFile
<1>4. /\ Sound(tx') /\ Held(tx') /\ tx'.runs = [tx.runs EXCEPT ![f] = @ + 1]
      /\ \A g \in Files : g # f => Provenance(tx', g) = Provenance(tx, g)
  BY <1>1, <1>3, PersistedFacts
<1>5. ASSUME NEW g \in Files
      PROVE  /\ tx'.runs[g] >= db.runs[g]
             /\ tx'.runs[g] = db.runs[g] => Provenance(tx', g) = Provenance(db, g)
  <2>1. tx.runs \in [Files -> Nat] /\ db.runs \in [Files -> Nat]
    BY <1>1 DEF Sound, Tables
  <2>2. /\ tx.runs[g] >= db.runs[g]
        /\ tx.runs[g] = db.runs[g] => Provenance(tx, g) = Provenance(db, g)
    BY <1>1 DEF Follows
  <2>3. CASE g = f
    <3>1. tx'.runs[g] = tx.runs[g] + 1
      BY <1>4, <2>1, <2>3
    <3>2. tx'.runs[g] > db.runs[g] /\ tx'.runs[g] # db.runs[g]
      BY <2>1, <2>2, <3>1
    <3> QED BY <2>1, <3>1, <3>2
  <2>4. CASE g # f
    <3>1. tx'.runs[g] = tx.runs[g]
      BY <1>4, <2>1, <2>4
    <3> QED BY <1>4, <2>2, <2>4, <3>1
  <2> QED BY <2>3, <2>4
<1>6. Follows(tx', db')
  BY <1>2, <1>5 DEF Follows
<1>7. Sound(db') /\ Held(db')
  BY <1>1, <1>2
<1> QED BY <1>1, <1>2, <1>4, <1>6, <1>7, NextStore

(* reconstruct-day, a file that fails or collides.                          *)
LEMMA DayStatusStep ==
  ASSUME StoreInv, NEW f \in Files, DayFileFails(f) \/ DayFileCollides(f)
  PROVE  StoreInv'
<1>1. /\ content \in [Files -> Outcomes] /\ day \in Commands /\ Sound(db) /\ Held(db)
      /\ Sound(tx) /\ Held(tx) /\ Follows(tx, db)
  BY DEF StoreInv
<1>2. /\ content' = content /\ db' = db /\ day' \in Commands
      /\ tx' = [tx EXCEPT !.status[f] = "FRAME_RECONSTRUCTION"]
  BY <1>1 DEF DayFileFails, DayFileCollides, Commands
<1>3. /\ Sound(tx') /\ Held(tx') /\ tx'.runs = tx.runs
      /\ \A g : Provenance(tx', g) = Provenance(tx, g)
  BY <1>1, <1>2, StatusOnly
<1>4. Follows(tx', db')
  BY <1>1, <1>2, <1>3 DEF Follows
<1>5. Sound(db') /\ Held(db')
  BY <1>1, <1>2
<1> QED BY <1>1, <1>2, <1>3, <1>4, <1>5, NextStore

(* The day begins and ends, a file is skipped, or nothing happens.           *)
LEMMA DayFrameStep ==
  ASSUME StoreInv,
         StartDay \/ EndDay \/ (\E f \in Files : DayFileSkipped(f)) \/ UNCHANGED vars
  PROVE  StoreInv'
<1>1. /\ content \in [Files -> Outcomes] /\ day \in Commands /\ Sound(db) /\ Held(db)
      /\ Sound(tx) /\ Held(tx) /\ Follows(tx, db)
  BY DEF StoreInv
<1>2. Follows(db, db) /\ Follows(tx, tx)
  BY <1>1, FollowsItself DEF Sound
<1>3. content' = content
  BY DEF StartDay, EndDay, DayFileSkipped, vars
<1>4. (db' = db \/ db' = tx) /\ (tx' = db' \/ (tx' = tx /\ db' = db))
  BY DEF StartDay, EndDay, DayFileSkipped, vars
<1>5. day' \in Commands
  <2>1. CASE StartDay
    BY <2>1 DEF StartDay, NoCommand, Commands
  <2>2. CASE EndDay
    BY <2>2 DEF EndDay, NoCommand, Commands
  <2>3. CASE \E f \in Files : DayFileSkipped(f)
    BY <1>1, <2>3 DEF DayFileSkipped, Commands
  <2>4. CASE UNCHANGED vars
    BY <1>1, <2>4 DEF vars
  <2> QED BY <2>1, <2>2, <2>3, <2>4
<1>6. Sound(db') /\ Held(db')
  BY <1>1, <1>4
<1>7. Sound(tx') /\ Held(tx')
  BY <1>1, <1>4, <1>6
<1>8. Follows(tx', db')
  BY <1>1, <1>2, <1>4
<1> QED BY <1>1, <1>3, <1>5, <1>6, <1>7, <1>8, NextStore

(* Every step preserves the invariant.                                      *)
LEMMA Inductive == StoreInv /\ [Next]_vars => StoreInv'
<1> SUFFICES ASSUME StoreInv, [Next]_vars PROVE StoreInv'
  OBVIOUS
<1>1. ASSUME NEW f \in Files, ReconstructFile(f) PROVE StoreInv'
  BY <1>1, ReconstructStep
<1>2. ASSUME NEW f \in Files, DayFile(f) PROVE StoreInv'
  BY <1>2, DayFileStep
<1>3. ASSUME NEW f \in Files, DayFileFails(f) \/ DayFileCollides(f) PROVE StoreInv'
  BY <1>3, DayStatusStep
<1>4. CASE StartDay \/ EndDay \/ (\E f \in Files : DayFileSkipped(f)) \/ UNCHANGED vars
  BY <1>4, DayFrameStep
<1> QED BY <1>1, <1>2, <1>3, <1>4 DEF Next

-----------------------------------------------------------------------------
(***************************************************************************)
(* The theorems.                                                            *)
(***************************************************************************)

(* The tables are sound, committed and in the session, after every step.    *)
THEOREM StoreInvariance == Spec => []StoreInv
BY Initial, Inductive, PTL DEF Spec

(* The tables and the command keep their types.                             *)
THEOREM StoreTypeSafe == Spec => []TypeOK
<1>1. StoreInv => TypeOK
  BY DEF StoreInv, Sound, TypeOK
<1> QED BY StoreInvariance, <1>1, PTL

(* Whichever files are reconstructed in whatever order, alone or by day, no *)
(* two stored frames get the same event time and sequence, and the frames   *)
(* one run inserts keep the order of their file (_next_free_sequences).     *)
THEOREM SequencesNeverCollide == Spec => []SequencesSound
<1>1. StoreInv => SequencesSound
  BY DEF StoreInv, Sound, Unique, Ordered, SequencesSound, IdentityUnique, OwnOrderKept
<1> QED BY StoreInvariance, <1>1, PTL

(* delete_for_file and _persist leave no source row, row mapping or replay  *)
(* pointer at a frame that is gone, and no frame without a source.          *)
THEOREM NothingDangles == Spec => []NoDangling
<1>1. StoreInv => NoDangling
  BY DEF StoreInv, Sound, Linked, NoDangling
<1> QED BY StoreInvariance, <1>1, PTL

(* A reconstructed file finds each of its frames in the store once, with    *)
(* its payload, whatever other files were reconstructed since.              *)
THEOREM PayloadsAreHeld == Spec => []PayloadHeld
<1>1. StoreInv => PayloadHeld
  <2> SUFFICES ASSUME StoreInv, NEW d \in {db, tx}, NEW f \in Files,
                      d.status[f] = "FRAMES_RECONSTRUCTED"
               PROVE  /\ \A i \in Places(f) :
                           /\ Cardinality(Links(d, f, i)) = 1
                           /\ \A r \in Links(d, f, i) : d.frames[r.frame].fp = content[f].frames[i].fp
                      /\ content[f].unassigned /\ OwnFrames(d, f) # {} =>
                           Cardinality(Links(d, f, 0)) = 1
    BY Zenon DEF PayloadHeld, Links, OwnFrames
  <2>1. Held(d)
    BY DEF StoreInv
  <2> QED BY <2>1 DEF Held
<1> QED BY StoreInvariance, <1>1, PTL

(* A stored replay pointer leads to an earlier canonical frame of its time. *)
THEOREM PointersStayTruthful == Spec => []PointersTruthful
<1>1. StoreInv => PointersTruthful
  BY DEF StoreInv, Sound, Truthful, PointersTruthful
<1> QED BY StoreInvariance, <1>1, PTL

(* What is committed of a file changes only with its own reconstruction     *)
(* (delete_for_file: "reconstructing one file never destroys another file's *)
(* provenance").                                                            *)
THEOREM ProvenanceSurvives == Spec => OthersUntouched
<1>1. StoreInv /\ [Next]_vars =>
        [\A g \in Files : db'.runs[g] = db.runs[g] =>
           Provenance(db', g) = Provenance(db, g)]_vars
  <2> SUFFICES ASSUME StoreInv, Next, NEW g \in Files, db'.runs[g] = db.runs[g]
               PROVE  Provenance(db', g) = Provenance(db, g)
    OBVIOUS
  <2>1. /\ content \in [Files -> Outcomes] /\ Sound(db) /\ Held(db) /\ Follows(tx, db)
    BY DEF StoreInv
  <2>2. ASSUME NEW f \in Files, ReconstructFile(f)
        PROVE  Provenance(db', g) = Provenance(db, g)
    <3>1. PICK e \in Lookups(DeleteForFile(db, f), f) : db' = Persisted(db, f, e)
      BY <2>2 DEF ReconstructFile
    <3>2. /\ Sound(db') /\ Held(db') /\ db'.runs = [db.runs EXCEPT ![f] = @ + 1]
          /\ \A h \in Files : h # f => Provenance(db', h) = Provenance(db, h)
      BY <2>1, <3>1, PersistedFacts
    <3>3. db.runs \in [Files -> Nat]
      BY <2>1 DEF Sound, Tables
    <3>4. g # f
      BY <3>2, <3>3
    <3> QED BY <3>2, <3>4
  <2>3. CASE EndDay
    BY <2>1, <2>3 DEF EndDay, Follows
  <2>4. CASE db' = db
    BY <2>4
  <2>5. StartDay => db' = db
    BY DEF StartDay
  <2>6. \A f \in Files : DayFile(f) \/ DayFileSkipped(f) \/ DayFileFails(f) \/ DayFileCollides(f)
          => db' = db
    BY DEF DayFile, DayFileSkipped, DayFileFails, DayFileCollides
  <2> QED BY <2>2, <2>3, <2>4, <2>5, <2>6 DEF Next
<1> QED BY StoreInvariance, <1>1, PTL DEF Spec, OthersUntouched
=============================================================================

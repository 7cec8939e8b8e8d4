---------------------------- MODULE EventsProofs ----------------------------
(***************************************************************************)
(* Proofs about Events, for every history of finitely many frames.  What a   *)
(* reconstructor computes from the ordered observations is an invariant of   *)
(* its loop; a successful rebuild puts exactly that into the window, and a   *)
(* failed one or a late frame leaves nothing to answer for.                  *)
(***************************************************************************)
EXTENDS Events, SetFacts

-----------------------------------------------------------------------------
(* The observations.                                                         *)

Shape == Slots \subseteq Instants /\ IsFiniteSet(Slots)

(* The rows of a table in a window, in order.                                *)
LEMMA RowsListed ==
  ASSUME Shape, NEW R \in SUBSET Slots
  PROVE  Listed(Chronological(R), R)
<1>1. R \in SUBSET Instants /\ IsFiniteSet(R)
  BY FS_Subset DEF Shape
<1> QED
  BY <1>1, ChronologicalListed

LEMMA ListedOrder ==
  ASSUME Shape, NEW R \in SUBSET Slots, NEW seq, Listed(seq, R),
         NEW i \in 1..Len(seq), NEW j \in 1..Len(seq)
  PROVE  NotAfter(seq[i], seq[j]) <=> i <= j
<1>1. i <= j <=> i < j \/ i = j
  BY DEF Listed
<1> QED
  BY <1>1 DEF Listed, NotAfter

-----------------------------------------------------------------------------
(* Alarms.                                                                   *)

(* The loop over the observations has a result for every prefix.             *)
AlarmRun(h, code, seq, n) ==
  h = [i \in 0..n |-> IF i = 0 THEN NoAlarm ELSE AlarmStep(code, h[i - 1], seq[i])]

LEMMA AlarmRunExists ==
  ASSUME NEW code, NEW seq, NEW n \in Nat
  PROVE  \E h : AlarmRun(h, code, seq, n)
<1> DEFINE P == {i \in Nat : \E h : AlarmRun(h, code, seq, i)}
<1>1. 0 \in P
  <2> DEFINE h == [i \in 0..0 |-> NoAlarm]
  <2>1. AlarmRun(h, code, seq, 0)
    BY DEF AlarmRun
  <2> QED
    BY <2>1
<1>2. ASSUME NEW i \in 0..n, i < n, i \in P PROVE i + 1 \in P
  <2>1. PICK g : AlarmRun(g, code, seq, i)
    BY <1>2
  <2> DEFINE h == [j \in 0..(i + 1) |-> IF j = i + 1 THEN AlarmStep(code, g[i], seq[i + 1]) ELSE g[j]]
  <2>2. g[0] = NoAlarm /\ \A j \in 1..i : g[j] = AlarmStep(code, g[j - 1], seq[j])
    BY <2>1 DEF AlarmRun
  <2>3. h[0] = NoAlarm
    BY <2>2
  <2>4. ASSUME NEW j \in 1..(i + 1) PROVE h[j] = AlarmStep(code, h[j - 1], seq[j])
    <3>1. h[j - 1] = g[j - 1]
      OBVIOUS
    <3>2. CASE j = i + 1
      BY <3>1, <3>2
    <3>3. CASE j # i + 1
      <4>1. j \in 1..i
        BY <3>3
      <4> QED
        BY <2>2, <3>1, <4>1
    <3> QED
      BY <3>2, <3>3
  <2>5. h = [j \in 0..(i + 1) |-> h[j]]
    OBVIOUS
  <2> HIDE DEF h
  <2>6. AlarmRun(h, code, seq, i + 1)
    <3>1. \A j \in 0..(i + 1) : h[j] = IF j = 0 THEN NoAlarm ELSE AlarmStep(code, h[j - 1], seq[j])
      <4>1. \A j \in 0..(i + 1) : j = 0 \/ j \in 1..(i + 1)
        OBVIOUS
      <4> QED
        BY <2>3, <2>4, <4>1
    <3> QED
      BY <2>5, <3>1, Zenon DEF AlarmRun
  <2>7. i + 1 \in Nat
    OBVIOUS
  <2> QED
    BY <2>6, <2>7, Zenon
<1> HIDE DEF P
<1>3. n \in P
  BY <1>1, <1>2, Climb
<1> QED
  BY <1>3 DEF P

(* After i observations: the open interval is a run of raised observations   *)
(* up to the last one, a closed one is a run ended by a cleared one, and     *)
(* every raised observation is in one of them.                               *)
AlarmsSoFar(r, code, seq, i) ==
  /\ r = [start |-> r.start, lastActive |-> r.lastActive, done |-> r.done]
  /\ r.start # None =>
       \E a \in 1..i : /\ r.start = seq[a] /\ r.lastActive = seq[i]
                       /\ \A k \in a..i : Raised(code, seq[k])
  /\ \A e \in r.done :
       \E a, b \in 1..i :
         /\ a < b
         /\ e = [code |-> code, start |-> seq[a][1], first |-> seq[a], last |-> seq[b], open |-> FALSE,
                 gap |-> HasGap(seq[a][1], seq[b][1])]
         /\ \A k \in a..(b - 1) : Raised(code, seq[k])
  /\ \A k \in 1..i :
       Raised(code, seq[k]) =>
         \/ \E a \in 1..k : r.start = seq[a]
         \/ \E e \in r.done : \E a \in 1..k, b \in (k + 1)..i : e.first = seq[a] /\ e.last = seq[b]

LEMMA AlarmsStep ==
  ASSUME NEW code, NEW seq, NEW n \in Nat, NEW i \in 0..n, i < n, NEW r,
         \A j \in 1..n : seq[j] # None,
         AlarmsSoFar(r, code, seq, i)
  PROVE  AlarmsSoFar(AlarmStep(code, r, seq[i + 1]), code, seq, i + 1)
<1> DEFINE q == AlarmStep(code, r, seq[i + 1])
           s == seq[i + 1]
<1>0. i + 1 \in 1..n /\ s # None
  OBVIOUS
<1>1. CASE Raised(code, s)
  <2>1. q = [start |-> OrElse(r.start, s), lastActive |-> s, done |-> r.done]
    BY <1>1 DEF AlarmStep, AlarmsSoFar
  <2> HIDE DEF q
  <2>2. \E a \in 1..(i + 1) : /\ q.start = seq[a] /\ q.lastActive = seq[i + 1]
                              /\ \A k \in a..(i + 1) : Raised(code, seq[k])
    <3>1. CASE r.start = None
      BY <1>1, <2>1, <3>1 DEF OrElse
    <3>2. CASE r.start # None
      <4>1. PICK a \in 1..i : r.start = seq[a] /\ \A k \in a..i : Raised(code, seq[k])
        BY <3>2 DEF AlarmsSoFar
      <4> QED
        BY <1>1, <2>1, <3>2, <4>1 DEF OrElse
    <3> QED
      BY <3>1, <3>2
  <2>3. ASSUME NEW k \in 1..(i + 1), Raised(code, seq[k])
        PROVE  \/ \E a \in 1..k : q.start = seq[a]
               \/ \E e \in q.done : \E a \in 1..k, b \in (k + 1)..(i + 1) : e.first = seq[a] /\ e.last = seq[b]
    <3>1. CASE k = i + 1
      BY <2>2, <3>1
    <3>2. CASE k # i + 1
      <4>1. k \in 1..i
        BY <3>2
      <4>2. CASE \E a \in 1..k : r.start = seq[a]
        <5>1. PICK a \in 1..k : r.start = seq[a]
          BY <4>2
        <5>2. q.start = seq[a]
          BY <2>1, <4>1, <5>1 DEF OrElse
        <5> QED
          BY <5>2
      <4>3. CASE \E e \in r.done : \E a \in 1..k, b \in (k + 1)..i : e.first = seq[a] /\ e.last = seq[b]
        BY <2>1, <4>3
      <4> QED
        BY <2>3, <4>1, <4>2, <4>3 DEF AlarmsSoFar
    <3> QED
      BY <3>1, <3>2
  <2>4. \A e \in q.done :
          \E a, b \in 1..(i + 1) :
            /\ a < b
            /\ e = [code |-> code, start |-> seq[a][1], first |-> seq[a], last |-> seq[b], open |-> FALSE,
                    gap |-> HasGap(seq[a][1], seq[b][1])]
            /\ \A k \in a..(b - 1) : Raised(code, seq[k])
    BY <2>1 DEF AlarmsSoFar
  <2> QED
    BY <2>1, <2>2, <2>3, <2>4 DEF AlarmsSoFar, q
<1>2. CASE ~Raised(code, s) /\ r.start = None
  <2>1. q = r
    BY <1>2 DEF AlarmStep
  <2>2. \A k \in 1..i : seq[k] # None
    OBVIOUS
  <2>3. ASSUME NEW k \in 1..(i + 1), Raised(code, seq[k])
        PROVE  \E e \in r.done : \E a \in 1..k, b \in (k + 1)..(i + 1) : e.first = seq[a] /\ e.last = seq[b]
    <3>1. k \in 1..i
      BY <1>2, <2>3
    <3>2. \E e \in r.done : \E a \in 1..k, b \in (k + 1)..i : e.first = seq[a] /\ e.last = seq[b]
      BY <1>2, <2>2, <2>3, <3>1 DEF AlarmsSoFar
    <3> QED
      BY <3>1, <3>2
  <2>4. \A e \in r.done :
          \E a, b \in 1..(i + 1) :
            /\ a < b
            /\ e = [code |-> code, start |-> seq[a][1], first |-> seq[a], last |-> seq[b], open |-> FALSE,
                    gap |-> HasGap(seq[a][1], seq[b][1])]
            /\ \A k \in a..(b - 1) : Raised(code, seq[k])
    BY DEF AlarmsSoFar
  <2>5. r = [start |-> r.start, lastActive |-> r.lastActive, done |-> r.done]
    BY DEF AlarmsSoFar
  <2> HIDE DEF q
  <2> QED
    BY <1>2, <2>1, <2>3, <2>4, <2>5 DEF AlarmsSoFar, q
<1>3. CASE ~Raised(code, s) /\ r.start # None
  <2>1. PICK a \in 1..i : r.start = seq[a] /\ \A k \in a..i : Raised(code, seq[k])
    BY <1>3 DEF AlarmsSoFar
  <2> DEFINE new == [code |-> code, start |-> seq[a][1], first |-> seq[a], last |-> s, open |-> FALSE,
                     gap |-> HasGap(seq[a][1], s[1])]
  <2>2. q = [start |-> None, lastActive |-> None, done |-> r.done \cup {new}]
    BY <1>3, <2>1 DEF AlarmStep, NoAlarm
  <2> HIDE DEF q
  <2>3. ASSUME NEW e \in q.done
        PROVE  \E c, b \in 1..(i + 1) :
                 /\ c < b
                 /\ e = [code |-> code, start |-> seq[c][1], first |-> seq[c], last |-> seq[b], open |-> FALSE,
                         gap |-> HasGap(seq[c][1], seq[b][1])]
                 /\ \A k \in c..(b - 1) : Raised(code, seq[k])
    <3>1. CASE e = new
      <4>1. a \in 1..(i + 1) /\ i + 1 \in 1..(i + 1) /\ a < i + 1 /\ (i + 1) - 1 = i
        OBVIOUS
      <4> QED
        BY <2>1, <3>1, <4>1
    <3>2. CASE e \in r.done
      BY <3>2 DEF AlarmsSoFar
    <3> QED
      BY <2>2, <2>3, <3>1, <3>2
  <2>4. ASSUME NEW k \in 1..(i + 1), Raised(code, seq[k])
        PROVE  \E e \in q.done : \E c \in 1..k, b \in (k + 1)..(i + 1) : e.first = seq[c] /\ e.last = seq[b]
    <3>1. k \in 1..i
      BY <1>3, <2>4
    <3>2. CASE \E c \in 1..k : r.start = seq[c]
      <4>1. PICK c \in 1..k : r.start = seq[c]
        BY <3>2
      <4>2. new \in q.done /\ new.first = seq[c] /\ new.last = seq[i + 1]
        BY <2>1, <2>2, <4>1
      <4>3. i + 1 \in (k + 1)..(i + 1)
        BY <3>1
      <4> QED
        BY <4>2, <4>3
    <3>3. CASE \E e \in r.done : \E c \in 1..k, b \in (k + 1)..i : e.first = seq[c] /\ e.last = seq[b]
      <4>1. r.done \subseteq q.done
        BY <2>2
      <4>2. (k + 1)..i \subseteq (k + 1)..(i + 1)
        OBVIOUS
      <4> QED
        BY <3>3, <4>1, <4>2
    <3> QED
      BY <2>4, <3>1, <3>2, <3>3 DEF AlarmsSoFar
  <2>5. q.start = None /\ q = [start |-> q.start, lastActive |-> q.lastActive, done |-> q.done]
    BY <2>2
  <2> QED
    BY <2>3, <2>4, <2>5 DEF AlarmsSoFar, q
<1> QED
  BY <1>1, <1>2, <1>3

(* What the reconstructor returns: runs of raised observations, the last     *)
(* possibly open, which together hold every raised observation.              *)
RunOf(e, code, seq) ==
  \E a, b \in 1..Len(seq) :
    /\ e.code = code /\ e.start = seq[a][1] /\ e.first = seq[a] /\ e.last = seq[b]
    /\ e.gap = HasGap(seq[a][1], seq[b][1])
    /\ \/ e.open = FALSE /\ a < b /\ \A k \in a..(b - 1) : Raised(code, seq[k])
       \/ e.open = TRUE /\ a <= b /\ \A k \in a..b : Raised(code, seq[k])

RunsAre(A, code, seq) ==
  /\ \A e \in A : RunOf(e, code, seq)
  /\ \A k \in 1..Len(seq) :
       Raised(code, seq[k]) =>
         \E e \in A : \E a, b \in 1..Len(seq) :
           /\ e.first = seq[a] /\ e.last = seq[b] /\ a <= k
           /\ IF e.open THEN k <= b ELSE k < b

LEMMA AlarmsComputed ==
  ASSUME Shape, NEW code, NEW w
  PROVE  \E seq : Listed(seq, RowsIn("flags", w)) /\ RunsAre(ReconstructAlarms(code, w), code, seq)
<1> DEFINE seq == Chronological(RowsIn("flags", w))
           n == Len(seq)
<1>1. Listed(seq, RowsIn("flags", w))
  BY RowsListed DEF RowsIn, Rows
<1>2. n \in Nat /\ \A j \in 1..n : seq[j] # None
  <2>1. \A s \in RowsIn("flags", w) : s # None
    BY HistoriesAssumption DEF RowsIn, Rows, Shape
  <2> QED
    BY <1>1, <2>1 DEF Listed
<1> DEFINE h == CHOOSE h : AlarmRun(h, code, seq, n)
           r == h[n]
           last == [code |-> code, start |-> r.start[1], first |-> r.start, last |-> r.lastActive, open |-> TRUE,
                    gap |-> HasGap(r.start[1], r.lastActive[1])]
<1>3. AlarmRun(h, code, seq, n)
  <2> HIDE DEF seq, n
  <2> QED
    BY <1>2, AlarmRunExists
<1>4. ReconstructAlarms(code, w) = IF r.start = None THEN r.done ELSE r.done \cup {last}
  BY DEF ReconstructAlarms, AlarmRun
<1> HIDE DEF seq, n, h
<1>5. AlarmsSoFar(r, code, seq, n)
  <2> DEFINE P == {i \in 0..n : AlarmsSoFar(h[i], code, seq, i)}
  <2>1. h[0] = NoAlarm /\ \A i \in 0..n : i < n => h[i + 1] = AlarmStep(code, h[i], seq[i + 1])
    BY <1>2, <1>3 DEF AlarmRun
  <2>2. 0 \in P
    <3>1. AlarmsSoFar(h[0], code, seq, 0)
      BY <2>1 DEF AlarmsSoFar, NoAlarm
    <3> QED
      BY <1>2, <3>1
  <2>3. ASSUME NEW i \in 0..n, i < n, i \in P PROVE i + 1 \in P
    <3>1. AlarmsSoFar(h[i], code, seq, i)
      BY <2>3
    <3>2. AlarmsSoFar(h[i + 1], code, seq, i + 1)
      BY <1>2, <2>1, <2>3, <3>1, AlarmsStep
    <3>3. i + 1 \in 0..n
      BY <1>2, <2>3
    <3> QED
      BY <3>2, <3>3
  <2> HIDE DEF P
  <2>4. n \in P
    BY <1>2, <2>2, <2>3, Climb
  <2> QED
    BY <2>4 DEF P
<1> DEFINE A == ReconstructAlarms(code, w)
           Good(e) == RunOf(e, code, seq)
<1>6. ASSUME NEW e \in r.done PROVE Good(e)
  <2>1. PICK a \in 1..n, b \in 1..n :
          /\ a < b
          /\ e = [code |-> code, start |-> seq[a][1], first |-> seq[a], last |-> seq[b], open |-> FALSE,
                  gap |-> HasGap(seq[a][1], seq[b][1])]
          /\ \A k \in a..(b - 1) : Raised(code, seq[k])
    BY <1>5, <1>6 DEF AlarmsSoFar
  <2>2. /\ e.code = code /\ e.start = seq[a][1] /\ e.first = seq[a] /\ e.last = seq[b]
        /\ e.gap = HasGap(seq[a][1], seq[b][1]) /\ e.open = FALSE
    BY <2>1, Zenon
  <2> QED
    BY <2>1, <2>2 DEF RunOf, n
<1>7. ASSUME r.start # None
      PROVE  Good(last) /\ \E a \in 1..n : last.first = seq[a] /\ last.last = seq[n] /\ n \in 1..n
  <2>1. PICK a \in 1..n : /\ r.start = seq[a] /\ r.lastActive = seq[n]
                          /\ \A k \in a..n : Raised(code, seq[k])
    BY <1>5, <1>7 DEF AlarmsSoFar
  <2>2. /\ last.code = code /\ last.start = seq[a][1] /\ last.first = seq[a] /\ last.last = seq[n]
        /\ last.gap = HasGap(seq[a][1], seq[n][1]) /\ last.open = TRUE
    BY <2>1, Zenon
  <2>3. a <= n /\ n \in 1..n
    BY <1>2
  <2> HIDE DEF last
  <2> QED
    BY <2>1, <2>2, <2>3 DEF RunOf, n
<1>8. \A e \in A : Good(e)
  <2> HIDE DEF Good, last
  <2> QED
    BY <1>4, <1>6, <1>7
<1>9. ASSUME NEW k \in 1..n, Raised(code, seq[k])
      PROVE  \E e \in A : \E a, b \in 1..n :
               /\ e.first = seq[a] /\ e.last = seq[b] /\ a <= k
               /\ IF e.open THEN k <= b ELSE k < b
  <2>1. CASE \E a \in 1..k : r.start = seq[a]
    <3>1. PICK a \in 1..k : r.start = seq[a]
      BY <2>1
    <3>2. a \in 1..n /\ a <= k /\ n \in 1..n /\ k <= n
      BY <1>2
    <3>3. r.start # None
      BY <1>2, <3>1, <3>2
    <3>4. last \in A
      BY <1>4, <3>3
    <3>5. last.first = seq[a] /\ last.open = TRUE
      BY <3>1, Zenon
    <3>6. last.last = seq[n]
      BY <1>7, <3>3
    <3> HIDE DEF last, A
    <3> QED
      BY <3>2, <3>4, <3>5, <3>6
  <2>2. CASE \E e \in r.done : \E a \in 1..k, b \in (k + 1)..n : e.first = seq[a] /\ e.last = seq[b]
    <3>1. PICK e \in r.done : \E a \in 1..k, b \in (k + 1)..n : e.first = seq[a] /\ e.last = seq[b]
      BY <2>2
    <3>2. PICK a \in 1..k, b \in (k + 1)..n : e.first = seq[a] /\ e.last = seq[b]
      BY <3>1
    <3>3. a \in 1..n /\ b \in 1..n /\ a <= k /\ k < b /\ k <= b
      BY <1>2
    <3>4. e \in A
      BY <1>4
    <3> HIDE DEF A
    <3> QED
      BY <3>2, <3>3, <3>4
  <2> QED
    BY <1>5, <1>9, <2>1, <2>2 DEF AlarmsSoFar
<1> HIDE DEF r, last
<1> QED
  BY <1>1, <1>8, <1>9 DEF n, RunsAre

(* So the intervals of all codes cover exactly the raised observations.       *)
LEMMA AlarmsCover ==
  ASSUME Shape, NEW w, w.from = None, w.to = None,
         NEW s \in Rows("flags"), NEW code \in Codes
  PROVE  Raised(code, s) <=>
           \E e \in UNION {ReconstructAlarms(c, w) : c \in Codes} :
             /\ e.code = code /\ NotAfter(e.first, s)
             /\ IF e.open THEN NotAfter(s, e.last) ELSE Before(s, e.last)
<1> DEFINE Covers(e) == /\ e.code = code /\ NotAfter(e.first, s)
                        /\ IF e.open THEN NotAfter(s, e.last) ELSE Before(s, e.last)
           A == UNION {ReconstructAlarms(c, w) : c \in Codes}
<1>1. PICK seq : Listed(seq, RowsIn("flags", w)) /\ RunsAre(ReconstructAlarms(code, w), code, seq)
  BY AlarmsComputed
<1>2. RowsIn("flags", w) \in SUBSET Slots /\ s \in RowsIn("flags", w)
  BY DEF RowsIn, Rows, InWindow
<1>3. PICK k \in 1..Len(seq) : seq[k] = s
  BY <1>1, <1>2 DEF Listed
<1>4. \A i, j \in 1..Len(seq) : /\ NotAfter(seq[i], seq[j]) <=> i <= j
                                /\ Before(seq[i], seq[j]) <=> i < j
  BY <1>1, <1>2, ListedOrder DEF Listed
<1>5. ASSUME Raised(code, s) PROVE \E e \in A : Covers(e)
  <2>1. PICK e \in ReconstructAlarms(code, w) : \E a, b \in 1..Len(seq) :
          /\ e.first = seq[a] /\ e.last = seq[b] /\ a <= k
          /\ IF e.open THEN k <= b ELSE k < b
    BY <1>1, <1>3, <1>5 DEF RunsAre
  <2>2. PICK a \in 1..Len(seq), b \in 1..Len(seq) :
          /\ e.first = seq[a] /\ e.last = seq[b] /\ a <= k
          /\ IF e.open THEN k <= b ELSE k < b
    BY <2>1
  <2>3. e.code = code
    BY <1>1 DEF RunsAre, RunOf
  <2>4. NotAfter(e.first, s) /\ IF e.open THEN NotAfter(s, e.last) ELSE Before(s, e.last)
    BY <1>3, <1>4, <2>2
  <2> QED
    BY <2>3, <2>4
<1>6. ASSUME NEW e \in A, Covers(e) PROVE Raised(code, s)
  <2>1. PICK c \in Codes : e \in ReconstructAlarms(c, w)
    BY <1>6
  <2>2. e.code = c
    <3>1. PICK q : RunsAre(ReconstructAlarms(c, w), c, q)
      BY AlarmsComputed
    <3> QED
      BY <2>1, <3>1 DEF RunsAre, RunOf
  <2>3. e \in ReconstructAlarms(code, w)
    BY <1>6, <2>1, <2>2
  <2>4. PICK a \in 1..Len(seq), b \in 1..Len(seq) :
          /\ e.first = seq[a] /\ e.last = seq[b]
          /\ \/ e.open = FALSE /\ a < b /\ \A i \in a..(b - 1) : Raised(code, seq[i])
             \/ e.open = TRUE /\ a <= b /\ \A i \in a..b : Raised(code, seq[i])
    BY <1>1, <2>3 DEF RunsAre, RunOf
  <2>5. a <= k
    BY <1>3, <1>4, <1>6, <2>4
  <2>6. CASE e.open = FALSE
    <3>1. k < b
      BY <1>3, <1>4, <1>6, <2>4, <2>6
    <3>2. k \in a..(b - 1)
      BY <2>5, <3>1
    <3> QED
      BY <1>3, <2>4, <2>6, <3>2
  <2>7. CASE e.open = TRUE
    <3>1. k <= b
      BY <1>3, <1>4, <1>6, <2>4, <2>7
    <3>2. k \in a..b
      BY <2>5, <3>1
    <3> QED
      BY <1>3, <2>4, <2>7, <3>2
  <2> QED
    BY <2>4, <2>6, <2>7
<1> QED
  BY <1>5, <1>6

-----------------------------------------------------------------------------
(* Steps.                                                                    *)

(* The slots are a finite set of instants throughout.                        *)
LEMMA ShapeStep ==
  ASSUME Shape, [Next]_vars
  PROVE  Shape'
<1>1. Slots' = Slots
  BY DEF Next, Arrive, Reconstruct, vars, Slots
<1> QED
  BY <1>1 DEF Shape

(* A step that keeps a window keeps the observations, and the tables too     *)
(* unless it is a successful rebuild of that window.                         *)
Rebuild(w, order) ==
  /\ sessions' = Outside(sessions, w) \cup ToSet(ReconstructSessions(w))
  /\ alarms' = Outside(alarms, w) \cup UNION {ReconstructAlarms(c, w) : c \in Codes}
  /\ transitions' = Outside(transitions, w) \cup DetectTransitions(w)
  /\ configs' = Outside(configs, w) \cup {WithoutIndex(c) : c \in DetectChanges(order)}
  /\ window' = w

LEMMA StepCases ==
  ASSUME [Next]_vars, window' # None
  PROVE  /\ obs' = obs
         /\ \/ UNCHANGED <<tables, window>>
            \/ \E w \in Windows : \E order \in ConfigOrders(w) : 
                 rebuilds' = rebuilds + 1 /\ Rebuild(w, order)
<1>1. CASE UNCHANGED vars
  BY <1>1 DEF vars, tables
<1>2. ASSUME NEW s \in Slots, NEW o \in LateObservations, Arrive(s, o) PROVE FALSE
  BY <1>2 DEF Arrive
<1>3. ASSUME NEW w \in Windows, NEW order \in ConfigOrders(w), Reconstruct(w, order)
      PROVE  obs' = obs /\ (UNCHANGED <<tables, window>> \/ (rebuilds' = rebuilds + 1 /\ Rebuild(w, order)))
  BY <1>3 DEF Reconstruct, Rebuild
<1> QED
  BY <1>1, <1>2, <1>3 DEF Next

(* A full rebuild leaves nothing of the table before.                        *)
LEMMA NothingOutside ==
  ASSUME NEW w, w.from = None, w.to = None, NEW S
  PROVE  Outside(S, w) = {}
BY DEF Outside, InWindow

LEMMA AlarmsKept ==
  ASSUME Shape, AlarmsExact, [Next]_vars
  PROVE  AlarmsExact'
<1>1. SUFFICES ASSUME Full' PROVE AlarmsExact'
  BY DEF AlarmsExact
<1>2. window' # None /\ window'.from = None /\ window'.to = None
  BY <1>1 DEF Full
<1>3. obs' = obs
  BY <1>2, StepCases
<1>4. Rows("flags")' = Rows("flags") /\ Codes' = Codes
  BY <1>3 DEF Rows, Codes, Slots
<1>5. \A code, s : Raised(code, s)' <=> Raised(code, s)
  BY <1>3 DEF Raised
<1>6. CASE UNCHANGED <<tables, window>>
  <2>1. alarms' = alarms /\ Full
    BY <1>2, <1>6 DEF tables, Full
  <2> QED
    BY <1>4, <1>5, <2>1 DEF AlarmsExact
<1>7. ASSUME NEW w, NEW order, Rebuild(w, order) PROVE AlarmsExact'
  <2>1. w.from = None /\ w.to = None
    BY <1>2, <1>7 DEF Rebuild
  <2>2. alarms' = UNION {ReconstructAlarms(c, w) : c \in Codes}
    BY <1>7, <2>1, NothingOutside DEF Rebuild
  <2>3. \A s \in Rows("flags"), code \in Codes :
          Raised(code, s) <=>
            \E e \in alarms' : /\ e.code = code /\ NotAfter(e.first, s)
                               /\ IF e.open THEN NotAfter(s, e.last) ELSE Before(s, e.last)
    BY <2>1, <2>2, AlarmsCover
  <2> QED
    BY <1>4, <1>5, <2>3 DEF AlarmsExact
<1> QED
  BY <1>2, <1>6, <1>7, StepCases

(* After a full rebuild the stored intervals of a code cover exactly the     *)
(* observations in which it is raised.                                       *)
THEOREM AlarmsCovered == Spec => []AlarmsExact
<1>1. Init => Shape /\ AlarmsExact
  BY HistoriesAssumption DEF Init, Shape, Slots, AlarmsExact, Full
<1>2. Shape /\ AlarmsExact /\ [Next]_vars => (Shape /\ AlarmsExact)'
  BY ShapeStep, AlarmsKept
<1> QED
  BY <1>1, <1>2, PTL DEF Spec

-----------------------------------------------------------------------------
(* Transitions and configuration changes.                                    *)

(* A value that never changes between two places is the same at both.        *)
LEMMA Steady ==
  ASSUME NEW f, NEW a \in Nat, NEW k \in Nat, a <= k,
         \A j \in (a + 1)..k : f[j] = f[j - 1]
  PROVE  f[k] = f[a]
<1> DEFINE n == k - a
           P == {i \in 0..n : f[a + i] = f[a]}
<1>1. n \in Nat /\ a + n = k
  OBVIOUS
<1>2. 0 \in P
  <2>1. a + 0 = a /\ 0 \in 0..n
    BY <1>1
  <2> QED
    BY <2>1
<1>3. ASSUME NEW i \in 0..n, i < n, i \in P PROVE i + 1 \in P
  <2>1. a + (i + 1) \in (a + 1)..k /\ (a + (i + 1)) - 1 = a + i /\ i + 1 \in 0..n
    BY <1>1, <1>3
  <2>2. f[a + (i + 1)] = f[a + i]
    BY <2>1
  <2> QED
    BY <1>3, <2>1, <2>2
<1> HIDE DEF P, n
<1>4. n \in P
  BY <1>1, <1>2, <1>3, Climb
<1> QED
  BY <1>1, <1>4 DEF P

(* The rows a configuration order lists, each once, by time.                 *)
LEMMA OrderListed ==
  ASSUME Shape, NEW w, NEW order \in ConfigOrders(w)
  PROVE  /\ Len(order) \in Nat
         /\ \A i \in 1..Len(order) : order[i] \in RowsIn("config", w)
         /\ \A i, j \in 1..Len(order) : order[i] = order[j] => i = j
         /\ \A i, j \in 1..Len(order) : i < j => order[i][1] <= order[j][1]
         /\ \A s \in RowsIn("config", w) : \E i \in 1..Len(order) : order[i] = s
<1> DEFINE R == RowsIn("config", w)
           n == Cardinality(R)
<1>1. IsFiniteSet(R) /\ n \in Nat
  <2>1. IsFiniteSet(R)
    BY FS_Subset DEF Shape, RowsIn, Rows
  <2> HIDE DEF R
  <2> QED
    BY <2>1, FS_CardinalityType
<1>2. /\ order \in [1..n -> R]
      /\ \A i, j \in 1..n : i # j => order[i] # order[j]
      /\ \A i, j \in 1..Len(order) : i < j => order[i][1] <= order[j][1]
  <2> HIDE DEF R
  <2> QED
    BY DEF ConfigOrders, SetToSeqs, R
<1> HIDE DEF R
<1>3. Len(order) = n
  <2> HIDE DEF n
  <2> QED
    BY <1>1, <1>2
<1>4. \A s \in R : \E i \in 1..n : order[i] = s
  <2>1. order \in Injection(1..n, R)
    <3> HIDE DEF n
    <3> QED
      BY <1>2 DEF Injection, IsInjective
  <2>2. Cardinality(1..n) = Cardinality(R) /\ IsFiniteSet(1..n)
    BY <1>1, FS_Interval
  <2>3. order \in Surjection(1..n, R)
    BY <1>1, <2>1, <2>2, FS_Injection
  <2> QED
    BY <2>3 DEF Surjection
<1> HIDE DEF n
<1> QED
  BY <1>1, <1>2, <1>3, <1>4 DEF R

(* What is detected in a window lies in it.                                  *)
LEMMA DetectedInWindow ==
  ASSUME Shape, NEW w
  PROVE  /\ \A c : \A e \in ReconstructAlarms(c, w) : InWindow(e.start, w)
         /\ \A e \in DetectTransitions(w) : InWindow(e.start, w)
         /\ \A order \in ConfigOrders(w) : \A c \in DetectChanges(order) : InWindow(c.start, w)
<1>1. ASSUME NEW c, NEW e \in ReconstructAlarms(c, w) PROVE InWindow(e.start, w)
  <2>1. PICK seq : Listed(seq, RowsIn("flags", w)) /\ RunsAre(ReconstructAlarms(c, w), c, seq)
    BY AlarmsComputed
  <2>2. PICK a \in 1..Len(seq) : e.start = seq[a][1]
    BY <2>1 DEF RunsAre, RunOf
  <2>3. seq[a] \in RowsIn("flags", w)
    BY <2>1 DEF Listed
  <2> QED
    BY <2>2, <2>3 DEF RowsIn
<1>2. ASSUME NEW e \in DetectTransitions(w) PROVE InWindow(e.start, w)
  <2> DEFINE R == {s \in RowsIn("conn", w) : obs[s].conn.status # None}
             seq == Statuses(w)
  <2>1. Listed(seq, R)
    BY RowsListed DEF Statuses, RowsIn, Rows
  <2>2. PICK i \in 2..Len(seq) : e.start = seq[i][1]
    BY <1>2 DEF DetectTransitions
  <2> HIDE DEF seq
  <2>3. seq[i] \in R
    BY <2>1 DEF Listed
  <2> QED
    BY <2>2, <2>3 DEF RowsIn
<1>3. ASSUME NEW order \in ConfigOrders(w), NEW c \in DetectChanges(order) PROVE InWindow(c.start, w)
  <2>1. PICK i \in 2..Len(order) : c.start = order[i][1]
    BY <1>3 DEF DetectChanges
  <2>2. Len(order) \in Nat /\ \A j \in 1..Len(order) : order[j] \in RowsIn("config", w)
    BY OrderListed
  <2>3. order[i] \in RowsIn("config", w)
    BY <2>2
  <2> QED
    BY <2>1, <2>3 DEF RowsIn
<1> QED
  BY <1>1, <1>2, <1>3

(* A rebuild changes nothing that starts outside its window.                 *)
LEMMA RebuildIsolated ==
  ASSUME Shape, NEW w, NEW order \in ConfigOrders(w), Rebuild(w, order)
  PROVE  /\ {e \in sessions : ~InWindow(e.start, w)} \subseteq sessions'
         /\ \A e \in (alarms \ alarms') \cup (alarms' \ alarms)
                    \cup (transitions \ transitions') \cup (transitions' \ transitions)
                    \cup (configs \ configs') \cup (configs' \ configs) :
              InWindow(e.start, w)
<1>1. {e \in sessions : ~InWindow(e.start, w)} \subseteq sessions'
  BY DEF Rebuild, Outside
<1>2. ASSUME NEW e \in (alarms \ alarms') \cup (alarms' \ alarms) PROVE InWindow(e.start, w)
  BY DetectedInWindow DEF Rebuild, Outside
<1>3. ASSUME NEW e \in (transitions \ transitions') \cup (transitions' \ transitions) PROVE InWindow(e.start, w)
  BY DetectedInWindow DEF Rebuild, Outside
<1>4. ASSUME NEW e \in (configs \ configs') \cup (configs' \ configs) PROVE InWindow(e.start, w)
  <2>1. \A c \in DetectChanges(order) : InWindow(WithoutIndex(c).start, w)
    BY DetectedInWindow DEF WithoutIndex
  <2> QED
    BY <2>1 DEF Rebuild, Outside
<1> QED
  BY <1>1, <1>2, <1>3, <1>4

(* A rebuild of a window adds, removes or changes nothing that starts        *)
(* outside it, and removes no session that starts outside.                   *)
THEOREM WindowsIsolated == Spec => WindowIsolated
<1> DEFINE A == \A w \in Windows :
       (rebuilds' # rebuilds /\ window' = w) =>
         /\ {e \in sessions : ~InWindow(e.start, w)} \subseteq sessions'
         /\ \A e \in (alarms \ alarms') \cup (alarms' \ alarms)
                    \cup (transitions \ transitions') \cup (transitions' \ transitions)
                    \cup (configs \ configs') \cup (configs' \ configs) :
              InWindow(e.start, w)
<1>1. Init => Shape
  BY HistoriesAssumption DEF Init, Shape, Slots
<1>2. Shape /\ [Next]_vars => Shape'
  BY ShapeStep
<1>3. ASSUME Shape, [Next]_vars PROVE [A]_vars
  <2>1. SUFFICES ASSUME NEW w \in Windows, rebuilds' # rebuilds, window' = w
        PROVE  /\ {e \in sessions : ~InWindow(e.start, w)} \subseteq sessions'
               /\ \A e \in (alarms \ alarms') \cup (alarms' \ alarms)
                          \cup (transitions \ transitions') \cup (transitions' \ transitions)
                          \cup (configs \ configs') \cup (configs' \ configs) :
                    InWindow(e.start, w)
    OBVIOUS
  <2>2. PICK u \in Windows : \E order \in ConfigOrders(u) : Reconstruct(u, order)
    BY <1>3, <2>1 DEF Next, Arrive, vars, tables
  <2>3. PICK order \in ConfigOrders(u) : Reconstruct(u, order)
    BY <2>2
  <2>4. CASE UNCHANGED <<tables, window>>
    BY <2>4 DEF tables
  <2>5. CASE Rebuild(u, order)
    <3>1. u = w
      BY <2>1, <2>5 DEF Rebuild
    <3> QED
      BY <1>3, <2>5, <3>1, RebuildIsolated
  <2> QED
    BY <2>3, <2>4, <2>5 DEF Reconstruct, Rebuild
<1> QED
  BY <1>1, <1>2, <1>3, PTL DEF Spec, WindowIsolated

(* The detected transitions, replayed up to an observation, give its status. *)
LEMMA TransitionsTell ==
  ASSUME Shape, NEW w, w.from = None, w.to = None,
         NEW s \in Rows("conn"), obs[s].conn.status # None,
         NEW upTo, upTo = {e \in DetectTransitions(w) : NotAfter(e.at, s)}
  PROVE  IF upTo = {} THEN obs[Statuses(w)[1]].conn.status = obs[s].conn.status
         ELSE (CHOOSE e \in upTo : \A f \in upTo : NotAfter(f.at, e.at)).to = obs[s].conn.status
<1> DEFINE R == {r \in RowsIn("conn", w) : obs[r].conn.status # None}
           seq == Statuses(w)
           n == Len(seq)
           status == [i \in 1..n |-> obs[seq[i]].conn.status]
           I == {j \in 2..n : status[j] # status[j - 1]}
           event(i) == [start |-> seq[i][1], at |-> seq[i], from |-> status[i - 1], to |-> status[i]]
<1>1. R \in SUBSET Slots /\ s \in R
  BY DEF RowsIn, Rows, InWindow
<1>2. Listed(seq, R)
  BY RowsListed DEF Statuses, RowsIn, Rows
<1>3. n \in Nat
  BY <1>2 DEF Listed
<1>4. DetectTransitions(w) = {event(i) : i \in I}
  <2>1. \A j \in 2..n : j \in 1..n /\ j - 1 \in 1..n
    BY <1>3
  <2>2. \A j \in 2..n : status[j] = obs[seq[j]].conn.status /\ status[j - 1] = obs[seq[j - 1]].conn.status
    BY <2>1
  <2> HIDE DEF status
  <2> QED
    BY <2>2 DEF DetectTransitions
<1> HIDE DEF seq, n
<1>5. PICK k \in 1..n : seq[k] = s
  BY <1>1, <1>2 DEF Listed, n
<1>6. \A i, j \in 1..n : NotAfter(seq[i], seq[j]) <=> i <= j
  BY <1>1, <1>2, ListedOrder DEF n
<1>7. status[k] = obs[s].conn.status
  BY <1>5
<1>8. \A i \in I : i \in 1..n /\ i \in Nat
  BY <1>3
<1> HIDE DEF status, R
<1> DEFINE J == {i \in I : i <= k}
<1>9. upTo = {event(i) : i \in J}
  <2>1. \A i \in I : NotAfter(event(i).at, s) <=> i <= k
    BY <1>5, <1>6, <1>8
  <2> HIDE DEF I, event
  <2> QED
    BY <1>4, <2>1
<1>10. ASSUME NEW a \in 1..k, \A j \in (a + 1)..k : j \notin I PROVE status[k] = status[a]
  <2>1. \A j \in (a + 1)..k : status[j] = status[j - 1]
    BY <1>3, <1>10
  <2>2. a \in Nat /\ k \in Nat /\ a <= k
    BY <1>3
  <2> QED
    BY <2>1, <2>2, Steady
<1>11. CASE J = {}
  <2>1. upTo = {}
    BY <1>9, <1>11
  <2>2. \A j \in 2..k : j \notin I
    <3> SUFFICES ASSUME NEW j \in 2..k, j \in I PROVE FALSE
      OBVIOUS
    <3>1. j <= k
      BY <1>3
    <3>2. j \in J
      BY <3>1
    <3> HIDE DEF J
    <3> QED
      BY <1>11, <3>2
  <2>3. 1 \in 1..k /\ 1 + 1 = 2
    BY <1>3
  <2>4. status[k] = status[1]
    BY <1>10, <2>2, <2>3
  <2>5. status[1] = obs[seq[1]].conn.status
    BY <1>3, <1>5 DEF status
  <2> QED
    BY <1>7, <2>1, <2>4, <2>5 DEF seq
<1>12. CASE J # {}
  <2>1. J \in SUBSET Nat /\ IsFiniteSet(J)
    <3>1. IsFiniteSet(1..n)
      BY <1>3, FS_Interval
    <3>2. J \subseteq 1..n
      BY <1>8
    <3>3. 1..n \subseteq Nat
      BY <1>3
    <3> HIDE DEF J
    <3>4. IsFiniteSet(J)
      BY <3>1, <3>2, FS_Subset
    <3> QED
      BY <3>2, <3>3, <3>4
  <2>2. PICK m \in J : \A i \in J : i <= m
    <3> HIDE DEF J
    <3> QED
      BY <1>12, <2>1, GreatestNumber
  <2>3. m \in 1..k /\ \A j \in (m + 1)..k : j \notin I
    BY <1>3, <1>8, <2>2
  <2>4. status[k] = status[m]
    BY <1>10, <2>3
  <2> DEFINE latest == CHOOSE e \in upTo : \A f \in upTo : NotAfter(f.at, e.at)
  <2>5. \A i, j \in J : NotAfter(event(j).at, event(i).at) <=> j <= i
    BY <1>6, <1>8
  <2>6. event(m) \in upTo /\ \A f \in upTo : NotAfter(f.at, event(m).at)
    <3> HIDE DEF event, J
    <3> QED
      BY <1>9, <2>2, <2>5
  <2>7. latest \in upTo /\ \A f \in upTo : NotAfter(f.at, latest.at)
    <3> HIDE DEF event
    <3> QED
      BY <2>6
  <2> HIDE DEF latest
  <2>8. PICK i \in J : latest = event(i)
    BY <1>9, <2>7
  <2>9. i = m
    <3>1. m <= i
      <4>1. NotAfter(event(m).at, event(i).at)
        BY <2>6, <2>7, <2>8
      <4> HIDE DEF event
      <4> QED
        BY <2>5, <4>1
    <3>2. i <= m
      BY <2>2
    <3> QED
      BY <2>1, <3>1, <3>2
  <2>10. latest.to = status[m]
    BY <2>8, <2>9
  <2>11. upTo # {}
    BY <2>7
  <2> QED
    BY <1>7, <2>4, <2>10, <2>11 DEF latest
<1> QED
  BY <1>11, <1>12

(* The changes stored for the second of a snapshot with one neighbour before *)
(* it and no other snapshot in between.                                      *)
LEMMA ConfigsTell ==
  ASSUME Shape, NEW w, w.from = None, w.to = None, NEW order \in ConfigOrders(w),
         NEW s \in Rows("config"), NEW t \in Rows("config"), s[1] < t[1],
         \A r \in Rows("config") \ {s, t} : r[1] < s[1] \/ r[1] > t[1]
  PROVE  {e \in {WithoutIndex(c) : c \in DetectChanges(order)} : e.start = t[1]} =
           IF obs[s].config = obs[t].config THEN {}
           ELSE {[start |-> t[1], old |-> obs[s].config, new |-> obs[t].config]}
<1> DEFINE n == Len(order)
           R == Rows("config")
           differ(j) == obs[order[j]].config # obs[order[j - 1]].config
           change(j) == [start |-> order[j][1], old |-> obs[order[j - 1]].config, new |-> obs[order[j]].config]
           C == {WithoutIndex(c) : c \in DetectChanges(order)}
<1>1. RowsIn("config", w) = R
  BY DEF RowsIn, InWindow
<1>2. R \subseteq Instants
  BY DEF Rows, Shape
<1>3. /\ n \in Nat
      /\ \A i \in 1..n : order[i] \in R
      /\ \A i, j \in 1..n : order[i] = order[j] => i = j
      /\ \A i, j \in 1..n : i < j => order[i][1] <= order[j][1]
      /\ \A r \in R : \E i \in 1..n : order[i] = r
  <2> HIDE DEF R
  <2> QED
    BY <1>1, OrderListed
<1>4. \A r \in R : r[1] \in Int
  BY <1>2 DEF Instants
<1>5. C = {change(j) : j \in {i \in 2..n : differ(i)}}
  <2> DEFINE D == {i \in 2..n : differ(i)}
             full(j) == [i |-> j, start |-> order[j][1], old |-> obs[order[j - 1]].config,
                         new |-> obs[order[j]].config]
  <2>1. DetectChanges(order) = {full(j) : j \in D}
    BY DEF DetectChanges
  <2>2. \A j \in D : WithoutIndex(full(j)) = change(j)
    BY DEF WithoutIndex
  <2> HIDE DEF D, full, change
  <2>3. C = {change(j) : j \in D}
    BY <2>1, <2>2
  <2> QED
    BY <2>3 DEF D
<1> HIDE DEF n, C
<1>6. PICK i \in 1..n : order[i] = s
  BY <1>3
<1>7. PICK j \in 1..n : order[j] = t
  BY <1>3
<1>8. s[1] \in Int /\ t[1] \in Int
  BY <1>4
<1>9. i < j
  <2> SUFFICES ASSUME ~(i < j) PROVE FALSE
    OBVIOUS
  <2>1. i = j \/ j < i
    BY <1>3
  <2>2. i # j
    BY <1>6, <1>7, <1>8
  <2>3. t[1] <= s[1]
    BY <1>3, <1>6, <1>7, <2>1, <2>2
  <2> QED
    BY <1>8, <2>3
<1>10. i = j - 1 /\ j \in 2..n
  <2> SUFFICES ASSUME i # j - 1 PROVE FALSE
    BY <1>3, <1>9
  <2>1. i + 1 \in 1..n /\ i < i + 1 /\ i + 1 < j
    BY <1>3, <1>9
  <2> DEFINE r == order[i + 1]
  <2>2. r \in R /\ r # s /\ r # t
    BY <1>3, <1>6, <1>7, <2>1
  <2>3. s[1] <= r[1] /\ r[1] <= t[1]
    BY <1>3, <1>6, <1>7, <2>1
  <2>4. r[1] \in Int
    BY <1>4, <2>2
  <2> HIDE DEF r
  <2>5. r[1] < s[1] \/ r[1] > t[1]
    BY <2>2
  <2> QED
    BY <1>8, <2>3, <2>4, <2>5
<1>11. ASSUME NEW m \in 2..n, order[m][1] = t[1] PROVE m = j
  <2>1. m \in 1..n /\ order[m] \in R
    BY <1>3
  <2>2. order[m] # s
    BY <1>8, <1>11
  <2>3. order[m] = t
    <3> SUFFICES ASSUME order[m] # t PROVE FALSE
      OBVIOUS
    <3>1. t[1] < s[1] \/ t[1] > t[1]
      BY <1>11, <2>1, <2>2
    <3> QED
      BY <1>8, <3>1
  <2> QED
    BY <1>3, <1>7, <2>1, <2>3
<1>12. change(j) = [start |-> t[1], old |-> obs[s].config, new |-> obs[t].config]
  BY <1>6, <1>7, <1>10
<1>13. differ(j) <=> obs[s].config # obs[t].config
  BY <1>6, <1>7, <1>10
<1>14. change(j).start = t[1] /\ \A m \in 2..n : change(m).start = order[m][1]
  BY <1>12
<1> HIDE DEF change, differ
<1>15. {e \in C : e.start = t[1]} = IF differ(j) THEN {change(j)} ELSE {}
  BY <1>5, <1>10, <1>11, <1>14
<1> QED
  BY <1>12, <1>13, <1>15 DEF C

LEMMA ChangesKept ==
  ASSUME Shape, ChangesExact, [Next]_vars
  PROVE  ChangesExact'
<1>1. SUFFICES ASSUME Full' PROVE ChangesExact'
  BY DEF ChangesExact, TransitionsReplay, ConfigsExact
<1>2. window' # None /\ window'.from = None /\ window'.to = None
  BY <1>1 DEF Full
<1>3. obs' = obs
  BY <1>2, StepCases
<1>4. /\ Rows("conn")' = Rows("conn") /\ Rows("config")' = Rows("config")
      /\ \A w : Statuses(w)' = Statuses(w)
  BY <1>3 DEF Rows, RowsIn, Statuses, Slots
<1> DEFINE latest(T) == CHOOSE e \in T : \A f \in T : NotAfter(f.at, e.at)
           Replays(T, w) ==
             \A s \in {r \in Rows("conn") : obs[r].conn.status # None} :
               LET upTo == {e \in T : NotAfter(e.at, s)}
               IN  IF upTo = {} THEN obs[Statuses(w)[1]].conn.status = obs[s].conn.status
                   ELSE latest(upTo).to = obs[s].conn.status
           Tells(C) ==
             \A s, t \in Rows("config") :
               (/\ s[1] < t[1]
                /\ \A r \in Rows("config") \ {s, t} : r[1] < s[1] \/ r[1] > t[1]) =>
                 {e \in C : e.start = t[1]} =
                   IF obs[s].config = obs[t].config THEN {}
                   ELSE {[start |-> t[1], old |-> obs[s].config, new |-> obs[t].config]}
<1>5. Replays(transitions', window') /\ Tells(configs')
  <2>1. CASE UNCHANGED <<tables, window>>
    <3>1. transitions' = transitions /\ configs' = configs /\ window' = window /\ Full
      BY <1>2, <2>1 DEF tables, Full
    <3>2. Replays(transitions, window)
      BY <3>1 DEF ChangesExact, TransitionsReplay
    <3>3. Tells(configs)
      BY <3>1 DEF ChangesExact, ConfigsExact
    <3> HIDE DEF Replays, Tells
    <3> QED
      BY <3>1, <3>2, <3>3
  <2>2. ASSUME NEW w, NEW order \in ConfigOrders(w), Rebuild(w, order)
        PROVE  Replays(transitions', window') /\ Tells(configs')
    <3>1. w.from = None /\ w.to = None /\ window' = w
      BY <1>2, <2>2 DEF Rebuild
    <3>2. transitions' = DetectTransitions(w) /\ configs' = {WithoutIndex(c) : c \in DetectChanges(order)}
      BY <2>2, <3>1, NothingOutside DEF Rebuild
    <3>3. Replays(DetectTransitions(w), w)
      <4> SUFFICES ASSUME NEW s \in Rows("conn"), obs[s].conn.status # None
                   PROVE  LET upTo == {e \in DetectTransitions(w) : NotAfter(e.at, s)}
                          IN  IF upTo = {} THEN obs[Statuses(w)[1]].conn.status = obs[s].conn.status
                              ELSE latest(upTo).to = obs[s].conn.status
        OBVIOUS
      <4> DEFINE upTo == {e \in DetectTransitions(w) : NotAfter(e.at, s)}
      <4>1. IF upTo = {} THEN obs[Statuses(w)[1]].conn.status = obs[s].conn.status
            ELSE (CHOOSE e \in upTo : \A f \in upTo : NotAfter(f.at, e.at)).to = obs[s].conn.status
        <5>1. upTo = {e \in DetectTransitions(w) : NotAfter(e.at, s)}
          OBVIOUS
        <5> HIDE DEF upTo
        <5> QED
          BY <3>1, <5>1, TransitionsTell
      <4> QED
        BY <4>1
    <3>4. Tells({WithoutIndex(c) : c \in DetectChanges(order)})
      BY <3>1, ConfigsTell
    <3> HIDE DEF Replays, Tells
    <3> QED
      BY <3>1, <3>2, <3>3, <3>4
  <2> QED
    BY <1>2, <2>1, <2>2, StepCases
<1>6. TransitionsReplay'
  BY <1>3, <1>4, <1>5 DEF TransitionsReplay
<1>7. ConfigsExact'
  BY <1>3, <1>4, <1>5 DEF ConfigsExact
<1> QED
  BY <1>6, <1>7 DEF ChangesExact

(* After a full rebuild the stored transitions replay every observed status, *)
(* and a configuration change is stored exactly where the snapshots differ.  *)
THEOREM ChangesAreExact == Spec => []ChangesExact
<1>1. Init => Shape /\ ChangesExact
  BY HistoriesAssumption DEF Init, Shape, Slots, ChangesExact, TransitionsReplay, ConfigsExact, Full
<1>2. Shape /\ ChangesExact /\ [Next]_vars => (Shape /\ ChangesExact)'
  BY ShapeStep, ChangesKept
<1> QED
  BY <1>1, <1>2, PTL DEF Spec

-----------------------------------------------------------------------------
(* Sessions.                                                                 *)

(* A session record x, open or closed, tells its observations a to b: the    *)
(* one id among them, the largest energy, the last stop reason, and the      *)
(* first and last that charges.                                              *)
OneId(x, seq, a, b) ==
  /\ \A k \in a..b : SessionId(seq[k]) = None \/ SessionId(seq[k]) = x.id
  /\ x.id # None => \E k \in a..b : SessionId(seq[k]) = x.id

MostEnergy(x, seq, a, b) ==
  /\ x.energy # None => \E k \in a..b : obs[seq[k]].conn.energy = x.energy
  /\ \A k \in a..b : obs[seq[k]].conn.energy # None =>
       x.energy # None /\ obs[seq[k]].conn.energy <= x.energy

LastStop(x, seq, a, b) ==
  IF x.stop = None THEN \A k \in a..b : obs[seq[k]].conn.stop = None
  ELSE \E k \in a..b : /\ obs[seq[k]].conn.stop = x.stop
                       /\ \A j \in (k + 1)..b : obs[seq[j]].conn.stop = None

ChargingSpan(x, seq, a, b) ==
  IF x.charging = None THEN \A k \in a..b : ~Charging(seq[k])
  ELSE \E c, d \in a..b :
         /\ Charging(seq[c]) /\ Charging(seq[d]) /\ x.charging = <<seq[c][1], seq[d][1]>>
         /\ \A k \in a..b : Charging(seq[k]) => c <= k /\ k <= d

Told(x, seq, a, b) ==
  /\ a <= b /\ x.first = seq[a] /\ x.last = seq[b] /\ x.start \in Int
  /\ OneId(x, seq, a, b) /\ MostEnergy(x, seq, a, b)
  /\ LastStop(x, seq, a, b) /\ ChargingSpan(x, seq, a, b)

Cur(x) ==
  x = [id |-> x.id, start |-> x.start, first |-> x.first, last |-> x.last,
       charging |-> x.charging, energy |-> x.energy, stop |-> x.stop]

(* What the proofs ask of the ordered rows.                                  *)
Rowed(seq) ==
  /\ Len(seq) \in Nat
  /\ \A i \in 1..Len(seq) :
       /\ seq[i] \in Instants
       /\ obs[seq[i]].conn.begin # None => obs[seq[i]].conn.begin \in Int
       /\ obs[seq[i]].conn.energy # None => obs[seq[i]].conn.energy \in Int
  /\ \A i, j \in 1..Len(seq) : i < j => Before(seq[i], seq[j])

(* The first observation of a session.                                       *)
LEMMA ToldStart ==
  ASSUME NEW seq, Rowed(seq), NEW i \in 1..Len(seq)
  PROVE  Cur(StartSession(seq[i])) /\ Told(StartSession(seq[i]), seq, i, i)
<1> DEFINE s == seq[i]
           x == StartSession(s)
<1>1. /\ x.id = SessionId(s) /\ x.start = OrElse(obs[s].conn.begin, s[1]) /\ x.first = s /\ x.last = s
      /\ x.charging = IF Charging(s) THEN <<s[1], s[1]>> ELSE None
      /\ x.energy = obs[s].conn.energy /\ x.stop = obs[s].conn.stop
  BY DEF StartSession
<1>2. Cur(x)
  BY DEF Cur, StartSession
<1>3. s \in Instants /\ s[1] \in Int /\ i \in Nat /\ <<s[1], s[1]>> # None
  <2>1. s \in Instants
    BY DEF Rowed
  <2>2. s[1] \in Int
    BY <2>1 DEF Instants
  <2>3. <<s[1], s[1]>> \in Instants
    BY <2>2 DEF Instants
  <2> QED
    BY <2>1, <2>2, <2>3, HistoriesAssumption DEF Rowed
<1>4. i..i = {i} /\ (i + 1)..i = {}
  BY <1>3
<1>5. x.start \in Int
  BY <1>1, <1>3 DEF OrElse, Rowed
<1>6. OneId(x, seq, i, i)
  BY <1>1, <1>4 DEF OneId
<1>7. MostEnergy(x, seq, i, i)
  BY <1>1, <1>4 DEF MostEnergy, Rowed
<1>8. LastStop(x, seq, i, i)
  BY <1>1, <1>4 DEF LastStop
<1>9. ChargingSpan(x, seq, i, i)
  BY <1>1, <1>3, <1>4 DEF ChargingSpan
<1> HIDE DEF x
<1> QED
  BY <1>1, <1>2, <1>3, <1>5, <1>6, <1>7, <1>8, <1>9 DEF Told, x

LEMMA LargerOfTwo ==
  ASSUME NEW x \in Int, NEW y \in Int
  PROVE  /\ Max({x, y}) \in {x, y} /\ Max({x, y}) \in Int
         /\ x <= Max({x, y}) /\ y <= Max({x, y})
<1>1. \E m \in {x, y} : \A n \in {x, y} : m >= n
  <2>1. x >= y \/ y >= x
    OBVIOUS
  <2> QED
    BY <2>1
<1> DEFINE m == Max({x, y})
<1>2. m \in {x, y} /\ \A n \in {x, y} : m >= n
  BY <1>1 DEF Max
<1> HIDE DEF m
<1>3. m \in {x, y} /\ m \in Int /\ x <= m /\ y <= m
  BY <1>2
<1> QED
  BY <1>3 DEF m

(* One more observation of a session.                                        *)
LEMMA ToldMore ==
  ASSUME NEW seq, Rowed(seq), NEW i \in 1..Len(seq), i < Len(seq), NEW a \in 1..i,
         NEW cur, Cur(cur), Told(cur, seq, a, i),
         \/ SessionId(seq[i + 1]) = None \/ cur.id = None \/ cur.id = SessionId(seq[i + 1])
  PROVE  /\ Cur(Accumulate(cur, seq[i + 1]))
         /\ Told(Accumulate(cur, seq[i + 1]), seq, a, i + 1)
<1> DEFINE s == seq[i + 1]
           x == Accumulate(cur, s)
<1>1. x = [id |-> OrElse(cur.id, SessionId(s)), start |-> cur.start, first |-> cur.first, last |-> s,
           charging |-> IF ~Charging(s) THEN cur.charging
                        ELSE IF cur.charging = None THEN <<s[1], s[1]>> ELSE <<cur.charging[1], s[1]>>,
           energy |-> Larger(cur.energy, obs[s].conn.energy),
           stop |-> OrElse(obs[s].conn.stop, cur.stop)]
  <2> DEFINE id == OrElse(cur.id, SessionId(s))
             charging == IF ~Charging(s) THEN cur.charging
                         ELSE IF cur.charging = None THEN <<s[1], s[1]>> ELSE <<cur.charging[1], s[1]>>
             energy == Larger(cur.energy, obs[s].conn.energy)
             stop == OrElse(obs[s].conn.stop, cur.stop)
  <2>1. x = [cur EXCEPT !.last = s, !.id = id, !.charging = charging, !.energy = energy, !.stop = stop]
    BY DEF Accumulate
  <2> HIDE DEF x, id, charging, energy, stop
  <2>2. x = [id |-> id, start |-> cur.start, first |-> cur.first, last |-> s, charging |-> charging,
             energy |-> energy, stop |-> stop]
    BY <2>1 DEF Cur
  <2> QED
    BY <2>2 DEF id, charging, energy, stop
<1>2. /\ x.id = OrElse(cur.id, SessionId(s)) /\ x.start = cur.start /\ x.first = cur.first /\ x.last = s
      /\ x.charging = IF ~Charging(s) THEN cur.charging
                      ELSE IF cur.charging = None THEN <<s[1], s[1]>> ELSE <<cur.charging[1], s[1]>>
      /\ x.energy = Larger(cur.energy, obs[s].conn.energy)
      /\ x.stop = OrElse(obs[s].conn.stop, cur.stop)
  <2> HIDE DEF x
  <2> QED
    BY <1>1
<1>3. Cur(x)
  <2> HIDE DEF x
  <2> QED
    BY <1>1 DEF Cur
<1> HIDE DEF x
<1>4. Len(seq) \in Nat /\ i \in Nat /\ a \in Nat /\ a <= i /\ i + 1 \in 1..Len(seq)
  BY DEF Rowed
<1>5. /\ i + 1 \in a..(i + 1) /\ \A k \in a..i : k \in a..(i + 1) /\ k \in 1..Len(seq) /\ k <= i
      /\ \A k \in a..(i + 1) : k \in a..i \/ k = i + 1
  BY <1>4
<1>6. \A k \in 1..Len(seq) : seq[k] \in Instants /\ seq[k][1] \in Int /\ seq[k] # None
  BY HistoriesAssumption DEF Rowed, Instants
<1>7. \A t, u \in Int : <<t, u>> # None
  BY HistoriesAssumption DEF Instants
<1>8. OneId(x, seq, a, i + 1)
  <2>1. OneId(cur, seq, a, i)
    BY DEF Told
  <2> QED
    BY <1>2, <1>5, <2>1 DEF OneId, OrElse
<1>9. MostEnergy(x, seq, a, i + 1)
  <2> DEFINE en(k) == obs[seq[k]].conn.energy
  <2>1. MostEnergy(cur, seq, a, i)
    BY DEF Told
  <2>2. \A k \in 1..Len(seq) : en(k) # None => en(k) \in Int
    BY DEF Rowed
  <2>3. /\ cur.energy # None => \E k \in a..i : en(k) = cur.energy
        /\ \A k \in a..i : en(k) # None => cur.energy # None /\ en(k) <= cur.energy
    BY <2>1 DEF MostEnergy
  <2>4. cur.energy # None => cur.energy \in Int
    BY <1>5, <2>2, <2>3
  <2>5. x.energy = Larger(cur.energy, en(i + 1))
    BY <1>2
  <2>6. en(i + 1) # None => en(i + 1) \in Int
    BY <1>4, <2>2
  <2>7. SUFFICES /\ x.energy # None => \E k \in a..(i + 1) : en(k) = x.energy
                 /\ \A k \in a..(i + 1) : en(k) # None => x.energy # None /\ en(k) <= x.energy
    BY DEF MostEnergy
  <2> HIDE DEF en
  <2>8. CASE cur.energy = None
    <3>1. x.energy = en(i + 1)
      BY <2>5, <2>8 DEF Larger
    <3> QED
      BY <1>5, <2>3, <2>6, <2>8, <3>1
  <2>9. CASE cur.energy # None /\ en(i + 1) = None
    <3>1. x.energy = cur.energy
      BY <2>5, <2>9 DEF Larger
    <3> QED
      BY <1>5, <2>3, <2>9, <3>1
  <2>10. CASE cur.energy # None /\ en(i + 1) # None
    <3>1. x.energy = Max({cur.energy, en(i + 1)})
      BY <2>5, <2>10 DEF Larger
    <3>2. cur.energy \in Int /\ en(i + 1) \in Int
      BY <2>4, <2>6, <2>10
    <3>3. /\ x.energy \in {cur.energy, en(i + 1)}
          /\ x.energy \in Int /\ cur.energy <= x.energy /\ en(i + 1) <= x.energy
      BY <3>1, <3>2, LargerOfTwo
    <3>4. x.energy # None
      BY <3>3, HistoriesAssumption
    <3>5. \E k \in a..(i + 1) : en(k) = x.energy
      BY <1>5, <2>3, <2>10, <3>3
    <3>6. ASSUME NEW k \in a..(i + 1), en(k) # None PROVE en(k) <= x.energy
      <4>1. CASE k = i + 1
        BY <3>3, <4>1
      <4>2. CASE k \in a..i
        <5>1. en(k) <= cur.energy /\ en(k) \in Int
          BY <1>5, <2>2, <2>3, <3>6, <4>2
        <5> QED
          BY <3>2, <3>3, <5>1
      <4> QED
        BY <1>5, <4>1, <4>2
    <3> QED
      BY <3>4, <3>5, <3>6
  <2> QED
    BY <2>8, <2>9, <2>10
<1>10. LastStop(x, seq, a, i + 1)
  <2> DEFINE st(k) == obs[seq[k]].conn.stop
  <2>1. LastStop(cur, seq, a, i)
    BY DEF Told
  <2>2. IF cur.stop = None THEN \A k \in a..i : st(k) = None
        ELSE \E k \in a..i : st(k) = cur.stop /\ \A j \in (k + 1)..i : st(j) = None
    BY <2>1 DEF LastStop
  <2>3. x.stop = OrElse(st(i + 1), cur.stop)
    BY <1>2
  <2>4. SUFFICES IF x.stop = None THEN \A k \in a..(i + 1) : st(k) = None
                 ELSE \E k \in a..(i + 1) : st(k) = x.stop /\ \A j \in (k + 1)..(i + 1) : st(j) = None
    BY DEF LastStop
  <2> HIDE DEF st
  <2>5. CASE st(i + 1) # None
    <3>1. x.stop = st(i + 1)
      BY <2>3, <2>5 DEF OrElse
    <3>2. ((i + 1) + 1)..(i + 1) = {}
      BY <1>4
    <3> QED
      BY <1>5, <2>5, <3>1, <3>2
  <2>6. CASE st(i + 1) = None /\ cur.stop = None
    <3>1. x.stop = None
      BY <2>3, <2>6 DEF OrElse
    <3> QED
      BY <1>5, <2>2, <2>6, <3>1
  <2>7. CASE st(i + 1) = None /\ cur.stop # None
    <3>1. x.stop = cur.stop
      BY <2>3, <2>7 DEF OrElse
    <3>2. PICK k \in a..i : st(k) = cur.stop /\ \A j \in (k + 1)..i : st(j) = None
      BY <2>2, <2>7
    <3>3. \A j \in (k + 1)..(i + 1) : j \in (k + 1)..i \/ j = i + 1
      BY <1>4
    <3>4. \A j \in (k + 1)..(i + 1) : st(j) = None
      BY <2>7, <3>2, <3>3
    <3> QED
      BY <1>5, <2>7, <3>1, <3>2, <3>4
  <2> QED
    BY <2>5, <2>6, <2>7
<1>11. ChargingSpan(x, seq, a, i + 1)
  <2> DEFINE ch(k) == Charging(seq[k])
             at(k) == seq[k][1]
  <2>1. ChargingSpan(cur, seq, a, i)
    BY DEF Told
  <2>2. IF cur.charging = None THEN \A k \in a..i : ~ch(k)
        ELSE \E c, d \in a..i : /\ ch(c) /\ ch(d) /\ cur.charging = <<at(c), at(d)>>
                                /\ \A k \in a..i : ch(k) => c <= k /\ k <= d
    BY <2>1 DEF ChargingSpan
  <2>3. x.charging = IF ~ch(i + 1) THEN cur.charging
                     ELSE IF cur.charging = None THEN <<at(i + 1), at(i + 1)>>
                     ELSE <<cur.charging[1], at(i + 1)>>
    BY <1>2
  <2>4. \A k \in 1..Len(seq) : at(k) \in Int
    BY <1>6
  <2>5. SUFFICES IF x.charging = None THEN \A k \in a..(i + 1) : ~ch(k)
                 ELSE \E c, d \in a..(i + 1) :
                        /\ ch(c) /\ ch(d) /\ x.charging = <<at(c), at(d)>>
                        /\ \A k \in a..(i + 1) : ch(k) => c <= k /\ k <= d
    BY DEF ChargingSpan
  <2> HIDE DEF ch, at
  <2>6. CASE ~ch(i + 1)
    <3>1. x.charging = cur.charging
      BY <2>3, <2>6
    <3>2. CASE cur.charging = None
      BY <1>5, <2>2, <2>6, <3>1, <3>2
    <3>3. CASE cur.charging # None
      <4>1. PICK c \in a..i, d \in a..i : /\ ch(c) /\ ch(d) /\ cur.charging = <<at(c), at(d)>>
                                          /\ \A k \in a..i : ch(k) => c <= k /\ k <= d
        BY <2>2, <3>3
      <4>2. \A k \in a..(i + 1) : ch(k) => c <= k /\ k <= d
        BY <1>5, <2>6, <4>1
      <4> QED
        BY <1>5, <3>1, <3>3, <4>1, <4>2
    <3> QED
      BY <3>2, <3>3
  <2>7. CASE ch(i + 1) /\ cur.charging = None
    <3>1. x.charging = <<at(i + 1), at(i + 1)>> /\ x.charging # None
      BY <1>4, <1>7, <2>3, <2>4, <2>7
    <3>2. \A k \in a..(i + 1) : ch(k) => k = i + 1
      BY <1>5, <2>2, <2>7
    <3>3. \A k \in a..(i + 1) : ch(k) => i + 1 <= k /\ k <= i + 1
      BY <1>4, <3>2
    <3> QED
      BY <1>5, <2>7, <3>1, <3>3
  <2>8. CASE ch(i + 1) /\ cur.charging # None
    <3>1. PICK c \in a..i, d \in a..i : /\ ch(c) /\ ch(d) /\ cur.charging = <<at(c), at(d)>>
                                        /\ \A k \in a..i : ch(k) => c <= k /\ k <= d
      BY <2>2, <2>8
    <3>2. x.charging = <<at(c), at(i + 1)>>
      BY <2>3, <2>8, <3>1
    <3>3. x.charging # None
      BY <1>4, <1>5, <1>7, <2>4, <3>2
    <3>4. \A k \in a..(i + 1) : ch(k) => c <= k /\ k <= i + 1
      BY <1>4, <1>5, <3>1
    <3> QED
      BY <1>5, <2>8, <3>1, <3>2, <3>3, <3>4
  <2> QED
    BY <2>6, <2>7, <2>8
<1>12. a <= i + 1 /\ x.first = seq[a] /\ x.last = seq[i + 1] /\ x.start \in Int
  BY <1>2, <1>4 DEF Told
<1> QED
  BY <1>3, <1>8, <1>9, <1>10, <1>11, <1>12 DEF Told, x

(* A closed session ends at or after its last observation, and is of high    *)
(* confidence only when no gap meets it.                                     *)
Ended(e, seq, b) ==
  /\ \E c \in b..Len(seq) : e.end = seq[c][1]
  /\ e.confidence \in {"HIGH", "MEDIUM", "LOW"}
  /\ e.confidence = "HIGH" => ~HasGap(e.start, e.end)

LEMMA ToldClosed ==
  ASSUME NEW seq, NEW a, NEW b, NEW cur, Told(cur, seq, a, b), NEW c \in b..Len(seq)
  PROVE  /\ Told(CloseSession(cur, seq[c]), seq, a, b)
         /\ Ended(CloseSession(cur, seq[c]), seq, b)
<1> DEFINE e == CloseSession(cur, seq[c])
           gap == HasGap(cur.start, seq[c][1])
<1>1. /\ e.id = cur.id /\ e.start = cur.start /\ e.end = seq[c][1] /\ e.charging = cur.charging
      /\ e.energy = cur.energy /\ e.stop = cur.stop /\ e.first = cur.first /\ e.last = cur.last
      /\ e.confidence = Confidence(cur, gap)
  BY DEF CloseSession
<1> HIDE DEF e
<1>2. Told(e, seq, a, b)
  BY <1>1 DEF Told, OneId, MostEnergy, LastStop, ChargingSpan
<1>3. e.confidence \in {"HIGH", "MEDIUM", "LOW"} /\ (e.confidence = "HIGH" => ~gap)
  <2> HIDE DEF gap
  <2> QED
    BY <1>1 DEF Confidence
<1>4. Ended(e, seq, b)
  BY <1>1, <1>3 DEF Ended
<1> QED
  BY <1>2, <1>4 DEF e

(* A sequence with one more element.                                         *)
LEMMA Appended ==
  ASSUME NEW q, Len(q) \in Nat, q = [m \in 1..Len(q) |-> q[m]], NEW e
  PROVE  /\ Len(Append(q, e)) = Len(q) + 1
         /\ \A m \in 1..Len(q) : Append(q, e)[m] = q[m]
         /\ Append(q, e)[Len(q) + 1] = e
         /\ Append(q, e) = [m \in 1..Len(Append(q, e)) |-> Append(q, e)[m]]
<1> DEFINE S == {q[m] : m \in 1..Len(q)} \cup {e}
<1>1. q \in Seq(S) /\ e \in S
  OBVIOUS
<1> HIDE DEF S
<1>2. Append(q, e) \in Seq(S) /\ Len(Append(q, e)) = Len(q) + 1
  BY <1>1
<1>3. \A m \in 1..Len(q) : Append(q, e)[m] = q[m]
  BY <1>1
<1>4. Append(q, e)[Len(q) + 1] = e
  BY <1>1
<1>5. Append(q, e) = [m \in 1..Len(Append(q, e)) |-> Append(q, e)[m]]
  <2> DEFINE t == Append(q, e)
  <2>1. t \in Seq(S)
    BY <1>2
  <2> HIDE DEF t
  <2>2. t = [m \in 1..Len(t) |-> t[m]]
    BY <2>1
  <2> QED
    BY <2>2 DEF t
<1> QED
  BY <1>2, <1>3, <1>4, <1>5

(* After i observations: the open session tells the last ones and the closed *)
(* ones tell earlier, separate stretches; every charging observation is in   *)
(* one of them.                                                              *)
SessionsSoFar(r, seq, i) ==
  /\ r = [open |-> r.open, done |-> r.done]
  /\ Len(r.done) \in Nat /\ r.done = [m \in 1..Len(r.done) |-> r.done[m]]
  /\ InSession(r) => Cur(r.open) /\ \E a \in 1..i : Told(r.open, seq, a, i)
  /\ \A m \in 1..Len(r.done) :
       \E a, b \in 1..i : Told(r.done[m], seq, a, b) /\ Ended(r.done[m], seq, b)
  /\ \A m, l \in 1..Len(r.done) : m < l => Before(r.done[m].last, r.done[l].first)
  /\ InSession(r) => \A m \in 1..Len(r.done) : Before(r.done[m].last, r.open.first)
  /\ \A k \in 1..i :
       Charging(seq[k]) =>
         \/ InSession(r) /\ Spans(r.open, seq[k])
         \/ \E m \in 1..Len(r.done) : Spans(r.done[m], seq[k])

(* Closing the open session keeps this.                                      *)
LEMMA CloseKeeps ==
  ASSUME NEW seq, Rowed(seq), NEW i \in 1..Len(seq), NEW c \in i..Len(seq),
         NEW r, SessionsSoFar(r, seq, i), InSession(r)
  PROVE  SessionsSoFar(Closed(r, seq[c]), seq, i)
<1> DEFINE e == CloseSession(r.open, seq[c])
           q == Closed(r, seq[c])
           n == Len(r.done)
<1>1. q = [open |-> [first |-> None], done |-> Append(r.done, e)]
  <2>1. q = [[open |-> [first |-> None], done |-> << >>] EXCEPT !.done = Append(r.done, e)]
    BY DEF Closed, NoSession
  <2> DEFINE d == Append(r.done, e)
  <2> HIDE DEF q, d
  <2>2. q = [open |-> [first |-> None], done |-> d]
    BY <2>1 DEF d
  <2> QED
    BY <2>2 DEF d
<1> HIDE DEF q
<1>2. ~InSession(q) /\ q.done = Append(r.done, e) /\ q = [open |-> q.open, done |-> q.done]
  <2> HIDE DEF e
  <2> QED
    BY <1>1 DEF InSession
<1>3. /\ n \in Nat /\ Len(q.done) = n + 1 /\ q.done[n + 1] = e
      /\ \A m \in 1..n : q.done[m] = r.done[m]
      /\ q.done = [m \in 1..Len(q.done) |-> q.done[m]]
  <2> HIDE DEF e
  <2>1. n \in Nat /\ r.done = [m \in 1..n |-> r.done[m]]
    BY DEF SessionsSoFar
  <2> QED
    BY <1>2, <2>1, Appended
<1>4. \A m \in 1..(n + 1) : m \in 1..n \/ m = n + 1
  BY <1>3
<1>5. PICK a \in 1..i : Told(r.open, seq, a, i)
  BY DEF SessionsSoFar
<1>6. Told(e, seq, a, i) /\ Ended(e, seq, i)
  BY <1>5, ToldClosed
<1>7. i \in Nat /\ i \in 1..i
  BY DEF Rowed
<1>8. e.first = r.open.first /\ e.last = r.open.last
  BY DEF CloseSession
<1> HIDE DEF e, n
<1>9. ASSUME NEW m \in 1..(n + 1)
      PROVE  \E x, b \in 1..i : Told(q.done[m], seq, x, b) /\ Ended(q.done[m], seq, b)
  <2>1. CASE m = n + 1
    BY <1>3, <1>6, <1>7, <2>1
  <2>2. CASE m \in 1..n
    BY <1>3, <2>2 DEF SessionsSoFar, n
  <2> QED
    BY <1>4, <2>1, <2>2
<1>10. ASSUME NEW m \in 1..(n + 1), NEW l \in 1..(n + 1), m < l
       PROVE  Before(q.done[m].last, q.done[l].first)
  <2>1. m \in 1..n
    BY <1>3, <1>10
  <2>2. CASE l = n + 1
    <3>1. Before(r.done[m].last, r.open.first)
      BY <2>1 DEF SessionsSoFar, n
    <3> QED
      BY <1>3, <1>8, <2>1, <2>2, <3>1
  <2>3. CASE l \in 1..n
    <3>1. Before(r.done[m].last, r.done[l].first)
      BY <1>10, <2>1, <2>3 DEF SessionsSoFar, n
    <3> QED
      BY <1>3, <2>1, <2>3, <3>1
  <2> QED
    BY <1>4, <2>2, <2>3
<1>11. ASSUME NEW k \in 1..i, Charging(seq[k])
       PROVE  \E m \in 1..(n + 1) : Spans(q.done[m], seq[k])
  <2>1. CASE Spans(r.open, seq[k])
    <3>1. Spans(q.done[n + 1], seq[k])
      BY <1>3, <1>8, <2>1 DEF Spans
    <3>2. n + 1 \in 1..(n + 1)
      BY <1>3
    <3> QED
      BY <3>1, <3>2
  <2>2. CASE \E m \in 1..n : Spans(r.done[m], seq[k])
    <3>1. PICK m \in 1..n : Spans(r.done[m], seq[k])
      BY <2>2
    <3>2. m \in 1..(n + 1) /\ q.done[m] = r.done[m]
      BY <1>3
    <3> QED
      BY <3>1, <3>2
  <2> QED
    BY <1>11, <2>1, <2>2 DEF SessionsSoFar, n
<1>12. Len(q.done) \in Nat /\ 1..Len(q.done) = 1..(n + 1)
  BY <1>3
<1> QED
  BY <1>2, <1>3, <1>9, <1>10, <1>11, <1>12 DEF SessionsSoFar, q

(* The places of two rows and their order.                                   *)
LEMMA RowedOrder ==
  ASSUME NEW seq, Rowed(seq), NEW i \in 1..Len(seq), NEW j \in 1..Len(seq)
  PROVE  /\ NotAfter(seq[i], seq[j]) <=> i <= j
         /\ Before(seq[i], seq[j]) <=> i < j
<1>1. seq[i] \in Instants /\ seq[j] \in Instants /\ Len(seq) \in Nat
  BY DEF Rowed
<1>2. /\ i < j => Before(seq[i], seq[j])
      /\ j < i => Before(seq[j], seq[i])
      /\ i < j \/ j < i \/ i = j
  BY <1>1 DEF Rowed
<1>3. Before(seq[i], seq[j]) <=> i < j
  BY <1>1, <1>2, BeforeOrders
<1>4. seq[i] = seq[j] => i = j
  BY <1>1, <1>2, BeforeOrders
<1> QED
  BY <1>1, <1>2, <1>3, <1>4 DEF NotAfter

(* An observation before or inside a session that charges is in a session.   *)
LEMMA ChargingStarts ==
  ASSUME NEW s, Charging(s)
  PROVE  StartsSession(s)
BY DEF Charging, StartsSession, IsActive, ActiveStates

(* One observation keeps this when no session is open.                       *)
LEMMA OutsideKeeps ==
  ASSUME NEW seq, Rowed(seq), NEW i \in 0..Len(seq), i < Len(seq),
         NEW r, SessionsSoFar(r, seq, i), ~InSession(r)
  PROVE  SessionsSoFar(IF StartsSession(seq[i + 1]) THEN [r EXCEPT !.open = StartSession(seq[i + 1])] ELSE r,
                       seq, i + 1)
<1> DEFINE s == seq[i + 1]
           x == StartSession(s)
           n == Len(r.done)
<1>1. /\ r = [open |-> r.open, done |-> r.done]
      /\ n \in Nat /\ r.done = [m \in 1..n |-> r.done[m]]
      /\ \A m \in 1..n : \E a, b \in 1..i : Told(r.done[m], seq, a, b) /\ Ended(r.done[m], seq, b)
      /\ \A m, l \in 1..n : m < l => Before(r.done[m].last, r.done[l].first)
      /\ \A k \in 1..i : Charging(seq[k]) => \E m \in 1..n : Spans(r.done[m], seq[k])
  BY DEF SessionsSoFar
<1>2. Len(seq) \in Nat /\ i \in Nat /\ i + 1 \in 1..Len(seq) /\ i + 1 \in 1..(i + 1)
  BY DEF Rowed
<1>3. /\ \A k \in 1..i : k \in 1..(i + 1) /\ k \in 1..Len(seq) /\ k < i + 1
      /\ \A k \in 1..(i + 1) : k \in 1..i \/ k = i + 1
  BY <1>2
<1>4. \A m \in 1..n : \E a, b \in 1..(i + 1) : Told(r.done[m], seq, a, b) /\ Ended(r.done[m], seq, b)
  BY <1>1, <1>3
<1>5. CASE ~StartsSession(s)
  <2>1. ASSUME NEW k \in 1..(i + 1), Charging(seq[k])
        PROVE  \E m \in 1..n : Spans(r.done[m], seq[k])
    <3>1. k # i + 1
      BY <1>5, <2>1, ChargingStarts
    <3> QED
      BY <1>1, <1>3, <2>1, <3>1
  <2>2. SessionsSoFar(r, seq, i + 1)
    BY <1>1, <1>4, <2>1 DEF SessionsSoFar
  <2> QED
    BY <1>5, <2>2
<1>6. CASE StartsSession(s)
  <2> DEFINE q == [r EXCEPT !.open = x]
  <2>1. q = [open |-> x, done |-> r.done]
    <3>1. r = [open |-> r.open, done |-> r.done]
      BY <1>1
    <3> HIDE DEF x
    <3> QED
      BY <3>1
  <2> HIDE DEF q
  <2>2. q.open = x /\ q.done = r.done /\ q = [open |-> q.open, done |-> q.done]
    <3> HIDE DEF x
    <3> QED
      BY <2>1
  <2>3. Cur(x) /\ Told(x, seq, i + 1, i + 1)
    BY <1>2, ToldStart
  <2>4. x.first = s /\ x.last = s
    BY DEF StartSession
  <2> HIDE DEF x
  <2>5. \A m \in 1..n : Before(r.done[m].last, x.first)
    <3> SUFFICES ASSUME NEW m \in 1..n PROVE Before(r.done[m].last, s)
      BY <2>4
    <3>1. PICK b \in 1..i : r.done[m].last = seq[b]
      BY <1>1 DEF Told
    <3>2. b \in 1..Len(seq) /\ b < i + 1
      BY <1>3
    <3> QED
      BY <1>2, <3>1, <3>2, RowedOrder
  <2>6. ASSUME NEW k \in 1..(i + 1), Charging(seq[k])
        PROVE  Spans(x, seq[k]) \/ \E m \in 1..n : Spans(r.done[m], seq[k])
    <3>1. CASE k = i + 1
      BY <2>4, <3>1 DEF Spans, NotAfter
    <3> QED
      BY <1>1, <1>3, <2>6, <3>1
  <2>7. InSession(q)
    <3>1. x.first \in Instants
      BY <1>2, <2>4 DEF Rowed
    <3> QED
      BY <2>2, <3>1, HistoriesAssumption DEF InSession
  <2>8. SessionsSoFar(q, seq, i + 1)
    BY <1>1, <1>2, <1>4, <2>2, <2>3, <2>5, <2>6, <2>7 DEF SessionsSoFar
  <2> QED
    BY <1>6, <2>8 DEF q, x
<1> QED
  BY <1>5, <1>6

(* One observation keeps this when it belongs to the open session.           *)
LEMMA InsideKeeps ==
  ASSUME NEW seq, Rowed(seq), NEW i \in 1..Len(seq), i < Len(seq),
         NEW r, SessionsSoFar(r, seq, i), InSession(r),
         \/ SessionId(seq[i + 1]) = None \/ r.open.id = None \/ r.open.id = SessionId(seq[i + 1])
  PROVE  /\ InSession([r EXCEPT !.open = Accumulate(r.open, seq[i + 1])])
         /\ SessionsSoFar([r EXCEPT !.open = Accumulate(r.open, seq[i + 1])], seq, i + 1)
<1> DEFINE s == seq[i + 1]
           x == Accumulate(r.open, s)
           n == Len(r.done)
           q == [r EXCEPT !.open = x]
<1>1. /\ n \in Nat /\ r.done = [m \in 1..n |-> r.done[m]]
      /\ \A m \in 1..n : \E a, b \in 1..i : Told(r.done[m], seq, a, b) /\ Ended(r.done[m], seq, b)
      /\ \A m, l \in 1..n : m < l => Before(r.done[m].last, r.done[l].first)
      /\ \A m \in 1..n : Before(r.done[m].last, r.open.first)
  BY DEF SessionsSoFar
<1>2. \A k \in 1..i : Charging(seq[k]) => Spans(r.open, seq[k]) \/ \E m \in 1..n : Spans(r.done[m], seq[k])
  BY DEF SessionsSoFar
<1>3. Len(seq) \in Nat /\ i \in Nat /\ i + 1 \in 1..Len(seq) /\ i + 1 \in 1..(i + 1)
  BY DEF Rowed
<1>4. /\ \A k \in 1..i : k \in 1..(i + 1) /\ k \in 1..Len(seq) /\ k < i + 1
      /\ \A k \in 1..(i + 1) : k \in 1..i \/ k = i + 1
  BY <1>3
<1>5. \A m \in 1..n : \E a, b \in 1..(i + 1) : Told(r.done[m], seq, a, b) /\ Ended(r.done[m], seq, b)
  BY <1>1, <1>4
<1>6. Cur(r.open)
  BY DEF SessionsSoFar
<1>7. PICK a \in 1..i : Told(r.open, seq, a, i)
  BY DEF SessionsSoFar
<1>8. Cur(x) /\ Told(x, seq, a, i + 1)
  BY <1>6, <1>7, ToldMore
<1>9. q = [open |-> x, done |-> r.done]
  <2>1. r = [open |-> r.open, done |-> r.done]
    BY DEF SessionsSoFar
  <2> HIDE DEF x
  <2> QED
    BY <2>1
<1> HIDE DEF x, q
<1>10. q.open = x /\ q.done = r.done /\ q = [open |-> q.open, done |-> q.done]
  BY <1>9
<1>11. /\ r.open.first = seq[a] /\ x.first = seq[a] /\ x.last = s /\ r.open.last = seq[i]
       /\ a \in 1..Len(seq) /\ a <= i
  <2>1. /\ r.open.first = seq[a] /\ x.first = seq[a] /\ x.last = s /\ r.open.last = seq[i]
    BY <1>7, <1>8 DEF Told
  <2> QED
    BY <1>3, <2>1
<1>12. InSession(q)
  <2>1. x.first \in Instants
    BY <1>11 DEF Rowed
  <2> QED
    BY <1>10, <2>1, HistoriesAssumption DEF InSession
<1>13. ASSUME NEW k \in 1..(i + 1), Charging(seq[k])
       PROVE  Spans(x, seq[k]) \/ \E m \in 1..n : Spans(r.done[m], seq[k])
  <2>1. CASE k = i + 1
    <3>1. NotAfter(seq[a], s) /\ NotAfter(s, s)
      BY <1>3, <1>11, RowedOrder
    <3> QED
      BY <1>11, <2>1, <3>1 DEF Spans
  <2>2. CASE k \in 1..i /\ Spans(r.open, seq[k])
    <3>1. NotAfter(seq[a], seq[k])
      BY <1>11, <2>2 DEF Spans
    <3>2. NotAfter(seq[k], s)
      <4>1. k \in 1..Len(seq) /\ k <= i + 1
        BY <1>3, <2>2
      <4> QED
        BY <1>3, <4>1, RowedOrder
    <3> QED
      BY <1>11, <3>1, <3>2 DEF Spans
  <2> QED
    BY <1>2, <1>4, <1>13, <2>1, <2>2
<1>14. \E b \in 1..(i + 1) : Told(x, seq, b, i + 1)
  BY <1>4, <1>8
<1>15. \A m \in 1..n : Before(r.done[m].last, x.first)
  BY <1>1, <1>11
<1>16. SessionsSoFar(q, seq, i + 1)
  BY <1>1, <1>5, <1>8, <1>10, <1>12, <1>13, <1>14, <1>15 DEF SessionsSoFar
<1> QED
  BY <1>12, <1>16 DEF q, x

(* So every observation keeps it.                                            *)
LEMMA SessionStepKeeps ==
  ASSUME NEW seq, Rowed(seq), NEW i \in 0..Len(seq), i < Len(seq),
         NEW r, SessionsSoFar(r, seq, i)
  PROVE  SessionsSoFar(SessionStep(r, seq[i + 1]), seq, i + 1)
<1> DEFINE s == seq[i + 1]
           new == InSession(r) /\ SessionId(s) # None /\ r.open.id \notin {None, SessionId(s)}
           q == IF new THEN Closed(r, s) ELSE r
           cur == Accumulate(q.open, s)
           running == [q EXCEPT !.open = cur]
<1>1. Len(seq) \in Nat /\ i + 1 \in 1..Len(seq) /\ i + 1 \in i..Len(seq) /\ i + 1 \in (i + 1)..Len(seq)
  BY DEF Rowed
<1>2. InSession(r) => i \in 1..Len(seq)
  <2> SUFFICES ASSUME InSession(r) PROVE i # 0
    BY <1>1
  <2>1. PICK a \in 1..i : TRUE
    BY DEF SessionsSoFar
  <2> QED
    BY <1>1
<1>3. SessionsSoFar(q, seq, i)
  <2>1. CASE new
    <3>1. SessionsSoFar(Closed(r, s), seq, i)
      BY <1>1, <1>2, <2>1, CloseKeeps
    <3> QED
      BY <2>1, <3>1
  <2>2. CASE ~new
    BY <2>2
  <2> QED
    BY <2>1, <2>2
<1>4. InSession(q) => /\ i \in 1..Len(seq)
                      /\ \/ SessionId(s) = None \/ q.open.id = None \/ q.open.id = SessionId(s)
  <2>1. CASE new
    <3>1. q.open.first = None
      BY <2>1 DEF Closed, NoSession
    <3> QED
      BY <3>1 DEF InSession
  <2>2. CASE ~new
    BY <1>2, <2>2
  <2> QED
    BY <2>1, <2>2
<1>5. SessionStep(r, s) =
        IF ~InSession(q)
        THEN IF StartsSession(s) THEN [q EXCEPT !.open = StartSession(s)] ELSE q
        ELSE IF EndsSession(cur, s) THEN Closed(running, s) ELSE running
  BY DEF SessionStep
<1> HIDE DEF q
<1>6. CASE ~InSession(q)
  <2>1. SessionsSoFar(IF StartsSession(s) THEN [q EXCEPT !.open = StartSession(s)] ELSE q, seq, i + 1)
    BY <1>3, <1>6, OutsideKeeps
  <2> QED
    BY <1>5, <1>6, <2>1
<1>7. CASE InSession(q)
  <2>1. InSession(running) /\ SessionsSoFar(running, seq, i + 1)
    BY <1>3, <1>4, <1>7, InsideKeeps
  <2> HIDE DEF running, cur
  <2>2. SessionsSoFar(Closed(running, s), seq, i + 1)
    BY <1>1, <2>1, CloseKeeps
  <2> QED
    BY <1>5, <1>7, <2>1, <2>2
<1> QED
  BY <1>6, <1>7

(* The loop over the observations has a result for every prefix.             *)
SessionRun(h, seq, n) ==
  h = [i \in 0..n |-> IF i = 0 THEN NoSession ELSE SessionStep(h[i - 1], seq[i])]

LEMMA SessionRunExists ==
  ASSUME NEW seq, NEW n \in Nat
  PROVE  \E h : SessionRun(h, seq, n)
<1> DEFINE P == {i \in Nat : \E h : SessionRun(h, seq, i)}
<1>1. 0 \in P
  <2> DEFINE h == [i \in 0..0 |-> NoSession]
  <2>1. SessionRun(h, seq, 0)
    BY DEF SessionRun
  <2> QED
    BY <2>1
<1>2. ASSUME NEW i \in 0..n, i < n, i \in P PROVE i + 1 \in P
  <2>1. PICK g : SessionRun(g, seq, i)
    BY <1>2
  <2> DEFINE h == [j \in 0..(i + 1) |-> IF j = i + 1 THEN SessionStep(g[i], seq[i + 1]) ELSE g[j]]
  <2>2. g[0] = NoSession /\ \A j \in 1..i : g[j] = SessionStep(g[j - 1], seq[j])
    BY <2>1 DEF SessionRun
  <2>3. h[0] = NoSession
    BY <2>2
  <2>4. ASSUME NEW j \in 1..(i + 1) PROVE h[j] = SessionStep(h[j - 1], seq[j])
    <3>1. h[j - 1] = g[j - 1]
      OBVIOUS
    <3>2. CASE j = i + 1
      BY <3>1, <3>2
    <3>3. CASE j # i + 1
      <4>1. j \in 1..i
        BY <3>3
      <4> QED
        BY <2>2, <3>1, <4>1
    <3> QED
      BY <3>2, <3>3
  <2>5. h = [j \in 0..(i + 1) |-> h[j]]
    OBVIOUS
  <2> HIDE DEF h
  <2>6. SessionRun(h, seq, i + 1)
    <3>1. \A j \in 0..(i + 1) : h[j] = IF j = 0 THEN NoSession ELSE SessionStep(h[j - 1], seq[j])
      <4>1. \A j \in 0..(i + 1) : j = 0 \/ j \in 1..(i + 1)
        OBVIOUS
      <4> QED
        BY <2>3, <2>4, <4>1
    <3> QED
      BY <2>5, <3>1, Zenon DEF SessionRun
  <2>7. i + 1 \in Nat
    OBVIOUS
  <2> QED
    BY <2>6, <2>7, Zenon
<1> HIDE DEF P
<1>3. n \in P
  BY <1>1, <1>2, Climb
<1> QED
  BY <1>3 DEF P

(* What the reconstructor returns.                                           *)
LEMMA SessionsComputed ==
  ASSUME NEW w, Rowed(Chronological(RowsIn("conn", w)))
  PROVE  LET seq == Chronological(RowsIn("conn", w))
         IN  \E r : /\ SessionsSoFar(r, seq, Len(seq)) /\ ~InSession(r)
                    /\ r.done = ReconstructSessions(w)
<1> DEFINE seq == Chronological(RowsIn("conn", w))
           n == Len(seq)
           h == CHOOSE h : SessionRun(h, seq, n)
           last == h[n]
<1>1. n \in Nat
  BY DEF Rowed
<1>2. SessionRun(h, seq, n)
  <2> HIDE DEF seq, n
  <2> QED
    BY <1>1, SessionRunExists
<1>3. ReconstructSessions(w) = IF InSession(last) THEN Closed(last, Last(seq)).done ELSE last.done
  BY DEF ReconstructSessions, SessionRun
<1>4. Rowed(seq)
  OBVIOUS
<1> HIDE DEF seq, n, h
<1>5. SessionsSoFar(last, seq, n)
  <2> DEFINE P == {i \in 0..n : SessionsSoFar(h[i], seq, i)}
  <2>1. h[0] = NoSession /\ \A i \in 0..n : i < n => h[i + 1] = SessionStep(h[i], seq[i + 1])
    BY <1>1, <1>2 DEF SessionRun
  <2>2. 0 \in P
    <3>1. NoSession = [open |-> NoSession.open, done |-> NoSession.done]
      BY DEF NoSession
    <3>2. ~InSession(NoSession) /\ NoSession.done = << >>
      BY DEF NoSession, InSession
    <3>3. Len(NoSession.done) = 0 /\ NoSession.done = [m \in 1..Len(NoSession.done) |-> NoSession.done[m]]
      BY <3>2
    <3>4. SessionsSoFar(NoSession, seq, 0)
      BY <3>1, <3>2, <3>3 DEF SessionsSoFar
    <3> QED
      BY <1>1, <2>1, <3>4
  <2>3. ASSUME NEW i \in 0..n, i < n, i \in P PROVE i + 1 \in P
    <3>1. SessionsSoFar(h[i], seq, i)
      BY <2>3
    <3>2. SessionsSoFar(h[i + 1], seq, i + 1)
      BY <1>4, <2>1, <2>3, <3>1, SessionStepKeeps DEF n
    <3>3. i + 1 \in 0..n
      BY <1>1, <2>3
    <3> QED
      BY <3>2, <3>3
  <2> HIDE DEF P
  <2>4. n \in P
    BY <1>1, <2>2, <2>3, Climb
  <2> QED
    BY <2>4 DEF P
<1> HIDE DEF last
<1>6. CASE InSession(last)
  <2>1. n \in 1..n /\ n \in n..n
    <3>1. PICK a \in 1..n : TRUE
      BY <1>5, <1>6 DEF SessionsSoFar
    <3> QED
      BY <1>1
  <2>2. Last(seq) = seq[n]
    BY DEF Last, n
  <2>3. SessionsSoFar(Closed(last, seq[n]), seq, n)
    BY <1>4, <1>5, <1>6, <2>1, CloseKeeps DEF n
  <2>4. ~InSession(Closed(last, seq[n]))
    BY DEF Closed, NoSession, InSession
  <2> QED
    BY <1>3, <1>6, <2>2, <2>3, <2>4 DEF seq, n
<1>7. CASE ~InSession(last)
  BY <1>3, <1>5, <1>7 DEF seq, n
<1> QED
  BY <1>6, <1>7

(* The observations are of their type.                                       *)
Typed == obs \in [Slots -> Observations \cup {None}]

LEMMA RowsRowed ==
  ASSUME Shape, Typed, NEW w
  PROVE  /\ Rowed(Chronological(RowsIn("conn", w)))
         /\ Listed(Chronological(RowsIn("conn", w)), RowsIn("conn", w))
<1> DEFINE R == RowsIn("conn", w)
           seq == Chronological(R)
<1>1. Listed(seq, R)
  BY RowsListed DEF RowsIn, Rows
<1>2. ASSUME NEW s \in R
      PROVE  /\ s \in Instants
             /\ obs[s].conn.begin # None => obs[s].conn.begin \in Int
             /\ obs[s].conn.energy # None => obs[s].conn.energy \in Int
  <2>1. s \in Slots /\ obs[s] # None /\ obs[s].conn # None
    BY DEF RowsIn, Rows
  <2>2. obs[s] \in Observations
    BY <2>1 DEF Typed
  <2> QED
    BY <2>1, <2>2, ObservationsAssumption DEF Shape
<1> HIDE DEF R, seq
<1>3. Rowed(seq)
  BY <1>1, <1>2 DEF Listed, Rowed
<1> QED
  BY <1>1, <1>3 DEF seq, R

LEMMA GreatestIs ==
  ASSUME NEW S \in SUBSET Int, NEW m \in S, \A y \in S : y <= m
  PROVE  Max(S) = m
<1> DEFINE x == Max(S)
<1>1. \E z \in S : \A y \in S : z >= y
  OBVIOUS
<1>2. x \in S /\ \A y \in S : x >= y
  BY <1>1 DEF Max
<1> HIDE DEF x
<1>3. x = m
  BY <1>2
<1> QED
  BY <1>3 DEF x

LEMMA LeastIs ==
  ASSUME NEW S \in SUBSET Int, NEW m \in S, \A y \in S : m <= y
  PROVE  Min(S) = m
<1> DEFINE x == Min(S)
<1>1. \E z \in S : \A y \in S : z <= y
  OBVIOUS
<1>2. x \in S /\ \A y \in S : x <= y
  BY <1>1 DEF Min
<1> HIDE DEF x
<1>3. x = m
  BY <1>2
<1> QED
  BY <1>3 DEF x

(* A gap lies between two times.                                             *)
LEMMA GapsOrdered ==
  ASSUME Shape, NEW g \in Gaps
  PROVE  g[1] \in Int /\ g[2] \in Int /\ g[1] < g[2]
<1>1. Times(Frames) \subseteq Int /\ Times(Rows("conn")) \subseteq Int
  BY DEF Times, Frames, Rows, Shape, Instants
<1> DEFINE F == Times(Frames)
           C == Times(Rows("conn"))
<1> HIDE DEF F, C
<1>2. g \in DetectGaps(F) \/ g \in DetectGaps(C)
  BY DEF Gaps, F, C
<1>3. F \subseteq Int /\ C \subseteq Int
  BY <1>1 DEF F, C
<1> QED
  BY <1>2, <1>3 DEF DetectGaps, Neighbours

(* What a session record tells is what its observations say.                 *)
LEMMA ToldFaithful ==
  ASSUME Shape, NEW seq, Rowed(seq), Listed(seq, Rows("conn")),
         NEW e, NEW a \in 1..Len(seq), NEW b \in 1..Len(seq), Told(e, seq, a, b), Ended(e, seq, b)
  PROVE  Faithful(e)
<1> DEFINE M == Members(e)
           energies == {obs[s].conn.energy : s \in M} \ {None}
           stops == {s \in M : obs[s].conn.stop # None}
           moments == {s[1] : s \in {q \in M : Charging(q)}}
<1>1. Len(seq) \in Nat /\ a <= b /\ e.first = seq[a] /\ e.last = seq[b] /\ e.start \in Int
  BY DEF Told, Rowed
<1>2. \A k \in a..b : k \in 1..Len(seq) /\ k \in Nat
  BY <1>1
<1>3. \A j, k \in 1..Len(seq) : (NotAfter(seq[j], seq[k]) <=> j <= k) /\ (Before(seq[j], seq[k]) <=> j < k)
  BY RowedOrder
<1>4. M = {seq[k] : k \in a..b}
  <2>1. ASSUME NEW s \in M PROVE \E k \in a..b : s = seq[k]
    <3>1. s \in Rows("conn") /\ NotAfter(seq[a], s) /\ NotAfter(s, seq[b])
      BY <1>1 DEF Members, Spans
    <3>2. PICK k \in 1..Len(seq) : s = seq[k]
      BY <3>1 DEF Listed
    <3>3. k \in a..b
      BY <1>1, <1>3, <3>1, <3>2
    <3> QED
      BY <3>2, <3>3
  <2>2. ASSUME NEW k \in a..b PROVE seq[k] \in M
    <3>1. seq[k] \in Rows("conn")
      BY <1>2 DEF Listed
    <3>2. NotAfter(seq[a], seq[k]) /\ NotAfter(seq[k], seq[b])
      BY <1>1, <1>2, <1>3
    <3> QED
      BY <1>1, <3>1, <3>2 DEF Members, Spans
  <2> HIDE DEF M
  <2> QED
    BY <2>1, <2>2
<1> HIDE DEF M
<1>5. \A k \in 1..Len(seq) : seq[k][1] \in Int
  BY DEF Rowed, Instants
<1>6. {SessionId(s) : s \in M} \ {None} = {e.id} \ {None}
  <2>1. OneId(e, seq, a, b)
    BY DEF Told
  <2>2. {SessionId(s) : s \in M} = {SessionId(seq[k]) : k \in a..b}
    BY <1>4
  <2> QED
    BY <2>1, <2>2 DEF OneId
<1>7. e.energy = IF energies = {} THEN None ELSE Max(energies)
  <2> DEFINE en(k) == obs[seq[k]].conn.energy
  <2>1. MostEnergy(e, seq, a, b)
    BY DEF Told
  <2>2. /\ e.energy # None => \E k \in a..b : en(k) = e.energy
        /\ \A k \in a..b : en(k) # None => e.energy # None /\ en(k) <= e.energy
    BY <2>1 DEF MostEnergy
  <2>3. \A k \in a..b : en(k) # None => en(k) \in Int
    BY <1>2 DEF Rowed
  <2>4. energies = {en(k) : k \in a..b} \ {None}
    BY <1>4
  <2> HIDE DEF en, energies
  <2>5. energies \in SUBSET Int
    BY <2>3, <2>4
  <2>6. CASE e.energy = None
    <3>1. energies = {}
      BY <2>2, <2>4, <2>6
    <3> QED
      BY <2>6, <3>1
  <2>7. CASE e.energy # None
    <3>1. e.energy \in energies /\ \A y \in energies : y <= e.energy
      BY <2>2, <2>4, <2>7
    <3>2. Max(energies) = e.energy
      BY <2>5, <3>1, GreatestIs
    <3> QED
      BY <3>1, <3>2
  <2> QED
    BY <2>6, <2>7
<1>8. /\ e.stop # None <=> stops # {}
      /\ \A s \in stops : (\A t \in stops : NotAfter(t, s)) => e.stop = obs[s].conn.stop
  <2> DEFINE st(k) == obs[seq[k]].conn.stop
  <2>1. LastStop(e, seq, a, b)
    BY DEF Told
  <2>2. IF e.stop = None THEN \A k \in a..b : st(k) = None
        ELSE \E k \in a..b : st(k) = e.stop /\ \A j \in (k + 1)..b : st(j) = None
    BY <2>1 DEF LastStop
  <2>3. CASE e.stop = None
    <3>1. stops = {}
      BY <1>4, <2>2, <2>3
    <3> QED
      BY <2>3, <3>1
  <2>4. CASE e.stop # None
    <3>1. PICK k \in a..b : st(k) = e.stop /\ \A j \in (k + 1)..b : st(j) = None
      BY <2>2, <2>4
    <3>2. seq[k] \in stops
      BY <1>4, <2>4, <3>1
    <3>3. ASSUME NEW s \in stops, \A t \in stops : NotAfter(t, s) PROVE e.stop = obs[s].conn.stop
      <4>1. PICK j \in a..b : s = seq[j]
        BY <1>4
      <4>2. st(j) # None
        BY <4>1
      <4>3. k <= j
        <5>1. NotAfter(seq[k], seq[j])
          BY <3>2, <3>3, <4>1
        <5> QED
          BY <1>2, <1>3, <5>1
      <4>4. j \notin (k + 1)..b
        BY <3>1, <4>2
      <4>5. j = k
        BY <1>1, <4>3, <4>4
      <4> QED
        BY <3>1, <4>1, <4>5
    <3> QED
      BY <2>4, <3>2, <3>3
  <2> QED
    BY <2>3, <2>4
<1>9. e.charging = IF moments = {} THEN None ELSE <<Min(moments), Max(moments)>>
  <2> DEFINE ch(k) == Charging(seq[k])
             at(k) == seq[k][1]
  <2>1. ChargingSpan(e, seq, a, b)
    BY DEF Told
  <2>2. IF e.charging = None THEN \A k \in a..b : ~ch(k)
        ELSE \E c, d \in a..b : /\ ch(c) /\ ch(d) /\ e.charging = <<at(c), at(d)>>
                                /\ \A k \in a..b : ch(k) => c <= k /\ k <= d
    BY <2>1 DEF ChargingSpan
  <2>3. moments = {at(k) : k \in {j \in a..b : ch(j)}}
    BY <1>4
  <2>4. \A k \in a..b : at(k) \in Int
    BY <1>2, <1>5
  <2>5. \A j, k \in a..b : j <= k => at(j) <= at(k)
    <3> SUFFICES ASSUME NEW j \in a..b, NEW k \in a..b, j <= k PROVE at(j) <= at(k)
      OBVIOUS
    <3>1. NotAfter(seq[j], seq[k])
      BY <1>2, <1>3
    <3>2. seq[j][1] \in Int /\ seq[k][1] \in Int
      BY <1>2, <1>5
    <3> QED
      BY <3>1, <3>2 DEF NotAfter, Before
  <2> HIDE DEF ch, at, moments
  <2>6. moments \in SUBSET Int
    BY <2>3, <2>4
  <2>7. CASE e.charging = None
    <3>1. moments = {}
      BY <2>2, <2>3, <2>7
    <3> QED
      BY <2>7, <3>1
  <2>8. CASE e.charging # None
    <3>1. PICK c \in a..b, d \in a..b : /\ ch(c) /\ ch(d) /\ e.charging = <<at(c), at(d)>>
                                        /\ \A k \in a..b : ch(k) => c <= k /\ k <= d
      BY <2>2, <2>8
    <3>2. at(c) \in moments /\ at(d) \in moments
      BY <2>3, <3>1
    <3>3. \A y \in moments : at(c) <= y /\ y <= at(d)
      BY <2>3, <2>5, <3>1
    <3>4. Min(moments) = at(c)
      BY <2>6, <3>2, <3>3, LeastIs
    <3>5. Max(moments) = at(d)
      BY <2>6, <3>2, <3>3, GreatestIs
    <3> QED
      BY <3>1, <3>2, <3>4, <3>5
  <2> QED
    BY <2>7, <2>8
<1>10. e.confidence = "HIGH" => ~\E g \in Gaps : e.start <= g[1] /\ g[2] <= e.end
  <2> SUFFICES ASSUME e.confidence = "HIGH", NEW g \in Gaps, e.start <= g[1], g[2] <= e.end PROVE FALSE
    OBVIOUS
  <2>1. ~HasGap(e.start, e.end)
    BY DEF Ended
  <2>2. g[2] <= e.start \/ g[1] >= e.end
    BY <2>1 DEF HasGap, Overlaps
  <2>3. g[1] \in Int /\ g[2] \in Int /\ g[1] < g[2]
    BY GapsOrdered
  <2>4. e.end \in Int
    <3>1. PICK c \in b..Len(seq) : e.end = seq[c][1]
      BY DEF Ended
    <3> QED
      BY <1>1, <1>5, <3>1
  <2> QED
    BY <1>1, <2>2, <2>3, <2>4
<1> QED
  BY <1>6, <1>7, <1>8, <1>9, <1>10 DEF Faithful, M

(* The sessions a rebuild of a window stores.                                *)
LEMMA RebuiltSessions ==
  ASSUME Shape, Typed, NEW w, NEW S, S = ToSet(ReconstructSessions(w)),
         NEW seq, seq = Chronological(RowsIn("conn", w))
  PROVE  /\ \A e \in S : \E a, b \in 1..Len(seq) : Told(e, seq, a, b) /\ Ended(e, seq, b)
         /\ \A e, f \in S : e # f => Before(e.last, f.first) \/ Before(f.last, e.first)
         /\ \A s \in RowsIn("conn", w) : Charging(s) => \E e \in S : Spans(e, s)
<1>1. Rowed(seq) /\ Listed(seq, RowsIn("conn", w))
  BY RowsRowed
<1>2. PICK r : /\ SessionsSoFar(r, seq, Len(seq)) /\ ~InSession(r)
               /\ r.done = ReconstructSessions(w)
  BY <1>1, SessionsComputed
<1> DEFINE n == Len(r.done)
<1>3. n \in Nat /\ r.done = [m \in 1..n |-> r.done[m]]
  BY <1>2 DEF SessionsSoFar
<1>4. S = {r.done[m] : m \in 1..n}
  <2>1. DOMAIN r.done = 1..n
    BY <1>3
  <2> QED
    BY <1>2, <2>1 DEF ToSet
<1> HIDE DEF n
<1>5. \A e \in S : \E a, b \in 1..Len(seq) : Told(e, seq, a, b) /\ Ended(e, seq, b)
  BY <1>2, <1>4 DEF SessionsSoFar, n
<1>6. ASSUME NEW e \in S, NEW f \in S, e # f PROVE Before(e.last, f.first) \/ Before(f.last, e.first)
  <2>1. PICK m \in 1..n : e = r.done[m]
    BY <1>4
  <2>2. PICK l \in 1..n : f = r.done[l]
    BY <1>4
  <2>3. m < l \/ l < m
    BY <1>3, <1>6, <2>1, <2>2
  <2> QED
    BY <1>2, <2>1, <2>2, <2>3 DEF SessionsSoFar, n
<1>7. ASSUME NEW s \in RowsIn("conn", w), Charging(s) PROVE \E e \in S : Spans(e, s)
  <2>1. PICK k \in 1..Len(seq) : seq[k] = s
    BY <1>1 DEF Listed
  <2>2. \E m \in 1..n : Spans(r.done[m], s)
    BY <1>2, <1>7, <2>1 DEF SessionsSoFar, n
  <2> QED
    BY <1>4, <2>2
<1> QED
  BY <1>5, <1>6, <1>7

(* They are of their type, and so are the other events.                      *)
SessionTyped(e) ==
  /\ e.first \in Slots /\ e.last \in Slots /\ NotAfter(e.first, e.last)
  /\ e.start \in Int /\ e.end \in Int /\ e.last[1] <= e.end
  /\ e.confidence \in {"HIGH", "MEDIUM", "LOW"}

LEMMA RebuiltTyped ==
  ASSUME Shape, Typed, NEW w
  PROVE  /\ \A e \in ToSet(ReconstructSessions(w)) : SessionTyped(e)
         /\ \A c : \A e \in ReconstructAlarms(c, w) :
              /\ e.first \in Slots /\ e.last \in Slots /\ NotAfter(e.first, e.last)
              /\ e.open \in BOOLEAN /\ e.gap \in BOOLEAN
         /\ \A e \in DetectTransitions(w) : e.at \in Slots /\ e.from # e.to
<1>1. ASSUME NEW e \in ToSet(ReconstructSessions(w)) PROVE SessionTyped(e)
  <2> DEFINE seq == Chronological(RowsIn("conn", w))
  <2>1. Rowed(seq) /\ Listed(seq, RowsIn("conn", w))
    BY RowsRowed
  <2>2. PICK a \in 1..Len(seq), b \in 1..Len(seq) : Told(e, seq, a, b) /\ Ended(e, seq, b)
    BY RebuiltSessions
  <2> HIDE DEF seq
  <2>3. e.first = seq[a] /\ e.last = seq[b] /\ e.start \in Int /\ a <= b
    BY <2>2 DEF Told
  <2>4. seq[a] \in Slots /\ seq[b] \in Slots
    BY <2>1 DEF Listed, RowsIn, Rows
  <2>5. NotAfter(seq[a], seq[b])
    BY <2>1, <2>3, RowedOrder
  <2>6. PICK c \in b..Len(seq) : e.end = seq[c][1]
    BY <2>2 DEF Ended
  <2>7. c \in 1..Len(seq) /\ b <= c
    BY <2>1 DEF Rowed
  <2>8. seq[b][1] \in Int /\ seq[c][1] \in Int /\ seq[b][1] <= seq[c][1]
    <3>1. NotAfter(seq[b], seq[c])
      BY <2>1, <2>7, RowedOrder
    <3>2. seq[b][1] \in Int /\ seq[c][1] \in Int
      BY <2>1, <2>7 DEF Rowed, Instants
    <3> QED
      BY <3>1, <3>2 DEF NotAfter, Before
  <2>9. e.confidence \in {"HIGH", "MEDIUM", "LOW"}
    BY <2>2 DEF Ended
  <2> QED
    BY <2>3, <2>4, <2>5, <2>6, <2>8, <2>9 DEF SessionTyped
<1>2. ASSUME NEW c, NEW e \in ReconstructAlarms(c, w)
      PROVE  /\ e.first \in Slots /\ e.last \in Slots /\ NotAfter(e.first, e.last)
             /\ e.open \in BOOLEAN /\ e.gap \in BOOLEAN
  <2>1. PICK seq : Listed(seq, RowsIn("flags", w)) /\ RunsAre(ReconstructAlarms(c, w), c, seq)
    BY AlarmsComputed
  <2>2. RunOf(e, c, seq)
    BY <2>1 DEF RunsAre
  <2>3. PICK a \in 1..Len(seq), b \in 1..Len(seq) :
          /\ e.first = seq[a] /\ e.last = seq[b] /\ a <= b
          /\ e.gap = HasGap(seq[a][1], seq[b][1]) /\ (e.open = FALSE \/ e.open = TRUE)
    <3>1. Len(seq) \in Nat
      BY <2>1 DEF Listed
    <3> QED
      BY <2>2, <3>1 DEF RunOf
  <2>4. seq[a] \in Slots /\ seq[b] \in Slots
    BY <2>1 DEF Listed, RowsIn, Rows
  <2>5. NotAfter(seq[a], seq[b])
    <3>1. RowsIn("flags", w) \in SUBSET Slots
      BY DEF RowsIn, Rows
    <3> QED
      BY <2>1, <2>3, <3>1, ListedOrder
  <2>6. e.gap \in BOOLEAN
    BY <2>3, Zenon DEF HasGap
  <2> QED
    BY <2>3, <2>4, <2>5, <2>6
<1>3. ASSUME NEW e \in DetectTransitions(w) PROVE e.at \in Slots /\ e.from # e.to
  <2> DEFINE R == {s \in RowsIn("conn", w) : obs[s].conn.status # None}
             seq == Statuses(w)
  <2>1. Listed(seq, R)
    BY RowsListed DEF Statuses, RowsIn, Rows
  <2>2. PICK i \in 2..Len(seq) : e.at = seq[i] /\ e.from # e.to
    BY <1>3 DEF DetectTransitions
  <2> HIDE DEF seq
  <2>3. seq[i] \in R
    BY <2>1 DEF Listed
  <2> QED
    BY <2>2, <2>3 DEF RowsIn, Rows
<1> QED
  BY <1>1, <1>2, <1>3

(* Every step keeps the types.                                               *)
LEMMA TypesKept ==
  ASSUME Shape, TypeOK, [Next]_vars
  PROVE  TypeOK'
<1>1. Slots' = Slots
  BY DEF Next, Arrive, Reconstruct, vars, Slots
<1>2. Typed
  BY DEF TypeOK, Typed
<1>3. Typed'
  <2>1. CASE obs' = obs
    BY <1>1, <1>2, <2>1 DEF Typed
  <2>2. ASSUME NEW s \in Slots, NEW o \in LateObservations, Arrive(s, o) PROVE Typed'
    <3>1. obs' = [obs EXCEPT ![s] = o] /\ o \in Observations
      BY <2>2 DEF Arrive, Observations
    <3> QED
      BY <1>1, <1>2, <3>1 DEF Typed
  <2> QED
    BY <2>1, <2>2 DEF Next, Reconstruct, vars
<1> DEFINE Events(S, A, T) ==
             /\ \A e \in S : SessionTyped(e)
             /\ \A e \in A : /\ e.first \in Slots /\ e.last \in Slots /\ NotAfter(e.first, e.last)
                             /\ e.open \in BOOLEAN /\ e.gap \in BOOLEAN
             /\ \A e \in T : e.at \in Slots /\ e.from # e.to
<1>4. Events(sessions, alarms, transitions)
  BY DEF TypeOK, SessionTyped
<1>5. Events(sessions', alarms', transitions')
  <2>1. CASE UNCHANGED tables
    <3>1. sessions' = sessions /\ alarms' = alarms /\ transitions' = transitions
      BY <2>1 DEF tables
    <3> HIDE DEF Events
    <3> QED
      BY <1>4, <3>1
  <2>2. ASSUME NEW w, NEW order, Rebuild(w, order) PROVE Events(sessions', alarms', transitions')
    BY <1>2, <1>4, <2>2, RebuiltTyped DEF Rebuild, Outside
  <2> QED
    <3>1. ASSUME NEW w \in Windows, NEW order \in ConfigOrders(w), Reconstruct(w, order)
          PROVE  UNCHANGED tables \/ Rebuild(w, order)
      BY <3>1 DEF Reconstruct, Rebuild
    <3> HIDE DEF Events
    <3> QED
      BY <2>1, <2>2, <3>1 DEF Next, Arrive, vars, tables
<1>6. window' \in Windows \cup {None}
  BY DEF TypeOK, Next, Arrive, Reconstruct, vars
<1>7. late' \in 0..MaxLate /\ rebuilds' \in 0..MaxRebuilds
  <2>1. late \in 0..MaxLate /\ rebuilds \in 0..MaxRebuilds
    BY DEF TypeOK
  <2>2. /\ late' = late \/ (late < MaxLate /\ late' = late + 1)
        /\ rebuilds' = rebuilds \/ (rebuilds < MaxRebuilds /\ rebuilds' = rebuilds + 1)
    BY DEF Next, Arrive, Reconstruct, vars
  <2> QED
    BY <2>1, <2>2, BoundsAssumption
<1> QED
  BY <1>1, <1>3, <1>5, <1>6, <1>7 DEF TypeOK, Typed, SessionTyped

(* Every step keeps the charging observations of the window covered, and     *)
(* the sessions exact after a full rebuild.                                  *)
LEMMA CoveredKept ==
  ASSUME Shape, Typed, ChargingCovered, [Next]_vars
  PROVE  ChargingCovered'
<1>1. SUFFICES ASSUME window' # None PROVE ChargingCovered'
  BY DEF ChargingCovered
<1>2. obs' = obs
  BY <1>1, StepCases
<1>3. /\ \A w : RowsIn("conn", w)' = RowsIn("conn", w)
      /\ \A s : Charging(s)' <=> Charging(s)
  BY <1>2 DEF RowsIn, Rows, Slots, Charging, State, Delivering
<1>4. \A s \in RowsIn("conn", window') : Charging(s) => \E e \in sessions' : Spans(e, s)
  <2>1. CASE UNCHANGED <<tables, window>>
    <3>1. sessions' = sessions /\ window' = window
      BY <2>1 DEF tables
    <3> QED
      BY <1>1, <3>1 DEF ChargingCovered
  <2>2. ASSUME NEW w, NEW order, Rebuild(w, order)
        PROVE  \A s \in RowsIn("conn", window') : Charging(s) => \E e \in sessions' : Spans(e, s)
    <3> DEFINE S == ToSet(ReconstructSessions(w))
    <3>1. S \subseteq sessions' /\ window' = w
      BY <2>2 DEF Rebuild
    <3>2. \A s \in RowsIn("conn", w) : Charging(s) => \E e \in S : Spans(e, s)
      <4> DEFINE seq == Chronological(RowsIn("conn", w))
      <4>1. S = ToSet(ReconstructSessions(w)) /\ seq = Chronological(RowsIn("conn", w))
        OBVIOUS
      <4> HIDE DEF S, seq
      <4> QED
        BY <4>1, RebuiltSessions
    <3> HIDE DEF S
    <3> QED
      BY <3>1, <3>2
  <2> QED
    BY <1>1, <2>1, <2>2, StepCases
<1> QED
  BY <1>3, <1>4 DEF ChargingCovered

LEMMA ExactKept ==
  ASSUME Shape, Typed, SessionsExact, [Next]_vars
  PROVE  SessionsExact'
<1>1. SUFFICES ASSUME Full' PROVE SessionsExact'
  BY DEF SessionsExact
<1>2. window' # None /\ window'.from = None /\ window'.to = None
  BY <1>1 DEF Full
<1>3. obs' = obs
  BY <1>2, StepCases
<1>4. \A e : Members(e)' = Members(e)
  BY <1>3 DEF Members, Rows, Slots
<1>5. \A e : Faithful(e)' <=> Faithful(e)
  <2>1. Gaps' = Gaps
    BY <1>3 DEF Gaps, Rows, Slots, Frames
  <2>2. \A s : SessionId(s)' = SessionId(s) /\ (Charging(s)' <=> Charging(s))
    BY <1>3 DEF SessionId, Charging, State, Delivering
  <2> SUFFICES ASSUME NEW e PROVE Faithful(e)' <=> Faithful(e)
    OBVIOUS
  <2> DEFINE M == Members(e)
             ids == {SessionId(s) : s \in M}
             energies == {obs[s].conn.energy : s \in M} \ {None}
             stops == {s \in M : obs[s].conn.stop # None}
             charging == {q \in M : Charging(q)}
             moments == {s[1] : s \in charging}
  <2>3. M' = M
    BY <1>4
  <2>4. ids' = ids /\ energies' = energies /\ stops' = stops
    BY <1>3, <2>2, <2>3
  <2>5. charging' = charging
    BY <2>2, <2>3
  <2>6. moments' = moments
    BY <2>5
  <2>7. Faithful(e) <=>
          /\ ids \ {None} = {e.id} \ {None}
          /\ e.energy = IF energies = {} THEN None ELSE Max(energies)
          /\ e.stop # None <=> stops # {}
          /\ \A s \in stops : (\A t \in stops : NotAfter(t, s)) => e.stop = obs[s].conn.stop
          /\ e.charging = IF moments = {} THEN None ELSE <<Min(moments), Max(moments)>>
          /\ e.confidence = "HIGH" => ~\E g \in Gaps : e.start <= g[1] /\ g[2] <= e.end
    BY Zenon DEF Faithful
  <2>8. Faithful(e)' <=>
          /\ ids' \ {None} = {e.id} \ {None}
          /\ e.energy = IF energies' = {} THEN None ELSE Max(energies')
          /\ e.stop # None <=> stops' # {}
          /\ \A s \in stops' : (\A t \in stops' : NotAfter(t, s)) => e.stop = obs'[s].conn.stop
          /\ e.charging = IF moments' = {} THEN None ELSE <<Min(moments'), Max(moments')>>
          /\ e.confidence = "HIGH" => ~\E g \in Gaps' : e.start <= g[1] /\ g[2] <= e.end
    BY Zenon DEF Faithful
  <2> HIDE DEF M, ids, energies, stops, charging, moments
  <2> QED
    BY <1>3, <2>1, <2>4, <2>6, <2>7, <2>8
<1>6. /\ \A e, f \in sessions' : e # f => Members(e) \cap Members(f) = {}
      /\ \A e \in sessions' : Faithful(e)
  <2>1. CASE UNCHANGED <<tables, window>>
    <3>1. sessions' = sessions /\ Full
      BY <1>2, <2>1 DEF tables, Full
    <3> QED
      BY <3>1 DEF SessionsExact
  <2>2. ASSUME NEW w, NEW order, Rebuild(w, order)
        PROVE  /\ \A e, f \in sessions' : e # f => Members(e) \cap Members(f) = {}
               /\ \A e \in sessions' : Faithful(e)
    <3> DEFINE S == ToSet(ReconstructSessions(w))
               seq == Chronological(RowsIn("conn", w))
    <3>1. w.from = None /\ w.to = None
      BY <1>2, <2>2 DEF Rebuild
    <3>2. sessions' = S
      BY <2>2, <3>1, NothingOutside DEF Rebuild
    <3>3. RowsIn("conn", w) = Rows("conn")
      BY <3>1 DEF RowsIn, InWindow
    <3>4. Rowed(seq) /\ Listed(seq, Rows("conn"))
      BY <1>3, <3>3, RowsRowed
    <3>5. /\ \A e \in S : \E a, b \in 1..Len(seq) : Told(e, seq, a, b) /\ Ended(e, seq, b)
          /\ \A e, f \in S : e # f => Before(e.last, f.first) \/ Before(f.last, e.first)
      <4>1. S = ToSet(ReconstructSessions(w)) /\ seq = Chronological(RowsIn("conn", w))
        OBVIOUS
      <4> HIDE DEF S, seq
      <4> QED
        BY <4>1, RebuiltSessions
    <3> HIDE DEF S, seq
    <3>6. \A e \in S : Faithful(e)
      BY <3>4, <3>5, ToldFaithful
    <3>7. ASSUME NEW e \in S, NEW f \in S, Before(e.last, f.first), NEW s \in Members(e), s \in Members(f)
          PROVE  FALSE
      <4>1. NotAfter(s, e.last) /\ NotAfter(f.first, s)
        BY <3>7 DEF Members, Spans
      <4>2. e.last \in Instants /\ f.first \in Instants
        <5>1. \A k \in 1..Len(seq) : seq[k] \in Instants
          BY <3>4 DEF Rowed
        <5> QED
          BY <3>5, <5>1 DEF Told
      <4>3. s \in Instants
        BY <3>7 DEF Members, Rows, Shape
      <4> QED
        BY <3>7, <4>1, <4>2, <4>3, BeforeOrders DEF NotAfter
    <3> QED
      BY <3>2, <3>5, <3>6, <3>7
  <2> QED
    BY <1>2, <2>1, <2>2, StepCases
<1> QED
  BY <1>4, <1>5, <1>6 DEF SessionsExact

(* After a rebuild every charging observation of the window is in a stored   *)
(* session, and after a full one the sessions share no observation and tell  *)
(* exactly their own.                                                        *)
THEOREM SessionsAreTruthful == Spec => []SessionsTruthful
<1>1. Init => Shape /\ SessionsTruthful
  <2> SUFFICES ASSUME Init PROVE Shape /\ SessionsTruthful
    OBVIOUS
  <2>1. Shape /\ ChargingCovered /\ SessionsExact
    BY HistoriesAssumption DEF Init, Shape, Slots, ChargingCovered, SessionsExact, Full
  <2>2. obs \in [Slots -> Observations \cup {None}]
    <3>1. obs = [s \in Slots |-> obs[s]]
      BY HistoriesAssumption DEF Init, Slots
    <3>2. \A s \in Slots : obs[s] \in Observations
      BY DEF Init, Slots, Observations, Range
    <3> QED
      BY <3>1, <3>2
  <2>3. TypeOK
    BY <2>2, BoundsAssumption DEF Init, TypeOK
  <2> QED
    BY <2>1, <2>3 DEF SessionsTruthful
<1>2. Shape /\ SessionsTruthful /\ [Next]_vars => (Shape /\ SessionsTruthful)'
  <2> SUFFICES ASSUME Shape, SessionsTruthful, [Next]_vars PROVE (Shape /\ SessionsTruthful)'
    OBVIOUS
  <2>1. Typed /\ TypeOK /\ ChargingCovered /\ SessionsExact
    BY DEF SessionsTruthful, TypeOK, Typed
  <2> QED
    BY <2>1, ShapeStep, TypesKept, CoveredKept, ExactKept DEF SessionsTruthful
<1> QED
  BY <1>1, <1>2, PTL DEF Spec

-----------------------------------------------------------------------------
(* Eligibility.                                                              *)

(* The extent of some of a finite set of intervals is a sum over these.      *)
LEMMA ExtentIsSum ==
  ASSUME NEW P, IsFiniteSet(P), NEW Q \in SUBSET P
  PROVE  Extent(Q) = SumFunctionOnSet([p \in P |-> p[2] - p[1]], Q)
<1> DEFINE f == [p \in Q |-> p[2] - p[1]]
           g == [p \in P |-> p[2] - p[1]]
<1>1. Extent(Q) = SumFunctionOnSet(f, Q)
  <2>1. DOMAIN f = Q
    OBVIOUS
  <2> QED
    BY <2>1, Zenon DEF Extent, SumFunction
<1>2. \A p \in Q : f[p] = g[p]
  OBVIOUS
<1>3. IsFiniteSet(Q)
  BY FS_Subset
<1> HIDE DEF f, g
<1>4. SumFunctionOnSet(f, Q) = SumFunctionOnSet(g, Q)
  BY <1>2, <1>3, SumAgrees
<1> QED
  BY <1>1, <1>4 DEF g

(* The intervals between the neighbours of finitely many timestamps.         *)
LEMMA NeighboursTyped ==
  ASSUME NEW S \in SUBSET Int, IsFiniteSet(S)
  PROVE  IsFiniteSet(Neighbours(S)) /\ \A p \in Neighbours(S) : p[2] - p[1] \in Int
<1>1. IsFiniteSet(S \X S)
  BY FS_Product
<1>2. Neighbours(S) \in SUBSET (S \X S)
  BY DEF Neighbours
<1>3. IsFiniteSet(Neighbours(S))
  BY <1>1, <1>2, FS_Subset
<1>4. ASSUME NEW p \in Neighbours(S) PROVE p[2] - p[1] \in Int
  <2>1. p[1] \in S /\ p[2] \in S
    BY <1>2
  <2>2. p[1] \in Int /\ p[2] \in Int
    BY <2>1
  <2> QED
    BY <2>2
<1> QED
  BY <1>3, <1>4

(* With a last timestamp taken away the last interval goes.                  *)
LEMMA LastInterval ==
  ASSUME NEW S \in SUBSET Int, NEW m \in S, \A t \in S : t <= m,
         NEW l \in S \ {m}, \A t \in S \ {m} : t <= l
  PROVE  /\ <<l, m>> \in Neighbours(S)
         /\ Neighbours(S) \ {<<l, m>>} = Neighbours(S \ {m})
<1>1. <<l, m>> \in Neighbours(S)
  <2>1. l < m /\ <<l, m>> \in S \X S
    OBVIOUS
  <2>2. \A t \in S : t <= l \/ t >= m
    OBVIOUS
  <2> QED
    BY <2>1, <2>2 DEF Neighbours
<1>2. ASSUME NEW p \in Neighbours(S), p # <<l, m>> PROVE p \in Neighbours(S \ {m})
  <2>1. p = <<p[1], p[2]>> /\ p[1] \in S /\ p[2] \in S /\ p[1] < p[2]
        /\ \A t \in S : t <= p[1] \/ t >= p[2]
    BY DEF Neighbours
  <2>2. p[1] # m
    BY <2>1
  <2>3. p[2] # m
    BY <1>2, <2>1, <2>2
  <2> QED
    BY <2>1, <2>2, <2>3 DEF Neighbours
<1>3. ASSUME NEW p \in Neighbours(S \ {m}) PROVE p \in Neighbours(S) /\ p # <<l, m>>
  <2>1. p = <<p[1], p[2]>> /\ p[1] \in S \ {m} /\ p[2] \in S \ {m} /\ p[1] < p[2]
        /\ \A t \in S \ {m} : t <= p[1] \/ t >= p[2]
    BY DEF Neighbours
  <2>2. m >= p[2]
    BY <2>1
  <2> QED
    BY <2>1, <2>2 DEF Neighbours
<1> QED
  BY <1>1, <1>2, <1>3

(* The intervals between neighbours add up to the time from the first        *)
(* timestamp to the last.                                                    *)
LEMMA NeighboursSpan ==
  ASSUME NEW S \in SUBSET Int, IsFiniteSet(S), S # {}
  PROVE  Extent(Neighbours(S)) = Max(S) - Min(S)
<1> DEFINE F == {T \in SUBSET S : T # {} /\ Extent(Neighbours(T)) # Max(T) - Min(T)}
<1>1. SUFFICES ASSUME F # {} PROVE FALSE
  OBVIOUS
<1>2. F \in SUBSET (SUBSET S)
  OBVIOUS
<1>3. PICK X \in F : \A Y \in SUBSET X : Y # X => Y \notin F
  <2> HIDE DEF F
  <2> QED BY <1>1, <1>2, LeastSubset
<1>4. X \in SUBSET Int /\ IsFiniteSet(X) /\ X # {} /\ Extent(Neighbours(X)) # Max(X) - Min(X)
  BY FS_Subset
<1> DEFINE m == Max(X)
           Y == X \ {m}
<1>5. m \in X /\ Min(X) \in X /\ \A t \in X : Min(X) <= t /\ t <= m
  BY <1>4, Ends
<1>6. CASE Y = {}
  <2>1. Min(X) = m
    BY <1>5, <1>6
  <2>2. Neighbours(X) = {}
    <3>1. \A t \in X : t = m
      BY <1>6
    <3> SUFFICES ASSUME NEW p \in Neighbours(X) PROVE FALSE
      OBVIOUS
    <3>2. p[1] \in X /\ p[2] \in X /\ p[1] < p[2]
      BY DEF Neighbours
    <3>3. p[1] = p[2] /\ p[1] \in Int
      BY <1>4, <3>1, <3>2
    <3> HIDE DEF m
    <3> QED
      BY <3>2, <3>3
  <2>3. Extent({}) = 0
    <3>1. IsFiniteSet({})
      BY FS_EmptySet
    <3> QED
      BY <3>1, ExtentIsSum, SumCases
  <2>4. Max(X) = m /\ m \in Int
    BY <1>4, <1>5
  <2> HIDE DEF m
  <2> QED
    BY <1>4, <2>1, <2>2, <2>3, <2>4
<1>7. CASE Y # {}
  <2>1. Y \in SUBSET X /\ Y # X /\ Y \in SUBSET S /\ Y \in SUBSET Int /\ IsFiniteSet(Y)
    BY <1>4, <1>5, FS_Subset
  <2> DEFINE l == Max(Y)
  <2>2. l \in Y /\ Min(Y) \in Y /\ \A t \in Y : Min(Y) <= t /\ t <= l
    BY <1>7, <2>1, Ends
  <2>3. Extent(Neighbours(Y)) = l - Min(Y)
    <3>1. Y \notin F
      <4> HIDE DEF F, Y
      <4> QED
        BY <1>3, <2>1
    <3> QED
      BY <1>7, <2>1, <3>1
  <2>4. Min(Y) = Min(X)
    <3>1. Min(Y) \in X /\ \A t \in X : Min(Y) <= t
      BY <1>4, <1>5, <2>1, <2>2
    <3>2. Min(X) \in Y
      <4>1. Min(X) # m
        <5> SUFFICES ASSUME Min(X) = m PROVE FALSE
          OBVIOUS
        <5>1. l \in X /\ l # m /\ Min(X) <= l /\ l <= m /\ l \in Int /\ m \in Int
          BY <1>4, <1>5, <2>1, <2>2
        <5> HIDE DEF m, l
        <5> QED
          BY <5>1
      <4> QED
        BY <1>5, <4>1
    <3>3. Min(Y) \in Int /\ Min(X) \in Int /\ Min(Y) <= Min(X) /\ Min(X) <= Min(Y)
      BY <1>4, <1>5, <2>1, <2>2, <3>1, <3>2
    <3> HIDE DEF Y
    <3> QED
      BY <3>3
  <2> DEFINE p == <<l, m>>
             f == [q \in Neighbours(X) |-> q[2] - q[1]]
  <2>5. p \in Neighbours(X) /\ Neighbours(X) \ {p} = Neighbours(Y)
    <3>1. m \in X /\ (\A t \in X : t <= m) /\ l \in X \ {m} /\ \A t \in X \ {m} : t <= l
      BY <1>5, <2>2
    <3> HIDE DEF m, l
    <3> QED
      BY <1>4, <3>1, LastInterval
  <2>6. IsFiniteSet(Neighbours(X)) /\ \A q \in Neighbours(X) : q[2] - q[1] \in Int
    BY <1>4, NeighboursTyped
  <2>7. f[p] = m - l /\ \A q \in Neighbours(X) : f[q] \in Int
    BY <2>5, <2>6
  <2>8. Extent(Neighbours(X)) = SumFunctionOnSet(f, Neighbours(X))
    BY <2>6, ExtentIsSum
  <2>9. Extent(Neighbours(Y)) = SumFunctionOnSet(f, Neighbours(Y))
    BY <2>5, <2>6, ExtentIsSum
  <2> HIDE DEF f, p, Y, l, m
  <2>10. SumFunctionOnSet(f, Neighbours(X)) = f[p] + SumFunctionOnSet(f, Neighbours(Y))
    BY <2>5, <2>6, <2>7, SumTakes
  <2>11. m \in Int /\ l \in Int /\ Min(X) \in Int
    BY <1>4, <1>5, <2>1, <2>2
  <2> QED
    BY <1>4, <2>3, <2>4, <2>7, <2>8, <2>9, <2>10, <2>11 DEF m
<1> QED
  BY <1>6, <1>7

(* What is no gap of a series is observed: the two add up to its extent.     *)
LEMMA ReadyIsObserved ==
  ASSUME NEW S \in SUBSET Int, IsFiniteSet(S), S # {}, NEW count, PatternResearchReady(S, count)
  PROVE  100 * Extent(Neighbours(S) \ DetectGaps(S)) >= 65 * (Max(S) - Min(S))
<1> DEFINE P == Neighbours(S)
           G == DetectGaps(S)
           f == [p \in P |-> p[2] - p[1]]
<1>1. IsFiniteSet(P) /\ G \in SUBSET P /\ \A p \in P : f[p] \in Int
  BY NeighboursTyped DEF DetectGaps
<1>2. IsFiniteSet(G) /\ IsFiniteSet(P \ G) /\ G \cup (P \ G) = P
  BY <1>1, FS_Subset
<1>3. Extent(P) = Max(S) - Min(S)
  BY NeighboursSpan
<1>4. 100 * Extent(G) <= 35 * (Max(S) - Min(S))
  BY DEF PatternResearchReady, TotalGap, Analyze
<1>5. Max(S) \in Int /\ Min(S) \in Int
  BY Ends
<1> HIDE DEF P, G
<1>6. /\ Extent(P) = SumFunctionOnSet(f, P)
      /\ Extent(G) = SumFunctionOnSet(f, G)
      /\ Extent(P \ G) = SumFunctionOnSet(f, P \ G)
  BY <1>1, <1>2, ExtentIsSum
<1> HIDE DEF f
<1>7. SumFunctionOnSet(f, P) = SumFunctionOnSet(f, G) + SumFunctionOnSet(f, P \ G)
  <2>1. G \cap (P \ G) = {} /\ \A p \in G \cup (P \ G) : f[p] \in Int
    BY <1>1
  <2> QED
    BY <1>2, <2>1, SumSplits
<1>8. SumFunctionOnSet(f, G) \in Int /\ SumFunctionOnSet(f, P \ G) \in Int
  BY <1>1, <1>2, SumInteger
<1> QED
  BY <1>3, <1>4, <1>5, <1>6, <1>7, <1>8 DEF P, G

-----------------------------------------------------------------------------
(* The timeline.                                                             *)

(* A table of finitely many events that start at integers.                   *)
Dated(S) == IsFiniteSet(S) /\ \A e \in S : e.start \in Int

(* T holds n of the earliest members of S, or all of them.                   *)
FirstOf(T, S, n) ==
  /\ T \subseteq S
  /\ Cardinality(T) = Min({n, Cardinality(S)})
  /\ \A x \in T, y \in S \ T : x.start <= y.start

(* The smaller of two numbers.                                               *)
LEMMA LesserIs ==
  ASSUME NEW a \in Nat, NEW b \in Nat
  PROVE  Min({a, b}) = IF a <= b THEN a ELSE b
<1>1. a \in Int /\ b \in Int
  OBVIOUS
<1>2. Min({a, b}) \in {a, b} /\ Min({a, b}) <= a /\ Min({a, b}) <= b
  BY <1>1, OfTwo
<1> QED
  BY <1>2

(* A finite table has an earliest event.                                     *)
LEMMA EarliestEvent ==
  ASSUME NEW S, Dated(S), S # {}
  PROVE  \E m \in S : \A e \in S : m.start <= e.start
<1> DEFINE g == [e \in S |-> e.start]
           T == {g[e] : e \in S}
<1>1. IsFiniteSet(T)
  <2>1. DOMAIN g = S /\ g = [e \in S |-> g[e]]
    OBVIOUS
  <2> HIDE DEF g
  <2> QED
    BY <2>1, FiniteImage DEF Dated
<1>2. T \in SUBSET Int /\ T # {}
  BY DEF Dated
<1>3. PICK n \in T : \A k \in T : n <= k
  <2> HIDE DEF T
  <2> QED
    BY <1>1, <1>2, LeastInteger
<1>4. PICK m \in S : n = m.start
  OBVIOUS
<1>5. \A e \in S : e.start \in T
  OBVIOUS
<1> QED
  BY <1>3, <1>4, <1>5

(* Any number of earliest events can be taken.                               *)
LEMMA FirstExist ==
  ASSUME NEW S, Dated(S), NEW n \in Nat
  PROVE  \E T \in SUBSET S : FirstOf(T, S, n)
<1> DEFINE P == {i \in Nat : \E T \in SUBSET S : FirstOf(T, S, i)}
<1>0. Cardinality(S) \in Nat /\ IsFiniteSet(S)
  BY FS_CardinalityType DEF Dated
<1>1. 0 \in P
  <2>1. Cardinality({}) = 0
    BY FS_EmptySet
  <2>2. Min({0, Cardinality(S)}) = 0
    BY <1>0, LesserIs
  <2>3. FirstOf({}, S, 0)
    BY <2>1, <2>2 DEF FirstOf
  <2> QED
    BY <2>3
<1>2. ASSUME NEW i \in 0..n, i < n, i \in P PROVE i + 1 \in P
  <2>1. PICK T \in SUBSET S : FirstOf(T, S, i)
    BY <1>2
  <2>2. IsFiniteSet(T) /\ Cardinality(T) \in Nat /\ Cardinality(T) <= Cardinality(S)
        /\ (Cardinality(S) = Cardinality(T) => S = T)
    BY <1>0, FS_Subset, FS_CardinalityType
  <2>3. Min({i, Cardinality(S)}) = IF i <= Cardinality(S) THEN i ELSE Cardinality(S)
    BY <1>0, LesserIs
  <2>4. Min({i + 1, Cardinality(S)}) = IF i + 1 <= Cardinality(S) THEN i + 1 ELSE Cardinality(S)
    <3>1. i + 1 \in Nat
      OBVIOUS
    <3> QED
      BY <1>0, <3>1, LesserIs, Zenon
  <2>5. CASE T = S
    <3>1. Cardinality(S) <= i
      BY <1>0, <2>1, <2>3, <2>5 DEF FirstOf
    <3>2. Min({i + 1, Cardinality(S)}) = Cardinality(S)
      BY <1>0, <2>4, <3>1
    <3>3. FirstOf(S, S, i + 1)
      BY <3>2 DEF FirstOf
    <3> QED
      BY <3>3
  <2>6. CASE T # S
    <3>1. Cardinality(T) = i /\ i < Cardinality(S)
      BY <1>0, <2>1, <2>2, <2>3, <2>6 DEF FirstOf
    <3>2. Min({i + 1, Cardinality(S)}) = i + 1
      BY <1>0, <2>4, <3>1
    <3>3. S \ T # {} /\ Dated(S \ T)
      <4>1. IsFiniteSet(S \ T)
        BY <1>0, FS_Subset
      <4> QED
        BY <2>6, <4>1 DEF Dated
    <3>4. PICK m \in S \ T : \A e \in S \ T : m.start <= e.start
      BY <3>3, EarliestEvent
    <3>5. Cardinality(T \cup {m}) = i + 1
      BY <2>2, <3>1, <3>4, FS_AddElement
    <3>6. \A x \in T \cup {m}, y \in S \ (T \cup {m}) : x.start <= y.start
      BY <2>1, <3>4 DEF FirstOf
    <3>7. T \cup {m} \in SUBSET S
      OBVIOUS
    <3>8. FirstOf(T \cup {m}, S, i + 1)
      BY <3>2, <3>5, <3>6, <3>7 DEF FirstOf
    <3> QED
      BY <3>7, <3>8
  <2> QED
    BY <2>5, <2>6
<1> HIDE DEF P
<1>3. n \in P
  BY <1>1, <1>2, Climb
<1> QED
  BY <1>3 DEF P

LEMMA EarliestFirst ==
  ASSUME NEW S, Dated(S), NEW n \in Nat
  PROVE  FirstOf(Earliest(S, n), S, n)
<1>1. \E T \in SUBSET S : FirstOf(T, S, n)
  BY FirstExist
<1> QED
  BY <1>1, Zenon DEF Earliest, FirstOf

(* A merge of prefixes is a prefix of the whole: where it lacks an event, it  *)
(* has as many as are asked for that are no later.                           *)
LEMMA MergedPrefix ==
  ASSUME NEW A, Dated(A), NEW U \in SUBSET A, NEW n \in Nat,
         \A y \in A \ U : \E V \in SUBSET U : Cardinality(V) = n /\ \A z \in V : z.start <= y.start
  PROVE  FirstOf(Earliest(U, n), A, n)
<1> DEFINE T == Earliest(U, n)
<1>1. IsFiniteSet(A) /\ IsFiniteSet(U) /\ Dated(U)
  BY FS_Subset DEF Dated
<1>2. FirstOf(T, U, n)
  BY <1>1, EarliestFirst
<1> HIDE DEF T
<1>3. T \subseteq U /\ IsFiniteSet(T)
  BY <1>1, <1>2, FS_Subset DEF FirstOf
<1>4. Cardinality(A) \in Nat /\ Cardinality(U) \in Nat /\ Cardinality(T) \in Nat
      /\ Cardinality(U) <= Cardinality(A)
  BY <1>1, <1>3, FS_Subset, FS_CardinalityType
<1>5. /\ Min({n, Cardinality(U)}) = IF n <= Cardinality(U) THEN n ELSE Cardinality(U)
      /\ Min({n, Cardinality(A)}) = IF n <= Cardinality(A) THEN n ELSE Cardinality(A)
  BY <1>4, LesserIs, Zenon
<1>6. Cardinality(T) = Min({n, Cardinality(A)})
  <2>1. CASE A = U
    BY <1>2, <2>1 DEF FirstOf
  <2>2. CASE A # U
    <3>1. PICK y \in A \ U : TRUE
      BY <2>2
    <3>2. PICK V \in SUBSET U : Cardinality(V) = n
      BY <3>1
    <3>3. n <= Cardinality(U)
      BY <1>1, <3>2, FS_Subset
    <3> QED
      BY <1>2, <1>4, <1>5, <3>3 DEF FirstOf
  <2> QED
    BY <2>1, <2>2
<1>7. ASSUME NEW x \in T, NEW y \in A \ T PROVE x.start <= y.start
  <2>1. CASE y \in U
    BY <1>2, <2>1 DEF FirstOf
  <2>2. CASE y \notin U
    <3>1. PICK V \in SUBSET U : Cardinality(V) = n /\ \A z \in V : z.start <= y.start
      BY <2>2
    <3>2. x.start \in Int /\ y.start \in Int /\ \A z \in V : z.start \in Int
      BY <1>3 DEF Dated
    <3> SUFFICES ASSUME y.start < x.start PROVE FALSE
      BY <3>2
    <3>3. \A z \in V : z \in T /\ z # x
      <4> SUFFICES ASSUME NEW z \in V PROVE z \in T /\ z # x
        OBVIOUS
      <4>1. z.start < x.start
        BY <3>1, <3>2
      <4>2. z \in T
        BY <1>2, <3>2, <4>1 DEF FirstOf
      <4> QED
        BY <3>2, <4>1, <4>2
    <3>4. IsFiniteSet(T \ {x}) /\ Cardinality(T \ {x}) = Cardinality(T) - 1
      BY <1>3, FS_RemoveElement
    <3>5. Cardinality(V) <= Cardinality(T \ {x})
      <4>1. V \in SUBSET (T \ {x})
        BY <3>3
      <4> QED
        BY <3>4, <4>1, FS_Subset
    <3> QED
      BY <1>2, <1>4, <1>5, <3>1, <3>4, <3>5 DEF FirstOf
  <2> QED
    BY <2>1, <2>2
<1> QED
  BY <1>3, <1>6, <1>7 DEF FirstOf, T

(* Items of one type are as many as their events and as early.               *)
LEMMA ItemsAre ==
  ASSUME NEW type, NEW S, Dated(S)
  PROVE  Dated(Items(type, S)) /\ Cardinality(Items(type, S)) = Cardinality(S)
<1> DEFINE g == [e \in S |-> [type |-> type, start |-> e.start, event |-> e]]
           I == Items(type, S)
<1>1. I = {g[e] : e \in S}
  BY DEF Items
<1>2. \A d, e \in S : g[d] = g[e] => d = e
  <2> SUFFICES ASSUME NEW d \in S, NEW e \in S, g[d] = g[e] PROVE d = e
    OBVIOUS
  <2>1. g[d].event = d /\ g[e].event = e
    OBVIOUS
  <2> QED
    BY <2>1
<1>3. \A e \in S : g[e].start = e.start
  OBVIOUS
<1>4. g \in [S -> I] /\ DOMAIN g = S
  BY <1>1
<1> HIDE DEF g, I
<1>5. g \in Surjection(S, I) /\ g \in Injection(S, I)
  BY <1>1, <1>2, <1>4 DEF Surjection, Injection, IsInjective
<1>6. IsFiniteSet(I) /\ Cardinality(I) = Cardinality(S)
  BY <1>5, FS_Surjection DEF Dated
<1> QED
  BY <1>1, <1>3, <1>6 DEF Dated, I

(* What the timeline misses of one table.                                    *)
LEMMA TableMisses ==
  ASSUME NEW type, NEW S, Dated(S), NEW n \in Nat,
         NEW y \in Items(type, S), y \notin Items(type, Earliest(S, n))
  PROVE  /\ Cardinality(Items(type, Earliest(S, n))) = n
         /\ \A z \in Items(type, Earliest(S, n)) : z.start <= y.start
<1> DEFINE T == Earliest(S, n)
<1>1. FirstOf(T, S, n)
  BY EarliestFirst
<1> HIDE DEF T
<1>2. Dated(T) /\ IsFiniteSet(S) /\ T \in SUBSET S
  BY <1>1, FS_Subset DEF Dated, FirstOf
<1>3. PICK e \in S : y = [type |-> type, start |-> e.start, event |-> e]
  BY DEF Items
<1>4. e \notin T /\ y.start = e.start
  BY <1>3 DEF Items, T
<1>5. Cardinality(T) = n
  <2>1. Cardinality(S) \in Nat /\ Cardinality(T) # Cardinality(S)
    BY <1>2, <1>4, FS_Subset, FS_CardinalityType
  <2>2. Min({n, Cardinality(S)}) = IF n <= Cardinality(S) THEN n ELSE Cardinality(S)
    BY <2>1, LesserIs, Zenon
  <2> QED
    BY <1>1, <2>1, <2>2 DEF FirstOf
<1>6. \A z \in Items(type, T) : z.start <= y.start
  <2> SUFFICES ASSUME NEW z \in Items(type, T) PROVE z.start <= y.start
    OBVIOUS
  <2>1. PICK d \in T : z.start = d.start
    BY DEF Items
  <2> QED
    BY <1>1, <1>4, <2>1 DEF FirstOf
<1> QED
  BY <1>2, <1>5, <1>6, ItemsAre DEF T

(* The timeline shows a prefix of the stored events, whatever its limit.     *)
LEMMA TimelineShows ==
  ASSUME Dated(sessions), Dated(alarms), Dated(configs), NEW n \in Nat
  PROVE  ShowsPrefix(n)
<1> DEFINE A == Items("session", sessions)
           B == Items("alarm", alarms \ Faults)
           G == Items("fault", Faults)
           C == Items("config", configs)
           D == Items("session", Earliest(sessions, n))
           E == Items("alarm", Earliest(alarms \ Faults, n))
           H == Items("fault", Earliest(Faults, n))
           F == Items("config", Earliest(configs, n))
           U == D \cup E \cup H \cup F
<1>0. Dated(alarms \ Faults) /\ Dated(Faults)
  BY FS_Subset DEF Dated, Faults
<1>1. Dated(A) /\ Dated(B) /\ Dated(G) /\ Dated(C)
  BY <1>0, ItemsAre
<1>2. AllItems = A \cup B \cup G \cup C
  BY DEF AllItems
<1>3. Dated(AllItems)
  <2> HIDE DEF A, B, C, G
  <2>1. IsFiniteSet(A \cup B \cup G \cup C)
    BY <1>1, FS_Union DEF Dated
  <2> QED
    BY <1>1, <1>2, <2>1 DEF Dated
<1>4. D \subseteq A /\ E \subseteq B /\ H \subseteq G /\ F \subseteq C
  <2>1. /\ Earliest(sessions, n) \subseteq sessions
        /\ Earliest(alarms \ Faults, n) \subseteq alarms \ Faults
        /\ Earliest(Faults, n) \subseteq Faults
        /\ Earliest(configs, n) \subseteq configs
    BY <1>0, EarliestFirst DEF FirstOf
  <2> QED
    BY <2>1 DEF Items
<1>5. ASSUME NEW y \in AllItems \ U
      PROVE  \E V \in SUBSET U : Cardinality(V) = n /\ \A z \in V : z.start <= y.start
  <2>1. CASE y \in A
    <3>1. Cardinality(D) = n /\ \A z \in D : z.start <= y.start
      BY <1>5, <2>1, TableMisses
    <3> QED
      BY <3>1
  <2>2. CASE y \in B
    <3>1. Cardinality(E) = n /\ \A z \in E : z.start <= y.start
      BY <1>0, <1>5, <2>2, TableMisses
    <3> QED
      BY <3>1
  <2>4. CASE y \in G
    <3>1. Cardinality(H) = n /\ \A z \in H : z.start <= y.start
      BY <1>0, <1>5, <2>4, TableMisses
    <3> QED
      BY <3>1
  <2>3. CASE y \in C
    <3>1. Cardinality(F) = n /\ \A z \in F : z.start <= y.start
      BY <1>5, <2>3, TableMisses
    <3> QED
      BY <3>1
  <2> QED
    BY <1>2, <1>5, <2>1, <2>2, <2>3, <2>4
<1>6. UnifiedTimeline(n) = Earliest(U, n)
  BY DEF UnifiedTimeline
<1>7. U \in SUBSET AllItems
  BY <1>2, <1>4
<1> HIDE DEF U
<1>8. FirstOf(Earliest(U, n), AllItems, n)
  BY <1>3, <1>5, <1>7, MergedPrefix
<1> QED
  BY <1>6, <1>8 DEF ShowsPrefix, FirstOf

-----------------------------------------------------------------------------
(* The tables a timeline is read from.                                       *)

(* The reconstructor returns finitely many intervals.                        *)
LEMMA AlarmsFinite ==
  ASSUME Shape, NEW code, NEW w
  PROVE  IsFiniteSet(ReconstructAlarms(code, w))
<1> DEFINE seq == Chronological(RowsIn("flags", w))
           n == Len(seq)
<1>1. n \in Nat
  <2>1. Listed(seq, RowsIn("flags", w))
    BY RowsListed DEF RowsIn, Rows
  <2> QED
    BY <2>1 DEF Listed
<1> DEFINE h == CHOOSE h : AlarmRun(h, code, seq, n)
           r == h[n]
           last == [code |-> code, start |-> r.start[1], first |-> r.start, last |-> r.lastActive, open |-> TRUE,
                    gap |-> HasGap(r.start[1], r.lastActive[1])]
<1>2. AlarmRun(h, code, seq, n)
  <2> HIDE DEF seq, n
  <2> QED
    BY <1>1, AlarmRunExists
<1>3. ReconstructAlarms(code, w) = IF r.start = None THEN r.done ELSE r.done \cup {last}
  BY DEF ReconstructAlarms, AlarmRun
<1> HIDE DEF seq, n, h
<1> DEFINE Holds(q) == q = [start |-> q.start, lastActive |-> q.lastActive, done |-> q.done] /\ IsFiniteSet(q.done)
           P == {i \in 0..n : Holds(h[i])}
<1>4. h[0] = NoAlarm /\ \A i \in 0..n : i < n => h[i + 1] = AlarmStep(code, h[i], seq[i + 1])
  BY <1>1, <1>2 DEF AlarmRun
<1>5. 0 \in P
  <2>1. Holds(NoAlarm)
    BY FS_EmptySet DEF NoAlarm
  <2> QED
    BY <1>1, <1>4, <2>1
<1>6. ASSUME NEW i \in 0..n, i < n, i \in P PROVE i + 1 \in P
  <2> DEFINE q == h[i]
             s == seq[i + 1]
             t == AlarmStep(code, q, s)
             x == [code |-> code, start |-> q.start[1], first |-> q.start, last |-> s, open |-> FALSE,
                   gap |-> HasGap(q.start[1], s[1])]
  <2>1. Holds(q)
    BY <1>6
  <2>2. \/ t = [start |-> OrElse(q.start, s), lastActive |-> s, done |-> q.done]
        \/ t = q
        \/ t = [start |-> None, lastActive |-> None, done |-> q.done \cup {x}]
    BY <2>1 DEF AlarmStep, NoAlarm
  <2>3. IsFiniteSet(q.done \cup {x})
    BY <2>1, FS_AddElement
  <2> HIDE DEF x, q, t
  <2>4. Holds(t)
    BY <2>1, <2>2, <2>3
  <2>5. h[i + 1] = t /\ i + 1 \in 0..n
    BY <1>1, <1>4, <1>6 DEF t, q
  <2> QED
    BY <2>4, <2>5
<1> HIDE DEF P
<1>7. n \in P
  BY <1>1, <1>5, <1>6, Climb
<1>8. IsFiniteSet(r.done)
  BY <1>7 DEF P
<1> HIDE DEF r, last
<1> QED
  BY <1>3, <1>8, FS_AddElement

(* The intervals of all codes are finitely many.                             *)
LEMMA AlarmsDated ==
  ASSUME Shape, Typed, NEW w
  PROVE  Dated(UNION {ReconstructAlarms(c, w) : c \in Codes})
<1> DEFINE R == Rows("flags")
           g == [s \in R |-> obs[s].flags]
           F == {g[s] : s \in R}
           k == [c \in Codes |-> ReconstructAlarms(c, w)]
           A == {k[c] : c \in Codes}
<1>1. IsFiniteSet(R)
  BY FS_Subset DEF Shape, Rows
<1>2. IsFiniteSet(Codes)
  <2>1. IsFiniteSet(F)
    <3>1. DOMAIN g = R /\ g = [s \in R |-> g[s]]
      OBVIOUS
    <3> HIDE DEF R, g
    <3> QED
      BY <1>1, <3>1, FiniteImage
  <2>2. ASSUME NEW T \in F PROVE IsFiniteSet(T)
    <3>1. PICK s \in R : T = obs[s].flags
      OBVIOUS
    <3>2. s \in Slots /\ obs[s] # None /\ obs[s].flags # None
      BY DEF Rows
    <3>3. obs[s] \in Observations
      BY <3>2 DEF Typed
    <3> QED
      BY <3>1, <3>2, <3>3, ObservationsAssumption
  <2>3. Codes = UNION F
    BY DEF Codes
  <2> HIDE DEF F
  <2> QED
    BY <2>1, <2>2, <2>3, FS_UNION
<1>3. IsFiniteSet(A)
  <2>1. DOMAIN k = Codes /\ k = [c \in Codes |-> k[c]]
    OBVIOUS
  <2> HIDE DEF k
  <2> QED
    BY <1>2, <2>1, FiniteImage
<1>4. \A T \in A : IsFiniteSet(T)
  BY AlarmsFinite
<1>5. UNION A = UNION {ReconstructAlarms(c, w) : c \in Codes}
  OBVIOUS
<1>6. ASSUME NEW e \in UNION A PROVE e.start \in Int
  <2>1. PICK c \in Codes : e \in ReconstructAlarms(c, w)
    OBVIOUS
  <2>2. PICK seq : Listed(seq, RowsIn("flags", w)) /\ RunsAre(ReconstructAlarms(c, w), c, seq)
    BY AlarmsComputed
  <2>3. PICK a \in 1..Len(seq) : e.start = seq[a][1]
    BY <2>1, <2>2 DEF RunsAre, RunOf
  <2>4. seq[a] \in Instants
    BY <2>2 DEF Listed, RowsIn, Rows, Shape
  <2> QED
    BY <2>3, <2>4 DEF Instants
<1>7. IsFiniteSet(UNION A)
  <2> HIDE DEF A
  <2> QED
    BY <1>3, <1>4, FS_UNION
<1> HIDE DEF A
<1> QED
  BY <1>5, <1>6, <1>7 DEF Dated

LEMMA SessionsDated ==
  ASSUME Shape, Typed, NEW w
  PROVE  Dated(ToSet(ReconstructSessions(w)))
<1> DEFINE seq == Chronological(RowsIn("conn", w))
           d == ReconstructSessions(w)
<1>1. Rowed(seq)
  BY RowsRowed
<1>2. PICK r : SessionsSoFar(r, seq, Len(seq)) /\ r.done = d
  BY <1>1, SessionsComputed
<1> HIDE DEF seq, d
<1>3. Len(d) \in Nat /\ d = [m \in 1..Len(d) |-> d[m]]
  BY <1>2 DEF SessionsSoFar
<1>4. DOMAIN d = 1..Len(d) /\ ToSet(d) = {d[m] : m \in 1..Len(d)}
  BY <1>3 DEF ToSet
<1>5. IsFiniteSet(1..Len(d))
  BY <1>3, FS_Interval
<1>6. IsFiniteSet(ToSet(d))
  BY <1>3, <1>4, <1>5, FiniteImage
<1>7. \A e \in ToSet(d) : e.start \in Int
  BY RebuiltTyped DEF SessionTyped, d
<1> QED
  BY <1>6, <1>7 DEF Dated, d

LEMMA ConfigsDated ==
  ASSUME Shape, NEW w, NEW order \in ConfigOrders(w)
  PROVE  Dated({WithoutIndex(c) : c \in DetectChanges(order)})
<1> DEFINE J == {j \in 2..Len(order) : obs[order[j]].config # obs[order[j - 1]].config}
           g == [i \in J |-> [start |-> order[i][1], old |-> obs[order[i - 1]].config, new |-> obs[order[i]].config]]
           C == {WithoutIndex(c) : c \in DetectChanges(order)}
<1>1. Len(order) \in Nat /\ \A i \in 1..Len(order) : order[i] \in RowsIn("config", w)
  BY OrderListed
<1>2. IsFiniteSet(J)
  <2>1. IsFiniteSet(2..Len(order))
    BY <1>1, FS_Interval
  <2> QED
    BY <2>1, FS_Subset
<1>3. C = {g[i] : i \in J}
  <2> DEFINE d(i) == [i |-> i, start |-> order[i][1], old |-> obs[order[i - 1]].config, new |-> obs[order[i]].config]
  <2>1. DetectChanges(order) = {d(i) : i \in J}
    BY DEF DetectChanges
  <2>2. \A i \in J : WithoutIndex(d(i)) = g[i]
    BY DEF WithoutIndex
  <2> HIDE DEF d, J, g
  <2> QED
    BY <2>1, <2>2
<1>4. IsFiniteSet(C)
  <2>1. DOMAIN g = J /\ g = [i \in J |-> g[i]]
    OBVIOUS
  <2> HIDE DEF J, g, C
  <2> QED
    BY <1>2, <1>3, <2>1, FiniteImage
<1>5. ASSUME NEW e \in C PROVE e.start \in Int
  <2>1. PICK i \in 2..Len(order) : e.start = order[i][1]
    BY <1>3
  <2>2. i \in 1..Len(order)
    BY <1>1
  <2>3. order[i] \in Instants
    BY <1>1, <2>2 DEF RowsIn, Rows, Shape
  <2> QED
    BY <2>1, <2>3 DEF Instants
<1> HIDE DEF C
<1> QED
  BY <1>4, <1>5 DEF Dated, C

(* The tables stay finite, and their events start at integers.               *)
TablesDated == Dated(sessions) /\ Dated(alarms) /\ Dated(configs)

LEMMA DatedStep ==
  ASSUME Shape, Typed, TablesDated, [Next]_vars
  PROVE  TablesDated'
<1>1. CASE UNCHANGED tables
  BY <1>1 DEF tables, TablesDated, Dated
<1>2. ASSUME NEW w, NEW S, NEW T, Dated(S), Dated(T) PROVE Dated(Outside(S, w) \cup T)
  <2>1. IsFiniteSet(Outside(S, w))
    BY <1>2, FS_Subset DEF Dated, Outside
  <2>2. IsFiniteSet(Outside(S, w) \cup T)
    BY <1>2, <2>1, FS_Union DEF Dated
  <2> QED
    BY <1>2, <2>2 DEF Dated, Outside
<1>3. ASSUME NEW w \in Windows, NEW order \in ConfigOrders(w), Rebuild(w, order) PROVE TablesDated'
  <2>1. Dated(sessions') /\ Dated(alarms') /\ Dated(configs')
    BY <1>2, <1>3, SessionsDated, AlarmsDated, ConfigsDated DEF Rebuild, TablesDated
  <2> QED
    BY <2>1 DEF TablesDated, Dated
<1>4. ASSUME NEW w \in Windows, NEW order \in ConfigOrders(w), Reconstruct(w, order)
      PROVE  UNCHANGED tables \/ Rebuild(w, order)
  BY <1>4 DEF Reconstruct, Rebuild
<1> QED
  BY <1>1, <1>3, <1>4 DEF Next, Arrive, vars, tables

-----------------------------------------------------------------------------
(* Counters.                                                                 *)

(* The loop over the readings has a result for every prefix.                 *)
CounterRun(h, values, n) ==
  h = [i \in 0..n |-> IF i = 0 THEN NoCounter ELSE CounterStep(h[i - 1], values[i])]

LEMMA CounterRunExists ==
  ASSUME NEW values, NEW n \in Nat
  PROVE  \E h : CounterRun(h, values, n)
<1> DEFINE P == {i \in Nat : \E h : CounterRun(h, values, i)}
<1>1. 0 \in P
  <2> DEFINE h == [i \in 0..0 |-> NoCounter]
  <2>1. CounterRun(h, values, 0)
    BY DEF CounterRun
  <2> QED
    BY <2>1
<1>2. ASSUME NEW i \in 0..n, i < n, i \in P PROVE i + 1 \in P
  <2>1. PICK g : CounterRun(g, values, i)
    BY <1>2
  <2> DEFINE h == [j \in 0..(i + 1) |-> IF j = i + 1 THEN CounterStep(g[i], values[i + 1]) ELSE g[j]]
  <2>2. g[0] = NoCounter /\ \A j \in 1..i : g[j] = CounterStep(g[j - 1], values[j])
    BY <2>1 DEF CounterRun
  <2>3. h[0] = NoCounter
    BY <2>2
  <2>4. ASSUME NEW j \in 1..(i + 1) PROVE h[j] = CounterStep(h[j - 1], values[j])
    <3>1. h[j - 1] = g[j - 1]
      OBVIOUS
    <3>2. CASE j = i + 1
      BY <3>1, <3>2
    <3>3. CASE j # i + 1
      <4>1. j \in 1..i
        BY <3>3
      <4> QED
        BY <2>2, <3>1, <4>1
    <3> QED
      BY <3>2, <3>3
  <2>5. h = [j \in 0..(i + 1) |-> h[j]]
    OBVIOUS
  <2> HIDE DEF h
  <2>6. CounterRun(h, values, i + 1)
    <3>1. \A j \in 0..(i + 1) : h[j] = IF j = 0 THEN NoCounter ELSE CounterStep(h[j - 1], values[j])
      <4>1. \A j \in 0..(i + 1) : j = 0 \/ j \in 1..(i + 1)
        OBVIOUS
      <4> QED
        BY <2>3, <2>4, <4>1
    <3> QED
      BY <2>5, <3>1, Zenon DEF CounterRun
  <2>7. i + 1 \in Nat
    OBVIOUS
  <2> QED
    BY <2>6, <2>7, Zenon
<1> HIDE DEF P
<1>3. n \in P
  BY <1>1, <1>2, Climb
<1> QED
  BY <1>3 DEF P

(* The changes into one of the frames of U, by their direction, and the       *)
(* numbers of the readings of U that look like a reset.                      *)
Ups(U) == {p \in Consecutive : p[2] \in U /\ Reading(p[1]) < Reading(p[2])}
Equals(U) == {p \in Consecutive : p[2] \in U /\ Reading(p[1]) = Reading(p[2])}
Downs(U) == {p \in Consecutive : p[2] \in U /\ Reading(p[1]) > Reading(p[2])}
Rank(s) == Cardinality({t \in Metered : NotAfter(t, s)})
ResetsIn(U) == {Rank(s) : s \in {q \in U : IsReset(q)}}

(* After the readings of U.                                                  *)
CountedSoFar(r, U) ==
  /\ r = [seen |-> r.seen, first |-> r.first, last |-> r.last, peak |-> r.peak,
          increased |-> r.increased, unchanged |-> r.unchanged, decreased |-> r.decreased,
          resets |-> r.resets]
  /\ r.seen = Cardinality(U)
  /\ U # {} =>
       /\ \E t \in U : (\A u \in U : NotAfter(u, t)) /\ r.last = Reading(t)
       /\ \E t \in U : r.peak = Reading(t)
       /\ \A t \in U : Reading(t) <= r.peak
       /\ r.increased + r.unchanged + r.decreased = r.seen - 1
  /\ r.increased = Cardinality(Ups(U))
  /\ r.unchanged = Cardinality(Equals(U))
  /\ r.decreased = Cardinality(Downs(U))
  /\ Len(r.resets) \in Nat /\ r.resets = [m \in 1..Len(r.resets) |-> r.resets[m]]
  /\ ToSet(r.resets) = ResetsIn(U)

LEMMA MeteredTyped ==
  ASSUME Shape, Typed
  PROVE  /\ Metered \subseteq Instants /\ IsFiniteSet(Metered)
         /\ \A s \in Metered : Reading(s) \in Int
         /\ IsFiniteSet(Consecutive)
<1>1. Metered \subseteq Slots
  BY DEF Metered, Frames
<1>2. IsFiniteSet(Metered)
  BY <1>1, FS_Subset DEF Shape
<1>3. ASSUME NEW s \in Metered PROVE Reading(s) \in Int
  <2>1. s \in Slots /\ obs[s] # None /\ obs[s].counter # None
    BY DEF Metered, Frames
  <2>2. obs[s] \in Observations
    BY <2>1 DEF Typed
  <2> QED
    BY <2>1, <2>2, ObservationsAssumption DEF Reading
<1>4. IsFiniteSet(Consecutive)
  <2>1. IsFiniteSet(Metered \X Metered)
    BY <1>2, FS_Product
  <2> QED
    BY <2>1, FS_Subset DEF Consecutive
<1> QED
  BY <1>1, <1>2, <1>3, <1>4 DEF Shape

(* One more element in a finite set, or none.                                *)
LEMMA OneMore ==
  ASSUME NEW S, IsFiniteSet(S), NEW x, x \notin S, NEW T, NEW c \in BOOLEAN,
         T = IF c THEN S \cup {x} ELSE S
  PROVE  Cardinality(T) = Cardinality(S) + (IF c THEN 1 ELSE 0) /\ Cardinality(S) \in Nat
<1>1. Cardinality(S) \in Nat
  BY FS_CardinalityType
<1>2. Cardinality(S \cup {x}) = Cardinality(S) + 1
  BY FS_AddElement
<1> QED
  BY <1>1, <1>2

(* The next reading after those of U.                                        *)
NextReading(s, U) ==
  /\ s \in Metered /\ U \subseteq Metered /\ s \notin U
  /\ \A t \in Metered : Before(t, s) <=> t \in U

(* The first reading changes nothing.                                        *)
LEMMA FirstCounted ==
  ASSUME Shape, Typed, NEW s, NextReading(s, {}), NEW r, CountedSoFar(r, {})
  PROVE  CountedSoFar(CounterStep(r, Reading(s)), {s})
<1> DEFINE q == CounterStep(r, Reading(s))
<1>1. Reading(s) \in Int /\ Reading(s) # None
  BY MeteredTyped DEF NextReading, Metered, Reading
<1>2. r.seen = 0
  BY FS_EmptySet DEF CountedSoFar
<1>3. q = [seen |-> 1, first |-> Reading(s), last |-> Reading(s), peak |-> Reading(s),
           increased |-> r.increased, unchanged |-> r.unchanged, decreased |-> r.decreased,
           resets |-> r.resets]
  BY <1>1, <1>2 DEF CounterStep, CountedSoFar
<1>4. \A p \in Consecutive : p[2] # s
  BY DEF Consecutive, NextReading
<1>5. Ups({s}) = Ups({}) /\ Equals({s}) = Equals({}) /\ Downs({s}) = Downs({})
  BY <1>4 DEF Ups, Equals, Downs
<1>6. ResetsIn({s}) = ResetsIn({})
  BY <1>4 DEF ResetsIn, IsReset
<1>7. Cardinality({s}) = 1
  BY FS_Singleton
<1>8. r.increased = 0 /\ r.unchanged = 0 /\ r.decreased = 0
  <2>1. Ups({}) = {} /\ Equals({}) = {} /\ Downs({}) = {}
    BY DEF Ups, Equals, Downs
  <2> QED
    BY <2>1, FS_EmptySet DEF CountedSoFar
<1> HIDE DEF q
<1> QED
  BY <1>1, <1>3, <1>5, <1>6, <1>7, <1>8 DEF CountedSoFar, NotAfter, q

(* A later one is one change, from the reading before it.                    *)
LEMMA NextCounted ==
  ASSUME Shape, Typed, NEW s, NEW U, U # {}, NextReading(s, U), NEW r, CountedSoFar(r, U)
  PROVE  CountedSoFar(CounterStep(r, Reading(s)), U \cup {s})
<1> DEFINE v == Reading(s)
           q == CounterStep(r, v)
           V == U \cup {s}
           low == v < r.last /\ r.peak > ResetFloor /\ 2 * v < r.peak
<1>1. /\ v \in Int /\ v # None /\ \A t \in U : Reading(t) \in Int
      /\ U \subseteq Instants /\ s \in Instants /\ IsFiniteSet(U)
  <2>1. U \subseteq Metered /\ s \in Metered
    BY DEF NextReading
  <2>2. IsFiniteSet(U)
    BY <2>1, MeteredTyped, FS_Subset
  <2> QED
    BY <2>1, <2>2, MeteredTyped DEF Metered, Reading
<1>2. PICK t \in U : (\A u \in U : NotAfter(u, t)) /\ r.last = Reading(t)
  BY DEF CountedSoFar
<1>3. PICK top \in U : r.peak = Reading(top)
  BY DEF CountedSoFar
<1>4. \A u \in U : Reading(u) <= r.peak
  BY DEF CountedSoFar
<1>5. r.last \in Int /\ r.peak \in Int
  BY <1>1, <1>2, <1>3
<1>6. Cardinality(U) \in Nat /\ r.seen = Cardinality(U) /\ r.seen # 0 /\ Cardinality(V) = r.seen + 1
  <2>1. Cardinality(U) \in Nat /\ Cardinality(U) # 0
    BY <1>1, FS_CardinalityType, FS_EmptySet
  <2>2. Cardinality(V) = Cardinality(U) + 1
    BY <1>1, FS_AddElement DEF NextReading
  <2> QED
    BY <2>1, <2>2 DEF CountedSoFar
<1>7. q = [seen |-> r.seen + 1, first |-> r.first, last |-> v, peak |-> Max({r.peak, v}),
           increased |-> r.increased + (IF v > r.last THEN 1 ELSE 0),
           unchanged |-> r.unchanged + (IF v = r.last THEN 1 ELSE 0),
           decreased |-> r.decreased + (IF v < r.last THEN 1 ELSE 0),
           resets |-> IF low THEN Append(r.resets, r.seen + 1) ELSE r.resets]
  <2> HIDE DEF v
  <2> QED
    BY <1>1, <1>6 DEF CounterStep, CountedSoFar
<1> HIDE DEF q
<1>8. /\ <<t, s>> \in Consecutive
      /\ \A p \in Consecutive : p[2] = s <=> p = <<t, s>>
  <2>1. \A u \in Metered : Before(u, s) <=> u \in U
    BY DEF NextReading
  <2>2. t \in Metered /\ s \in Metered /\ Before(t, s)
    BY <1>2, <2>1 DEF NextReading
  <2>3. \A u \in U : ~Before(t, u)
    BY <1>1, <1>2, BeforeOrders DEF NotAfter
  <2>4. <<t, s>> \in Consecutive
    BY <2>1, <2>2, <2>3 DEF Consecutive
  <2>5. ASSUME NEW p \in Consecutive, p[2] = s PROVE p = <<t, s>>
    <3>1. p \in Metered \X Metered /\ Before(p[1], s) /\ ~Before(p[1], t)
      BY <2>1, <2>2, <2>5 DEF Consecutive
    <3>2. p[1] \in U
      BY <2>1, <3>1
    <3>3. p[1] = t
      BY <1>2, <3>1, <3>2 DEF NotAfter
    <3> QED
      BY <2>5, <3>1, <3>3
  <2> QED
    BY <2>4, <2>5
<1> DEFINE x == <<t, s>>
<1>9. x[1] = t /\ x[2] = s
  OBVIOUS
<1>10. /\ Ups(V) = IF v > r.last THEN Ups(U) \cup {x} ELSE Ups(U)
       /\ Equals(V) = IF v = r.last THEN Equals(U) \cup {x} ELSE Equals(U)
       /\ Downs(V) = IF v < r.last THEN Downs(U) \cup {x} ELSE Downs(U)
  <2> HIDE DEF x
  <2>1. \A p \in Consecutive : p[2] \in V <=> p[2] \in U \/ p = x
    BY <1>8 DEF x
  <2>2. x \in Consecutive
    BY <1>8 DEF x
  <2>3. Ups(V) = IF v > r.last THEN Ups(U) \cup {x} ELSE Ups(U)
    BY <1>1, <1>2, <1>5, <1>9, <2>1, <2>2 DEF Ups
  <2>4. Equals(V) = IF v = r.last THEN Equals(U) \cup {x} ELSE Equals(U)
    BY <1>1, <1>2, <1>5, <1>9, <2>1, <2>2 DEF Equals
  <2>5. Downs(V) = IF v < r.last THEN Downs(U) \cup {x} ELSE Downs(U)
    BY <1>1, <1>2, <1>5, <1>9, <2>1, <2>2 DEF Downs
  <2> QED
    BY <2>3, <2>4, <2>5
<1>11. /\ IsFiniteSet(Ups(U)) /\ IsFiniteSet(Equals(U)) /\ IsFiniteSet(Downs(U))
       /\ x \notin Ups(U) /\ x \notin Equals(U) /\ x \notin Downs(U)
  <2>1. IsFiniteSet(Consecutive)
    BY MeteredTyped
  <2>2. Ups(U) \subseteq Consecutive /\ Equals(U) \subseteq Consecutive /\ Downs(U) \subseteq Consecutive
    BY DEF Ups, Equals, Downs
  <2>3. x \notin Ups(U) /\ x \notin Equals(U) /\ x \notin Downs(U)
    BY <1>9 DEF Ups, Equals, Downs, NextReading
  <2> QED
    BY <2>1, <2>2, <2>3, FS_Subset
<1>12. /\ r.increased = Cardinality(Ups(U)) /\ r.unchanged = Cardinality(Equals(U))
       /\ r.decreased = Cardinality(Downs(U))
       /\ r.increased + r.unchanged + r.decreased = r.seen - 1
  BY DEF CountedSoFar
<1> HIDE DEF x
<1>13. /\ q.increased = Cardinality(Ups(V)) /\ q.unchanged = Cardinality(Equals(V))
       /\ q.decreased = Cardinality(Downs(V))
       /\ q.increased + q.unchanged + q.decreased = q.seen - 1
  <2> DEFINE a == v > r.last
             b == v = r.last
             c == v < r.last
  <2>1. a \in BOOLEAN /\ b \in BOOLEAN /\ c \in BOOLEAN
    BY <1>1, <1>5
  <2>2. /\ Ups(V) = IF a THEN Ups(U) \cup {x} ELSE Ups(U)
        /\ Equals(V) = IF b THEN Equals(U) \cup {x} ELSE Equals(U)
        /\ Downs(V) = IF c THEN Downs(U) \cup {x} ELSE Downs(U)
    BY <1>10
  <2>3. /\ q.increased = r.increased + (IF a THEN 1 ELSE 0)
        /\ q.unchanged = r.unchanged + (IF b THEN 1 ELSE 0)
        /\ q.decreased = r.decreased + (IF c THEN 1 ELSE 0)
        /\ q.seen = r.seen + 1
    BY <1>7
  <2>4. (IF a THEN 1 ELSE 0) + (IF b THEN 1 ELSE 0) + (IF c THEN 1 ELSE 0) = 1
    BY <1>1, <1>5
  <2> HIDE DEF a, b, c
  <2>5. /\ Cardinality(Ups(V)) = Cardinality(Ups(U)) + (IF a THEN 1 ELSE 0) /\ Cardinality(Ups(U)) \in Nat
        /\ Cardinality(Equals(V)) = Cardinality(Equals(U)) + (IF b THEN 1 ELSE 0) /\ Cardinality(Equals(U)) \in Nat
        /\ Cardinality(Downs(V)) = Cardinality(Downs(U)) + (IF c THEN 1 ELSE 0) /\ Cardinality(Downs(U)) \in Nat
    BY <1>11, <2>1, <2>2, OneMore
  <2> QED
    BY <1>6, <1>12, <2>3, <2>4, <2>5
<1>14. IsReset(s) <=> low
  <2>1. (\E pair \in Consecutive : pair[2] = s /\ Reading(s) < Reading(pair[1])) <=> v < r.last
    BY <1>2, <1>8, <1>9 DEF x
  <2>2. \A u \in Metered : Before(u, s) <=> u \in U
    BY DEF NextReading
  <2>3. (\E u \in Metered : Before(u, s) /\ Reading(u) > ResetFloor /\ 2 * Reading(s) < Reading(u))
          <=> (r.peak > ResetFloor /\ 2 * v < r.peak)
    <3>1. top \in Metered
      BY <1>3 DEF NextReading
    <3>2. \A u \in U : Reading(u) \in Int /\ Reading(u) <= r.peak
      BY <1>1, <1>4
    <3> QED
      BY <1>1, <1>3, <1>5, <2>2, <3>1, <3>2, FloorAssumption
  <2> QED
    BY <2>1, <2>3 DEF IsReset
<1>15. Rank(s) = r.seen + 1
  <2>1. {u \in Metered : NotAfter(u, s)} = V
    BY DEF NextReading, NotAfter
  <2> QED
    BY <1>6, <2>1 DEF Rank
<1>16. ResetsIn(V) = IF low THEN ResetsIn(U) \cup {r.seen + 1} ELSE ResetsIn(U)
  <2> HIDE DEF low
  <2> QED
    BY <1>14, <1>15 DEF ResetsIn
<1>17. /\ Len(q.resets) \in Nat /\ q.resets = [m \in 1..Len(q.resets) |-> q.resets[m]]
       /\ ToSet(q.resets) = ResetsIn(V)
  <2> DEFINE z == r.resets
             y == Append(z, r.seen + 1)
  <2>1. Len(z) \in Nat /\ z = [m \in 1..Len(z) |-> z[m]] /\ ToSet(z) = ResetsIn(U)
    BY DEF CountedSoFar
  <2> HIDE DEF z
  <2>2. /\ Len(y) = Len(z) + 1 /\ \A m \in 1..Len(z) : y[m] = z[m]
        /\ y[Len(z) + 1] = r.seen + 1
        /\ y = [m \in 1..Len(y) |-> y[m]]
    BY <2>1, Appended
  <2> HIDE DEF y
  <2>3. ToSet(y) = ToSet(z) \cup {r.seen + 1}
    <3>1. DOMAIN y = 1..Len(y) /\ DOMAIN z = 1..Len(z)
      BY <2>1, <2>2
    <3>2. \A m \in 1..Len(y) : m \in 1..Len(z) \/ m = Len(z) + 1
      BY <2>1, <2>2
    <3>3. 1..Len(z) \subseteq 1..Len(y) /\ Len(z) + 1 \in 1..Len(y)
      BY <2>1, <2>2
    <3> QED
      BY <2>2, <3>1, <3>2, <3>3 DEF ToSet
  <2>4. q.resets = IF low THEN y ELSE z
    BY <1>7 DEF y, z
  <2> HIDE DEF low
  <2>5. CASE low
    <3>1. q.resets = y /\ ResetsIn(V) = ToSet(y)
      BY <1>16, <2>1, <2>3, <2>4, <2>5
    <3> QED
      BY <2>1, <2>2, <3>1
  <2>6. CASE ~low
    <3>1. q.resets = z /\ ResetsIn(V) = ToSet(z)
      BY <1>16, <2>1, <2>4, <2>6
    <3> QED
      BY <2>1, <3>1
  <2> QED
    BY <2>5, <2>6
<1>18. /\ \E u \in V : (\A w \in V : NotAfter(w, u)) /\ q.last = Reading(u)
       /\ \E u \in V : q.peak = Reading(u)
       /\ \A u \in V : Reading(u) <= q.peak
  <2>1. \A u \in V : NotAfter(u, s)
    BY DEF NextReading, NotAfter
  <2>2. q.peak \in {r.peak, v} /\ r.peak <= q.peak /\ v <= q.peak
    BY <1>1, <1>5, <1>7, OfTwo
  <2>3. \A u \in V : Reading(u) \in Int
    BY <1>1
  <2>4. q.last = v
    BY <1>7
  <2>5. \E u \in V : q.peak = Reading(u)
    BY <1>3, <2>2
  <2>6. \A u \in V : Reading(u) <= q.peak
    <3>1. q.peak \in Int
      BY <1>1, <1>5, <2>2
    <3> QED
      BY <1>1, <1>4, <1>5, <2>2, <2>3, <3>1
  <2> QED
    BY <2>1, <2>4, <2>5, <2>6
<1>19. q = [seen |-> q.seen, first |-> q.first, last |-> q.last, peak |-> q.peak,
            increased |-> q.increased, unchanged |-> q.unchanged, decreased |-> q.decreased,
            resets |-> q.resets]
  <2> HIDE DEF low, v
  <2> QED
    BY <1>7
<1>20. q.seen = Cardinality(V)
  BY <1>6, <1>7
<1> HIDE DEF V, v
<1>21. CountedSoFar(q, V)
  BY <1>13, <1>17, <1>18, <1>19, <1>20 DEF CountedSoFar
<1> QED
  BY <1>21 DEF q, V, v

(* The analyzer's ledger is that of the frames.                              *)
LEMMA LedgerHolds ==
  ASSUME Shape, Typed
  PROVE  CounterLedger
<1> DEFINE seq == Chronological(Frames)
           values == CounterReadings
           n == Len(seq)
           h == CHOOSE h : CounterRun(h, values, n)
<1>1. Listed(seq, Frames)
  BY RowsListed DEF Frames
<1>2. n \in Nat
  BY <1>1 DEF Listed
<1>3. Len(values) = n /\ \A i \in 1..n : values[i] = Reading(seq[i])
  <2> HIDE DEF seq
  <2>1. values = [i \in 1..n |-> Reading(seq[i])]
    BY DEF CounterReadings, Reading, seq
  <2> HIDE DEF values, n
  <2> QED
    BY <1>2, <2>1
<1> HIDE DEF values
<1>4. CounterRun(h, values, n)
  <2> HIDE DEF n
  <2> QED
    BY <1>2, CounterRunExists
<1>5. AnalyzeCounter(values) = h[n]
  <2> HIDE DEF n, seq
  <2>1. AnalyzeCounter(values) =
          LET after == CHOOSE g : CounterRun(g, values, Len(values)) IN after[Len(values)]
    BY DEF AnalyzeCounter, CounterRun
  <2> QED
    BY <1>3, <2>1
<1> HIDE DEF seq, n, h
<1> DEFINE U(i) == {t \in Metered : \E k \in 1..i : seq[k] = t}
           P == {i \in 0..n : CountedSoFar(h[i], U(i))}
<1>6. h[0] = NoCounter /\ \A i \in 0..n : i < n => h[i + 1] = CounterStep(h[i], values[i + 1])
  BY <1>2, <1>4 DEF CounterRun
<1>7. 0 \in P
  <2>1. U(0) = {}
    OBVIOUS
  <2>2. Ups({}) = {} /\ Equals({}) = {} /\ Downs({}) = {} /\ ResetsIn({}) = {}
    BY DEF Ups, Equals, Downs, ResetsIn
  <2>3. Len(<< >>) \in Nat /\ << >> = [m \in 1..Len(<< >>) |-> << >>[m]] /\ ToSet(<< >>) = {}
    BY DEF ToSet
  <2>4. CountedSoFar(NoCounter, {})
    BY <2>2, <2>3, FS_EmptySet DEF CountedSoFar, NoCounter
  <2> HIDE DEF U
  <2> QED
    BY <1>2, <1>6, <2>1, <2>4
<1>8. ASSUME NEW i \in 0..n, i < n, i \in P PROVE i + 1 \in P
  <2> DEFINE s == seq[i + 1]
  <2>1. i + 1 \in 1..n /\ i + 1 \in 0..n /\ s \in Frames
    BY <1>1, <1>2, <1>8 DEF Listed, n
  <2>2. h[i + 1] = CounterStep(h[i], Reading(s))
    BY <1>3, <1>6, <1>8, <2>1
  <2>3. CountedSoFar(h[i], U(i))
    BY <1>8
  <2>4. CASE Reading(s) = None
    <3>1. U(i + 1) = U(i)
      <4>1. s \notin Metered
        BY <2>4 DEF Metered, Reading
      <4>2. \A k \in 1..(i + 1) : k \in 1..i \/ k = i + 1
        OBVIOUS
      <4>3. \A k \in 1..i : k \in 1..(i + 1)
        OBVIOUS
      <4> QED
        BY <4>1, <4>2, <4>3
    <3>2. h[i + 1] = h[i]
      BY <2>2, <2>4 DEF CounterStep
    <3> HIDE DEF U
    <3> QED
      BY <2>1, <2>3, <3>1, <3>2
  <2>5. CASE Reading(s) # None
    <3>1. s \in Metered
      BY <2>1, <2>5 DEF Metered, Reading
    <3>2. U(i + 1) = U(i) \cup {s}
      <4>1. \A k \in 1..(i + 1) : k \in 1..i \/ k = i + 1
        OBVIOUS
      <4>2. i + 1 \in 1..(i + 1) /\ \A k \in 1..i : k \in 1..(i + 1)
        OBVIOUS
      <4> QED
        BY <3>1, <4>1, <4>2
    <3>3. NextReading(s, U(i))
      <4>1. ASSUME NEW t \in Metered PROVE Before(t, s) <=> t \in U(i)
        <5>1. t \in Frames
          BY DEF Metered
        <5>2. PICK k \in 1..n : seq[k] = t
          BY <1>1, <5>1 DEF Listed, n
        <5>3. Before(t, s) <=> k < i + 1
          BY <1>1, <2>1, <5>2 DEF Listed, n
        <5>4. \A l \in 1..i : seq[l] = t => l = k
          BY <1>1, <1>2, <1>8, <5>2 DEF Listed, n
        <5> QED
          BY <1>2, <5>2, <5>3, <5>4
      <4>2. s \notin U(i)
        <5>1. \A l \in 1..i : seq[l] # s
          BY <1>1, <1>2, <1>8, <2>1 DEF Listed, n
        <5> QED
          BY <5>1
      <4> HIDE DEF s
      <4> QED
        BY <3>1, <4>1, <4>2 DEF NextReading
    <3>4. CountedSoFar(h[i + 1], U(i + 1))
      <4> HIDE DEF U, s
      <4>1. CASE U(i) = {}
        BY <2>2, <2>3, <3>2, <3>3, <4>1, FirstCounted
      <4>2. CASE U(i) # {}
        BY <2>2, <2>3, <3>2, <3>3, <4>2, NextCounted
      <4> QED
        BY <4>1, <4>2
    <3> HIDE DEF U
    <3> QED
      BY <2>1, <3>4
  <2> QED
    BY <2>4, <2>5
<1>9. U(n) = Metered
  BY <1>1 DEF Metered, Listed, n
<1> HIDE DEF U, P
<1>10. n \in P
  BY <1>2, <1>7, <1>8, Climb
<1>11. CountedSoFar(AnalyzeCounter(CounterReadings), Metered)
  BY <1>5, <1>9, <1>10 DEF P, values
<1> DEFINE r == AnalyzeCounter(CounterReadings)
<1> HIDE DEF r
<1>12. /\ Ups(Metered) = {p \in Consecutive : Reading(p[1]) < Reading(p[2])}
       /\ Equals(Metered) = {p \in Consecutive : Reading(p[1]) = Reading(p[2])}
       /\ Downs(Metered) = {p \in Consecutive : Reading(p[1]) > Reading(p[2])}
  BY DEF Ups, Equals, Downs, Consecutive
<1>13. ResetsIn(Metered) = {Cardinality({t \in Metered : NotAfter(t, s)}) : s \in {q \in Metered : IsReset(q)}}
  BY DEF ResetsIn, Rank
<1>14. CountedSoFar(r, Metered)
  BY <1>11 DEF r
<1>15. /\ r.increased = Cardinality({p \in Consecutive : Reading(p[1]) < Reading(p[2])})
       /\ r.unchanged = Cardinality({p \in Consecutive : Reading(p[1]) = Reading(p[2])})
       /\ r.decreased = Cardinality({p \in Consecutive : Reading(p[1]) > Reading(p[2])})
       /\ Metered # {} => r.increased + r.unchanged + r.decreased = Cardinality(Metered) - 1
       /\ ToSet(r.resets) = {Cardinality({t \in Metered : NotAfter(t, s)}) : s \in {q \in Metered : IsReset(q)}}
  BY <1>12, <1>13, <1>14 DEF CountedSoFar
<1> QED
  BY <1>15 DEF CounterLedger, r

-----------------------------------------------------------------------------
(* What is read of a history.                                                *)

LEMMA ReadyHolds ==
  ASSUME Shape
  PROVE  ReadyMeansObserved
<1> DEFINE S == Times(Frames)
           g == [s \in Frames |-> s[1]]
           count == Cardinality(Frames)
<1>1. SUFFICES ASSUME PatternResearchReady(S, count)
               PROVE  100 * Extent(Neighbours(S) \ DetectGaps(S)) >= 65 * (Max(S) - Min(S))
  BY DEF ReadyMeansObserved
<1>2. Frames \subseteq Instants /\ IsFiniteSet(Frames)
  <2>1. Frames \subseteq Slots
    BY DEF Frames
  <2> QED
    BY <2>1, FS_Subset DEF Shape
<1>3. S = {g[s] : s \in Frames} /\ S \in SUBSET Int
  BY <1>2 DEF Times, Instants
<1>4. IsFiniteSet(S)
  <2>1. DOMAIN g = Frames /\ g = [s \in Frames |-> g[s]]
    OBVIOUS
  <2> HIDE DEF g
  <2> QED
    BY <1>2, <1>3, <2>1, FiniteImage
<1>5. S # {}
  <2>1. count > 1
    BY <1>1 DEF PatternResearchReady
  <2>2. Frames # {}
    BY <2>1, FS_EmptySet
  <2> QED
    BY <1>3, <2>2
<1> HIDE DEF S
<1> QED
  BY <1>1, <1>3, <1>4, <1>5, ReadyIsObserved

(* What the reads rest on: the frames and the tables are finite, and dated.  *)
ReadInv == Shape /\ TypeOK /\ TablesDated

LEMMA ReadInvHolds == Spec => []ReadInv
<1>1. Init => ReadInv
  <2> SUFFICES ASSUME Init PROVE ReadInv
    OBVIOUS
  <2>1. Shape
    BY HistoriesAssumption DEF Init, Shape, Slots
  <2>2. obs \in [Slots -> Observations \cup {None}]
    <3>1. obs = [s \in Slots |-> obs[s]]
      BY HistoriesAssumption DEF Init, Slots
    <3>2. \A s \in Slots : obs[s] \in Observations
      BY DEF Init, Slots, Observations, Range
    <3> QED
      BY <3>1, <3>2
  <2>3. TypeOK
    BY <2>2, BoundsAssumption DEF Init, TypeOK
  <2>4. TablesDated
    BY FS_EmptySet DEF Init, TablesDated, Dated
  <2> QED
    BY <2>1, <2>3, <2>4 DEF ReadInv
<1>2. ReadInv /\ [Next]_vars => ReadInv'
  <2> SUFFICES ASSUME ReadInv, [Next]_vars PROVE ReadInv'
    OBVIOUS
  <2>1. Shape /\ TypeOK /\ Typed /\ TablesDated
    BY DEF ReadInv, TypeOK, Typed
  <2> QED
    BY <2>1, ShapeStep, TypesKept, DatedStep DEF ReadInv
<1> QED
  BY <1>1, <1>2, PTL DEF Spec

(* Whatever the limit of the query, the timeline is a prefix of all stored   *)
(* events: cutting every table at the limit before the merge loses nothing.  *)
THEOREM TimelineCutsNothing == Spec => [](\A limit \in Nat : ShowsPrefix(limit))
<1>1. ReadInv => \A limit \in Nat : ShowsPrefix(limit)
  BY TimelineShows DEF ReadInv, TablesDated
<1> QED
  BY <1>1, ReadInvHolds, PTL

(* What is read of a history is all there: the timeline's prefix, the ledger *)
(* of the counter, and the observed time behind a history called ready.      *)
THEOREM ReadsStayTruthful == Spec => []ReadsTruthful
<1>1. ReadInv => ReadsTruthful
  <2> SUFFICES ASSUME ReadInv PROVE ReadsTruthful
    OBVIOUS
  <2>1. Shape /\ Typed /\ TablesDated
    BY DEF ReadInv, TypeOK, Typed
  <2>2. TimelinePrefix
    BY <2>1, TimelineShows DEF TablesDated, TimelinePrefix
  <2> QED
    BY <2>1, <2>2, LedgerHolds, ReadyHolds DEF ReadsTruthful
<1> QED
  BY <1>1, ReadInvHolds, PTL

=============================================================================

--------------------------- MODULE AnalysisProofs ---------------------------
(***************************************************************************)
(* What is proved of Analysis for every set of workers, runs and files: the  *)
(* registry of schema versions stays consecutive and has one writer at a     *)
(* time, it implements SchemaRegistry, the stored drift is truthful, a file   *)
(* is ready exactly when nothing required is missing, a run is lost only for *)
(* the reasons AbortExplained names and the headline score lies between the  *)
(* worst and the best dimension.                                             *)
(***************************************************************************)
EXTENDS Analysis, SetFacts

Steps == {"file", "compare", "number", "insert", "quality", "aborted", "committed", "rolled_back"}
Headers == {Header(f) : f \in Files}
Version == [number : Nat \ {0}, header : Headers, fields : {FieldRows(h) : h \in Headers}]

(* The versions are numbered from 1 without a hole and none clashes.         *)
Consecutive(V) ==
  /\ V \subseteq Version /\ IsFiniteSet(V)
  /\ {v.number : v \in V} = 1..Cardinality(V)
  /\ \A u, v \in V : u # v => ~Clash(u, v)

(* One worker's variables: its run, its position in it and its transaction.  *)
WorkerShape(w) ==
  /\ given[w] \in Seq(Files) /\ todo[w] \in Seq(Files)
  /\ \A i, j \in DOMAIN given[w] : given[w][i] = given[w][j] => i = j
  /\ Len(todo[w]) <= Len(given[w])
  /\ \A i \in 1..Len(todo[w]) : todo[w][i] = given[w][Len(given[w]) - Len(todo[w]) + i]
  /\ pc[w] \in Steps
  /\ pc[w] \in {"compare", "number", "insert", "quality"} => todo[w] # <<>>
  /\ tx[w] = [versions |-> tx[w].versions, records |-> tx[w].records]
  /\ local[w] = [compared |-> local[w].compared, number |-> local[w].number]
  /\ Ended(w) => tx[w] = NoWrites

Shape ==
  /\ given = [w \in Workers |-> given[w]] /\ todo = [w \in Workers |-> todo[w]]
  /\ pc = [w \in Workers |-> pc[w]] /\ tx = [w \in Workers |-> tx[w]]
  /\ local = [w \in Workers |-> local[w]]
  /\ \A w \in Workers : WorkerShape(w)
  /\ \A v, w \in Workers : v # w => Range(given[v]) \cap Range(given[w]) = {}

(* What is registered, and what an open transaction adds to it.              *)
Numbering ==
  /\ Consecutive(versions)
  /\ \A w \in Workers :
       /\ Consecutive(Visible(w))
       /\ versions \cap tx[w].versions = {}
       /\ pc[w] = "insert" =>
            local[w].number \in Nat \ {0} /\ local[w].number <= Cardinality(Visible(w)) + 1
  /\ \A v, w \in Workers : tx[v].versions # {} /\ tx[w].versions # {} => v = w

-----------------------------------------------------------------------------
(* A step of one worker.                                                     *)

(* Only worker w's entries change.                                           *)
OnlyHis(w) ==
  /\ given' = given
  /\ todo' = [o \in Workers |-> todo'[o]] /\ pc' = [o \in Workers |-> pc'[o]]
  /\ tx' = [o \in Workers |-> tx'[o]] /\ local' = [o \in Workers |-> local'[o]]
  /\ \A o \in Workers \ {w} :
       todo'[o] = todo[o] /\ pc'[o] = pc[o] /\ tx'[o] = tx[o] /\ local'[o] = local[o]

(* An operation of a worker leaves the entries of the others.                *)
LEMMA StepIsHis ==
  ASSUME Shape, NEW w \in Workers, Step(w)
  PROVE  OnlyHis(w)
<1> USE DEF OnlyHis, Shape, To
<1>1. CASE Reject(w) BY <1>1 DEF Reject, Finish
<1>2. CASE FindVersion(w) BY <1>2 DEF FindVersion
<1>3. CASE CompareWithActive(w) BY <1>3 DEF CompareWithActive
<1>4. CASE NextVersionNumber(w) BY <1>4 DEF NextVersionNumber
<1>5. CASE AddVersion(w) BY <1>5 DEF AddVersion
<1>6. CASE Analyse(w) BY <1>6 DEF Analyse, Finish
<1>7. CASE Commit(w) BY <1>7 DEF Commit
<1>8. CASE RollBack(w) BY <1>8 DEF RollBack
<1> QED BY <1>1, <1>2, <1>3, <1>4, <1>5, <1>6, <1>7, <1>8 DEF Step

(* The largest number in use.                                                *)
LEMMA LargestNumber ==
  ASSUME NEW V, Consecutive(V)
  PROVE  Cardinality(V) \in Nat /\ Max({0} \cup {v.number : v \in V}) = Cardinality(V)
<1> DEFINE n == Cardinality(V)
           S == {0} \cup {v.number : v \in V}
<1>1. n \in Nat BY FS_CardinalityType DEF Consecutive
<1>2. S = 0..n BY <1>1 DEF Consecutive
<1> HIDE DEF n, S
<1>3. n \in S /\ \A y \in S : n >= y BY <1>1, <1>2
<1>4. Max(S) \in S /\ \A y \in S : Max(S) >= y BY <1>3 DEF Max
<1>5. Max(S) = n BY <1>1, <1>2, <1>3, <1>4
<1> QED BY <1>1, <1>5 DEF n, S

(* A version that clashes with none and is numbered next extends them.       *)
LEMMA Extended ==
  ASSUME NEW V, Consecutive(V), NEW x \in Version,
         x.number <= Cardinality(V) + 1, \A v \in V : ~Clash(v, x)
  PROVE  /\ Consecutive(V \cup {x})
         /\ x.number = Cardinality(V) + 1
         /\ Cardinality(V \cup {x}) = Cardinality(V) + 1
         /\ x \notin V
<1> DEFINE n == Cardinality(V)
<1>1. n \in Nat /\ {v.number : v \in V} = 1..n BY FS_CardinalityType DEF Consecutive
<1>2. \A v \in V : v.number # x.number /\ v.header # x.header BY DEF Clash
<1>3. x.number \in Nat \ {0} BY DEF Version
<1>4. x.number \notin 1..n BY <1>1, <1>2
<1>5. x.number = n + 1 BY <1>1, <1>3, <1>4
<1>6. x \notin V BY <1>2
<1>7. IsFiniteSet(V \cup {x}) /\ Cardinality(V \cup {x}) = n + 1
  BY <1>6, FS_AddElement DEF Consecutive
<1>8. {v.number : v \in V \cup {x}} = {v.number : v \in V} \cup {x.number} OBVIOUS
<1> HIDE DEF n
<1>9. {v.number : v \in V \cup {x}} = 1..(n + 1)
  <2>1. 1..(n + 1) = (1..n) \cup {n + 1} BY <1>1
  <2> QED BY <1>1, <1>5, <1>8, <2>1
<1>10. \A u, v \in V \cup {x} : u # v => ~Clash(u, v) BY <1>2 DEF Consecutive, Clash
<1> QED BY <1>5, <1>6, <1>7, <1>9, <1>10 DEF Consecutive, n
(* The current file is one of the worker's run, at the place it has reached. *)
LEMMA CurrentFile ==
  ASSUME NEW w \in Workers, WorkerShape(w), todo[w] # <<>>
  PROVE  /\ Current(w) \in Files /\ HeaderOf(w) \in Headers
         /\ Len(given[w]) - Len(todo[w]) + 1 \in DOMAIN given[w]
         /\ Current(w) = given[w][Len(given[w]) - Len(todo[w]) + 1]
         /\ Len(todo[w]) \in Nat \ {0} /\ Len(given[w]) \in Nat
<1>1. /\ given[w] \in Seq(Files) /\ todo[w] \in Seq(Files) /\ Len(todo[w]) <= Len(given[w])
      /\ \A i \in 1..Len(todo[w]) : todo[w][i] = given[w][Len(given[w]) - Len(todo[w]) + i]
  BY DEF WorkerShape
<1>2. /\ Len(todo[w]) \in Nat \ {0} /\ Len(given[w]) \in Nat
      /\ Current(w) = todo[w][1] /\ todo[w][1] \in Files
  BY <1>1 DEF Current
<1>3. 1 \in 1..Len(todo[w]) BY <1>2
<1>4. Len(given[w]) - Len(todo[w]) + 1 \in 1..Len(given[w])
  <2>1. \A a, b \in Nat : b # 0 /\ b <= a => a - b + 1 \in 1..a OBVIOUS
  <2> QED BY <1>1, <1>2, <2>1
<1>5. HeaderOf(w) \in Headers BY <1>2 DEF HeaderOf, Headers
<1>6. Current(w) = given[w][Len(given[w]) - Len(todo[w]) + 1] BY <1>1, <1>2, <1>3
<1>7. DOMAIN given[w] = 1..Len(given[w]) BY <1>1
<1> QED BY <1>2, <1>4, <1>5, <1>6, <1>7

(* Going on to the next file keeps the position right.                       *)
LEMMA NextFile ==
  ASSUME NEW w \in Workers, WorkerShape(w), todo[w] # <<>>, NEW s, s = Tail(todo[w])
  PROVE  /\ s \in Seq(Files) /\ Len(s) = Len(todo[w]) - 1
         /\ Len(s) \in Nat /\ Len(s) <= Len(given[w])
         /\ \A i \in 1..Len(s) : s[i] = given[w][Len(given[w]) - Len(s) + i]
<1>1. /\ given[w] \in Seq(Files) /\ todo[w] \in Seq(Files) /\ Len(todo[w]) <= Len(given[w])
      /\ \A i \in 1..Len(todo[w]) : todo[w][i] = given[w][Len(given[w]) - Len(todo[w]) + i]
  BY DEF WorkerShape
<1>2. /\ s \in Seq(Files) /\ Len(s) = Len(todo[w]) - 1 /\ Len(todo[w]) \in Nat \ {0}
      /\ Len(given[w]) \in Nat /\ \A i \in 1..Len(s) : s[i] = todo[w][i + 1]
  BY <1>1
<1>3. ASSUME NEW i \in 1..Len(s) PROVE s[i] = given[w][Len(given[w]) - Len(s) + i]
  <2>1. i + 1 \in 1..Len(todo[w]) BY <1>2
  <2>2. s[i] = given[w][Len(given[w]) - Len(todo[w]) + (i + 1)] BY <1>1, <1>2, <2>1
  <2>4. /\ Len(given[w]) \in Int /\ Len(todo[w]) \in Int /\ Len(s) \in Int /\ i \in Int
        /\ Len(s) = Len(todo[w]) - 1
    BY <1>2
  <2>5. Len(given[w]) - Len(todo[w]) + (i + 1) = Len(given[w]) - Len(s) + i
    <3> DEFINE a == Len(given[w])
               b == Len(todo[w])
               c == Len(s)
    <3>1. a \in Int /\ b \in Int /\ c \in Int /\ i \in Int /\ c = b - 1 BY <2>4
    <3> HIDE DEF a, b, c
    <3>2. a - b + (i + 1) = a - c + i BY <3>1
    <3> QED BY <3>2 DEF a, b, c
  <2> QED BY <2>2, <2>5
<1>4. Len(s) \in Nat /\ Len(s) <= Len(given[w])
  <2>1. \A a, b \in Nat : b # 0 /\ b <= a => b - 1 \in Nat /\ b - 1 <= a OBVIOUS
  <2> QED BY <1>1, <1>2, <2>1
<1> QED BY <1>2, <1>3, <1>4

(* What a worker's step makes of its own entries.                            *)
LEMMA HisShape ==
  ASSUME Shape, NEW w \in Workers, Step(w)
  PROVE  WorkerShape(w)'
<1>0. WorkerShape(w) /\ OnlyHis(w) BY StepIsHis DEF Shape
<1> USE <1>0 DEF Shape, To
<1>f. ASSUME NEW record, Finish(w, record), todo[w] # <<>> PROVE WorkerShape(w)'
  <2>1. /\ todo'[w] = Tail(todo[w]) /\ pc'[w] = "file" /\ local'[w] = Nothing
        /\ tx'[w] = [versions |-> tx[w].versions,
                     records |-> Overlay(tx[w].records, [f \in {Current(w)} |-> record])]
    BY <1>f DEF Finish, WorkerShape, Nothing
  <2>2. /\ todo'[w] \in Seq(Files) /\ Len(todo'[w]) <= Len(given[w])
        /\ \A i \in 1..Len(todo'[w]) : todo'[w][i] = given[w][Len(given[w]) - Len(todo'[w]) + i]
    BY <1>f, <2>1, NextFile
  <2> QED BY <2>1, <2>2 DEF WorkerShape, OnlyHis, Ended, Steps, Nothing
<1>1. CASE Reject(w) BY <1>1, <1>f DEF Reject
<1>2. CASE FindVersion(w) BY <1>2 DEF FindVersion, WorkerShape, OnlyHis, Ended, Steps
<1>3. CASE CompareWithActive(w)
  <2>1. PICK c : local' = [local EXCEPT ![w].compared = c] BY <1>3 DEF CompareWithActive
  <2>2. /\ todo[w] # <<>> /\ pc'[w] = "number" /\ todo' = todo /\ tx' = tx /\ given' = given
        /\ local'[w] = [compared |-> c, number |-> local[w].number]
    BY <1>3, <2>1 DEF CompareWithActive, WorkerShape
  <2> QED BY <2>2 DEF WorkerShape, Ended, Steps
<1>4. CASE NextVersionNumber(w)
  <2>1. PICK n : local' = [local EXCEPT ![w].number = n] BY <1>4 DEF NextVersionNumber
  <2>2. /\ todo[w] # <<>> /\ pc'[w] = "insert" /\ todo' = todo /\ tx' = tx /\ given' = given
        /\ local'[w] = [compared |-> local[w].compared, number |-> n]
    BY <1>4, <2>1 DEF NextVersionNumber, WorkerShape
  <2> QED BY <2>2 DEF WorkerShape, Ended, Steps
<1>5. CASE AddVersion(w) BY <1>5 DEF AddVersion, WorkerShape, OnlyHis, Ended, Steps
<1>6. CASE Analyse(w)
  <2>1. todo[w] # <<>> BY <1>6 DEF Analyse, WorkerShape
  <2>2. CASE \E record : Finish(w, record) BY <1>f, <2>1, <2>2
  <2>3. CASE To(w, "aborted") /\ UNCHANGED <<todo, tx, local>>
    BY <1>6, <2>3 DEF Analyse, WorkerShape, OnlyHis, Ended, Steps
  <2> QED BY <1>6, <2>2, <2>3 DEF Analyse
<1>7. CASE Commit(w) BY <1>7 DEF Commit, WorkerShape, OnlyHis, Ended, Steps, NoWrites
<1>8. CASE RollBack(w) BY <1>8 DEF RollBack, WorkerShape, OnlyHis, Ended, Steps, NoWrites
<1> QED BY <1>1, <1>2, <1>3, <1>4, <1>5, <1>6, <1>7, <1>8 DEF Step

(* The shape of the state is kept.                                           *)
LEMMA ShapeStep ==
  ASSUME Shape, NEW w \in Workers, Step(w)
  PROVE  Shape'
<1>1. OnlyHis(w) /\ WorkerShape(w)' BY StepIsHis, HisShape
<1>2. ASSUME NEW o \in Workers PROVE WorkerShape(o)'
  <2>1. CASE o = w BY <1>1, <2>1
  <2>2. CASE o # w
    <3>1. WorkerShape(o) BY DEF Shape
    <3> QED BY <1>1, <2>2, <3>1 DEF WorkerShape, OnlyHis, Ended
  <2> QED BY <2>1, <2>2
<1> QED BY <1>1, <1>2 DEF OnlyHis, Shape

(* A step that registers nothing keeps the numbering.                        *)
LEMMA NumberingKept ==
  ASSUME Shape, Numbering, NEW w \in Workers, OnlyHis(w), versions' = versions,
         tx'[w].versions = tx[w].versions \/ tx'[w].versions = {},
         pc'[w] = "insert" =>
           /\ tx'[w].versions = tx[w].versions
           /\ local'[w].number \in Nat \ {0} /\ local'[w].number <= Cardinality(Visible(w)) + 1
  PROVE  Numbering'
<1>1. ASSUME NEW o \in Workers
      PROVE  /\ Consecutive(Visible(o))' /\ versions' \cap tx'[o].versions = {}
             /\ tx'[o].versions # {} => tx[o].versions # {}
             /\ pc'[o] = "insert" =>
                  local'[o].number \in Nat \ {0} /\ local'[o].number <= Cardinality(Visible(o)')+ 1
  <2>1. CASE tx'[o].versions = tx[o].versions
    <3>1. Visible(o)' = Visible(o) BY <2>1 DEF Visible
    <3>2. Consecutive(Visible(o))' BY <3>1 DEF Numbering, Consecutive, Clash, Version, Headers
    <3> QED BY <2>1, <3>1, <3>2 DEF Numbering, OnlyHis
  <2>2. CASE tx'[o].versions # tx[o].versions
    <3>1. o = w /\ tx'[o].versions = {} BY <2>2 DEF OnlyHis
    <3>2. Visible(o)' = versions BY <3>1 DEF Visible
    <3>3. Consecutive(Visible(o))' BY <3>2 DEF Numbering, Consecutive, Clash, Version, Headers
    <3> QED BY <2>2, <3>1, <3>3
  <2> QED BY <2>1, <2>2
<1>2. Consecutive(versions)' BY DEF Numbering, Consecutive, Clash, Version, Headers
<1> QED BY <1>1, <1>2 DEF Numbering

(* Two transactions cannot both insert the next number: the second one that   *)
(* read it waits for the first, and clashes when the first has committed.     *)
LEMMA InsertedAlone ==
  ASSUME Shape, Numbering, NEW w \in Workers, pc[w] = "insert", ~Blocked(w),
         \A v \in Visible(w) : ~Clash(v, NewVersion(w))
  PROVE  \A o \in Workers \ {w} : tx[o].versions = {}
<1> SUFFICES ASSUME NEW o \in Workers, o # w, tx[o].versions # {} PROVE FALSE
  OBVIOUS
<1> DEFINE n == Cardinality(versions)
           m == Cardinality(Visible(o))
           k == local[w].number
<1>1. tx[w].versions = {} /\ Visible(w) = versions BY DEF Numbering, Visible
<1>2. Consecutive(versions) /\ Consecutive(Visible(o)) BY DEF Numbering
<1>3. n \in Nat /\ m \in Nat /\ {v.number : v \in versions} = 1..n /\ {v.number : v \in Visible(o)} = 1..m
  BY <1>2, FS_CardinalityType DEF Consecutive
<1>4. k \in Nat \ {0} /\ k <= n + 1 BY <1>1 DEF Numbering
<1>5. n < m
  <2>1. versions \subseteq Visible(o) /\ versions # Visible(o) /\ IsFiniteSet(Visible(o))
    BY <1>2 DEF Numbering, Visible, Consecutive
  <2> QED BY <2>1, FS_Subset, <1>3
<1>6. NewVersion(w).number = k BY DEF NewVersion
<1>7. k \notin {v.number : v \in versions} BY <1>1, <1>6 DEF Clash
<1> HIDE DEF n, m, k
<1>8. k = n + 1 BY <1>3, <1>4, <1>7
<1>9. k \in 1..m BY <1>3, <1>5, <1>8
<1>10. PICK v \in Visible(o) : v.number = k BY <1>3, <1>9
<1>11. v \in tx[o].versions BY <1>7, <1>10 DEF Visible
<1>12. Clash(v, NewVersion(w)) BY <1>6, <1>10 DEF Clash
<1> QED BY <1>11, <1>12 DEF Blocked

(* A version that clashes with nothing visible is the next one.              *)
LEMMA NumberingAdded ==
  ASSUME Shape, Numbering, NEW w \in Workers, OnlyHis(w), versions' = versions,
         pc[w] = "insert", ~Blocked(w), pc'[w] = "quality",
         \A v \in Visible(w) : ~Clash(v, NewVersion(w)),
         tx'[w].versions = tx[w].versions \cup {NewVersion(w)}
  PROVE  /\ Numbering' /\ Visible(w)' = Visible(w) \cup {NewVersion(w)}
         /\ NewVersion(w) \in Version /\ NewVersion(w).number = Cardinality(Visible(w)) + 1
<1> DEFINE x == NewVersion(w)
<1>1. WorkerShape(w) /\ todo[w] # <<>> BY DEF Shape, WorkerShape
<1>2. HeaderOf(w) \in Headers BY <1>1, CurrentFile
<1>3. x \in Version /\ x.number <= Cardinality(Visible(w)) + 1
  BY <1>2 DEF NewVersion, Version, Numbering
<1>4. Visible(w)' = Visible(w) \cup {x} BY DEF Visible
<1>5. Consecutive(Visible(w)) BY DEF Numbering
<1>6. Consecutive(Visible(w) \cup {x}) /\ x.number = Cardinality(Visible(w)) + 1 /\ x \notin Visible(w)
  BY <1>3, <1>5, Extended
<1>7. Consecutive(Visible(w))'
  BY <1>4, <1>6 DEF Consecutive, Clash, Version, Headers
<1>8. \A o \in Workers \ {w} : tx[o].versions = {} BY InsertedAlone
<1>9. Consecutive(versions)' BY DEF Numbering, Consecutive, Clash, Version, Headers
<1>10. ASSUME NEW o \in Workers
       PROVE  /\ Consecutive(Visible(o))' /\ versions' \cap tx'[o].versions = {}
              /\ tx'[o].versions # {} => o = w
              /\ pc'[o] = "insert" =>
                   local'[o].number \in Nat \ {0} /\ local'[o].number <= Cardinality(Visible(o)')+ 1
  <2>1. CASE o = w
    <3>1. x \notin versions BY <1>6 DEF Visible
    <3>2. versions' \cap tx'[o].versions = {} BY <2>1, <3>1 DEF Numbering
    <3> QED BY <1>7, <2>1, <3>2
  <2>2. CASE o # w
    <3>1. Visible(o)' = Visible(o) /\ tx'[o].versions = {} BY <1>8, <2>2 DEF Visible, OnlyHis
    <3>2. Consecutive(Visible(o))' BY <3>1 DEF Numbering, Consecutive, Clash, Version, Headers
    <3> QED BY <2>2, <3>1, <3>2 DEF Numbering, OnlyHis
  <2> QED BY <2>1, <2>2
<1>11. Numbering' BY <1>9, <1>10 DEF Numbering
<1> QED BY <1>3, <1>4, <1>6, <1>11

(* A commit publishes the versions of the only transaction that has any.     *)
LEMMA NumberingCommitted ==
  ASSUME Shape, Numbering, NEW w \in Workers, OnlyHis(w), Commit(w)
  PROVE  /\ Numbering' /\ versions' = Visible(w)
         /\ \A o \in Workers \ {w} : Visible(o)' = Visible(o) \/ (Visible(o) = versions /\ Visible(o)' = Visible(w))
<1>1. versions' = Visible(w) /\ tx'[w].versions = {} /\ pc'[w] = "committed"
  BY DEF Commit, Visible, To, Shape, NoWrites
<1>2. Consecutive(versions)' BY <1>1 DEF Numbering, Consecutive, Clash, Version, Headers
<1>3. ASSUME NEW o \in Workers \ {w}
      PROVE  Visible(o)' = Visible(o) \/ (Visible(o) = versions /\ Visible(o)' = Visible(w))
  <2>0. tx'[o] = tx[o] /\ Visible(o)' = versions' \cup tx'[o].versions BY DEF Visible, OnlyHis
  <2>1. Visible(o)' = Visible(w) \cup tx[o].versions BY <1>1, <2>0
  <2>2. CASE tx[w].versions = {}
    <3>1. Visible(w) = versions /\ Visible(o) = versions \cup tx[o].versions BY <2>2 DEF Visible
    <3>2. Visible(o)' = Visible(o) BY <2>1, <3>1
    <3> QED BY <3>2
  <2>3. CASE tx[w].versions # {}
    <3>1. tx[o].versions = {} /\ Visible(o) = versions BY <2>3 DEF Numbering, Visible
    <3> QED BY <2>1, <3>1
  <2> QED BY <2>2, <2>3
<1>4. ASSUME NEW o \in Workers
      PROVE  /\ Consecutive(Visible(o))' /\ versions' \cap tx'[o].versions = {}
             /\ tx'[o].versions # {} => tx[o].versions # {}
             /\ pc'[o] = "insert" =>
                  local'[o].number \in Nat \ {0} /\ local'[o].number <= Cardinality(Visible(o)')+ 1
  <2>1. CASE o = w
    <3>1. Visible(o)' = versions' BY <1>1, <2>1 DEF Visible
    <3> QED BY <1>1, <1>2, <2>1, <3>1
  <2>2. CASE o # w
    <3>1. /\ tx'[o].versions = tx[o].versions /\ pc'[o] = pc[o] /\ local'[o] = local[o]
      BY <2>2 DEF OnlyHis
    <3>2. versions' \cap tx'[o].versions = {} BY <1>1, <2>2, <3>1 DEF Numbering, Visible
    <3>3. CASE Visible(o)' = Visible(o)
      <4>1. Consecutive(Visible(o))' BY <3>3 DEF Numbering, Consecutive, Clash, Version, Headers
      <4> QED BY <3>1, <3>2, <3>3, <4>1 DEF Numbering
    <3>4. CASE Visible(o) = versions /\ Visible(o)' = Visible(w)
      <4>1. Consecutive(Visible(o))' BY <3>4 DEF Numbering, Consecutive, Clash, Version, Headers
      <4>2. versions \subseteq Visible(w) /\ IsFiniteSet(Visible(w))
        BY DEF Numbering, Visible, Consecutive
      <4>3. /\ Cardinality(versions) \in Nat /\ Cardinality(Visible(w)) \in Nat
            /\ Cardinality(versions) <= Cardinality(Visible(w))
        BY <4>2, FS_Subset, FS_CardinalityType
      <4>4. ASSUME pc'[o] = "insert"
            PROVE  local'[o].number \in Nat \ {0} /\ local'[o].number <= Cardinality(Visible(o)') + 1
        <5>1. local[o].number \in Nat \ {0} /\ local[o].number <= Cardinality(versions) + 1
          BY <3>1, <3>4, <4>4 DEF Numbering
        <5> QED BY <3>1, <3>4, <4>3, <5>1
      <4> QED BY <3>1, <3>2, <4>1, <4>4
    <3> QED BY <1>3, <2>2, <3>3, <3>4
  <2> QED BY <2>1, <2>2
<1>5. Numbering' BY <1>2, <1>4 DEF Numbering
<1> QED BY <1>1, <1>3, <1>5

(* Every operation keeps the numbering.                                      *)
LEMMA NumberingStep ==
  ASSUME Shape, Numbering, NEW w \in Workers, Step(w)
  PROVE  Numbering'
<1>0. OnlyHis(w) /\ WorkerShape(w) BY StepIsHis DEF Shape
<1> USE <1>0 DEF To
<1>f. ASSUME NEW record, Finish(w, record), versions' = versions PROVE Numbering'
  <2>1. tx'[w].versions = tx[w].versions /\ pc'[w] = "file" BY <1>f DEF Finish, Shape, WorkerShape
  <2> QED BY <1>f, <2>1, NumberingKept
<1>1. CASE Reject(w) BY <1>1, <1>f DEF Reject
<1>2. CASE FindVersion(w)
  <2>1. versions' = versions /\ tx'[w].versions = tx[w].versions /\ pc'[w] # "insert"
    BY <1>2 DEF FindVersion, Shape
  <2> QED BY <2>1, NumberingKept
<1>3. CASE CompareWithActive(w)
  <2>1. versions' = versions /\ tx'[w].versions = tx[w].versions /\ pc'[w] # "insert"
    BY <1>3 DEF CompareWithActive, Shape
  <2> QED BY <2>1, NumberingKept
<1>4. CASE NextVersionNumber(w)
  <2>1. versions' = versions /\ tx'[w].versions = tx[w].versions BY <1>4 DEF NextVersionNumber
  <2>2. local'[w].number = 1 + Max({0} \cup {v.number : v \in Visible(w)})
    BY <1>4 DEF NextVersionNumber, Shape, WorkerShape
  <2>3. Consecutive(Visible(w)) BY DEF Numbering
  <2>4. Cardinality(Visible(w)) \in Nat /\ Max({0} \cup {v.number : v \in Visible(w)}) = Cardinality(Visible(w))
    BY <2>3, LargestNumber
  <2>5. local'[w].number \in Nat \ {0} /\ local'[w].number <= Cardinality(Visible(w)) + 1
    BY <2>2, <2>4
  <2> QED BY <2>1, <2>5, NumberingKept
<1>5. CASE AddVersion(w)
  <2>1. versions' = versions /\ pc[w] = "insert" /\ ~Blocked(w) BY <1>5 DEF AddVersion
  <2>2. CASE (\A v \in Visible(w) : ~Clash(v, NewVersion(w))) /\ FieldsInsertable(FieldRows(HeaderOf(w)))
    <3>1. tx'[w].versions = tx[w].versions \cup {NewVersion(w)} /\ pc'[w] = "quality"
      BY <1>5, <2>2 DEF AddVersion, Shape, WorkerShape
    <3> QED BY <2>1, <2>2, <3>1, NumberingAdded
  <2>3. CASE ~((\A v \in Visible(w) : ~Clash(v, NewVersion(w))) /\ FieldsInsertable(FieldRows(HeaderOf(w))))
    <3>1. tx' = tx /\ pc'[w] = "aborted" BY <1>5, <2>3 DEF AddVersion, Shape
    <3> QED BY <2>1, <3>1, NumberingKept
  <2> QED BY <2>2, <2>3
<1>6. CASE Analyse(w)
  <2>1. versions' = versions BY <1>6 DEF Analyse
  <2>2. CASE \E record : Finish(w, record) BY <1>f, <2>1, <2>2
  <2>3. CASE To(w, "aborted") /\ UNCHANGED <<todo, tx, local>>
    <3>1. tx' = tx /\ pc'[w] = "aborted" BY <2>3 DEF Shape
    <3> QED BY <2>1, <3>1, NumberingKept
  <2> QED BY <1>6, <2>2, <2>3 DEF Analyse
<1>7. CASE Commit(w) BY <1>7, NumberingCommitted
<1>8. CASE RollBack(w)
  <2>1. versions' = versions /\ tx'[w].versions = {} /\ pc'[w] # "insert"
    BY <1>8 DEF RollBack, Shape, NoWrites
  <2> QED BY <2>1, NumberingKept
<1> QED BY <1>1, <1>2, <1>3, <1>4, <1>5, <1>6, <1>7, <1>8 DEF Step

-----------------------------------------------------------------------------
(* What the rules say of a file.                                             *)

Drift == {"MISSING_FIELD", "SCHEMA_MISMATCH"}

(* Every structural role has a column and every required name is there.      *)
Complete(f) ==
  /\ \A r \in DOMAIN RoleSpecs : RoleSpecs[r].required => RoleColumn(Header(f), r) # 0
  /\ \A s \in Range(Dictionary) : s.required => s.name \in Range(Header(f))

(* The rules about one field never speak of drift and are never critical.     *)
LEMMA FieldFindings ==
  ASSUME NEW p, NEW i, NEW x \in FieldRules(p, i)
  PROVE  x.rule \notin Drift /\ x.severity # "CRITICAL"
BY DEF FieldRules, Finding, If, Drift

(* The same of the rules about duplicates, empty columns and cardinalities.   *)
LEMMA OtherFindings ==
  ASSUME NEW p, NEW x,
         \/ x \in DuplicateRules(p) \cup AllNullRule(p)
         \/ \E e, o : x \in CardinalityRule("UNEXPECTED_CONNECTOR_CARDINALITY", e, o)
         \/ \E e, o : x \in CardinalityRule("UNEXPECTED_SMR_CARDINALITY", e, o)
  PROVE  x.rule \notin Drift /\ x.severity # "CRITICAL"
BY DEF DuplicateRules, AllNullRule, CardinalityRule, Finding, If, Drift

(* The timestamp rule is critical only beyond the tolerance.                  *)
LEMMA TimestampFindings ==
  ASSUME NEW p, NEW x \in TimestampRules(p)
  PROVE  x.rule \notin Drift /\ (x.severity = "CRITICAL" => ~WithinTolerance(p.timestamps))
BY DEF TimestampRules, Finding, If, Drift

(* The header rule is critical exactly when something required is missing.    *)
LEMMA HeaderFindings ==
  ASSUME NEW f \in Files, NEW p, p = Profiles[f]
  PROVE  /\ \A x \in HeaderRules(p) : x.rule \notin Drift
         /\ (\E x \in HeaderRules(p) : x.severity = "CRITICAL") <=> ~Complete(f)
<1>1. p.header = Header(f) BY DEF Profiles, Profile
<1>0. ASSUME NEW x \in HeaderRules(p)
      PROVE  \/ \E n, k : x = Finding("DUPLICATE_HEADER", "FILE", "WARNING", n, None, k, None)
             \/ \E s \in {t \in Range(Dictionary) : t.required /\ t.name \notin Range(p.header)} :
                  x = Finding("MISSING_REQUIRED_FIELD", "FILE", "CRITICAL", s.name, None, 1, s.canonical)
             \/ \E r \in MissingRoles(p.header) :
                  x = Finding("MISSING_REQUIRED_FIELD", "FILE", "CRITICAL", None, None, 1, r)
             \/ \E k, u : x = Finding("UNKNOWN_FIELD", "FIELD", "INFO", None, None, k, u)
  BY DEF HeaderRules, If
<1>2. \A x \in HeaderRules(p) : x.rule \notin Drift BY <1>0 DEF Finding, Drift
<1>3. ASSUME NEW x \in HeaderRules(p), x.severity = "CRITICAL" PROVE ~Complete(f)
  <2>1. \/ \E s \in {t \in Range(Dictionary) : t.required /\ t.name \notin Range(p.header)} : TRUE
        \/ \E r \in MissingRoles(p.header) : TRUE
    BY <1>0, <1>3 DEF Finding
  <2> QED BY <1>1, <2>1 DEF Complete, MissingRoles
<1>4. ASSUME ~Complete(f) PROVE \E x \in HeaderRules(p) : x.severity = "CRITICAL"
  <2>1. CASE \E s \in Range(Dictionary) : s.required /\ s.name \notin Range(Header(f))
    <3>1. PICK s \in Range(Dictionary) : s.required /\ s.name \notin Range(p.header) BY <1>1, <2>1
    <3> DEFINE x == Finding("MISSING_REQUIRED_FIELD", "FILE", "CRITICAL", s.name, None, 1, s.canonical)
    <3>2. x \in HeaderRules(p) BY <3>1 DEF HeaderRules
    <3>3. x.severity = "CRITICAL" BY DEF Finding
    <3> QED BY <3>2, <3>3
  <2>2. CASE \E r \in DOMAIN RoleSpecs : RoleSpecs[r].required /\ RoleColumn(Header(f), r) = 0
    <3>1. PICK r \in MissingRoles(p.header) : TRUE BY <1>1, <2>2 DEF MissingRoles
    <3> DEFINE x == Finding("MISSING_REQUIRED_FIELD", "FILE", "CRITICAL", None, None, 1, r)
    <3>2. x \in HeaderRules(p) BY <3>1 DEF HeaderRules
    <3>3. x.severity = "CRITICAL" BY DEF Finding
    <3> QED BY <3>2, <3>3
  <2> QED BY <1>4, <2>1, <2>2 DEF Complete
<1> QED BY <1>2, <1>3, <1>4

(* A rule with one finding tells what the finding counts and lists.           *)
LEMMA OneFindingTells ==
  ASSUME NEW F, NEW rule, NEW S,
         {y \in F : y.rule = rule}
           = If(S # {}, Finding(rule, "FILE", "WARNING", None, None, Cardinality(S), Shortened(S)))
  PROVE  Tells(F, rule, S)
<1> DEFINE x == Finding(rule, "FILE", "WARNING", None, None, Cardinality(S), Shortened(S))
           told == <<Cardinality(S), Shortened(S)>>
           Z == {y \in F : y.rule = rule}
<1>1. Z = If(S # {}, x)
  OBVIOUS
<1>2. <<x.count, x.details>> = told
  BY DEF Finding
<1> HIDE DEF x, Z, told
<1>3. {<<y.count, y.details>> : y \in Z} = If(S # {}, told)
  <2>1. CASE S = {}
    BY <1>1, <2>1 DEF If
  <2>2. CASE S # {}
    <3>1. Z = {x}
      BY <1>1, <2>2 DEF If
    <3>2. {<<y.count, y.details>> : y \in Z} = {<<x.count, x.details>>}
      BY <3>1, Zenon
    <3> QED
      BY <1>2, <2>2, <3>2 DEF If
  <2> QED
    BY <2>1, <2>2
<1> QED
  BY <1>3, Zenon DEF Tells, Z, told

(* Of a file whose event times read: the findings about drift are exactly     *)
(* what the comparison said, and one is critical exactly when something       *)
(* required is missing.                                                       *)
LEMMA EvaluateFacts ==
  ASSUME NEW f \in Files, ~Unusable(f), NEW c, NEW F,
         F = Evaluate(Profiles[f], c.missing, c.additional)
  PROVE  /\ HasCritical(F) <=> ~Complete(f)
         /\ Tells(F, "MISSING_FIELD", c.missing)
         /\ Tells(F, "SCHEMA_MISMATCH", c.additional)
<1> DEFINE p == Profiles[f]
           D == DriftRule(c.missing, c.additional)
           C == CardinalityRule("UNEXPECTED_CONNECTOR_CARDINALITY", ExpectedConnectors, p.connectors)
           S == CardinalityRule("UNEXPECTED_SMR_CARDINALITY", ExpectedSmrs, p.smrs)
           U == UNION {FieldRules(p, i) : i \in DOMAIN p.header}
<1>0. F = HeaderRules(p) \cup TimestampRules(p) \cup DuplicateRules(p) \cup AllNullRule(p)
          \cup C \cup S \cup U \cup D
  BY Zenon DEF Evaluate
<1>1. WithinTolerance(p.timestamps) BY DEF Unusable
<1>2. ASSUME NEW x \in F, x \notin D
      PROVE  x.rule \notin Drift /\ (x.severity = "CRITICAL" => x \in HeaderRules(p))
  <2>1. CASE x \in HeaderRules(p) BY <2>1, HeaderFindings
  <2>2. CASE x \in TimestampRules(p) BY <1>1, <2>2, TimestampFindings
  <2>3. CASE x \in U
    <3>1. PICK i \in DOMAIN p.header : x \in FieldRules(p, i) BY <2>3
    <3> QED BY <3>1, FieldFindings
  <2>4. CASE \/ x \in DuplicateRules(p) \cup AllNullRule(p)
             \/ \E e, o : x \in CardinalityRule("UNEXPECTED_CONNECTOR_CARDINALITY", e, o)
             \/ \E e, o : x \in CardinalityRule("UNEXPECTED_SMR_CARDINALITY", e, o)
    BY <2>4, OtherFindings
  <2>5. CASE x \in C \cup S
    <3>1. \/ \E e, o : x \in CardinalityRule("UNEXPECTED_CONNECTOR_CARDINALITY", e, o)
          \/ \E e, o : x \in CardinalityRule("UNEXPECTED_SMR_CARDINALITY", e, o)
      BY <2>5
    <3> QED BY <2>4, <3>1
  <2> HIDE DEF p, C, D, S, U
  <2> QED BY <1>0, <1>2, <2>1, <2>2, <2>3, <2>4, <2>5
<1>3. \A x \in D : x.severity # "CRITICAL" BY DEF DriftRule, If, Finding
<1>4. HeaderRules(p) \subseteq F /\ D \subseteq F
  <2> HIDE DEF p, C, D, S, U
  <2> QED BY <1>0
<1>5. HasCritical(F) <=> ~Complete(f)
  BY <1>2, <1>3, <1>4, HeaderFindings DEF HasCritical
<1>6. ASSUME NEW rule \in Drift PROVE {y \in F : y.rule = rule} = {y \in D : y.rule = rule}
  BY <1>2, <1>4
<1>d. /\ {y \in D : y.rule = "MISSING_FIELD"}
           = If(c.missing # {}, Finding("MISSING_FIELD", "FILE", "WARNING", None, None,
                                        Cardinality(c.missing), Shortened(c.missing)))
      /\ {y \in D : y.rule = "SCHEMA_MISMATCH"}
           = If(c.additional # {}, Finding("SCHEMA_MISMATCH", "FILE", "WARNING", None, None,
                                           Cardinality(c.additional), Shortened(c.additional)))
  <2> DEFINE a == Finding("MISSING_FIELD", "FILE", "WARNING", None, None,
                          Cardinality(c.missing), Shortened(c.missing))
             b == Finding("SCHEMA_MISMATCH", "FILE", "WARNING", None, None,
                          Cardinality(c.additional), Shortened(c.additional))
  <2>1. D = If(c.missing # {}, a) \cup If(c.additional # {}, b) BY Zenon DEF DriftRule
  <2>2. a.rule = "MISSING_FIELD" /\ b.rule = "SCHEMA_MISMATCH" BY DEF Finding
  <2> HIDE DEF a, b, D
  <2>3. /\ {y \in D : y.rule = "MISSING_FIELD"} = If(c.missing # {}, a)
        /\ {y \in D : y.rule = "SCHEMA_MISMATCH"} = If(c.additional # {}, b)
    BY <2>1, <2>2 DEF If
  <2> QED BY <2>3 DEF a, b
<1> HIDE DEF D
<1>7. Tells(F, "MISSING_FIELD", c.missing)
  <2>1. {y \in F : y.rule = "MISSING_FIELD"}
          = If(c.missing # {}, Finding("MISSING_FIELD", "FILE", "WARNING", None, None,
                                       Cardinality(c.missing), Shortened(c.missing)))
    BY <1>6, <1>d DEF Drift
  <2> QED BY <2>1, OneFindingTells
<1>8. Tells(F, "SCHEMA_MISMATCH", c.additional)
  <2>1. {y \in F : y.rule = "SCHEMA_MISMATCH"}
          = If(c.additional # {}, Finding("SCHEMA_MISMATCH", "FILE", "WARNING", None, None,
                                          Cardinality(c.additional), Shortened(c.additional)))
    BY <1>6, <1>d DEF Drift
  <2> QED BY <2>1, OneFindingTells
<1> QED BY <1>5, <1>7, <1>8

-----------------------------------------------------------------------------
(* The results.                                                              *)

(* A result of file f, beside the versions V.                                *)
SoundResult(f, r, V) ==
  /\ r.status \in Statuses
  /\ r.version = None => r.status = "QUARANTINED" /\ Unusable(f)
  /\ r.version # None =>
       /\ ~Unusable(f) /\ (r.status = "READY_FOR_NORMALIZATION" <=> Complete(f))
       /\ \E v \in V : v.number = r.version /\ v.header = Header(f)

(* g comes before f in one of the runs G.                                     *)
InRun(G, g, f) == \E w \in Workers : \E i, j \in DOMAIN G[w] : i < j /\ g = G[w][i] /\ f = G[w][j]

(* The drift of f's result in R is none, or it is that beside an earlier      *)
(* version that no version of an earlier file of the run follows.             *)
TracedTo(G, f, R, u) ==
  /\ u.number < R[f].version
  /\ Tells(R[f].findings, "MISSING_FIELD", Known(u) \ Identities(Header(f)))
  /\ Tells(R[f].findings, "SCHEMA_MISMATCH", Identities(Header(f)) \ Known(u))
  /\ \A g \in DOMAIN R : InRun(G, g, f) /\ R[g].version # None =>
       R[g].version \notin u.number + 1 .. R[f].version - 1

Undrifted(r) ==
  Tells(r.findings, "MISSING_FIELD", {}) /\ Tells(r.findings, "SCHEMA_MISMATCH", {})

SoundResults(G, R, V) ==
  \A f \in DOMAIN R :
    /\ SoundResult(f, R[f], V)
    /\ R[f].version # None => Undrifted(R[f]) \/ \E u \in V : TracedTo(G, f, R, u)

(* The current file was compared with u, as new as any version the run knew.  *)
ComparedWith(w, u) ==
  /\ local[w].compared.missing = Known(u) \ Identities(HeaderOf(w))
  /\ local[w].compared.additional = Identities(HeaderOf(w)) \ Known(u)
  /\ \A g \in DOMAIN tx[w].records :
       tx[w].records[g].version # None => tx[w].records[g].version <= u.number
  /\ pc[w] = "insert" => u.number < local[w].number
  /\ pc[w] = "quality" => \A v \in Registered(w) : u.number < v.number

NoDriftRead(w) == local[w].compared.missing = {} /\ local[w].compared.additional = {}

(* Where a worker is with its current file, and what its results stand for.   *)
Underway(w) ==
  /\ ~Ended(w) => DOMAIN tx[w].records = {given[w][i] : i \in 1..(Len(given[w]) - Len(todo[w]))}
  /\ pc[w] \in {"compare", "number", "insert", "quality"} => ~Unusable(Current(w))
  /\ pc[w] = "quality" => Registered(w) # {}
  /\ pc[w] \in {"number", "insert", "quality"} =>
       NoDriftRead(w) \/ \E u \in Visible(w) : ComparedWith(w, u)
  /\ pc[w] # "aborted" => \A v \in tx[w].versions :
       \/ \E f \in DOMAIN tx[w].records : tx[w].records[f].version = v.number
       \/ pc[w] = "quality" /\ v.header = HeaderOf(w)

Results ==
  /\ \A f \in DOMAIN records : \E w \in Workers : pc[w] = "committed" /\ f \in Range(given[w])
  /\ SoundResults(given, records, versions)
  /\ \A w \in Workers : SoundResults(given, tx[w].records, Visible(w)) /\ Underway(w)

(* Results stay sound when versions are added.                               *)
LEMMA MoreVersions ==
  ASSUME NEW G, NEW R, NEW V, SoundResults(G, R, V), NEW W, V \subseteq W
  PROVE  SoundResults(G, R, W)
BY DEF SoundResults, SoundResult

(* Soundness after a step is soundness of the values after it.               *)
LEMMA ResultsAfter ==
  /\ SoundResults(given, records, versions)' <=> SoundResults(given', records', versions')
  /\ \A w \in Workers : SoundResults(given, tx[w].records, Visible(w))'
                         <=> SoundResults(given', tx'[w].records, Visible(w)')
BY Zenon DEF SoundResults, SoundResult, TracedTo, InRun, Undrifted, Unusable, Complete, Tells, Known,
             Header, Identities, Occurrence, Visible

(* The files of a result are the worker's.                                   *)
LEMMA OwnFiles ==
  ASSUME Shape, Results, NEW w \in Workers
  PROVE  /\ DOMAIN tx[w].records \subseteq Range(given[w])
         /\ pc[w] # "committed" => Range(given[w]) \cap DOMAIN records = {}
         /\ Range(given[w]) \subseteq Files
<1>1. given[w] \in Seq(Files) /\ Len(todo[w]) \in Nat /\ Len(given[w]) \in Nat
  BY DEF Shape, WorkerShape
<1>2. DOMAIN tx[w].records \subseteq Range(given[w])
  <2>1. CASE Ended(w)
    <3>1. tx[w].records = <<>> BY <2>1 DEF Shape, WorkerShape, NoWrites
    <3> QED BY <3>1
  <2>2. CASE ~Ended(w)
    <3>1. DOMAIN tx[w].records = {given[w][i] : i \in 1..(Len(given[w]) - Len(todo[w]))}
      BY <2>2 DEF Results, Underway
    <3>2. \A i \in 1..(Len(given[w]) - Len(todo[w])) : i \in DOMAIN given[w] BY <1>1
    <3> QED BY <3>1, <3>2 DEF Range
  <2> QED BY <2>1, <2>2
<1>3. Range(given[w]) \subseteq Files BY <1>1 DEF Range
<1>4. pc[w] # "committed" => Range(given[w]) \cap DOMAIN records = {}
  BY DEF Shape, Results
<1> QED BY <1>2, <1>3, <1>4

(* Only files of one run precede each other.                                 *)
LEMMA PrecedesWithin ==
  ASSUME Shape, NEW w \in Workers, NEW f \in Range(given[w]), NEW g, InRun(given, g, f)
  PROVE  /\ g \in Range(given[w]) /\ g # f
         /\ \E i, j \in DOMAIN given[w] : i < j /\ g = given[w][i] /\ f = given[w][j]
<1>0. PICK o \in Workers : \E i, j \in DOMAIN given[o] : i < j /\ g = given[o][i] /\ f = given[o][j]
  BY DEF InRun
<1>1. PICK i \in DOMAIN given[o], j \in DOMAIN given[o] : i < j /\ g = given[o][i] /\ f = given[o][j]
  BY <1>0
<1>2. f \in Range(given[o]) /\ g \in Range(given[o]) BY <1>1 DEF Range
<1>3. o = w BY <1>2 DEF Shape
<1>4. i \in Nat /\ j \in Nat BY DEF Shape, WorkerShape
<1>5. g # f BY <1>1, <1>4 DEF Shape, WorkerShape
<1> QED BY <1>1, <1>2, <1>3, <1>5

(* What other workers commit leaves a worker's position sound.               *)
LEMMA OthersUnderway ==
  ASSUME Shape, Numbering, Numbering', Results, NEW w \in Workers, OnlyHis(w), NEW o \in Workers, o # w,
         Visible(o) \subseteq Visible(o)'
  PROVE  (SoundResults(given, tx[o].records, Visible(o)) /\ Underway(o))'
<1>1. given' = given /\ todo'[o] = todo[o] /\ pc'[o] = pc[o] /\ tx'[o] = tx[o] /\ local'[o] = local[o]
  BY DEF OnlyHis
<1>2. Underway(o) /\ SoundResults(given, tx[o].records, Visible(o)) BY DEF Results
<1>3. SoundResults(given, tx[o].records, Visible(o)') BY <1>2, MoreVersions
<1>4. SoundResults(given, tx[o].records, Visible(o))' BY <1>1, <1>3, ResultsAfter
<1>5. HeaderOf(o)' = HeaderOf(o) /\ Current(o)' = Current(o) BY <1>1 DEF HeaderOf, Current
<1>6. Registered(o) \subseteq Registered(o)' BY <1>5 DEF Registered
<1>7. ASSUME pc[o] = "quality" PROVE Registered(o)' = Registered(o)
  <2>1. PICK v \in Registered(o) : TRUE BY <1>2, <1>7 DEF Underway
  <2>2. v \in Visible(o)' /\ v.header = HeaderOf(o) BY <2>1 DEF Registered
  <2>3. ASSUME NEW x \in Registered(o)' PROVE x = v
    <3>1. x \in Visible(o)' /\ x.header = HeaderOf(o) BY <1>5 DEF Registered
    <3>2. \A a, b \in Visible(o)' : a # b => a.header # b.header
      BY DEF Numbering, Consecutive, Clash
    <3> QED BY <2>2, <3>1, <3>2
  <2> QED BY <1>6, <2>1, <2>3
<1>8. ASSUME NEW u \in Visible(o), ComparedWith(o, u) PROVE u \in Visible(o)' /\ ComparedWith(o, u)'
  BY <1>1, <1>5, <1>7, <1>8 DEF ComparedWith, Known
<1>9. Underway(o)'
  BY <1>1, <1>2, <1>5, <1>6, <1>7, <1>8 DEF Underway, Ended, NoDriftRead, Unusable
<1> QED BY <1>4, <1>9

(* The committed results are not touched by a step that commits nothing.     *)
LEMMA CommittedKept ==
  ASSUME Shape, Results, NEW w \in Workers, OnlyHis(w), versions' = versions, records' = records,
         pc[w] # "committed"
  PROVE  /\ SoundResults(given, records, versions)'
         /\ \A f \in DOMAIN records' : \E o \in Workers : pc'[o] = "committed" /\ f \in Range(given'[o])
<1>1. given' = given /\ SoundResults(given, records, versions) BY DEF OnlyHis, Results
<1>2. SoundResults(given, records, versions)'
  BY <1>1, ResultsAfter
<1>3. ASSUME NEW f \in DOMAIN records
      PROVE  \E o \in Workers : pc'[o] = "committed" /\ f \in Range(given[o])
  <2>1. PICK o \in Workers : pc[o] = "committed" /\ f \in Range(given[o]) BY DEF Results
  <2> QED BY <2>1 DEF OnlyHis
<1> QED BY <1>1, <1>2, <1>3

(* So a step that commits nothing is judged by the worker's own position.     *)
LEMMA ResultsKept ==
  ASSUME Shape, Numbering, Numbering', Results, NEW w \in Workers, OnlyHis(w),
         versions' = versions, records' = records, pc[w] # "committed",
         SoundResults(given, tx[w].records, Visible(w))', Underway(w)'
  PROVE  Results'
<1>1. ASSUME NEW o \in Workers PROVE (SoundResults(given, tx[o].records, Visible(o)) /\ Underway(o))'
  <2>1. CASE o = w BY <2>1
  <2>2. CASE o # w
    <3>1. Visible(o)' = Visible(o) BY <2>2 DEF Visible, OnlyHis
    <3> QED BY <2>2, <3>1, OthersUnderway
  <2> QED BY <2>1, <2>2
<1> QED BY <1>1, CommittedKept DEF Results

(* Writing the result of the current file keeps the results of the run.       *)
LEMMA ResultAdded ==
  ASSUME Shape, Results, NEW w \in Workers, todo[w] # <<>>, ~Ended(w),
         NEW r, NEW V, SoundResults(given, tx[w].records, V),
         SoundResult(Current(w), r, V),
         r.version # None =>
           \/ Undrifted(r)
           \/ \E u \in V :
                /\ u.number \in Nat /\ r.version \in Nat /\ u.number < r.version
                /\ Tells(r.findings, "MISSING_FIELD", Known(u) \ Identities(HeaderOf(w)))
                /\ Tells(r.findings, "SCHEMA_MISMATCH", Identities(HeaderOf(w)) \ Known(u))
                /\ \A g \in DOMAIN tx[w].records : tx[w].records[g].version # None =>
                     tx[w].records[g].version \in Nat /\ tx[w].records[g].version <= u.number
  PROVE  SoundResults(given, Overlay(tx[w].records, [h \in {Current(w)} |-> r]), V)
<1> DEFINE f == Current(w)
           R == tx[w].records
           Q == Overlay(R, [h \in {f} |-> r])
           n == Len(given[w]) - Len(todo[w])
<1>1. /\ f \in Files /\ n + 1 \in DOMAIN given[w] /\ f = given[w][n + 1]
      /\ Len(todo[w]) \in Nat \ {0} /\ Len(given[w]) \in Nat
  BY CurrentFile DEF Shape
<1>2. DOMAIN R = {given[w][i] : i \in 1..n} BY DEF Results, Underway
<1>3. DOMAIN given[w] = 1..Len(given[w]) /\ n \in Nat
  BY <1>1 DEF Shape, WorkerShape
<1>4. f \in Range(given[w]) BY <1>1 DEF Range
<1>5. DOMAIN R \subseteq Range(given[w]) BY OwnFiles
<1>6. DOMAIN Q = {f} \cup DOMAIN R BY DEF Overlay
<1>7. Q[f] = r /\ \A g \in DOMAIN R : g # f => Q[g] = R[g] BY DEF Overlay
<1>8. ASSUME NEW h \in DOMAIN R PROVE h # f /\ ~InRun(given, f, h)
  <2>1. PICK i \in 1..n : h = given[w][i] BY <1>2
  <2>2. i \in DOMAIN given[w] /\ i # n + 1 /\ i < n + 1
    <3> HIDE DEF n
    <3> QED BY <1>1, <1>3, <2>1
  <2>3. h # f BY <1>1, <2>1, <2>2 DEF Shape, WorkerShape
  <2>4. ASSUME InRun(given, f, h) PROVE FALSE
    <3>1. h \in Range(given[w]) BY <1>5
    <3>2. PICK a \in DOMAIN given[w], b \in DOMAIN given[w] : a < b /\ f = given[w][a] /\ h = given[w][b]
      BY <2>4, <3>1, PrecedesWithin
    <3> HIDE DEF n
    <3>0. \A x, y \in DOMAIN given[w] : given[w][x] = given[w][y] => x = y BY DEF Shape, WorkerShape
    <3>3. a = n + 1 /\ b = i BY <1>1, <2>1, <2>2, <3>0, <3>2
    <3> QED BY <1>3, <2>1, <2>2, <3>2, <3>3
  <2> QED BY <2>3, <2>4
<1> HIDE DEF f, R, Q, n
<1>9. ASSUME NEW h \in DOMAIN R
      PROVE  /\ SoundResult(h, Q[h], V)
             /\ Q[h].version # None => Undrifted(Q[h]) \/ \E u \in V : TracedTo(given, h, Q, u)
  <2>1. Q[h] = R[h] /\ h # f /\ ~InRun(given, f, h) BY <1>7, <1>8
  <2>2. SoundResult(h, R[h], V) /\ (R[h].version # None => Undrifted(R[h]) \/ \E u \in V : TracedTo(given, h, R, u))
    BY DEF SoundResults, R
  <2>3. ASSUME NEW u \in V, TracedTo(given, h, R, u) PROVE TracedTo(given, h, Q, u)
    <3>1. ASSUME NEW g \in DOMAIN Q, InRun(given, g, h), Q[g].version # None
          PROVE  Q[g].version \notin u.number + 1 .. Q[h].version - 1
      <4>1. g # f /\ g \in DOMAIN R BY <1>6, <2>1, <3>1
      <4>2. Q[g] = R[g] BY <1>7, <4>1
      <4> QED BY <2>1, <2>3, <3>1, <4>1, <4>2 DEF TracedTo
    <3> QED BY <2>1, <2>3, <3>1 DEF TracedTo
  <2> QED BY <2>1, <2>2, <2>3
<1>10. ASSUME r.version # None, ~Undrifted(r) PROVE \E u \in V : TracedTo(given, f, Q, u)
  <2>1. PICK u \in V :
          /\ u.number \in Nat /\ r.version \in Nat /\ u.number < r.version
          /\ Tells(r.findings, "MISSING_FIELD", Known(u) \ Identities(HeaderOf(w)))
          /\ Tells(r.findings, "SCHEMA_MISMATCH", Identities(HeaderOf(w)) \ Known(u))
          /\ \A g \in DOMAIN R : R[g].version # None => R[g].version \in Nat /\ R[g].version <= u.number
    BY <1>10 DEF R
  <2>2. HeaderOf(w) = Header(f) BY DEF HeaderOf, f
  <2>3. ASSUME NEW g \in DOMAIN Q, InRun(given, g, f), Q[g].version # None
        PROVE  Q[g].version \notin u.number + 1 .. Q[f].version - 1
    <3>1. g # f BY <1>4, <2>3, PrecedesWithin
    <3>2. g \in DOMAIN R /\ Q[g] = R[g] BY <1>6, <1>7, <3>1
    <3>3. R[g].version \in Nat /\ R[g].version <= u.number BY <2>1, <2>3, <3>2
    <3>4. R[g].version \notin u.number + 1 .. r.version - 1 BY <2>1, <3>3
    <3> QED BY <1>7, <3>2, <3>4
  <2>4. TracedTo(given, f, Q, u) BY <1>7, <2>1, <2>2, <2>3 DEF TracedTo
  <2> QED BY <2>4
<1>11. SoundResult(f, Q[f], V) BY <1>7 DEF f
<1>12. SoundResults(given, Q, V) BY <1>6, <1>7, <1>9, <1>10, <1>11 DEF SoundResults
<1> QED BY <1>12 DEF Q, f, R

(* After the result is written the worker stands at its next file.            *)
LEMMA Finished ==
  ASSUME Shape, Numbering, Results, NEW w \in Workers, OnlyHis(w), todo[w] # <<>>, ~Ended(w),
         pc[w] # "aborted", versions' = versions, NEW r, Finish(w, r),
         SoundResults(given, Overlay(tx[w].records, [h \in {Current(w)} |-> r]), Visible(w)),
         \A h \in DOMAIN tx[w].records : h # Current(w),
         pc[w] = "quality" => \A v \in tx[w].versions : v.header = HeaderOf(w) => v.number = r.version
  PROVE  SoundResults(given, tx[w].records, Visible(w))' /\ Underway(w)'
<1> DEFINE f == Current(w)
           R == tx[w].records
           Q == Overlay(R, [h \in {f} |-> r])
           n == Len(given[w]) - Len(todo[w])
<1>1. /\ given' = given /\ todo'[w] = Tail(todo[w]) /\ pc'[w] = "file"
      /\ tx'[w] = [versions |-> tx[w].versions, records |-> Q]
  BY DEF Finish, To, Shape, WorkerShape, OnlyHis
<1>2. Visible(w)' = Visible(w) BY <1>1 DEF Visible
<1>3. SoundResults(given, tx[w].records, Visible(w))' BY <1>1, <1>2, ResultsAfter
<1>4. DOMAIN Q = {f} \cup DOMAIN R /\ Q[f] = r /\ \A g \in DOMAIN R : g # f => Q[g] = R[g]
  BY DEF Overlay
<1>5. f = given[w][n + 1] /\ Len(todo[w]) \in Nat \ {0} /\ Len(given[w]) \in Nat /\ Len(todo[w]) <= Len(given[w])
  BY CurrentFile DEF Shape, WorkerShape
<1>6. DOMAIN R = {given[w][i] : i \in 1..n} BY DEF Results, Underway
<1>7. Len(todo'[w]) = Len(todo[w]) - 1 BY <1>1, NextFile DEF Shape
<1>8. 1..(Len(given[w]) - Len(todo'[w])) = (1..n) \cup {n + 1}
  <2>1. n \in Nat /\ Len(given[w]) - Len(todo'[w]) = n + 1 BY <1>5, <1>7
  <2>2. \A a \in Nat : 1..(a + 1) = (1..a) \cup {a + 1} OBVIOUS
  <2> HIDE DEF n
  <2> QED BY <2>1, <2>2
<1>9. DOMAIN Q = {given[w][i] : i \in 1..(Len(given[w]) - Len(todo'[w]))}
  <2> HIDE DEF Q, R, f, n
  <2> QED BY <1>4, <1>5, <1>6, <1>8
<1>10. ASSUME NEW v \in tx[w].versions PROVE \E h \in DOMAIN Q : Q[h].version = v.number
  <2>1. CASE \E h \in DOMAIN R : R[h].version = v.number
    <3>1. PICK h \in DOMAIN R : R[h].version = v.number BY <2>1
    <3>2. h \in DOMAIN Q /\ Q[h] = R[h] BY <1>4, <3>1
    <3> HIDE DEF Q, R
    <3> QED BY <3>1, <3>2
  <2>2. CASE pc[w] = "quality" /\ v.header = HeaderOf(w)
    <3>1. r.version = v.number BY <2>2
    <3>2. f \in DOMAIN Q /\ Q[f].version = v.number BY <1>4, <3>1
    <3> QED BY <3>2
  <2> QED BY <2>1, <2>2 DEF Results, Underway
<1> HIDE DEF Q, R, f, n
<1>11. Underway(w)'
  <2>1. /\ tx'[w].records = Q /\ tx'[w].versions = tx[w].versions BY <1>1
  <2>2. DOMAIN tx'[w].records = {given'[w][i] : i \in 1..(Len(given'[w]) - Len(todo'[w]))}
    BY <1>1, <1>9, <2>1
  <2>3. \A v \in tx'[w].versions : \E h \in DOMAIN tx'[w].records : tx'[w].records[h].version = v.number
    BY <1>10, <2>1
  <2> QED BY <1>1, <2>2, <2>3 DEF Underway
<1> QED BY <1>3, <1>11

(* The current file has no result yet.                                       *)
LEMMA NotYet ==
  ASSUME Shape, Results, NEW w \in Workers, todo[w] # <<>>, ~Ended(w)
  PROVE  \A h \in DOMAIN tx[w].records : h # Current(w)
<1> SUFFICES ASSUME NEW h \in DOMAIN tx[w].records, h = Current(w) PROVE FALSE
  OBVIOUS
<1> DEFINE n == Len(given[w]) - Len(todo[w])
<1>0. /\ n + 1 \in DOMAIN given[w] /\ h = given[w][n + 1]
      /\ Len(todo[w]) \in Nat \ {0} /\ Len(given[w]) \in Nat
  BY CurrentFile DEF Shape
<1>1. /\ n + 1 \in DOMAIN given[w] /\ h = given[w][n + 1]
      /\ Len(todo[w]) \in Nat \ {0} /\ Len(given[w]) \in Nat /\ DOMAIN given[w] = 1..Len(given[w])
  BY <1>0 DEF Shape, WorkerShape
<1>2. PICK i \in 1..n : h = given[w][i]
  <2>1. DOMAIN tx[w].records = {given[w][i] : i \in 1..n} BY DEF Results, Underway
  <2> QED BY <2>1
<1>3. \A x, y \in DOMAIN given[w] : given[w][x] = given[w][y] => x = y BY DEF Shape, WorkerShape
<1>4. n \in Int BY <1>1
<1> HIDE DEF n
<1>5. i \in DOMAIN given[w] /\ i # n + 1 BY <1>1, <1>2, <1>4
<1> QED BY <1>1, <1>2, <1>3, <1>5

(* A rejected file.                                                          *)
LEMMA RejectResults ==
  ASSUME Shape, Numbering, Results, NEW w \in Workers, OnlyHis(w), Reject(w)
  PROVE  SoundResults(given, tx[w].records, Visible(w))' /\ Underway(w)'
<1>1. /\ todo[w] # <<>> /\ ~Ended(w) /\ pc[w] = "file" /\ Unusable(Current(w))
      /\ Finish(w, Rejected) /\ versions' = versions
  BY DEF Reject, Ended
<1>2. SoundResult(Current(w), Rejected, Visible(w)) /\ Rejected.version = None
  BY <1>1 DEF SoundResult, Rejected, Statuses
<1>3. SoundResults(given, tx[w].records, Visible(w)) BY DEF Results
<1>4. SoundResults(given, Overlay(tx[w].records, [h \in {Current(w)} |-> Rejected]), Visible(w))
  BY <1>1, <1>2, <1>3, ResultAdded
<1> QED BY <1>1, <1>4, NotYet, Finished

(* The newest of numbered versions.                                          *)
LEMMA NewestFacts ==
  ASSUME NEW V, Consecutive(V), V # {}
  PROVE  Newest(V) \in V /\ \A u \in V : u.number <= Newest(V).number
<1> DEFINE n == Cardinality(V)
<1>1. n \in Nat /\ n # 0 /\ {v.number : v \in V} = 1..n
  BY FS_CardinalityType, FS_EmptySet DEF Consecutive
<1> HIDE DEF n
<1>2. PICK x \in V : x.number = n BY <1>1
<1>3. \A u \in V : u.number <= n BY <1>1
<1>4. \E v \in V : \A u \in V : u.number <= v.number BY <1>2, <1>3
<1> QED BY <1>4 DEF Newest

(* The versions of sound results are among the visible ones.                 *)
LEMMA ResultVersions ==
  ASSUME NEW V, Consecutive(V), NEW G, NEW R, SoundResults(G, R, V), NEW g \in DOMAIN R, R[g].version # None
  PROVE  R[g].version \in Nat \ {0} /\ \E v \in V : v.number = R[g].version
<1>1. PICK v \in V : v.number = R[g].version BY DEF SoundResults, SoundResult
<1>2. v.number \in Nat \ {0} BY DEF Consecutive, Version
<1> QED BY <1>1, <1>2

(* A step that writes nothing and moves the worker inside its file.           *)
LEMMA MovedResults ==
  ASSUME Shape, Numbering, Results, NEW w \in Workers, OnlyHis(w), versions' = versions,
         todo'[w] = todo[w], tx'[w].records = tx[w].records,
         tx'[w].versions = tx[w].versions \/ tx'[w].versions = tx[w].versions \cup {NewVersion(w)},
         ~Ended(w), ~Ended(w)', pc[w] # "aborted", pc[w] # "quality", todo[w] # <<>>, ~Unusable(Current(w)),
         tx'[w].versions # tx[w].versions => pc'[w] = "quality",
         pc'[w] = "quality" => Registered(w)' # {},
         pc'[w] \in {"number", "insert", "quality"} =>
           NoDriftRead(w)' \/ \E u \in Visible(w) : ComparedWith(w, u)'
  PROVE  SoundResults(given, tx[w].records, Visible(w))' /\ Underway(w)'
<1>1. Visible(w) \subseteq Visible(w)' BY DEF Visible
<1>2. SoundResults(given, tx[w].records, Visible(w)) BY DEF Results
<1>3. SoundResults(given, tx[w].records, Visible(w)') BY <1>1, <1>2, MoreVersions
<1>4. given' = given BY DEF OnlyHis
<1>5. SoundResults(given, tx[w].records, Visible(w))' BY <1>3, <1>4, ResultsAfter
<1>6. HeaderOf(w)' = HeaderOf(w) /\ Current(w)' = Current(w) BY DEF HeaderOf, Current
<1>7. ASSUME NEW v \in tx'[w].versions
      PROVE  \/ \E f \in DOMAIN tx[w].records : tx[w].records[f].version = v.number
             \/ pc'[w] = "quality" /\ v.header = HeaderOf(w)
  <2>1. CASE v \in tx[w].versions BY <2>1 DEF Results, Underway
  <2>2. CASE v = NewVersion(w) /\ v \notin tx[w].versions BY <2>2 DEF NewVersion
  <2> QED BY <2>1, <2>2
<1>8. DOMAIN tx[w].records = {given[w][i] : i \in 1..(Len(given[w]) - Len(todo[w]))}
  BY DEF Results, Underway
<1>9. Underway(w)'
  BY <1>1, <1>4, <1>6, <1>7, <1>8 DEF Underway, Unusable
<1> QED BY <1>5, <1>9

(* Looking the header up.                                                    *)
LEMMA FindResults ==
  ASSUME Shape, Numbering, Results, NEW w \in Workers, OnlyHis(w), FindVersion(w)
  PROVE  SoundResults(given, tx[w].records, Visible(w))' /\ Underway(w)'
<1>1. /\ versions' = versions /\ todo' = todo /\ tx' = tx /\ todo[w] # <<>> /\ pc[w] = "file"
      /\ ~Unusable(Current(w)) /\ pc'[w] \in {"quality", "compare"}
      /\ pc'[w] = "quality" => Registered(w) # {} /\ local'[w].compared = Exact
  BY DEF FindVersion, To, Shape, WorkerShape
<1>2. Registered(w)' = Registered(w) BY <1>1 DEF Registered, Visible, HeaderOf, Current
<1>3. pc'[w] = "quality" => NoDriftRead(w)' BY <1>1 DEF NoDriftRead, Exact
<1> QED BY <1>1, <1>2, <1>3, MovedResults DEF Ended

(* Comparing with the newest version.                                        *)
LEMMA CompareResults ==
  ASSUME Shape, Numbering, Results, NEW w \in Workers, OnlyHis(w), CompareWithActive(w)
  PROVE  SoundResults(given, tx[w].records, Visible(w))' /\ Underway(w)'
<1>1. /\ versions' = versions /\ todo' = todo /\ tx' = tx /\ todo[w] # <<>> /\ pc[w] = "compare"
      /\ ~Unusable(Current(w)) /\ pc'[w] = "number"
      /\ local'[w].compared = IF Visible(w) = {} THEN Unknown
                              ELSE Compare(HeaderOf(w), Newest(Visible(w)).fields)
  BY DEF CompareWithActive, To, Shape, WorkerShape, Results, Underway
<1>2. Visible(w)' = Visible(w) /\ HeaderOf(w)' = HeaderOf(w) BY <1>1 DEF Visible, HeaderOf, Current
<1>3. CASE Visible(w) = {}
  <2>1. NoDriftRead(w)' BY <1>1, <1>3 DEF NoDriftRead, Unknown
  <2> QED BY <1>1, <2>1, MovedResults DEF Ended
<1>4. CASE Visible(w) # {}
  <2>1. Consecutive(Visible(w)) BY DEF Numbering
  <2>2. PICK u \in Visible(w) : u = Newest(Visible(w)) /\ \A v \in Visible(w) : v.number <= u.number
    BY <1>4, <2>1, NewestFacts
  <2>3. /\ local'[w].compared.missing = Known(u) \ Identities(HeaderOf(w))
        /\ local'[w].compared.additional = Identities(HeaderOf(w)) \ Known(u)
    BY <1>1, <1>4, <2>2 DEF Compare, Known
  <2>4. SoundResults(given, tx[w].records, Visible(w)) BY DEF Results
  <2>5. \A g \in DOMAIN tx[w].records :
          tx[w].records[g].version # None => tx[w].records[g].version <= u.number
    BY <2>1, <2>2, <2>4, ResultVersions
  <2>6. ComparedWith(w, u)' BY <1>1, <1>2, <2>3, <2>5 DEF ComparedWith, Known
  <2> QED BY <1>1, <2>2, <2>6, MovedResults DEF Ended
<1> QED BY <1>3, <1>4

(* Taking the next number.                                                   *)
LEMMA NumberResults ==
  ASSUME Shape, Numbering, Results, NEW w \in Workers, OnlyHis(w), NextVersionNumber(w)
  PROVE  SoundResults(given, tx[w].records, Visible(w))' /\ Underway(w)'
<1>0. PICK n : /\ n = 1 + Max({0} \cup {v.number : v \in Visible(w)})
               /\ local' = [local EXCEPT ![w].number = n]
  BY DEF NextVersionNumber
<1>1. /\ versions' = versions /\ todo' = todo /\ tx' = tx /\ todo[w] # <<>> /\ pc[w] = "number"
      /\ ~Unusable(Current(w)) /\ pc'[w] = "insert" /\ local'[w].compared = local[w].compared
      /\ local'[w].number = 1 + Max({0} \cup {v.number : v \in Visible(w)})
  <2>1. /\ versions' = versions /\ todo' = todo /\ tx' = tx /\ pc[w] = "number" /\ pc'[w] = "insert"
    BY DEF NextVersionNumber, To, Shape
  <2>2. todo[w] # <<>> /\ ~Unusable(Current(w)) BY <2>1 DEF Shape, WorkerShape, Results, Underway
  <2>3. local'[w].compared = local[w].compared /\ local'[w].number = n
    BY <1>0 DEF Shape, WorkerShape
  <2> QED BY <1>0, <2>1, <2>2, <2>3
<1>2. Visible(w)' = Visible(w) /\ HeaderOf(w)' = HeaderOf(w) BY <1>1 DEF Visible, HeaderOf, Current
<1>3. Consecutive(Visible(w)) BY DEF Numbering
<1>4. Cardinality(Visible(w)) \in Nat /\ local'[w].number = 1 + Cardinality(Visible(w))
  BY <1>1, <1>3, LargestNumber
<1>5. \A u \in Visible(w) : u.number \in 1..Cardinality(Visible(w)) BY <1>3 DEF Consecutive
<1>6. \A u \in Visible(w) : u.number < local'[w].number BY <1>4, <1>5
<1>7. NoDriftRead(w) \/ \E u \in Visible(w) : ComparedWith(w, u) BY <1>1 DEF Results, Underway
<1>8. NoDriftRead(w)' \/ \E u \in Visible(w) : ComparedWith(w, u)'
  BY <1>1, <1>2, <1>6, <1>7 DEF NoDriftRead, ComparedWith, Known
<1> QED BY <1>1, <1>8, MovedResults DEF Ended

(* A rolled back or aborted transaction asks for little.                      *)
LEMMA AbortResults ==
  ASSUME Shape, Numbering, Results, NEW w \in Workers, OnlyHis(w), versions' = versions,
         todo'[w] = todo[w], tx'[w] = tx[w], pc'[w] = "aborted", ~Ended(w)
  PROVE  SoundResults(given, tx[w].records, Visible(w))' /\ Underway(w)'
<1>1. given' = given /\ Visible(w)' = Visible(w) BY DEF OnlyHis, Visible
<1>2. SoundResults(given, tx[w].records, Visible(w))' BY <1>1, ResultsAfter DEF Results
<1>3. DOMAIN tx[w].records = {given[w][i] : i \in 1..(Len(given[w]) - Len(todo[w]))}
  BY DEF Results, Underway
<1> QED BY <1>1, <1>2, <1>3 DEF Underway

(* Inserting the version.                                                    *)
LEMMA AddResults ==
  ASSUME Shape, Numbering, Results, NEW w \in Workers, OnlyHis(w), AddVersion(w)
  PROVE  SoundResults(given, tx[w].records, Visible(w))' /\ Underway(w)'
<1>1. /\ versions' = versions /\ todo' = todo /\ todo[w] # <<>> /\ pc[w] = "insert"
      /\ ~Unusable(Current(w)) /\ local' = local /\ ~Blocked(w)
  BY DEF AddVersion, Shape, WorkerShape, Results, Underway
<1>2. HeaderOf(w)' = HeaderOf(w) BY <1>1 DEF HeaderOf, Current
<1>3. CASE (\A v \in Visible(w) : ~Clash(v, NewVersion(w))) /\ FieldsInsertable(FieldRows(HeaderOf(w)))
  <2>1. /\ tx'[w] = [versions |-> tx[w].versions \cup {NewVersion(w)}, records |-> tx[w].records]
        /\ pc'[w] = "quality"
    <3>1. /\ tx' = [tx EXCEPT ![w].versions = @ \cup {NewVersion(w)}]
          /\ pc' = [pc EXCEPT ![w] = "quality"]
      BY <1>3 DEF AddVersion, To
    <3>2. tx[w] = [versions |-> tx[w].versions, records |-> tx[w].records] BY DEF Shape, WorkerShape
    <3> QED BY <3>1, <3>2 DEF Shape
  <2>2. Visible(w)' = Visible(w) \cup {NewVersion(w)} BY <1>1, <1>3, <2>1, NumberingAdded
  <2>3. NewVersion(w).header = HeaderOf(w) /\ NewVersion(w).number = local[w].number BY DEF NewVersion
  <2>4. Registered(w)' = {NewVersion(w)}
    <3>1. \A v \in Visible(w) : v.header # HeaderOf(w) BY <1>3, <2>3 DEF Clash
    <3> QED BY <1>2, <2>2, <2>3, <3>1 DEF Registered
  <2>5. NoDriftRead(w) \/ \E u \in Visible(w) : ComparedWith(w, u) BY <1>1 DEF Results, Underway
  <2>6. ASSUME NEW u \in Visible(w), ComparedWith(w, u) PROVE ComparedWith(w, u)'
    <3>1. \A v \in Registered(w)' : u.number < v.number BY <1>1, <2>3, <2>4, <2>6 DEF ComparedWith
    <3> QED BY <1>1, <1>2, <2>1, <2>6, <3>1 DEF ComparedWith, Known
  <2>7. NoDriftRead(w)' \/ \E u \in Visible(w) : ComparedWith(w, u)'
    BY <1>1, <2>5, <2>6 DEF NoDriftRead
  <2> QED BY <1>1, <2>1, <2>4, <2>7, MovedResults DEF Ended
<1>4. CASE ~((\A v \in Visible(w) : ~Clash(v, NewVersion(w))) /\ FieldsInsertable(FieldRows(HeaderOf(w))))
  <2>1. tx' = tx /\ pc'[w] = "aborted" BY <1>4 DEF AddVersion, To, Shape
  <2> QED BY <1>1, <2>1, AbortResults DEF Ended
<1> QED BY <1>3, <1>4

(* Judging the file.                                                         *)
LEMMA AnalyseResults ==
  ASSUME Shape, Numbering, Results, NEW w \in Workers, OnlyHis(w), Analyse(w)
  PROVE  SoundResults(given, tx[w].records, Visible(w))' /\ Underway(w)'
<1> DEFINE f == Current(w)
<1>1. /\ versions' = versions /\ pc[w] = "quality" /\ todo[w] # <<>> /\ ~Unusable(f) /\ f \in Files
  BY CurrentFile DEF Analyse, Shape, WorkerShape, Results, Underway
<1>2. PICK v \in Registered(w) :
        LET r == Judged(Profiles[f], local[w].compared, v.number, local[w].number = None)
        IN  \/ HashesDiffer(r.findings) /\ Finish(w, r)
            \/ ~HashesDiffer(r.findings) /\ To(w, "aborted") /\ UNCHANGED <<todo, tx, local>>
  BY DEF Analyse
<1> DEFINE c == local[w].compared
           r == Judged(Profiles[f], c, v.number, local[w].number = None)
<1>3. CASE ~HashesDiffer(r.findings) /\ To(w, "aborted") /\ UNCHANGED <<todo, tx, local>>
  <2>1. tx' = tx /\ todo' = todo /\ pc'[w] = "aborted" BY <1>3 DEF To, Shape
  <2> QED BY <1>1, <2>1, AbortResults DEF Ended
<1>4. CASE Finish(w, r)
  <2>1. v \in Visible(w) /\ v.header = Header(f) BY <1>2 DEF Registered, HeaderOf
  <2>2. Consecutive(Visible(w)) BY DEF Numbering
  <2>3. v.number \in Nat \ {0} BY <2>1, <2>2 DEF Consecutive, Version
  <2>4. r.version = v.number /\ r.version # None BY <2>3, RunsAssumption DEF Judged
  <2>5. r.findings = Evaluate(Profiles[f], c.missing, c.additional) /\ r.status = StatusOf(r.findings)
    BY DEF Judged
  <2>6. /\ HasCritical(r.findings) <=> ~Complete(f)
        /\ Tells(r.findings, "MISSING_FIELD", c.missing)
        /\ Tells(r.findings, "SCHEMA_MISMATCH", c.additional)
    <3> HIDE DEF r, c, f
    <3> QED BY <1>1, <2>5, EvaluateFacts
  <2> HIDE DEF r
  <2>7. SoundResult(f, r, Visible(w))
    BY <1>1, <2>1, <2>4, <2>5, <2>6 DEF SoundResult, StatusOf, Statuses
  <2>8. SoundResults(given, tx[w].records, Visible(w)) BY DEF Results
  <2>9. ASSUME ~Undrifted(r)
        PROVE  \E u \in Visible(w) :
                 /\ u.number \in Nat /\ r.version \in Nat /\ u.number < r.version
                 /\ Tells(r.findings, "MISSING_FIELD", Known(u) \ Identities(HeaderOf(w)))
                 /\ Tells(r.findings, "SCHEMA_MISMATCH", Identities(HeaderOf(w)) \ Known(u))
                 /\ \A g \in DOMAIN tx[w].records : tx[w].records[g].version # None =>
                      tx[w].records[g].version \in Nat /\ tx[w].records[g].version <= u.number
    <3>1. ~NoDriftRead(w) BY <2>6, <2>9 DEF NoDriftRead, Undrifted
    <3>2. PICK u \in Visible(w) : ComparedWith(w, u) BY <1>1, <3>1 DEF Results, Underway
    <3>3. u.number \in Nat BY <2>2 DEF Consecutive, Version
    <3>4. u.number < r.version BY <1>1, <1>2, <2>4, <3>2 DEF ComparedWith
    <3>5. \A g \in DOMAIN tx[w].records : tx[w].records[g].version # None =>
            tx[w].records[g].version \in Nat /\ tx[w].records[g].version <= u.number
      BY <2>2, <2>8, <3>2, ResultVersions DEF ComparedWith
    <3> QED BY <2>3, <2>4, <2>6, <3>2, <3>3, <3>4, <3>5 DEF ComparedWith
  <2>10. SoundResults(given, Overlay(tx[w].records, [h \in {f} |-> r]), Visible(w))
    BY <1>1, <2>7, <2>8, <2>9, ResultAdded DEF Ended
  <2>11. ASSUME NEW x \in tx[w].versions, x.header = HeaderOf(w) PROVE x.number = r.version
    <3>1. x \in Visible(w) BY DEF Visible
    <3>2. x = v BY <2>1, <2>2, <2>11, <3>1 DEF Consecutive, Clash, HeaderOf
    <3> QED BY <2>4, <3>2
  <2> QED BY <1>1, <1>4, <2>10, <2>11, NotYet, Finished DEF Ended
<1> QED BY <1>2, <1>3, <1>4

(* A rolled back run leaves no result.                                       *)
LEMMA RollBackResults ==
  ASSUME Shape, Numbering, Results, NEW w \in Workers, OnlyHis(w), RollBack(w)
  PROVE  SoundResults(given, tx[w].records, Visible(w))' /\ Underway(w)'
<1>1. tx'[w] = NoWrites /\ pc'[w] = "rolled_back" BY DEF RollBack, To, Shape
<1>2. tx'[w].records = <<>> /\ tx'[w].versions = {} /\ DOMAIN tx'[w].records = {} BY <1>1 DEF NoWrites
<1>3. SoundResults(given', tx'[w].records, Visible(w)') BY <1>2 DEF SoundResults
<1> QED BY <1>1, <1>2, <1>3, ResultsAfter DEF Underway, Ended

(* Committed results join those of the other runs.                           *)
LEMMA JoinedResults ==
  ASSUME Shape, Numbering, Results, NEW w \in Workers, pc[w] = "file"
  PROVE  SoundResults(given, Overlay(records, tx[w].records), Visible(w))
<1> DEFINE R == tx[w].records
           Q == Overlay(records, R)
           V == Visible(w)
<1>1. DOMAIN Q = DOMAIN records \cup DOMAIN R BY DEF Overlay
<1>2. /\ \A f \in DOMAIN R : Q[f] = R[f]
      /\ \A f \in DOMAIN records : f \notin DOMAIN R => Q[f] = records[f]
  BY DEF Overlay
<1>3. /\ DOMAIN R \subseteq Range(given[w]) /\ Range(given[w]) \cap DOMAIN records = {}
  BY OwnFiles
<1>4. SoundResults(given, R, V) BY DEF Results
<1>5. SoundResults(given, records, V)
  <2>1. versions \subseteq V BY DEF Visible
  <2> QED BY <2>1, MoreVersions DEF Results
<1> HIDE DEF R, Q, V
<1>6. ASSUME NEW f \in DOMAIN R
      PROVE  /\ SoundResult(f, Q[f], V)
             /\ Q[f].version # None => Undrifted(Q[f]) \/ \E u \in V : TracedTo(given, f, Q, u)
  <2>1. ASSUME NEW u \in V, TracedTo(given, f, R, u) PROVE TracedTo(given, f, Q, u)
    <3>1. ASSUME NEW g \in DOMAIN Q, InRun(given, g, f) PROVE g \in DOMAIN R /\ Q[g] = R[g]
      <4>1. g \in Range(given[w]) BY <1>3, <3>1, PrecedesWithin
      <4> QED BY <1>1, <1>2, <1>3, <4>1
    <3> QED BY <1>2, <2>1, <3>1 DEF TracedTo
  <2> QED BY <1>2, <1>4, <2>1 DEF SoundResults
<1>7. ASSUME NEW f \in DOMAIN records
      PROVE  /\ SoundResult(f, Q[f], V)
             /\ Q[f].version # None => Undrifted(Q[f]) \/ \E u \in V : TracedTo(given, f, Q, u)
  <2>0. Q[f] = records[f] BY <1>2, <1>3
  <2>1. ASSUME NEW u \in V, TracedTo(given, f, records, u) PROVE TracedTo(given, f, Q, u)
    <3>0. PICK o \in Workers : pc[o] = "committed" /\ f \in Range(given[o]) BY DEF Results
    <3>1. ASSUME NEW g \in DOMAIN Q, InRun(given, g, f) PROVE g \in DOMAIN records /\ Q[g] = records[g]
      <4>1. g \in Range(given[o]) BY <3>0, <3>1, PrecedesWithin
      <4>2. o # w BY <3>0
      <4>3. g \notin Range(given[w]) BY <4>1, <4>2 DEF Shape
      <4> QED BY <1>1, <1>2, <1>3, <4>3
    <3> QED BY <2>0, <2>1, <3>1 DEF TracedTo
  <2> QED BY <1>5, <2>0, <2>1 DEF SoundResults
<1>8. SoundResults(given, Q, V) BY <1>1, <1>6, <1>7 DEF SoundResults
<1> QED BY <1>8 DEF Q, R, V

(* A commit keeps every result.                                              *)
LEMMA CommitResults ==
  ASSUME Shape, Numbering, Numbering', Results, NEW w \in Workers, OnlyHis(w), Commit(w)
  PROVE  Results'
<1>1. /\ pc[w] = "file" /\ records' = Overlay(records, tx[w].records) /\ versions' = Visible(w)
      /\ tx'[w] = NoWrites /\ pc'[w] = "committed" /\ given' = given
  BY DEF Commit, Visible, To, Shape, OnlyHis
<1>2. SoundResults(given, records, versions)' BY <1>1, JoinedResults, ResultsAfter
<1>3. ASSUME NEW f \in DOMAIN records'
      PROVE  \E o \in Workers : pc'[o] = "committed" /\ f \in Range(given'[o])
  <2>1. f \in DOMAIN records \/ f \in DOMAIN tx[w].records BY <1>1 DEF Overlay
  <2>2. CASE f \in DOMAIN records
    <3>1. PICK o \in Workers : pc[o] = "committed" /\ f \in Range(given[o]) BY <2>2 DEF Results
    <3> QED BY <1>1, <3>1 DEF OnlyHis
  <2>3. CASE f \in DOMAIN tx[w].records BY <1>1, <2>3, OwnFiles
  <2> QED BY <2>1, <2>2, <2>3
<1>4. ASSUME NEW o \in Workers PROVE (SoundResults(given, tx[o].records, Visible(o)) /\ Underway(o))'
  <2>1. CASE o = w
    <3>1. tx'[o].records = <<>> /\ tx'[o].versions = {} /\ DOMAIN tx'[o].records = {}
      BY <1>1, <2>1 DEF NoWrites
    <3>2. SoundResults(given', tx'[o].records, Visible(o)') BY <3>1 DEF SoundResults
    <3> QED BY <1>1, <2>1, <3>1, <3>2, ResultsAfter DEF Underway, Ended
  <2>2. CASE o # w
    <3>1. Visible(o) \subseteq Visible(o)' BY <1>1, <2>2 DEF Visible, OnlyHis
    <3> QED BY <2>2, <3>1, OthersUnderway
  <2> QED BY <2>1, <2>2
<1> QED BY <1>2, <1>3, <1>4 DEF Results

-----------------------------------------------------------------------------
(* The inductive invariant.                                                  *)
AnalysisInv == Shape /\ Numbering /\ Results

(* Nothing is registered and nothing analysed at the beginning.              *)
LEMMA Initially == Init => AnalysisInv
<1> SUFFICES ASSUME Init PROVE AnalysisInv
  OBVIOUS
<1>1. Shape
  <2>1. \A w \in Workers : given[w] \in Seq(Files) /\ \A i, j \in DOMAIN given[w] : given[w][i] = given[w][j] => i = j
    BY RunsAssumption DEF Init
  <2>2. ASSUME NEW w \in Workers PROVE WorkerShape(w)
    <3>1. Len(given[w]) \in Nat /\ \A i \in 1..Len(given[w]) : Len(given[w]) - Len(given[w]) + i = i
      BY <2>1
    <3> QED BY <2>1, <3>1 DEF Init, WorkerShape, Steps, Ended, NoWrites, Nothing
  <2> QED BY <2>2 DEF Init, Shape
<1>2. Consecutive({})
  BY FS_EmptySet DEF Consecutive
<1>3. \A w \in Workers : Visible(w) = {} /\ tx[w].versions = {} /\ tx[w].records = <<>> /\ pc[w] = "file"
  BY DEF Init, Visible, NoWrites
<1>4. Numbering BY <1>2, <1>3 DEF Numbering, Init
<1>5. DOMAIN <<>> = {} OBVIOUS
<1>6. \A w \in Workers : Len(given[w]) - Len(todo[w]) = 0
  <2>1. \A w \in Workers : Len(given[w]) \in Nat /\ todo[w] = given[w] BY <1>1 DEF Init, Shape, WorkerShape
  <2> QED BY <2>1
<1>7. Results BY <1>3, <1>5, <1>6 DEF Init, Results, SoundResults, Underway
<1> QED BY <1>1, <1>4, <1>7 DEF AnalysisInv

(* Every operation of every worker preserves the invariant.                  *)
LEMMA StepInductive ==
  ASSUME AnalysisInv, NEW w \in Workers, Step(w)
  PROVE  AnalysisInv'
<1>0. Shape /\ Numbering /\ Results /\ OnlyHis(w) /\ Shape' /\ Numbering'
  BY StepIsHis, ShapeStep, NumberingStep DEF AnalysisInv
<1>1. CASE Commit(w) BY <1>0, <1>1, CommitResults DEF AnalysisInv
<1>2. CASE ~Commit(w)
  <2>1. versions' = versions /\ records' = records /\ pc[w] # "committed"
    BY <1>2 DEF Step, Reject, FindVersion, CompareWithActive, NextVersionNumber, AddVersion, Analyse, RollBack
  <2>2. SoundResults(given, tx[w].records, Visible(w))' /\ Underway(w)'
    BY <1>0, <1>2, RejectResults, FindResults, CompareResults, NumberResults, AddResults, AnalyseResults,
       RollBackResults DEF Step
  <2> QED BY <1>0, <2>1, <2>2, ResultsKept DEF AnalysisInv
<1> QED BY <1>1, <1>2

(* A step that changes nothing keeps the invariant.                          *)
LEMMA Stutters == AnalysisInv /\ UNCHANGED vars => AnalysisInv'
<1> SUFFICES ASSUME AnalysisInv, UNCHANGED vars PROVE AnalysisInv'
  OBVIOUS
<1> USE DEF vars
<1>1. Shape' BY DEF AnalysisInv, Shape, WorkerShape, Ended
<1>2. \A w \in Workers : /\ Visible(w)' = Visible(w) /\ Current(w)' = Current(w) /\ HeaderOf(w)' = HeaderOf(w)
                         /\ Registered(w)' = Registered(w)
  BY DEF Visible, Current, HeaderOf, Registered
<1>3. Numbering' BY <1>2 DEF AnalysisInv, Numbering, Consecutive, Clash, Version, Headers
<1>4. SoundResults(given, records, versions)'
      /\ \A w \in Workers : SoundResults(given, tx[w].records, Visible(w))'
  BY <1>2, ResultsAfter DEF AnalysisInv, Results
<1>5. ASSUME NEW w \in Workers PROVE Underway(w)'
  <2>1. Underway(w) BY DEF AnalysisInv, Results
  <2>2. \A u \in Visible(w) : ComparedWith(w, u) => ComparedWith(w, u)'
    BY <1>2 DEF ComparedWith, Known
  <2> QED BY <1>2, <2>1, <2>2 DEF Underway, Ended, Unusable, NoDriftRead
<1>6. Results' BY <1>4, <1>5 DEF AnalysisInv, Results
<1> QED BY <1>1, <1>3, <1>6 DEF AnalysisInv

(* The invariant holds in every state.                                       *)
THEOREM AnalysisInvariance == Spec => []AnalysisInv
<1>1. AnalysisInv /\ [Next]_vars => AnalysisInv'
  BY StepInductive, Stutters DEF Next, Done
<1> QED BY Initially, <1>1, PTL DEF Spec

(* What is left of a run is its end.                                         *)
LEMMA RestIsSuffix ==
  ASSUME NEW w \in Workers, WorkerShape(w)
  PROVE  IsSuffix(todo[w], given[w])
<1> DEFINE s == todo[w]
           t == given[w]
           m == Len(s)
           n == Len(t)
<1>1. /\ s \in Seq(Files) /\ t \in Seq(Files) /\ m \in Nat /\ n \in Nat /\ m <= n
      /\ \A i \in 1..m : s[i] = t[n - m + i]
  <2>1. s \in Seq(Files) /\ t \in Seq(Files) /\ m <= n BY DEF WorkerShape
  <2>2. \A i \in 1..m : s[i] = t[n - m + i] BY Zenon DEF WorkerShape
  <2>3. m \in Nat /\ n \in Nat BY <2>1
  <2> HIDE DEF s, t, m, n
  <2> QED BY <2>1, <2>2, <2>3
<1>2. /\ Reverse(s) = [i \in 1..m |-> s[(m - i) + 1]] /\ Reverse(t) = [i \in 1..n |-> t[(n - i) + 1]]
  BY DEF Reverse
<1> HIDE DEF s, t, m, n
<1>3. \A i \in 1..m : s[(m - i) + 1] \in Files
  <2>1. DOMAIN s = 1..m BY <1>1 DEF m
  <2>2. \A i \in 1..m : (m - i) + 1 \in 1..m BY <1>1
  <2> QED BY <1>1, <2>1, <2>2
<1>4. \A i \in 1..n : t[(n - i) + 1] \in Files
  <2>1. DOMAIN t = 1..n BY <1>1 DEF n
  <2>2. \A i \in 1..n : (n - i) + 1 \in 1..n BY <1>1
  <2> QED BY <1>1, <2>1, <2>2
<1>5. Reverse(s) \in Seq(Files) /\ Len(Reverse(s)) = m BY <1>1, <1>2, <1>3
<1>6. Reverse(t) \in Seq(Files) /\ Len(Reverse(t)) = n BY <1>1, <1>2, <1>4
<1>7. ASSUME NEW i \in 1..m PROVE Reverse(s)[i] = Reverse(t)[i]
  <2>1. i \in 1..n /\ (m - i) + 1 \in 1..m /\ n - m + ((m - i) + 1) = (n - i) + 1 BY <1>1
  <2>2. s[(m - i) + 1] = t[n - m + ((m - i) + 1)] BY <1>1, <2>1
  <2>3. s[(m - i) + 1] = t[(n - i) + 1] BY <2>1, <2>2
  <2> QED BY <1>2, <2>1, <2>3
<1>8. SubSeq(Reverse(s), 1, m) = [i \in 1..m |-> Reverse(s)[i]] BY <1>1, <1>5
<1>9. SubSeq(Reverse(t), 1, m) = [i \in 1..m |-> Reverse(t)[i]] BY <1>1, <1>6
<1>10. IsPrefix(Reverse(s), Reverse(t)) BY <1>1, <1>5, <1>6, <1>7, <1>8, <1>9 DEF IsPrefix
<1> QED BY <1>10 DEF IsSuffix, s, t

(* The registry is well formed, numbered without a hole and extended by one   *)
(* open transaction at a time, for any number of workers and any runs         *)
(* (SchemaRepository.next_version_number and the unique constraints).         *)
THEOREM RegistryStaysSound == Spec => []RegistrySound
<1>1. AnalysisInv => RegistrySound
  <2> SUFFICES ASSUME AnalysisInv PROVE RegistrySound
    OBVIOUS
  <2> USE DEF AnalysisInv
  <2>1. VersionsConsecutive BY DEF Numbering, Consecutive, VersionsConsecutive
  <2>2. OneRegistrar
    <3> DEFINE W == {w \in Workers : tx[w].versions # {}}
    <3>1. CASE W = {} BY <3>1, FS_EmptySet DEF OneRegistrar
    <3>2. CASE W # {}
      <4>1. PICK w \in W : TRUE BY <3>2
      <4>2. W = {w} BY <4>1 DEF Numbering
      <4>3. Cardinality(W) = 1 BY <4>2, FS_Singleton
      <4> QED BY <4>3 DEF OneRegistrar
    <3> QED BY <3>1, <3>2
  <2>3. TypeOK
    <3>1. \A v \in versions : v.number \in Nat \ {0} /\ v.header \in {Header(f) : f \in Files}
      BY DEF Numbering, Consecutive, Version, Headers
    <3>2. DOMAIN records \subseteq Files /\ \A f \in DOMAIN records : records[f].status \in Statuses
      BY OwnFiles DEF Results, SoundResults, SoundResult
    <3>3. \A w \in Workers : DOMAIN tx[w].records \subseteq Range(given[w]) BY OwnFiles
    <3>4. \A w \in Workers : IsSuffix(todo[w], given[w]) BY RestIsSuffix DEF Shape
    <3>5. \A w \in Workers : pc[w] \in Steps BY DEF Shape, WorkerShape
    <3> QED BY <3>1, <3>2, <3>3, <3>4, <3>5 DEF TypeOK, Steps
  <2> QED BY <2>1, <2>2, <2>3 DEF RegistrySound
<1> QED BY AnalysisInvariance, <1>1, PTL

(* The stored drift of a file is exactly what its header lacks and adds       *)
(* beside an earlier version, and passes over no version of its own run       *)
(* (SchemaService._compare_with_active).                                      *)
THEOREM DriftStaysTruthful == Spec => []DriftTruthful
<1>1. AnalysisInv => DriftTruthful
  <2> SUFFICES ASSUME AnalysisInv, NEW f \in DOMAIN records, records[f].version # None
               PROVE  /\ \E v \in versions : v.number = records[f].version /\ v.header = Header(f)
                      /\ \/ Tells(records[f].findings, "MISSING_FIELD", {}) /\ Tells(records[f].findings, "SCHEMA_MISMATCH", {})
                         \/ \E u \in versions :
                              /\ u.number < records[f].version
                              /\ Tells(records[f].findings, "MISSING_FIELD", Known(u) \ Identities(Header(f)))
                              /\ Tells(records[f].findings, "SCHEMA_MISMATCH", Identities(Header(f)) \ Known(u))
                              /\ \A g \in DOMAIN records : Precedes(g, f) /\ records[g].version # None =>
                                   records[g].version \notin u.number + 1 .. records[f].version - 1
    BY DEF DriftTruthful
  <2>1. \A g : Precedes(g, f) <=> InRun(given, g, f) BY DEF Precedes, InRun
  <2>2. /\ SoundResult(f, records[f], versions)
        /\ Undrifted(records[f]) \/ \E u \in versions : TracedTo(given, f, records, u)
    BY DEF AnalysisInv, Results, SoundResults
  <2> QED BY <2>1, <2>2 DEF SoundResult, Undrifted, TracedTo
<1> QED BY AnalysisInvariance, <1>1, PTL

(* A file is ready for normalization exactly when its event times read and    *)
(* nothing required is missing from it (QualityService.analyse).              *)
THEOREM ReadyStaysSound == Spec => []ReadyIsSound
<1>1. AnalysisInv => ReadyIsSound
  <2> SUFFICES ASSUME AnalysisInv, NEW f \in DOMAIN records
               PROVE  records[f].status = "READY_FOR_NORMALIZATION" <=> Usable[f]
    BY DEF ReadyIsSound
  <2>1. PICK w \in Workers : f \in Range(given[w])
    BY DEF AnalysisInv, Results
  <2>2. given[w] \in Seq(Files)
    BY DEF AnalysisInv, Shape, WorkerShape
  <2>3. f \in Files /\ SoundResult(f, records[f], versions)
    BY <2>1, <2>2 DEF AnalysisInv, Results, SoundResults, Range
  <2>4. Usable[f] <=> ~Unusable(f) /\ Complete(f)
    BY <2>3 DEF Usable, Complete
  <2> QED
    BY <2>3, <2>4 DEF SoundResult
<1> QED BY AnalysisInvariance, <1>1, PTL

-----------------------------------------------------------------------------
(* The registry that SchemaRegistry speaks of, and its results.              *)
RegistryOf(V) == [i \in 1..Cardinality(V) |-> (CHOOSE v \in V : v.number = i).header]
ResultsOf(R) ==
  [f \in Files |-> IF f \notin DOMAIN R THEN None ELSE IF R[f].version = None THEN 0 ELSE R[f].version]

(* The registry lists the headers by their numbers, each once.               *)
LEMMA RegistryFacts ==
  ASSUME NEW V, Consecutive(V)
  PROVE  /\ Cardinality(V) \in Nat /\ DOMAIN RegistryOf(V) = 1..Cardinality(V)
         /\ RegistryOf(V) \in Seq(Headers) /\ Len(RegistryOf(V)) = Cardinality(V)
         /\ \A v \in V : v.number \in 1..Cardinality(V) /\ RegistryOf(V)[v.number] = v.header
         /\ \A i \in 1..Cardinality(V) : \E v \in V : v.number = i
         /\ \A i, j \in 1..Cardinality(V) : RegistryOf(V)[i] = RegistryOf(V)[j] => i = j
<1> DEFINE n == Cardinality(V)
<1>1. n \in Nat /\ {v.number : v \in V} = 1..n BY FS_CardinalityType DEF Consecutive
<1>2. ASSUME NEW v \in V PROVE v.number \in 1..n /\ (CHOOSE x \in V : x.number = v.number) = v
  <2>1. \A x \in V : x.number = v.number => x = v BY DEF Consecutive, Clash
  <2> QED BY <1>1, <2>1
<1>3. \A v \in V : v.number \in 1..n /\ RegistryOf(V)[v.number] = v.header BY <1>2 DEF RegistryOf
<1>4. \A i \in 1..n : \E v \in V : v.number = i BY <1>1
<1>5. DOMAIN RegistryOf(V) = 1..n BY DEF RegistryOf
<1>6. \A i \in 1..n : RegistryOf(V)[i] \in Headers BY <1>3, <1>4 DEF Consecutive, Version
<1>7. RegistryOf(V) = [i \in 1..n |-> RegistryOf(V)[i]] BY DEF RegistryOf
<1>8. \A i, j \in 1..n : RegistryOf(V)[i] = RegistryOf(V)[j] => i = j
  BY <1>3, <1>4 DEF Consecutive, Clash
<1> HIDE DEF n
<1>9. RegistryOf(V) \in Seq(Headers) /\ Len(RegistryOf(V)) = n BY <1>1, <1>5, <1>6, <1>7
<1> QED BY <1>1, <1>3, <1>4, <1>5, <1>8, <1>9 DEF n

(* A larger registry has the smaller one as its beginning.                   *)
LEMMA RegistryGrows ==
  ASSUME NEW V, Consecutive(V), NEW W, Consecutive(W), V \subseteq W
  PROVE  IsPrefix(RegistryOf(V), RegistryOf(W))
<1> DEFINE s == RegistryOf(V)
           t == RegistryOf(W)
           n == Cardinality(V)
           m == Cardinality(W)
<1>1. /\ n \in Nat /\ s \in Seq(Headers) /\ Len(s) = n
      /\ \A v \in V : v.number \in 1..n /\ s[v.number] = v.header
      /\ \A i \in 1..n : \E v \in V : v.number = i
  BY RegistryFacts
<1>2. /\ m \in Nat /\ t \in Seq(Headers) /\ Len(t) = m
      /\ \A v \in W : v.number \in 1..m /\ t[v.number] = v.header
  BY RegistryFacts
<1>3. n <= m BY FS_Subset DEF Consecutive
<1>4. \A i \in 1..n : s[i] = t[i] BY <1>1, <1>2
<1> HIDE DEF s, t, n, m
<1>5. SubSeq(s, 1, n) = [i \in 1..n |-> s[i]] BY <1>1
<1>6. SubSeq(t, 1, n) = [i \in 1..n |-> t[i]] BY <1>1, <1>2, <1>3
<1>7. IsPrefix(s, t) BY <1>1, <1>2, <1>3, <1>4, <1>5, <1>6 DEF IsPrefix
<1> QED BY <1>7 DEF s, t

(* Results p and a registry a become q and b.                                *)
Publishes(a, b, p, q) ==
  LET P == {f \in Files : p[f] = None /\ q[f] # None}
  IN  /\ P # {} /\ IsPrefix(a, b)
      /\ \A i, j \in DOMAIN b : b[i] = b[j] => i = j
      /\ \A f \in Files \ P : q[f] = p[f]
      /\ \A f \in P : q[f] # 0 => q[f] \in DOMAIN b /\ b[q[f]] = Header(f)
      /\ \A i \in DOMAIN b \ DOMAIN a : \E f \in P : q[f] = i

(* What a commit does to the registry and the results: it publishes the       *)
(* results of its files and the headers they were the first to carry.         *)
LEMMA CommitPublishes ==
  ASSUME AnalysisInv, NEW w \in Workers, Commit(w)
  PROVE  \/ RegistryOf(versions) = RegistryOf(versions') /\ ResultsOf(records) = ResultsOf(records')
         \/ Publishes(RegistryOf(versions), RegistryOf(versions'), ResultsOf(records), ResultsOf(records'))
<1> DEFINE a == RegistryOf(versions)
           b == RegistryOf(versions')
           p == ResultsOf(records)
           q == ResultsOf(records')
           P == {f \in Files : p[f] = None /\ q[f] # None}
<1> USE DEF AnalysisInv
<1> DEFINE T == tx[w].records
           W == Visible(w)
<1>1. /\ pc[w] = "file" /\ records' = Overlay(records, T) /\ versions' = W
  BY DEF Commit, Visible
<1>2. /\ DOMAIN T \subseteq Range(given[w]) /\ Range(given[w]) \cap DOMAIN records = {}
      /\ Range(given[w]) \subseteq Files
  BY <1>1, OwnFiles
<1>3. /\ DOMAIN records' = DOMAIN records \cup DOMAIN T
      /\ \A f \in DOMAIN T : records'[f] = T[f]
      /\ \A f \in DOMAIN records : f \notin DOMAIN T => records'[f] = records[f]
  BY <1>1 DEF Overlay
<1>4. SoundResults(given, T, W) /\ Consecutive(W) /\ Consecutive(versions) /\ versions \subseteq W
  BY DEF Results, Numbering, Visible
<1>5. \A f \in DOMAIN T : T[f].version # None => T[f].version \in Nat \ {0} BY <1>4, ResultVersions
<1>6. ASSUME NEW f \in Files
      PROVE  /\ f \in DOMAIN T => /\ p[f] = None /\ q[f] # None
                                  /\ q[f] = IF T[f].version = None THEN 0 ELSE T[f].version
             /\ f \notin DOMAIN T => q[f] = p[f]
  <2>1. CASE f \in DOMAIN T
    <3>1. f \notin DOMAIN records /\ f \in DOMAIN records' BY <1>2, <1>3, <2>1
    <3>2. p[f] = None /\ q[f] = IF T[f].version = None THEN 0 ELSE T[f].version
      BY <1>3, <2>1, <3>1 DEF ResultsOf
    <3>3. q[f] \in Nat BY <1>5, <2>1, <3>2
    <3> QED BY <2>1, <3>2, <3>3, RunsAssumption
  <2>2. CASE f \notin DOMAIN T BY <1>3, <2>2 DEF ResultsOf
  <2> QED BY <2>1, <2>2
<1>7. P = DOMAIN T BY <1>2, <1>6
<1>8. \A v \in tx[w].versions : \E f \in DOMAIN T : T[f].version = v.number
  BY <1>1 DEF Results, Underway
<1>9. p = [f \in Files |-> p[f]] /\ q = [f \in Files |-> q[f]] BY DEF ResultsOf
<1>10. CASE P = {}
  <2>1. tx[w].versions = {} BY <1>7, <1>8, <1>10
  <2>2. a = b BY <1>1, <2>1 DEF Visible
  <2>3. p = q BY <1>6, <1>7, <1>9, <1>10
  <2> QED BY <2>2, <2>3
<1>11. CASE P # {}
  <2>1. IsPrefix(a, b) BY <1>1, <1>4, RegistryGrows
  <2>2. /\ DOMAIN b = 1..Cardinality(W) /\ \A v \in W : v.number \in 1..Cardinality(W) /\ b[v.number] = v.header
        /\ \A i \in 1..Cardinality(W) : \E v \in W : v.number = i
        /\ \A i, j \in 1..Cardinality(W) : b[i] = b[j] => i = j
    BY <1>1, <1>4, RegistryFacts
  <2>7. DOMAIN a = 1..Cardinality(versions) /\ \A x \in versions : x.number \in 1..Cardinality(versions)
    BY <1>4, RegistryFacts
  <2> HIDE DEF T, W, a, b, p, q
  <2>3. \A i, j \in DOMAIN b : b[i] = b[j] => i = j BY <2>2
  <2>4. \A f \in Files \ P : q[f] = p[f] BY <1>6, <1>7
  <2>5. ASSUME NEW f \in P, q[f] # 0 PROVE q[f] \in DOMAIN b /\ b[q[f]] = Header(f)
    <3>1. T[f].version # None /\ q[f] = T[f].version BY <1>2, <1>6, <1>7, <2>5
    <3>2. PICK v \in W : v.number = T[f].version /\ v.header = Header(f)
      BY <1>4, <1>7, <3>1 DEF SoundResults, SoundResult
    <3> QED BY <2>2, <3>1, <3>2
  <2>6. ASSUME NEW i \in DOMAIN b \ DOMAIN a PROVE \E f \in P : q[f] = i
    <3>1. PICK v \in W : v.number = i BY <2>2
    <3>3. v \notin versions BY <2>7, <3>1
    <3>4. v \in tx[w].versions BY <3>1, <3>3 DEF Visible, W
    <3>5. PICK f \in DOMAIN T : T[f].version = v.number BY <1>8, <3>4
    <3>6. v.number \in Nat BY <1>4 DEF Consecutive, Version
    <3>7. T[f].version # None BY <3>5, <3>6, RunsAssumption
    <3>8. f \in Files /\ q[f] = T[f].version BY <1>2, <1>6, <3>5, <3>7
    <3> QED BY <1>7, <3>1, <3>5, <3>8
  <2>8. Publishes(a, b, p, q) BY <1>11, <2>1, <2>3, <2>4, <2>5, <2>6 DEF Publishes
  <2> QED BY <2>8 DEF a, b, p, q
<1> QED BY <1>10, <1>11

(* Workers that register schemas at the same time, at READ COMMITTED,         *)
(* implement a registry written by one run at a time: headers are appended,   *)
(* never reordered or repeated, with the results that brought them, and a     *)
(* run that is rolled back leaves no header behind.                           *)
THEOREM RegistrationIsSerial == Spec => SerialRegistry
<1>1. Init => Registry!Init
  <2> SUFFICES ASSUME Init PROVE Registry!Init
    OBVIOUS
  <2>1. versions = {} /\ DOMAIN records = {} BY DEF Init
  <2>2. Cardinality(versions) = 0 BY <2>1, FS_EmptySet
  <2>3. RegistryOf(versions) = <<>> BY <2>2 DEF RegistryOf
  <2>4. ResultsOf(records) = [f \in Files |-> None] BY <2>1 DEF ResultsOf
  <2> QED BY <2>3, <2>4 DEF Registry!Init, RegistryOf, ResultsOf
<1>2. AnalysisInv /\ [Next]_vars => [Registry!Publish]_<<RegistryOf(versions), ResultsOf(records)>>
  <2> SUFFICES ASSUME AnalysisInv, [Next]_vars
               PROVE  [Registry!Publish]_<<RegistryOf(versions), ResultsOf(records)>>
    OBVIOUS
  <2>1. CASE versions' = versions /\ records' = records
    BY <2>1 DEF RegistryOf, ResultsOf
  <2>2. ASSUME NEW w \in Workers, Commit(w)
        PROVE  [Registry!Publish]_<<RegistryOf(versions), ResultsOf(records)>>
    <3>1. RegistryOf(versions)' = RegistryOf(versions') /\ ResultsOf(records)' = ResultsOf(records')
      BY DEF RegistryOf, ResultsOf
    <3>2. CASE RegistryOf(versions) = RegistryOf(versions') /\ ResultsOf(records) = ResultsOf(records')
      BY <3>1, <3>2
    <3>3. CASE Publishes(RegistryOf(versions), RegistryOf(versions'), ResultsOf(records), ResultsOf(records'))
      <4>1. Registry!Publish
        <5>1. \A f \in Files : [g \in Files |-> Header(g)][f] = Header(f) OBVIOUS
        <5>2. Registry!Published = {f \in Files : ResultsOf(records)[f] = None /\ ResultsOf(records')[f] # None}
          BY DEF Registry!Published, ResultsOf
        <5>3. Registry!IsPrefix(RegistryOf(versions), RegistryOf(versions'))
          BY <3>3 DEF Publishes, IsPrefix, Registry!IsPrefix
        <5> QED BY ZenonT(60), <3>3, <5>1, <5>2, <5>3 DEF Publishes, Registry!Publish, RegistryOf, ResultsOf
      <4> QED BY <4>1
    <3> QED BY <2>2, <3>2, <3>3, CommitPublishes
  <2> QED BY <2>1, <2>2 DEF Next, Step, vars, Done, Reject, FindVersion, CompareWithActive,
             NextVersionNumber, AddVersion, Analyse, RollBack
<1> QED BY AnalysisInvariance, <1>1, <1>2, PTL
        DEF Spec, SerialRegistry, Registry!Spec, RegistryOf, ResultsOf

-----------------------------------------------------------------------------
(* Why a run is lost.                                                        *)

(* The counts up to two places of a sequence differ.                          *)
LEMMA CountsDiffer ==
  ASSUME NEW n \in Nat, NEW i \in 1..n, NEW j \in 1..n, i < j, NEW P, j \in P
  PROVE  Cardinality({k \in 1..i : k \in P}) # Cardinality({k \in 1..j : k \in P})
<1> DEFINE A == {k \in 1..i : k \in P}
           B == {k \in 1..j : k \in P}
<1>1. IsFiniteSet(B)
  BY FS_Interval, FS_Subset
<1>2. A \subseteq B /\ A # B
  OBVIOUS
<1> HIDE DEF A, B
<1>3. Cardinality(A) < Cardinality(B)
  BY <1>1, <1>2, FS_Subset, FS_CardinalityType
<1>4. Cardinality(A) \in Nat /\ Cardinality(B) \in Nat
  BY <1>1, <1>2, FS_Subset, FS_CardinalityType
<1>5. Cardinality(A) # Cardinality(B)
  BY <1>3, <1>4
<1> QED
  BY <1>5 DEF A, B

(* The first of some places of a sequence.                                    *)
LEMMA FirstPlace ==
  ASSUME NEW n \in Nat, NEW X \in SUBSET (1..n)
  PROVE  /\ X \in SUBSET Int /\ IsFiniteSet(X)
         /\ X # {} => Min(X) \in X /\ Min(X) # 0
<1>1. IsFiniteSet(1..n)
  BY FS_Interval
<1>2. IsFiniteSet(X)
  BY <1>1, FS_Subset
<1>3. X \in SUBSET Int
  OBVIOUS
<1>4. ASSUME X # {} PROVE Min(X) \in X
  BY <1>2, <1>3, <1>4, Ends
<1> QED
  BY <1>2, <1>3, <1>4

(* The columns of a header are numbered from 1.                               *)
LEMMA ColumnsNumbered ==
  \A f \in Files : Len(Header(f)) \in Nat /\ DOMAIN Header(f) = 1..Len(Header(f))
<1> SUFFICES ASSUME NEW f \in Files PROVE Len(Header(f)) \in Nat /\ DOMAIN Header(f) = 1..Len(Header(f))
  OBVIOUS
<1>1. Header(f) \in Seq(DOMAIN Unlisted)
  BY FilesAssumption
<1> QED
  BY <1>1

(* A dictionary entry is found exactly when there is one that fits, at its    *)
(* place.                                                                     *)
LEMMA Lookup ==
  ASSUME NEW n, NEW k
  PROVE  /\ ByIdentity(n, k) # 0 =>
              ByIdentity(n, k) \in DOMAIN Dictionary /\ Dictionary[ByIdentity(n, k)].name = n
         /\ ByName(n) # 0 => ByName(n) \in DOMAIN Dictionary /\ Dictionary[ByName(n)].name = n
         /\ BySpelling(n) # 0 =>
              /\ BySpelling(n) \in DOMAIN Dictionary
              /\ Squeezed[Dictionary[BySpelling(n)].name] = Squeezed[n]
         /\ BySpelling(n) = 0 => ByIdentity(n, k) = 0 /\ ByName(n) = 0
<1> DEFINE D == Dictionary
           I == {i \in 1..Len(D) : D[i].name = n /\ D[i].occurrence = k}
           N == {i \in 1..Len(D) : D[i].name = n /\ D[i].occurrence = None}
           S == {i \in 1..Len(D) : Squeezed[D[i].name] = Squeezed[n]}
<1>1. /\ ByIdentity(n, k) = IF I # {} THEN Min(I) ELSE 0
      /\ ByName(n) = IF N # {} THEN Min(N) ELSE 0
      /\ BySpelling(n) = IF S # {} THEN Min(S) ELSE 0
  BY DEF ByIdentity, ByName, BySpelling, SelectInSeq
<1>2. Len(D) \in Nat /\ DOMAIN D = 1..Len(D)
  BY FilesAssumption
<1>3. \A X \in SUBSET (1..Len(D)) : X # {} => Min(X) \in X /\ Min(X) # 0
  BY <1>2, FirstPlace
<1>4. I \subseteq S /\ N \subseteq S
  OBVIOUS
<1>5. I \in SUBSET (1..Len(D)) /\ N \in SUBSET (1..Len(D)) /\ S \in SUBSET (1..Len(D))
  OBVIOUS
<1>6. /\ \A i \in I : D[i].name = n
      /\ \A i \in N : D[i].name = n
      /\ \A i \in S : Squeezed[D[i].name] = Squeezed[n]
  OBVIOUS
<1> HIDE DEF D, I, N, S
<1>7. /\ I # {} => Min(I) \in I /\ Min(I) # 0
      /\ N # {} => Min(N) \in N /\ Min(N) # 0
      /\ S # {} => Min(S) \in S /\ Min(S) # 0
  BY <1>3, <1>5
<1>8. DOMAIN Dictionary = 1..Len(D) /\ D = Dictionary
  BY <1>2 DEF D
<1> QED
  BY <1>1, <1>4, <1>5, <1>6, <1>7, <1>8

(* What a column is described as: an entry that spells it, or itself.         *)
LEMMA Resolved ==
  ASSUME NEW f \in Files, NEW h, h = Header(f), NEW i \in DOMAIN h
  PROVE  /\ Squeezed[Resolve(h, i).name] = Squeezed[h[i]]
         /\ BySpelling(h[i]) = 0 =>
              /\ Resolve(h, i).name = h[i]
              /\ Resolve(h, i).occurrence = Occurrence(h, i)
              /\ Resolve(h, i).canonical = Canonical(h, i)
<1> DEFINE n == h[i]
           k == Occurrence(h, i)
           named == IF ByName(n) # 0 THEN ByName(n) ELSE BySpelling(n)
           U == Unlisted[n]
<1>1. /\ ByIdentity(n, k) # 0 =>
           ByIdentity(n, k) \in DOMAIN Dictionary /\ Dictionary[ByIdentity(n, k)].name = n
      /\ ByName(n) # 0 => ByName(n) \in DOMAIN Dictionary /\ Dictionary[ByName(n)].name = n
      /\ BySpelling(n) # 0 =>
           /\ BySpelling(n) \in DOMAIN Dictionary
           /\ Squeezed[Dictionary[BySpelling(n)].name] = Squeezed[n]
      /\ BySpelling(n) = 0 => ByIdentity(n, k) = 0 /\ ByName(n) = 0
  BY Lookup
<1>2. Resolve(h, i) =
        IF ByIdentity(n, k) # 0 THEN Dictionary[ByIdentity(n, k)]
        ELSE IF named # 0
          THEN IF k = 1 THEN Dictionary[named]
               ELSE [Dictionary[named] EXCEPT !.occurrence = k, !.canonical = <<@[1], k, @[3]>>]
        ELSE [U EXCEPT !.name = n, !.occurrence = k, !.canonical = Canonical(h, i)]
  BY Zenon DEF Resolve
<1>3. IsSpec(U)
  <2>1. h \in Seq(DOMAIN Unlisted)
    BY FilesAssumption
  <2>2. n \in DOMAIN Unlisted
    BY <2>1
  <2> QED
    BY <2>2, FilesAssumption DEF Range
<1>4. named # 0 => IsSpec(Dictionary[named]) /\ Squeezed[Dictionary[named].name] = Squeezed[n]
  BY <1>1, FilesAssumption DEF Range
<1> HIDE DEF U, n, k, named
<1>5. ASSUME NEW s, IsSpec(s), NEW c PROVE [s EXCEPT !.occurrence = k, !.canonical = c].name = s.name
  BY <1>5 DEF IsSpec
<1>6. LET s == [U EXCEPT !.name = n, !.occurrence = k, !.canonical = Canonical(h, i)]
      IN  s.name = n /\ s.occurrence = k /\ s.canonical = Canonical(h, i)
  BY <1>3 DEF IsSpec
<1>7. Squeezed[Resolve(h, i).name] = Squeezed[n]
  BY <1>1, <1>2, <1>4, <1>5, <1>6
<1>8. BySpelling(n) = 0 => ByIdentity(n, k) = 0 /\ named = 0
  BY <1>1 DEF named
<1> QED
  BY <1>2, <1>6, <1>7, <1>8 DEF n, k

(* Two columns of a header differ in name or occurrence, and in their         *)
(* canonical names.                                                           *)
LEMMA ColumnsDiffer ==
  ASSUME NEW f \in Files, NEW h, h = Header(f), NEW i \in DOMAIN h, NEW j \in DOMAIN h, i # j
  PROVE  /\ <<h[i], Occurrence(h, i)>> # <<h[j], Occurrence(h, j)>>
         /\ Canonical(h, i) # Canonical(h, j)
<1> DEFINE n == Len(h)
<1>1. n \in Nat /\ DOMAIN h = 1..n
  BY ColumnsNumbered
<1>2. ASSUME NEW P, NEW a \in 1..n, NEW b \in 1..n, a # b, a \in P, b \in P
      PROVE  Cardinality({k \in 1..a : k \in P}) # Cardinality({k \in 1..b : k \in P})
  <2>1. a < b \/ b < a
    BY <1>1, <1>2
  <2> QED
    BY <1>1, <1>2, <2>1, CountsDiffer
<1>3. <<h[i], Occurrence(h, i)>> # <<h[j], Occurrence(h, j)>>
  <2> SUFFICES ASSUME h[i] = h[j] PROVE Occurrence(h, i) # Occurrence(h, j)
    OBVIOUS
  <2> DEFINE P == {k \in 1..n : h[k] = h[i]}
  <2>1. i \in P /\ j \in P
    BY <1>1
  <2>2. /\ {k \in 1..i : h[k] = h[i]} = {k \in 1..i : k \in P}
        /\ {k \in 1..j : h[k] = h[j]} = {k \in 1..j : k \in P}
    BY <1>1
  <2> HIDE DEF P
  <2> QED
    BY <1>1, <1>2, <2>1, <2>2 DEF Occurrence
<1>4. Canonical(h, i) # Canonical(h, j)
  <2> DEFINE C(k) == Cardinality({l \in 1..k : Wanted(h, l) = Wanted(h, k)})
  <2>1. \A k : Canonical(h, k) = Append(Wanted(h, k), C(k)) /\ Wanted(h, k) = <<Snake[h[k]], Occurrence(h, k)>>
    BY DEF Canonical, Wanted
  <2>2. ASSUME NEW a, NEW b, NEW c
        PROVE  LET s == Append(<<a, b>>, c) IN s[1] = a /\ s[2] = b /\ s[3] = c
    <3> DEFINE S == {a, b, c}
    <3>1. <<a, b>> \in Seq(S) /\ c \in S /\ Len(<<a, b>>) = 2
      OBVIOUS
    <3> HIDE DEF S
    <3> QED
      BY <3>1
  <2>3. SUFFICES ASSUME Wanted(h, i) = Wanted(h, j) PROVE C(i) # C(j)
    <3> HIDE DEF C
    <3>1. ASSUME NEW k
          PROVE  /\ Canonical(h, k)[1] = Wanted(h, k)[1] /\ Canonical(h, k)[2] = Wanted(h, k)[2]
                 /\ Canonical(h, k)[3] = C(k)
      <4>1. Canonical(h, k) = Append(<<Snake[h[k]], Occurrence(h, k)>>, C(k))
        BY <2>1
      <4> QED
        BY <2>1, <2>2, <4>1
    <3>2. Wanted(h, i) = <<Wanted(h, i)[1], Wanted(h, i)[2]>> /\ Wanted(h, j) = <<Wanted(h, j)[1], Wanted(h, j)[2]>>
      BY <2>1
    <3> QED
      BY <2>3, <3>1, <3>2
  <2> DEFINE P == {k \in 1..n : Wanted(h, k) = Wanted(h, i)}
  <2>4. i \in P /\ j \in P
    BY <1>1, <2>3
  <2>5. /\ {k \in 1..i : Wanted(h, k) = Wanted(h, i)} = {k \in 1..i : k \in P}
        /\ {k \in 1..j : Wanted(h, k) = Wanted(h, j)} = {k \in 1..j : k \in P}
    BY <1>1, <2>3
  <2> HIDE DEF P
  <2> QED
    BY <1>1, <1>2, <2>4, <2>5
<1> QED
  BY <1>3, <1>4

(* The rows of a new schema version clash only where a column of the          *)
(* dictionary is described like another one: names without an entry are told  *)
(* apart by their occurrences and by the numbers that settle a clash.         *)
LEMMA ClashesDescribed ==
  ASSUME NEW f \in Files, NEW h, h = Header(f), ~FieldsInsertable(FieldRows(h))
  PROVE  DescribedAlike(h)
<1> DEFINE R == FieldRows(h)
           Same(i, j) == <<R[i].name, R[i].occurrence>> = <<R[j].name, R[j].occurrence>>
<1>1. DOMAIN R = DOMAIN h
  BY DEF FieldRows
<1>2. PICK i \in DOMAIN h, j \in DOMAIN h : i # j /\ (Same(i, j) \/ R[i].canonical = R[j].canonical)
  BY <1>1 DEF FieldsInsertable
<1>3. ASSUME NEW k \in DOMAIN h
      PROVE  /\ Squeezed[R[k].name] = Squeezed[h[k]]
             /\ BySpelling(h[k]) = 0 =>
                  R[k].name = h[k] /\ R[k].occurrence = Occurrence(h, k) /\ R[k].canonical = Canonical(h, k)
  <2>1. /\ R[k].name = Resolve(h, k).name /\ R[k].canonical = Resolve(h, k).canonical
        /\ R[k].occurrence = IF Resolve(h, k).occurrence = None THEN 1 ELSE Resolve(h, k).occurrence
    BY DEF FieldRows
  <2>2. Occurrence(h, k) # None
    <3>1. k \in Nat
      BY ColumnsNumbered
    <3>2. IsFiniteSet(1..k)
      BY <3>1, FS_Interval
    <3>3. IsFiniteSet({l \in 1..k : h[l] = h[k]})
      BY <3>2, FS_Subset
    <3> QED
      BY <3>3, FS_CardinalityType, RunsAssumption DEF Occurrence
  <2> HIDE DEF R
  <2> QED
    BY <2>1, <2>2, Resolved
<1>4. /\ <<h[i], Occurrence(h, i)>> # <<h[j], Occurrence(h, j)>>
      /\ Canonical(h, i) # Canonical(h, j)
  BY <1>2, ColumnsDiffer
<1>5. BySpelling(h[i]) # 0 \/ BySpelling(h[j]) # 0
  BY <1>2, <1>3, <1>4
<1>6. Same(i, j) => Squeezed[h[i]] = Squeezed[h[j]]
  BY <1>3
<1> QED
  BY <1>2, <1>5, <1>6 DEF DescribedAlike

(* What one field's rules can find.                                           *)
LEMMA FieldFinding ==
  ASSUME NEW p, NEW i, NEW x \in FieldRules(p, i), NEW spec, NEW seen, spec = p.specs[i], seen = p.fields[i]
  PROVE  LET about(rule, severity, count, details) ==
               Finding(rule, "FIELD", severity, spec.name, spec.occurrence, count, details)
             valid == IF seen.numeric_valid = None THEN 0 ELSE seen.numeric_valid
         IN  \/ \E v \in DOMAIN seen.hits \cap spec.sentinels :
                  x = about("SENTINEL_VALUE", "WARNING", seen.hits[v], v)
             \/ /\ x = about("OUT_OF_RANGE", "ERROR", 1, seen.min)
                /\ None \notin {seen.min, spec.min} /\ seen.min < spec.min
             \/ /\ x = about("OUT_OF_RANGE", "ERROR", 1, seen.max)
                /\ None \notin {seen.max, spec.max} /\ seen.max > spec.max
             \/ x = about("INVALID_TYPE", "ERROR", p.rows - seen.nulls - valid, None)
             \/ /\ seen.observed # None
                /\ x = about("UNKNOWN_ENUM_VALUE", "WARNING", Cardinality(seen.observed \ spec.allowed), None)
BY DEF FieldRules, If

(* A column's rules find a thing twice only as FoundTwice says.               *)
LEMMA TwiceInField ==
  ASSUME NEW f \in Files, NEW p, p = Profiles[f], NEW i \in DOMAIN Header(f),
         NEW x \in FieldRules(p, i), NEW y \in FieldRules(p, i), x.rule = y.rule, x # y
  PROVE  FoundTwice(f, i)
<1> DEFINE spec == Resolve(Header(f), i)
           seen == FieldProfile(f, i)
           about(rule, severity, count, details) ==
             Finding(rule, "FIELD", severity, spec.name, spec.occurrence, count, details)
           valid == IF seen.numeric_valid = None THEN 0 ELSE seen.numeric_valid
<1>1. p.specs[i] = spec /\ p.fields[i] = seen
  <2>1. i \in Positions(f)
    BY ColumnsNumbered DEF Positions
  <2> QED
    BY <2>1 DEF Profiles, Profile
<1>2. DOMAIN seen.hits = Values(f, i) \cap GlobalSentinels
  BY DEF FieldProfile
<1>3. FoundTwice(f, i) <=>
        \/ \E u, v \in Values(f, i) \cap GlobalSentinels \cap spec.sentinels : u # v
        \/ /\ None \notin {spec.min, spec.max, seen.min, seen.max}
           /\ seen.min < spec.min /\ spec.max < seen.max
  BY Zenon DEF FoundTwice
<1>4. ASSUME NEW z \in FieldRules(p, i)
      PROVE  \/ \E v \in DOMAIN seen.hits \cap spec.sentinels :
                  z = about("SENTINEL_VALUE", "WARNING", seen.hits[v], v)
             \/ /\ z = about("OUT_OF_RANGE", "ERROR", 1, seen.min)
                /\ None \notin {seen.min, spec.min} /\ seen.min < spec.min
             \/ /\ z = about("OUT_OF_RANGE", "ERROR", 1, seen.max)
                /\ None \notin {seen.max, spec.max} /\ seen.max > spec.max
             \/ z = about("INVALID_TYPE", "ERROR", p.rows - seen.nulls - valid, None)
             \/ /\ seen.observed # None
                /\ z = about("UNKNOWN_ENUM_VALUE", "WARNING", Cardinality(seen.observed \ spec.allowed), None)
  <2> HIDE DEF spec, seen
  <2> QED
    BY <1>1, FieldFinding
<1> HIDE DEF spec, seen, valid
<1> DEFINE sentinel(z) == \E v \in DOMAIN seen.hits \cap spec.sentinels :
                            z = about("SENTINEL_VALUE", "WARNING", seen.hits[v], v)
           low(z) == /\ z = about("OUT_OF_RANGE", "ERROR", 1, seen.min)
                     /\ None \notin {seen.min, spec.min} /\ seen.min < spec.min
           high(z) == /\ z = about("OUT_OF_RANGE", "ERROR", 1, seen.max)
                      /\ None \notin {seen.max, spec.max} /\ seen.max > spec.max
           type(z) == z = about("INVALID_TYPE", "ERROR", p.rows - seen.nulls - valid, None)
           enum(z) == z = about("UNKNOWN_ENUM_VALUE", "WARNING", Cardinality(seen.observed \ spec.allowed), None)
<1>5. ASSUME NEW z \in FieldRules(p, i)
      PROVE  /\ z.rule = "SENTINEL_VALUE" => sentinel(z)
             /\ z.rule = "OUT_OF_RANGE" => low(z) \/ high(z)
             /\ z.rule = "INVALID_TYPE" => type(z)
             /\ z.rule = "UNKNOWN_ENUM_VALUE" => enum(z)
             /\ z.rule \in {"SENTINEL_VALUE", "OUT_OF_RANGE", "INVALID_TYPE", "UNKNOWN_ENUM_VALUE"}
  BY <1>4 DEF Finding
<1>6. CASE x.rule = "SENTINEL_VALUE"
  <2>1. sentinel(x) /\ sentinel(y)
    BY <1>5, <1>6
  <2>2. PICK u \in DOMAIN seen.hits \cap spec.sentinels : x = about("SENTINEL_VALUE", "WARNING", seen.hits[u], u)
    BY <2>1
  <2>3. PICK v \in DOMAIN seen.hits \cap spec.sentinels : y = about("SENTINEL_VALUE", "WARNING", seen.hits[v], v)
    BY <2>1
  <2>4. u # v
    BY <2>2, <2>3
  <2> QED
    BY <1>2, <1>3, <2>2, <2>3, <2>4
<1>7. CASE x.rule = "OUT_OF_RANGE"
  <2>1. (low(x) \/ high(x)) /\ (low(y) \/ high(y))
    BY <1>5, <1>7
  <2>2. (low(x) /\ high(y)) \/ (low(y) /\ high(x))
    BY <2>1
  <2>3. seen.max > spec.max <=> spec.max < seen.max
    OBVIOUS
  <2> QED
    BY <1>3, <2>2, <2>3
<1>8. CASE x.rule \in {"INVALID_TYPE", "UNKNOWN_ENUM_VALUE"}
  BY <1>5, <1>8
<1> QED
  BY <1>5, <1>6, <1>7, <1>8

HeaderNames == {"DUPLICATE_HEADER", "MISSING_REQUIRED_FIELD", "UNKNOWN_FIELD"}
FieldNames == {"SENTINEL_VALUE", "OUT_OF_RANGE", "INVALID_TYPE", "UNKNOWN_ENUM_VALUE"}
TimestampNames == {"INVALID_TIMESTAMP", "TELEMETRY_GAP", "EVENT_DATE_FILENAME_MISMATCH"}
DuplicatesNames == {"EXACT_DUPLICATE", "LOGICAL_KEY_COLLISION"}

(* Of most rules a file has one finding at most.                              *)
LEMMA FoundOnce ==
  ASSUME NEW p, NEW missing, NEW additional, NEW rule
  PROVE  /\ \A x \in TimestampRules(p) : x.rule \in TimestampNames
         /\ \A x, y \in TimestampRules(p) : x.rule = y.rule => x = y
         /\ \A x \in DuplicateRules(p) : x.rule \in DuplicatesNames
         /\ \A x, y \in DuplicateRules(p) : x.rule = y.rule => x = y
         /\ \A x \in AllNullRule(p) : x.rule = "ALL_NULL_FIELD"
         /\ \A x, y \in AllNullRule(p) : x = y
         /\ \A x \in DriftRule(missing, additional) : x.rule \in Drift
         /\ \A x, y \in DriftRule(missing, additional) : x.rule = y.rule => x = y
         /\ \A e, o : \A x, y \in CardinalityRule(rule, e, o) : x.rule = rule /\ x = y
<1>1. /\ \A x \in TimestampRules(p) : x.rule \in TimestampNames
      /\ \A x, y \in TimestampRules(p) : x.rule = y.rule => x = y
  BY DEF TimestampRules, If, Finding, TimestampNames
<1>2. /\ \A x \in DuplicateRules(p) : x.rule \in DuplicatesNames
      /\ \A x, y \in DuplicateRules(p) : x.rule = y.rule => x = y
  BY DEF DuplicateRules, If, Finding, DuplicatesNames
<1>3. /\ \A x \in AllNullRule(p) : x.rule = "ALL_NULL_FIELD"
      /\ \A x, y \in AllNullRule(p) : x = y
  <2> DEFINE E == {i \in DOMAIN p.header : p.fields[i].all_null}
             z == Finding("ALL_NULL_FIELD", "FIELD", "INFO", None, None,
                          Cardinality(E), Shortened(E))
  <2>1. AllNullRule(p) \subseteq {z}
    BY DEF AllNullRule, If
  <2>2. z.rule = "ALL_NULL_FIELD"
    BY DEF Finding
  <2> HIDE DEF z
  <2> QED
    BY <2>1, <2>2
<1>4. /\ \A x \in DriftRule(missing, additional) : x.rule \in Drift
      /\ \A x, y \in DriftRule(missing, additional) : x.rule = y.rule => x = y
  BY DEF DriftRule, If, Finding, Drift
<1>5. \A e, o : \A x, y \in CardinalityRule(rule, e, o) : x.rule = rule /\ x = y
  BY DEF CardinalityRule, If, Finding
<1> QED
  BY <1>1, <1>2, <1>3, <1>4, <1>5

(* The header's rules find a thing twice only of what is missing.             *)
LEMMA TwiceInHeader ==
  ASSUME NEW p, NEW x \in HeaderRules(p), NEW y \in HeaderRules(p), IssueHash(x) = IssueHash(y), x # y
  PROVE  (\E r, s \in MissingRoles(p.header) : r # s) \/ MissingTwice(p.header)
<1> DEFINE h == p.header
           times(n) == Cardinality({i \in DOMAIN h : h[i] = n})
           unmapped == {i \in DOMAIN h : ~p.specs[i].mapped}
           repeated(z) == \E n : z = Finding("DUPLICATE_HEADER", "FILE", "WARNING", n, None, times(n), None)
           entry(z) == \E s \in {t \in Range(Dictionary) : t.required /\ t.name \notin Range(h)} :
             z = Finding("MISSING_REQUIRED_FIELD", "FILE", "CRITICAL", s.name, None, 1, s.canonical)
           role(z) == \E r \in MissingRoles(h) :
             z = Finding("MISSING_REQUIRED_FIELD", "FILE", "CRITICAL", None, None, 1, r)
           unknown(z) == z = Finding("UNKNOWN_FIELD", "FIELD", "INFO", None, None,
                                     Cardinality(unmapped), Shortened(unmapped))
<1>1. ASSUME NEW z \in HeaderRules(p) PROVE repeated(z) \/ entry(z) \/ role(z) \/ unknown(z)
  BY DEF HeaderRules, If
<1> HIDE DEF h, times, unmapped
<1>2. ASSUME NEW z \in HeaderRules(p)
      PROVE  /\ z.rule \in HeaderNames
             /\ z.rule = "DUPLICATE_HEADER" => repeated(z)
             /\ z.rule = "MISSING_REQUIRED_FIELD" => entry(z) \/ role(z)
             /\ z.rule = "UNKNOWN_FIELD" => unknown(z)
  BY <1>1 DEF Finding, HeaderNames
<1>3. x.rule = y.rule /\ x.field = y.field
  BY DEF IssueHash
<1>4. CASE x.rule = "DUPLICATE_HEADER"
  <2>1. PICK m : x = Finding("DUPLICATE_HEADER", "FILE", "WARNING", m, None, times(m), None)
    BY <1>2, <1>4
  <2>2. PICK n : y = Finding("DUPLICATE_HEADER", "FILE", "WARNING", n, None, times(n), None)
    BY <1>2, <1>3, <1>4
  <2>3. m = n
    BY <1>3, <2>1, <2>2 DEF Finding
  <2> QED
    BY <2>1, <2>2, <2>3
<1>5. CASE x.rule = "UNKNOWN_FIELD"
  BY <1>2, <1>3, <1>5
<1>6. CASE x.rule = "MISSING_REQUIRED_FIELD"
  <2>1. (entry(x) \/ role(x)) /\ (entry(y) \/ role(y))
    BY <1>2, <1>3, <1>6
  <2>2. \A z : /\ entry(z) => \E s \in Range(Dictionary) : z.field = s.name
               /\ role(z) => z.field = None
    BY DEF Finding
  <2>3. \A s \in Range(Dictionary) : s.name # None
    BY QualityAssumption DEF DictionaryValid
  <2>4. (entry(x) /\ entry(y)) \/ (role(x) /\ role(y))
    BY <1>3, <2>1, <2>2, <2>3
  <2>5. CASE entry(x) /\ entry(y)
    <3>1. PICK s \in Range(Dictionary) :
            /\ s.required /\ s.name \notin Range(h)
            /\ x = Finding("MISSING_REQUIRED_FIELD", "FILE", "CRITICAL", s.name, None, 1, s.canonical)
      BY <2>5
    <3>2. PICK t \in Range(Dictionary) :
            /\ t.required /\ t.name \notin Range(h)
            /\ y = Finding("MISSING_REQUIRED_FIELD", "FILE", "CRITICAL", t.name, None, 1, t.canonical)
      BY <2>5
    <3>3. s # t
      BY <3>1, <3>2
    <3>4. s.name = t.name
      BY <1>3, <3>1, <3>2 DEF Finding
    <3> QED
      BY <3>1, <3>2, <3>3, <3>4 DEF MissingTwice, h
  <2>6. CASE role(x) /\ role(y)
    <3>1. PICK r \in MissingRoles(h) : x = Finding("MISSING_REQUIRED_FIELD", "FILE", "CRITICAL", None, None, 1, r)
      BY <2>6
    <3>2. PICK s \in MissingRoles(h) : y = Finding("MISSING_REQUIRED_FIELD", "FILE", "CRITICAL", None, None, 1, s)
      BY <2>6
    <3>3. r # s
      BY <3>1, <3>2
    <3> QED
      BY <3>3 DEF h
  <2> QED
    BY <2>4, <2>5, <2>6
<1> QED
  BY <1>2, <1>4, <1>5, <1>6 DEF HeaderNames

(* The names of the header's and the fields' rules; the latter speak of the   *)
(* column by the name and occurrence of its description.                      *)
LEMMA RulesNamed ==
  ASSUME NEW p
  PROVE  /\ \A z \in HeaderRules(p) : z.rule \in HeaderNames
         /\ \A i : \A z \in FieldRules(p, i) :
              /\ z.rule \in FieldNames
              /\ z.field = p.specs[i].name /\ z.occurrence = p.specs[i].occurrence
<1>1. ASSUME NEW z \in HeaderRules(p) PROVE z.rule \in HeaderNames
  <2>1. \/ \E n, k : z = Finding("DUPLICATE_HEADER", "FILE", "WARNING", n, None, k, None)
        \/ \E n, d : z = Finding("MISSING_REQUIRED_FIELD", "FILE", "CRITICAL", n, None, 1, d)
        \/ \E k, u : z = Finding("UNKNOWN_FIELD", "FIELD", "INFO", None, None, k, u)
    BY DEF HeaderRules, If
  <2> QED
    BY <2>1 DEF Finding, HeaderNames
<1>2. ASSUME NEW i, NEW z \in FieldRules(p, i)
      PROVE  /\ z.rule \in FieldNames
             /\ z.field = p.specs[i].name /\ z.occurrence = p.specs[i].occurrence
  BY DEF FieldRules, If, Finding, FieldNames
<1> QED
  BY <1>1, <1>2

(* Two findings of one hash are explained by the header or by one column,      *)
(* when the columns have rows of their own.                                   *)
LEMMA HashesExplained ==
  ASSUME NEW f \in Files, FieldsInsertable(FieldRows(Header(f))), NEW missing, NEW additional,
         ~HashesDiffer(Evaluate(Profiles[f], missing, additional))
  PROVE  \/ \E r, s \in MissingRoles(Header(f)) : r # s
         \/ MissingTwice(Header(f))
         \/ \E i \in DOMAIN Header(f) : FoundTwice(f, i)
<1> DEFINE p == Profiles[f]
           h == Header(f)
           D == DriftRule(missing, additional)
           C == CardinalityRule("UNEXPECTED_CONNECTOR_CARDINALITY", ExpectedConnectors, p.connectors)
           S == CardinalityRule("UNEXPECTED_SMR_CARDINALITY", ExpectedSmrs, p.smrs)
           U == UNION {FieldRules(p, i) : i \in DOMAIN p.header}
           F == Evaluate(p, missing, additional)
<1>0. F = HeaderRules(p) \cup TimestampRules(p) \cup DuplicateRules(p) \cup AllNullRule(p)
          \cup C \cup S \cup U \cup D
  BY Zenon DEF Evaluate
<1>1. p.header = h
  BY DEF Profiles, Profile
<1>2. PICK x \in F, y \in F : IssueHash(x) = IssueHash(y) /\ x # y
  BY DEF HashesDiffer
<1>3. x.rule = y.rule /\ x.field = y.field /\ x.occurrence = y.occurrence
  BY <1>2 DEF IssueHash
<1>4. /\ \A z \in TimestampRules(p) : z.rule \in TimestampNames
      /\ \A a, b \in TimestampRules(p) : a.rule = b.rule => a = b
      /\ \A z \in DuplicateRules(p) : z.rule \in DuplicatesNames
      /\ \A a, b \in DuplicateRules(p) : a.rule = b.rule => a = b
      /\ \A z \in AllNullRule(p) : z.rule = "ALL_NULL_FIELD"
      /\ \A a, b \in AllNullRule(p) : a = b
      /\ \A z \in D : z.rule \in Drift
      /\ \A a, b \in D : a.rule = b.rule => a = b
      /\ \A a, b \in C : a.rule = "UNEXPECTED_CONNECTOR_CARDINALITY" /\ a = b
      /\ \A a, b \in S : a.rule = "UNEXPECTED_SMR_CARDINALITY" /\ a = b
  BY FoundOnce
<1>5. \A z \in HeaderRules(p) : z.rule \in HeaderNames
  BY RulesNamed
<1>6. \A z \in U : \E i \in DOMAIN h : z \in FieldRules(p, i)
  BY <1>1
<1>7. ASSUME NEW i, NEW z \in FieldRules(p, i)
      PROVE  /\ z.rule \in FieldNames
             /\ z.field = p.specs[i].name /\ z.occurrence = p.specs[i].occurrence
  BY RulesNamed
<1>8. \A z \in U : z.rule \in FieldNames
  BY <1>6, <1>7
<1> HIDE DEF p, D, C, S, U, F
<1>9. \/ x \in HeaderRules(p) /\ y \in HeaderRules(p)
      \/ x \in U /\ y \in U
  <2> DEFINE G == {HeaderRules(p), TimestampRules(p), DuplicateRules(p), AllNullRule(p), C, S, U, D}
  <2>1. (\E A \in G : x \in A) /\ (\E B \in G : y \in B)
    BY <1>0, <1>2
  <2>2. /\ x \in HeaderRules(p) => x.rule \in HeaderNames
        /\ x \in TimestampRules(p) => x.rule \in TimestampNames
        /\ x \in DuplicateRules(p) => x.rule \in DuplicatesNames
        /\ x \in AllNullRule(p) => x.rule = "ALL_NULL_FIELD"
        /\ x \in C => x.rule = "UNEXPECTED_CONNECTOR_CARDINALITY"
        /\ x \in S => x.rule = "UNEXPECTED_SMR_CARDINALITY"
        /\ x \in U => x.rule \in FieldNames
        /\ x \in D => x.rule \in Drift
    BY <1>4, <1>5, <1>8
  <2>3. /\ y \in HeaderRules(p) => x.rule \in HeaderNames
        /\ y \in TimestampRules(p) => x.rule \in TimestampNames
        /\ y \in DuplicateRules(p) => x.rule \in DuplicatesNames
        /\ y \in AllNullRule(p) => x.rule = "ALL_NULL_FIELD"
        /\ y \in C => x.rule = "UNEXPECTED_CONNECTOR_CARDINALITY"
        /\ y \in S => x.rule = "UNEXPECTED_SMR_CARDINALITY"
        /\ y \in U => x.rule \in FieldNames
        /\ y \in D => x.rule \in Drift
    BY <1>3, <1>4, <1>5, <1>8
  <2>4. \E A \in G : x \in A /\ y \in A
    BY <2>1, <2>2, <2>3 DEF HeaderNames, TimestampNames, DuplicatesNames, FieldNames, Drift
  <2> QED
    BY <1>2, <1>3, <1>4, <2>4
<1>10. CASE x \in HeaderRules(p) /\ y \in HeaderRules(p)
  BY <1>1, <1>2, <1>10, TwiceInHeader
<1>11. CASE x \in U /\ y \in U
  <2>1. PICK i \in DOMAIN h : x \in FieldRules(p, i)
    BY <1>6, <1>11
  <2>2. PICK j \in DOMAIN h : y \in FieldRules(p, j)
    BY <1>6, <1>11
  <2>3. p.specs[i] = Resolve(h, i) /\ p.specs[j] = Resolve(h, j)
    <3>1. i \in Positions(f) /\ j \in Positions(f)
      BY ColumnsNumbered DEF Positions
    <3> QED
      BY <3>1 DEF Profiles, Profile, p
  <2>4. Resolve(h, i).name = Resolve(h, j).name /\ Resolve(h, i).occurrence = Resolve(h, j).occurrence
    BY <1>3, <1>7, <2>1, <2>2, <2>3
  <2>5. i = j
    <3> DEFINE R == FieldRows(h)
    <3>1. R[i].name = R[j].name /\ R[i].occurrence = R[j].occurrence
      BY <2>4 DEF FieldRows
    <3>2. DOMAIN R = DOMAIN h
      BY DEF FieldRows
    <3> HIDE DEF R, h
    <3>3. FieldsInsertable(R)
      BY DEF R, h
    <3> QED
      BY <3>1, <3>2, <3>3 DEF FieldsInsertable
  <2>6. FoundTwice(f, i)
    BY <1>2, <1>3, <2>1, <2>2, <2>5, TwiceInField DEF p
  <2> QED
    BY <2>6
<1> QED
  BY <1>9, <1>10, <1>11

(* Why worker w's run is lost.                                                *)
Explained(w) ==
  \/ \E v \in versions : local[w].number # None /\ Clash(v, NewVersion(w))
  \/ DescribedAlike(HeaderOf(w))
  \/ \E r, s \in MissingRoles(HeaderOf(w)) : r # s
  \/ MissingTwice(HeaderOf(w))
  \/ \E i \in DOMAIN HeaderOf(w) : FoundTwice(Current(w), i)

(* The columns of a visible version have rows of their own; what the run has  *)
(* registered itself is neither under the current header nor numbered as      *)
(* high as the version it is about to insert.                                 *)
Insertable(V) == \A v \in V : FieldsInsertable(FieldRows(v.header))
Registering(w) ==
  /\ Insertable(Visible(w))
  /\ pc[w] \in {"compare", "number", "insert"} => \A v \in tx[w].versions : v.header # HeaderOf(w)
  /\ pc[w] = "insert" => \A v \in tx[w].versions : v.number < local[w].number
  /\ pc[w] = "aborted" => Explained(w)

AbortInv == \A w \in Workers : Registering(w)

(* What another worker does leaves a worker's reasons.                        *)
LEMMA OthersRegistering ==
  ASSUME AbortInv, NEW w \in Workers, OnlyHis(w), NEW o \in Workers, o # w,
         versions \subseteq versions', versions' \subseteq Visible(w)
  PROVE  Registering(o)'
<1>1. todo'[o] = todo[o] /\ pc'[o] = pc[o] /\ tx'[o] = tx[o] /\ local'[o] = local[o]
  BY DEF OnlyHis
<1>2. HeaderOf(o)' = HeaderOf(o) /\ Current(o)' = Current(o)
  BY <1>1 DEF HeaderOf, Current
<1>3. NewVersion(o)' = NewVersion(o)
  BY <1>1, <1>2 DEF NewVersion
<1>4. Registering(o) /\ Registering(w)
  BY DEF AbortInv
<1>5. Visible(o)' \subseteq Visible(w) \cup Visible(o)
  BY <1>1 DEF Visible
<1>6. Insertable(Visible(o))'
  BY <1>4, <1>5 DEF Registering, Insertable
<1>7. Explained(o) => Explained(o)'
  <2>1. \A v : (local[o].number # None /\ Clash(v, NewVersion(o)))'
                <=> (local[o].number # None /\ Clash(v, NewVersion(o)))
    BY <1>1, <1>3 DEF Clash
  <2> QED
    BY <1>2, <2>1 DEF Explained
<1> QED
  BY <1>1, <1>2, <1>4, <1>6, <1>7 DEF Registering

(* A worker that does not reach an insert or an abort has nothing to explain.  *)
LEMMA MovedOn ==
  ASSUME AbortInv, NEW w \in Workers, pc'[w] \notin {"compare", "number", "insert", "aborted"},
         Visible(w)' \subseteq Visible(w)
  PROVE  Registering(w)'
BY DEF AbortInv, Registering, Insertable

(* An insert that fails.                                                      *)
LEMMA InsertFails ==
  ASSUME Shape, Numbering, AbortInv, NEW w \in Workers, pc[w] = "insert",
         \/ \E v \in Visible(w) : Clash(v, NewVersion(w))
         \/ ~FieldsInsertable(FieldRows(HeaderOf(w)))
  PROVE  Explained(w)
<1>1. Current(w) \in Files /\ HeaderOf(w) = Header(Current(w))
  BY CurrentFile DEF Shape, WorkerShape, HeaderOf
<1>2. CASE ~FieldsInsertable(FieldRows(HeaderOf(w)))
  BY <1>1, <1>2, ClashesDescribed DEF Explained
<1>3. CASE \E v \in Visible(w) : Clash(v, NewVersion(w))
  <2>1. PICK v \in Visible(w) : Clash(v, NewVersion(w))
    BY <1>3
  <2>2. local[w].number \in Nat \ {0} /\ \A u \in Visible(w) : u.number \in Nat
    BY DEF Numbering, Consecutive, Version
  <2>3. v \notin tx[w].versions
    <3> SUFFICES ASSUME v \in tx[w].versions PROVE FALSE
      OBVIOUS
    <3>1. v.header # HeaderOf(w) /\ v.number < local[w].number
      BY DEF AbortInv, Registering
    <3> QED
      BY <2>1, <2>2, <3>1 DEF Clash, NewVersion
  <2>4. v \in versions /\ local[w].number # None
    BY <2>2, <2>3, RunsAssumption DEF Visible
  <2> QED
    BY <2>1, <2>4 DEF Explained
<1> QED
  BY <1>2, <1>3

(* Every operation keeps the reasons.                                         *)
LEMMA AbortInductive ==
  ASSUME AnalysisInv, AbortInv, NEW w \in Workers, Step(w)
  PROVE  AbortInv'
<1>0. /\ Shape /\ Numbering /\ Results /\ OnlyHis(w) /\ WorkerShape(w) /\ Registering(w)
  BY StepIsHis DEF AnalysisInv, AbortInv, Shape
<1>1. versions \subseteq versions' /\ versions' \subseteq Visible(w)
  BY DEF Step, Reject, FindVersion, CompareWithActive, NextVersionNumber, AddVersion, Analyse, RollBack,
         Commit, Visible
<1>2. \A o \in Workers : o # w => Registering(o)'
  BY <1>0, <1>1, OthersRegistering
<1> SUFFICES Registering(w)'
  BY <1>2 DEF AbortInv
<1> USE <1>0 DEF To
<1>f. ASSUME NEW record, Finish(w, record), versions' = versions PROVE Registering(w)'
  <2>1. tx'[w].versions = tx[w].versions /\ pc'[w] = "file"
    BY <1>f DEF Finish, Shape, WorkerShape
  <2>2. Visible(w)' = Visible(w)
    BY <1>f, <2>1 DEF Visible
  <2> QED
    BY <2>1, <2>2, MovedOn
<1>3. CASE Reject(w)
  BY <1>3, <1>f DEF Reject
<1>4. CASE FindVersion(w)
  <2>1. /\ versions' = versions /\ tx' = tx /\ todo' = todo /\ pc'[w] \in {"quality", "compare"}
        /\ pc'[w] = "compare" => Registered(w) = {}
    BY <1>4 DEF FindVersion, Shape
  <2>2. Visible(w)' = Visible(w) /\ HeaderOf(w)' = HeaderOf(w)
    BY <2>1 DEF Visible, HeaderOf, Current
  <2>3. pc'[w] = "compare" => \A v \in tx'[w].versions : v.header # HeaderOf(w)
    BY <2>1 DEF Registered, Visible
  <2> QED
    BY <2>1, <2>2, <2>3 DEF Registering, Insertable
<1>5. CASE CompareWithActive(w)
  <2>1. versions' = versions /\ tx' = tx /\ todo' = todo /\ pc[w] = "compare" /\ pc'[w] = "number"
    BY <1>5 DEF CompareWithActive, Shape
  <2>2. Visible(w)' = Visible(w) /\ HeaderOf(w)' = HeaderOf(w)
    BY <2>1 DEF Visible, HeaderOf, Current
  <2> QED
    BY <2>1, <2>2 DEF Registering, Insertable
<1>6. CASE NextVersionNumber(w)
  <2>1. /\ versions' = versions /\ tx' = tx /\ todo' = todo /\ pc[w] = "number" /\ pc'[w] = "insert"
    BY <1>6 DEF NextVersionNumber, Shape
  <2>2. local'[w].number = 1 + Max({0} \cup {v.number : v \in Visible(w)})
    BY <1>6 DEF NextVersionNumber, Shape, WorkerShape
  <2>3. Consecutive(Visible(w))
    BY DEF Numbering
  <2>4. Cardinality(Visible(w)) \in Nat /\ local'[w].number = 1 + Cardinality(Visible(w))
    BY <2>2, <2>3, LargestNumber
  <2>5. \A v \in Visible(w) : v.number \in 1..Cardinality(Visible(w))
    BY <2>3 DEF Consecutive
  <2>6. \A v \in tx'[w].versions : v.number < local'[w].number
    BY <2>1, <2>4, <2>5 DEF Visible
  <2>7. Visible(w)' = Visible(w) /\ HeaderOf(w)' = HeaderOf(w)
    BY <2>1 DEF Visible, HeaderOf, Current
  <2> QED
    BY <2>1, <2>6, <2>7 DEF Registering, Insertable
<1>7. CASE AddVersion(w)
  <2>1. versions' = versions /\ todo' = todo /\ local' = local /\ pc[w] = "insert"
    BY <1>7 DEF AddVersion
  <2>2. CASE (\A v \in Visible(w) : ~Clash(v, NewVersion(w))) /\ FieldsInsertable(FieldRows(HeaderOf(w)))
    <3>1. tx'[w].versions = tx[w].versions \cup {NewVersion(w)} /\ pc'[w] = "quality"
      BY <1>7, <2>2 DEF AddVersion, Shape, WorkerShape
    <3>2. Visible(w)' = Visible(w) \cup {NewVersion(w)} /\ NewVersion(w).header = HeaderOf(w)
      BY <2>1, <3>1 DEF Visible, NewVersion
    <3> QED
      BY <2>2, <3>1, <3>2 DEF Registering, Insertable
  <2>3. CASE ~((\A v \in Visible(w) : ~Clash(v, NewVersion(w))) /\ FieldsInsertable(FieldRows(HeaderOf(w))))
    <3>1. tx' = tx /\ pc'[w] = "aborted"
      BY <1>7, <2>3 DEF AddVersion, Shape
    <3>2. Explained(w)
      BY <2>1, <2>3, InsertFails
    <3>3. Explained(w)' /\ Visible(w)' = Visible(w)
      BY <2>1, <3>1, <3>2 DEF Explained, HeaderOf, Current, NewVersion, Clash, Visible
    <3> QED
      BY <3>1, <3>3 DEF Registering, Insertable
  <2> QED
    BY <2>2, <2>3
<1>8. CASE Analyse(w)
  <2>0. versions' = versions /\ pc[w] = "quality"
    BY <1>8 DEF Analyse
  <2>1. PICK v \in Registered(w) :
          LET r == Judged(Profiles[Current(w)], local[w].compared, v.number, local[w].number = None)
          IN  \/ HashesDiffer(r.findings) /\ Finish(w, r)
              \/ ~HashesDiffer(r.findings) /\ To(w, "aborted") /\ UNCHANGED <<todo, tx, local>>
    BY <1>8 DEF Analyse
  <2> DEFINE c == local[w].compared
             r == Judged(Profiles[Current(w)], c, v.number, local[w].number = None)
  <2>2. CASE Finish(w, r)
    BY <1>f, <2>0, <2>2
  <2>3. CASE ~HashesDiffer(r.findings) /\ To(w, "aborted") /\ UNCHANGED <<todo, tx, local>>
    <3>1. tx' = tx /\ todo' = todo /\ local' = local /\ pc'[w] = "aborted"
      BY <2>3 DEF Shape
    <3>2. Current(w) \in Files /\ HeaderOf(w) = Header(Current(w))
      BY <2>0, CurrentFile DEF WorkerShape, HeaderOf
    <3>3. FieldsInsertable(FieldRows(HeaderOf(w)))
      BY <2>1 DEF Registered, Registering, Insertable
    <3>4. r.findings = Evaluate(Profiles[Current(w)], c.missing, c.additional)
      BY DEF Judged
    <3> HIDE DEF r, c
    <3>5. Explained(w)
      BY <2>3, <3>2, <3>3, <3>4, HashesExplained DEF Explained
    <3>6. Explained(w)' /\ Visible(w)' = Visible(w)
      BY <2>0, <3>1, <3>5 DEF Explained, HeaderOf, Current, NewVersion, Clash, Visible
    <3> QED
      BY <3>1, <3>6 DEF Registering, Insertable
  <2> QED
    BY <2>1, <2>2, <2>3
<1>9. CASE Commit(w)
  <2>1. versions' = Visible(w) /\ tx'[w] = NoWrites /\ pc'[w] = "committed"
    BY <1>9 DEF Commit, Visible, Shape
  <2>2. Visible(w)' \subseteq Visible(w)
    BY <2>1 DEF Visible, NoWrites
  <2> QED
    BY <2>1, <2>2, MovedOn
<1>10. CASE RollBack(w)
  <2>1. versions' = versions /\ tx'[w] = NoWrites /\ pc'[w] = "rolled_back"
    BY <1>10 DEF RollBack, Shape
  <2>2. Visible(w)' \subseteq Visible(w)
    BY <2>1 DEF Visible, NoWrites
  <2> QED
    BY <2>1, <2>2, MovedOn
<1> QED
  BY <1>3, <1>4, <1>5, <1>6, <1>7, <1>8, <1>9, <1>10 DEF Step

(* A run is lost only because another run committed the version first, a      *)
(* column of the dictionary is described like another one, two roles or two   *)
(* required entries of one name are missing, or a column shows two sentinels  *)
(* or breaks both bounds: for any workers, runs, files and dictionary          *)
(* (SchemaService.resolve, QualityService.analyse and the unique constraints). *)
THEOREM AbortsAreExplained == Spec => []AbortExplained
<1>1. Init => AbortInv
  <2> SUFFICES ASSUME Init, NEW w \in Workers PROVE Registering(w)
    BY DEF AbortInv
  <2>1. Visible(w) = {} /\ tx[w].versions = {} /\ pc[w] = "file"
    BY DEF Init, Visible, NoWrites
  <2> QED
    BY <2>1 DEF Registering, Insertable
<1>2. AnalysisInv /\ AbortInv /\ [Next]_vars => AbortInv'
  <2>1. AbortInv /\ UNCHANGED vars => AbortInv'
    BY DEF vars, AbortInv, Registering, Insertable, Visible, HeaderOf, Current, Explained, NewVersion, Clash
  <2> QED
    BY <2>1, AbortInductive DEF Next, Done
<1>3. AbortInv => AbortExplained
  BY DEF AbortInv, Registering, Explained, AbortExplained
<1> QED
  BY <1>1, <1>2, <1>3, AnalysisInvariance, PTL DEF Spec

-----------------------------------------------------------------------------
(* The score.                                                                *)

(* Some rows of a file, and the values they hold in a column.                 *)
LEMMA SomeRows ==
  ASSUME NEW f \in Files
  PROVE  /\ Len(Rows(f)) \in Nat /\ DOMAIN Rows(f) = 1..Len(Rows(f))
         /\ \A X \in SUBSET DOMAIN Rows(f) : IsFiniteSet(X) /\ Cardinality(X) \in 0..Len(Rows(f))
<1> DEFINE n == Len(Rows(f))
<1>1. n \in Nat /\ DOMAIN Rows(f) = 1..n
  BY FilesAssumption
<1> HIDE DEF n
<1>2. IsFiniteSet(1..n) /\ Cardinality(1..n) = n
  BY <1>1, FS_Interval
<1>3. ASSUME NEW X \in SUBSET DOMAIN Rows(f) PROVE IsFiniteSet(X) /\ Cardinality(X) \in 0..n
  BY <1>1, <1>2, FS_Subset, FS_CardinalityType
<1> QED
  BY <1>1, <1>3 DEF n

(* The types of a column's profile.                                           *)
LEMMA FieldTyped ==
  ASSUME NEW f \in Files, NEW i, NEW seen, seen = FieldProfile(f, i)
  PROVE  /\ seen.nulls \in 0..Len(Rows(f))
         /\ seen.numeric_valid \in Nat \cup {None}
         /\ IsFiniteSet(DOMAIN seen.hits) /\ \A v \in DOMAIN seen.hits : seen.hits[v] \in Nat
         /\ seen.observed # None => IsFiniteSet(seen.observed)
<1> DEFINE n == Len(Rows(f))
           filled == Filled(f, i)
           numbers == {k \in filled : Float[Cell(f, k, i)] # None}
           held(v) == {k \in DOMAIN Rows(f) : Cell(f, k, i) = v}
           V == Values(f, i)
<1>1. /\ n \in Nat
      /\ \A X \in SUBSET DOMAIN Rows(f) : IsFiniteSet(X) /\ Cardinality(X) \in 0..n
  BY SomeRows
<1>2. filled \in SUBSET DOMAIN Rows(f) /\ numbers \in SUBSET DOMAIN Rows(f)
      /\ \A v : held(v) \in SUBSET DOMAIN Rows(f)
  BY DEF Filled
<1>3. IsFiniteSet(V)
  <2> DEFINE g == [k \in filled |-> Cell(f, k, i)]
  <2>1. DOMAIN g = filled /\ g = [k \in filled |-> g[k]]
    OBVIOUS
  <2>2. V = {g[k] : k \in filled}
    BY DEF Values
  <2>3. IsFiniteSet(filled)
    BY <1>1, <1>2
  <2> HIDE DEF g, filled, V
  <2> QED
    BY <2>1, <2>2, <2>3, FiniteImage
<1>4. /\ seen.nulls = n - Cardinality(filled)
      /\ seen.numeric_valid \in {Cardinality(numbers), None}
      /\ seen.observed \in {V, None}
      /\ seen.hits = [v \in V \cap GlobalSentinels |-> Cardinality(held(v))]
  BY DEF FieldProfile, CountOf
<1> HIDE DEF n, filled, numbers, V, held
<1>5. Cardinality(filled) \in 0..n /\ Cardinality(numbers) \in Nat /\ \A v : Cardinality(held(v)) \in Nat
  BY <1>1, <1>2
<1>6. DOMAIN seen.hits = V \cap GlobalSentinels /\ \A v \in DOMAIN seen.hits : seen.hits[v] = Cardinality(held(v))
  BY <1>4
<1>7. IsFiniteSet(DOMAIN seen.hits)
  BY <1>3, <1>6, FS_Subset
<1>8. seen.nulls \in 0..n
  BY <1>1, <1>4, <1>5
<1> QED
  BY <1>3, <1>4, <1>5, <1>6, <1>7, <1>8 DEF n

(* The columns of a header.                                                   *)
LEMMA SomeColumns ==
  ASSUME NEW f \in Files
  PROVE  /\ Len(Header(f)) \in Nat /\ DOMAIN Header(f) = 1..Len(Header(f)) /\ IsFiniteSet(DOMAIN Header(f))
         /\ IsFiniteSet(Identities(Header(f)))
         /\ IsFiniteSet(DuplicateNames(Header(f)))
         /\ IsFiniteSet(Range(FieldRows(Header(f))))
<1> DEFINE h == Header(f)
           n == Len(h)
           D == DOMAIN h
<1>1. n \in Nat /\ D = 1..n
  BY ColumnsNumbered
<1>2. IsFiniteSet(D)
  BY <1>1, FS_Interval
<1>3. IsFiniteSet(Identities(h))
  <2> DEFINE g == [i \in D |-> <<h[i], Occurrence(h, i)>>]
  <2>1. DOMAIN g = D /\ g = [i \in D |-> g[i]] /\ Identities(h) = {g[i] : i \in D}
    BY DEF Identities
  <2> HIDE DEF g
  <2> QED
    BY <1>2, <2>1, FiniteImage
<1>4. IsFiniteSet(DuplicateNames(h))
  <2> DEFINE E == {j \in D : Occurrence(h, j) > 1}
             g == [i \in E |-> h[i]]
  <2>0. IsFiniteSet(E)
    BY <1>2, FS_Subset
  <2>1. DOMAIN g = E /\ g = [i \in E |-> g[i]] /\ DuplicateNames(h) = {g[i] : i \in E}
    BY DEF DuplicateNames
  <2> HIDE DEF g, E
  <2> QED
    BY <2>0, <2>1, FiniteImage
<1>5. IsFiniteSet(Range(FieldRows(h)))
  <2> DEFINE g == FieldRows(h)
  <2>1. DOMAIN g = D /\ g = [i \in D |-> g[i]]
    BY DEF FieldRows
  <2> HIDE DEF g, D
  <2>2. IsFiniteSet({g[i] : i \in D})
    BY <1>2, <2>1, FiniteImage
  <2>3. Range(g) = {g[i] : i \in D}
    BY <2>1 DEF Range
  <2> QED
    BY <2>2, <2>3 DEF g
<1> QED
  BY <1>1, <1>2, <1>3, <1>4, <1>5

(* The column of the event time is one of the header.                         *)
LEMMA TimeColumn ==
  ASSUME NEW f \in Files, NEW c, c = RoleColumn(Header(f), "EVENT_TIME"), c # 0
  PROVE  c \in DOMAIN Header(f)
<1> DEFINE h == Header(f)
           e == RoleSpecs["EVENT_TIME"].exact
           q == RoleSpecs["EVENT_TIME"].patterns
           at(S) == {i \in DOMAIN h : Canonical(h, i) \in S}
           E == {j \in 1..Len(e) : at({e[j]}) # {}}
           Q == {j \in 1..Len(q) : at(q[j]) # {}}
           exact == IF E # {} THEN Min(E) ELSE 0
           pattern == IF Q # {} THEN Min(Q) ELSE 0
<1>1. c = IF exact # 0 THEN Min(at({e[exact]}))
          ELSE IF pattern # 0 THEN Min(at(q[pattern])) ELSE 0
  BY DEF RoleColumn, SelectInSeq
<1>2. Len(e) \in Nat /\ Len(q) \in Nat /\ Len(h) \in Nat /\ DOMAIN h = 1..Len(h)
  BY FilesAssumption
<1>3. E \in SUBSET (1..Len(e)) /\ Q \in SUBSET (1..Len(q))
  OBVIOUS
<1>4. \A j \in E : at({e[j]}) # {}
  OBVIOUS
<1>5. \A j \in Q : at(q[j]) # {}
  OBVIOUS
<1>6. \A S : at(S) \in SUBSET (1..Len(h))
  BY <1>2
<1>7. \A S : at(S) # {} => Min(at(S)) \in DOMAIN h
  <2> HIDE DEF at, h
  <2>1. \A X \in SUBSET (1..Len(h)) : X # {} => Min(X) \in X
    BY <1>2, FirstPlace
  <2> QED
    BY <1>2, <1>6, <2>1
<1> HIDE DEF e, q, E, Q, at, h
<1>8. (E # {} => Min(E) \in E) /\ (Q # {} => Min(Q) \in Q)
  BY <1>2, <1>3, FirstPlace
<1>9. (exact # 0 => exact \in E) /\ (pattern # 0 => pattern \in Q)
  BY <1>8
<1> HIDE DEF exact, pattern
<1>10. c \in DOMAIN h
  BY <1>1, <1>4, <1>5, <1>7, <1>9
<1> QED
  BY <1>10 DEF h

(* The event times of a file that has some: they are numbers, of rows under   *)
(* a column.                                                                  *)
LEMMA TimesRead ==
  ASSUME NEW f \in Files, NEW ts, ts = Timestamps(f), ts.parsed > 0
  PROVE  /\ ts.filled \in Nat \ {0} /\ ts.parsed \in Nat
         /\ ts.stamps \in SUBSET Int /\ IsFiniteSet(ts.stamps)
         /\ Len(Header(f)) # 0 /\ Len(Rows(f)) # 0
<1> DEFINE c == RoleColumn(Header(f), "EVENT_TIME")
           filled == IF c = 0 THEN {} ELSE Filled(f, c)
           read(m) == {k \in filled : Formats[m][Cell(f, k, c)] # None}
           M == DOMAIN Formats
           Best(m) == \A n \in M : \/ Cardinality(read(n)) < Cardinality(read(m))
                                   \/ Cardinality(read(n)) = Cardinality(read(m)) /\ m <= n
           best == CHOOSE m \in M : Best(m)
           stamps == {Formats[best][Cell(f, k, c)] : k \in read(best)}
<1>1. /\ ts.filled = Cardinality(filled) /\ ts.parsed = Cardinality(read(best)) /\ ts.stamps = stamps
  BY DEF Timestamps
<1>2. /\ Len(Rows(f)) \in Nat /\ DOMAIN Rows(f) = 1..Len(Rows(f))
      /\ \A X \in SUBSET DOMAIN Rows(f) : IsFiniteSet(X) /\ Cardinality(X) \in 0..Len(Rows(f))
  BY SomeRows
<1>3. filled \in SUBSET DOMAIN Rows(f)
  BY DEF Filled
<1>4. \A m : read(m) \in SUBSET filled
  OBVIOUS
<1>5. ASSUME NEW m PROVE IsFiniteSet(read(m)) /\ Cardinality(read(m)) \in Nat
  <2>1. read(m) \in SUBSET DOMAIN Rows(f)
    BY <1>3, <1>4
  <2> HIDE DEF read
  <2> QED
    BY <1>2, <2>1
<1>6. \E m \in M : Best(m)
  <2> HIDE DEF read
  <2> DEFINE card == [m \in M |-> Cardinality(read(m))]
             C == {card[m] : m \in M}
  <2>1. Len(Formats) \in Nat \ {0} /\ M = 1..Len(Formats)
    BY FilesAssumption
  <2>2. IsFiniteSet(M) /\ M # {} /\ M \in SUBSET Nat
    <3>1. \A n \in Nat : IsFiniteSet(1..n)
      BY FS_Interval
    <3> HIDE DEF M
    <3> QED
      BY <2>1, <3>1
  <2>3. DOMAIN card = M /\ card = [m \in M |-> card[m]] /\ \A m \in M : card[m] \in Nat /\ card[m] = Cardinality(read(m))
    BY <1>5
  <2> HIDE DEF card, M
  <2>4. IsFiniteSet(C)
    BY <2>2, <2>3, FiniteImage
  <2>5. C \in SUBSET Nat /\ C # {}
    BY <2>2, <2>3
  <2>6. PICK g \in C : \A n \in C : n <= g
    <3> HIDE DEF C
    <3> QED
      BY <2>4, <2>5, GreatestNumber
  <2> DEFINE K == {m \in M : card[m] = g}
  <2>7. K \in SUBSET Nat /\ K # {}
    BY <2>2, <2>6
  <2>8. PICK m \in K : \A n \in K : m <= n
    <3> HIDE DEF K
    <3> QED
      BY <2>7, LeastNumber
  <2>9. ASSUME NEW n \in M PROVE card[n] < card[m] \/ (card[n] = card[m] /\ m <= n)
    <3>1. card[n] \in Nat /\ g \in Nat /\ card[m] = g /\ card[n] <= g
      BY <2>3, <2>5, <2>6, <2>8
    <3>2. CASE card[n] = g
      BY <2>8, <3>1, <3>2
    <3>3. CASE card[n] # g
      BY <3>1, <3>3
    <3> QED
      BY <3>2, <3>3
  <2> QED
    BY <2>3, <2>8, <2>9
<1>7. best \in M
  BY <1>6
<1> HIDE DEF best
<1>8. read(best) # {} /\ filled # {} /\ c # 0
  <2>1. Cardinality(read(best)) # 0
    BY <1>1
  <2>2. read(best) # {}
    <3> HIDE DEF read
    <3> QED
      BY <2>1, FS_EmptySet
  <2> QED
    BY <2>2
<1>9. c \in DOMAIN Header(f)
  BY <1>8, TimeColumn
<1>10. ASSUME NEW k \in read(best) PROVE Formats[best][Cell(f, k, c)] \in Int
  <2>1. k \in DOMAIN Rows(f) /\ Cell(f, k, c) # None /\ Formats[best][Cell(f, k, c)] # None
    BY <1>8 DEF Filled
  <2>2. Rows(f)[k] \in [DOMAIN Header(f) -> Texts \cup {None}]
    <3> DEFINE T == [DOMAIN Header(f) -> Texts \cup {None}]
    <3>1. Rows(f) \in Seq(T)
      BY FilesAssumption
    <3> HIDE DEF T
    <3>2. Rows(f)[k] \in T
      BY <2>1, <3>1
    <3> QED
      BY <3>2 DEF T
  <2>3. Cell(f, k, c) \in Texts
    BY <1>9, <2>1, <2>2 DEF Cell
  <2>4. Formats[best] \in [Texts -> Int \cup {None}]
    BY <1>7, FilesAssumption
  <2> QED
    BY <2>1, <2>3, <2>4
<1>11. IsFiniteSet(stamps)
  <2> DEFINE R == read(best)
             g == [k \in R |-> Formats[best][Cell(f, k, c)]]
  <2>1. DOMAIN g = R /\ g = [k \in R |-> g[k]] /\ stamps = {g[k] : k \in R}
    OBVIOUS
  <2>2. IsFiniteSet(R)
    BY <1>5
  <2> HIDE DEF g, R, stamps
  <2> QED
    BY <2>1, <2>2, FiniteImage
<1>12. stamps \in SUBSET Int
  BY <1>10
<1>13. Cardinality(filled) \in Nat /\ Cardinality(filled) # 0
  <2>1. IsFiniteSet(filled) /\ Cardinality(filled) \in Nat
    BY <1>2, <1>3
  <2> HIDE DEF filled
  <2> QED
    BY <1>8, <2>1, FS_EmptySet
<1>14. Len(Header(f)) # 0
  <2>1. Len(Header(f)) \in Nat /\ DOMAIN Header(f) = 1..Len(Header(f))
    BY SomeColumns
  <2> QED
    BY <1>9, <2>1
<1>15. Len(Rows(f)) # 0
  <2>1. DOMAIN Rows(f) # {}
    BY <1>3, <1>8
  <2> QED
    BY <1>2, <2>1
<1>16. Cardinality(read(best)) \in Nat
  BY <1>5
<1> HIDE DEF stamps, filled, read
<1> QED
  BY <1>1, <1>11, <1>12, <1>13, <1>14, <1>15, <1>16

(* What a dimension is cut to is a percentage.                                *)
LEMMA Clamped ==
  /\ \A n \in Int : Clamp(n) \in Percentage
  /\ \A a, b \in Int : Least(a, b) \in Int
  /\ 10000 \in Percentage
BY DEF Clamp, Least, Percentage

(* The types of what is counted of duplicates.                                *)
LEMMA DuplicatesTyped ==
  ASSUME NEW f \in Files, Len(Rows(f)) # 0, NEW d, d = Duplicates(f)
  PROVE  d.exact \in Int /\ d.groups \in Nat \ {0} /\ d.conflicting \in Nat
<1> DEFINE rows == Rows(f)
           D == DOMAIN rows
           key(k) == [i \in KeyColumns(f) |-> rows[k][i]]
           keys == {key(k) : k \in D}
           held(x) == {k \in D : key(k) = x}
           conflict == {x \in keys : Cardinality({rows[k] : k \in held(x)}) > 1}
           different == {rows[k] : k \in D}
<1>1. /\ d.exact = Len(rows) - Cardinality(different) /\ d.groups = Cardinality(keys)
      /\ d.conflicting = Cardinality(conflict)
  BY DEF Duplicates
<1>2. Len(rows) \in Nat /\ D = 1..Len(rows) /\ IsFiniteSet(D)
  BY SomeRows
<1>3. D # {}
  BY <1>2
<1> HIDE DEF D, rows
<1>4. IsFiniteSet(different)
  <2> DEFINE g == [k \in D |-> rows[k]]
  <2>1. DOMAIN g = D /\ g = [k \in D |-> g[k]] /\ different = {g[k] : k \in D}
    OBVIOUS
  <2> HIDE DEF g, different
  <2> QED
    BY <1>2, <2>1, FiniteImage
<1>5. IsFiniteSet(keys) /\ keys # {}
  <2> DEFINE g == [k \in D |-> key(k)]
  <2>1. DOMAIN g = D /\ g = [k \in D |-> g[k]] /\ keys = {g[k] : k \in D}
    OBVIOUS
  <2> HIDE DEF g, keys
  <2> QED
    BY <1>2, <1>3, <2>1, FiniteImage
<1>6. conflict \subseteq keys
  OBVIOUS
<1> HIDE DEF keys, conflict, different
<1>7. IsFiniteSet(conflict)
  BY <1>5, <1>6, FS_Subset
<1>8. Cardinality(different) \in Nat /\ Cardinality(keys) \in Nat /\ Cardinality(conflict) \in Nat
  BY <1>4, <1>5, <1>7, FS_CardinalityType
<1>9. Cardinality(keys) # 0
  BY <1>5, FS_EmptySet
<1> QED
  BY <1>1, <1>2, <1>8, <1>9

(* The findings of one column are finitely many, each of a number of times.   *)
LEMMA FindingsCounted ==
  ASSUME NEW f \in Files, NEW p, p = Profiles[f], NEW i \in DOMAIN Header(f)
  PROVE  IsFiniteSet(FieldRules(p, i)) /\ \A x \in FieldRules(p, i) : x.count \in Int
<1> DEFINE spec == Resolve(Header(f), i)
           seen == FieldProfile(f, i)
           about(rule, severity, count, details) ==
             Finding(rule, "FIELD", severity, spec.name, spec.occurrence, count, details)
           valid == IF seen.numeric_valid = None THEN 0 ELSE seen.numeric_valid
           enums == Cardinality(seen.observed \ spec.allowed)
           H == DOMAIN seen.hits \cap spec.sentinels
           S == {about("SENTINEL_VALUE", "WARNING", seen.hits[v], v) : v \in H}
           low == about("OUT_OF_RANGE", "ERROR", 1, seen.min)
           high == about("OUT_OF_RANGE", "ERROR", 1, seen.max)
           type == about("INVALID_TYPE", "ERROR", p.rows - seen.nulls - valid, None)
           enum == about("UNKNOWN_ENUM_VALUE", "WARNING", enums, None)
<1>0. p.rows = Len(Rows(f))
  BY DEF Profiles, Profile
<1>1. p.specs[i] = spec /\ p.fields[i] = seen
  <2>1. i \in Positions(f)
    BY ColumnsNumbered DEF Positions
  <2> QED
    BY <2>1 DEF Profiles, Profile
<1>2. /\ seen.nulls \in 0..Len(Rows(f))
      /\ seen.numeric_valid \in Nat \cup {None}
      /\ IsFiniteSet(DOMAIN seen.hits) /\ \A v \in DOMAIN seen.hits : seen.hits[v] \in Nat
      /\ seen.observed # None => IsFiniteSet(seen.observed)
  BY FieldTyped
<1>3. Len(Rows(f)) \in Nat
  BY SomeRows
<1> HIDE DEF spec, seen
<1>4. ASSUME NEW x \in FieldRules(p, i)
      PROVE  x \in S \/ x \in {low, high, type} \/ (x = enum /\ seen.observed # None)
  <2>1. \/ \E v \in DOMAIN seen.hits \cap spec.sentinels :
             x = about("SENTINEL_VALUE", "WARNING", seen.hits[v], v)
        \/ /\ x = about("OUT_OF_RANGE", "ERROR", 1, seen.min)
           /\ None \notin {seen.min, spec.min} /\ seen.min < spec.min
        \/ /\ x = about("OUT_OF_RANGE", "ERROR", 1, seen.max)
           /\ None \notin {seen.max, spec.max} /\ seen.max > spec.max
        \/ x = about("INVALID_TYPE", "ERROR", p.rows - seen.nulls - valid, None)
        \/ /\ seen.observed # None
           /\ x = about("UNKNOWN_ENUM_VALUE", "WARNING", Cardinality(seen.observed \ spec.allowed), None)
    BY <1>1, FieldFinding
  <2>2. (\E v \in H : x = about("SENTINEL_VALUE", "WARNING", seen.hits[v], v)) <=> x \in S
    OBVIOUS
  <2> HIDE DEF about
  <2> QED
    BY <2>1, <2>2
<1>5. IsFiniteSet(S)
  <2> DEFINE g == [v \in H |-> about("SENTINEL_VALUE", "WARNING", seen.hits[v], v)]
  <2>1. DOMAIN g = H /\ g = [v \in H |-> g[v]] /\ S = {g[v] : v \in H}
    OBVIOUS
  <2>2. IsFiniteSet(H)
    BY <1>2, FS_Subset
  <2> HIDE DEF g, H, S
  <2> QED
    BY <2>1, <2>2, FiniteImage
<1>6. \A x \in S : x.count \in Int
  BY <1>2 DEF Finding
<1>7. seen.observed # None => enums \in Int
  <2> SUFFICES ASSUME seen.observed # None PROVE enums \in Int
    OBVIOUS
  <2>1. IsFiniteSet(seen.observed \ spec.allowed)
    BY <1>2, FS_Subset
  <2> QED
    BY <2>1, FS_CardinalityType
<1>8. p.rows - seen.nulls - valid \in Int
  <2>1. valid \in Nat
    BY <1>2
  <2> HIDE DEF valid
  <2> QED
    BY <1>0, <1>2, <1>3, <2>1
<1> HIDE DEF S, valid, enums
<1>9. low.count \in Int /\ high.count \in Int /\ type.count \in Int /\ (seen.observed # None => enum.count \in Int)
  BY <1>7, <1>8 DEF Finding
<1> HIDE DEF low, high, type, enum
<1>10. FieldRules(p, i) \subseteq S \cup ({low} \cup {high} \cup {type} \cup {enum})
  BY <1>4
<1>11. IsFiniteSet(FieldRules(p, i))
  <2>1. IsFiniteSet({low} \cup {high} \cup {type} \cup {enum})
    BY FS_Singleton, FS_Union
  <2> DEFINE X == {low} \cup {high} \cup {type} \cup {enum}
  <2>2. IsFiniteSet(S \cup X)
    BY <1>5, <2>1, FS_Union
  <2>3. FieldRules(p, i) \subseteq S \cup X
    BY <1>10
  <2> HIDE DEF X
  <2> QED
    BY <2>2, <2>3, FS_Subset
<1>12. \A x \in FieldRules(p, i) : x.count \in Int
  BY <1>4, <1>6, <1>9
<1> QED
  BY <1>11, <1>12

(* The findings that count as violations are those of the columns' rules.     *)
LEMMA ViolationsCounted ==
  ASSUME NEW f \in Files, NEW p, p = Profiles[f], NEW missing, NEW additional, NEW F,
         F = Evaluate(p, missing, additional)
  PROVE  SumFunction([x \in {y \in F : y.rule \in Violating} |-> x.count]) \in Int
<1> DEFINE C == CardinalityRule("UNEXPECTED_CONNECTOR_CARDINALITY", ExpectedConnectors, p.connectors)
           S == CardinalityRule("UNEXPECTED_SMR_CARDINALITY", ExpectedSmrs, p.smrs)
           D == DriftRule(missing, additional)
           h == p.header
           R == {FieldRules(p, i) : i \in DOMAIN h}
           U == UNION R
           V == {y \in F : y.rule \in Violating}
           g == [x \in V |-> x.count]
<1>0. F = HeaderRules(p) \cup TimestampRules(p) \cup DuplicateRules(p) \cup AllNullRule(p)
          \cup C \cup S \cup U \cup D
  BY Zenon DEF Evaluate
<1>1. h = Header(f)
  BY DEF Profiles, Profile
<1>2. /\ \A z \in TimestampRules(p) : z.rule \in TimestampNames
      /\ \A z \in DuplicateRules(p) : z.rule \in DuplicatesNames
      /\ \A z \in AllNullRule(p) : z.rule = "ALL_NULL_FIELD"
      /\ \A z \in D : z.rule \in Drift
      /\ \A z \in C : z.rule = "UNEXPECTED_CONNECTOR_CARDINALITY"
      /\ \A z \in S : z.rule = "UNEXPECTED_SMR_CARDINALITY"
  BY FoundOnce
<1>3. \A z \in HeaderRules(p) : z.rule \in HeaderNames
  BY RulesNamed
<1> HIDE DEF D, C, S, h, R
<1>4. V \subseteq U
  <2> HIDE DEF U
  <2> QED
    BY <1>0, <1>2, <1>3
       DEF Violating, HeaderNames, TimestampNames, DuplicatesNames, Drift
<1>5. ASSUME NEW i \in DOMAIN h PROVE IsFiniteSet(FieldRules(p, i)) /\ \A x \in FieldRules(p, i) : x.count \in Int
  BY <1>1, FindingsCounted
<1>6. IsFiniteSet(U)
  <2> DEFINE q == [i \in DOMAIN h |-> FieldRules(p, i)]
  <2>1. DOMAIN q = DOMAIN h /\ q = [i \in DOMAIN h |-> q[i]] /\ R = {q[i] : i \in DOMAIN h}
    BY DEF R
  <2>2. IsFiniteSet(DOMAIN h)
    BY <1>1, SomeColumns
  <2>3. IsFiniteSet(R)
    <3> HIDE DEF q
    <3> QED
      BY <2>1, <2>2, FiniteImage
  <2>4. \A T \in R : IsFiniteSet(T)
    BY <1>5 DEF R
  <2> QED
    BY <2>3, <2>4, FS_UNION
<1>7. \A x \in U : x.count \in Int
  BY <1>5 DEF R
<1> HIDE DEF U
<1>8. IsFiniteSet(V)
  BY <1>4, <1>6, FS_Subset
<1>9. DOMAIN g = V /\ \A x \in V : g[x] \in Int
  BY <1>4, <1>7
<1> HIDE DEF g, V
<1>10. SumFunction(g) \in Int
  BY <1>8, <1>9, SumTyped
<1> QED
  BY <1>10 DEF g, V

(* The penalty of the schema dimension is a number.                           *)
LEMMA SchemaScored ==
  ASSUME NEW f \in Files, NEW p, p = Profiles[f], Len(Header(f)) # 0, NEW F, NEW drift \in Nat, NEW known
  PROVE  SchemaDimension(p, F, drift, known) \in Percentage
<1> DEFINE n == Len(p.header)
           twice == Cardinality(DuplicateNames(p.header))
           lacks == IF \E x \in F : x.rule = "MISSING_REQUIRED_FIELD" /\ x.severity = "CRITICAL" THEN 3000 ELSE 0
           share == (10000 * drift) \div n
           new == IF known THEN 0 ELSE 1000
           m == 200 * twice
           repeats == Least(1000, m)
           drifted == Least(4000, share)
           z == 10000 - lacks - repeats - drifted - new
<1>1. p.header = Header(f)
  BY DEF Profiles, Profile
<1>2. n \in Nat \ {0} /\ twice \in Nat
  BY <1>1, SomeColumns, FS_CardinalityType
<1>3. SchemaDimension(p, F, drift, known) =
        Clamp(z)
  BY DEF SchemaDimension
<1>4. lacks \in Int /\ new \in Int
  OBVIOUS
<1> HIDE DEF n, twice, lacks, new
<1>5. 10000 * drift \in Int /\ m \in Int
  BY <1>2
<1>6. share \in Int
  BY <1>2, <1>5, Quotient
<1> HIDE DEF share, m
<1>7. repeats \in Int /\ drifted \in Int
  BY <1>5, <1>6 DEF Least
<1> HIDE DEF repeats, drifted
<1>8. z \in Int
  BY <1>4, <1>7
<1> HIDE DEF z
<1> QED
  BY <1>3, <1>8, Clamped

(* The share of the cells that are filled, and of those that are valid.       *)
LEMMA CellsScored ==
  ASSUME NEW f \in Files, NEW p, p = Profiles[f], NEW missing, NEW additional, NEW F,
         F = Evaluate(p, missing, additional)
  PROVE  CompletenessDimension(p) \in Percentage /\ ValidityDimension(p, F) \in Percentage
<1> DEFINE h == p.header
           A == {i \in DOMAIN h : ~p.fields[i].all_null}
           total == p.rows * Cardinality(A)
           N == [i \in A |-> p.fields[i].nulls]
           nulls == SumFunction(N)
           G == [i \in DOMAIN h |-> p.rows - p.fields[i].nulls]
           cells == SumFunction(G)
           violations == SumFunction([x \in {y \in F : y.rule \in Violating} |-> x.count])
<1>1. h = Header(f) /\ p.rows = Len(Rows(f)) /\ p.rows \in Nat
  BY SomeRows DEF Profiles, Profile
<1>2. IsFiniteSet(DOMAIN h) /\ DOMAIN h = Positions(f)
  BY <1>1, SomeColumns DEF Positions
<1>3. ASSUME NEW i \in DOMAIN h PROVE p.fields[i].nulls \in 0..p.rows
  <2>1. p.fields[i] = FieldProfile(f, i)
    BY <1>2 DEF Profiles, Profile
  <2> QED
    BY <1>1, <2>1, FieldTyped
<1>4. A \subseteq DOMAIN h
  OBVIOUS
<1>5. DOMAIN G = DOMAIN h /\ \A i \in DOMAIN h : G[i] \in Nat
  BY <1>1, <1>3
<1>6. DOMAIN N = A /\ \A i \in A : N[i] \in Int
  BY <1>3, <1>4
<1> DEFINE present == (10000 * (total - nulls)) \div total
           invalid == (10000 * violations) \div cells
           rest == 10000 - invalid
<1>7. CompletenessDimension(p) = IF total = 0 THEN 10000 ELSE Clamp(present)
  BY SMT DEF CompletenessDimension
<1>v. ValidityDimension(p, F) = IF cells = 0 THEN 10000 ELSE Clamp(rest)
  BY SMT DEF ValidityDimension
<1>8. violations \in Int
  BY ViolationsCounted
<1> HIDE DEF h, A, N, G, violations
<1>9. IsFiniteSet(A) /\ Cardinality(A) \in Nat
  BY <1>2, <1>4, FS_Subset, FS_CardinalityType
<1>10. total \in Nat /\ nulls \in Int /\ cells \in Nat
  BY <1>1, <1>2, <1>5, <1>6, <1>9, SumTyped
<1> HIDE DEF total, nulls, cells
<1>11. CompletenessDimension(p) \in Percentage
  <2>1. CASE total = 0
    BY <1>7, <2>1, Clamped
  <2>2. CASE total # 0
    <3>1. 10000 * (total - nulls) \in Int
      BY <1>10
    <3>2. present \in Int
      BY <1>10, <2>2, <3>1, Quotient
    <3> HIDE DEF present
    <3>3. Clamp(present) \in Percentage
      BY <3>2, Clamped
    <3> QED
      BY <1>7, <2>2, <3>3
  <2> QED
    BY <2>1, <2>2
<1>12. ValidityDimension(p, F) \in Percentage
  <2>1. CASE cells = 0
    BY <1>v, <2>1, Clamped
  <2>2. CASE cells # 0
    <3>1. 10000 * violations \in Int
      BY <1>8
    <3>2. invalid \in Int
      BY <1>10, <2>2, <3>1, Quotient
    <3> HIDE DEF invalid
    <3>3. rest \in Int
      BY <3>2
    <3> HIDE DEF rest
    <3>4. Clamp(rest) \in Percentage
      BY <3>3, Clamped
    <3> QED
      BY <1>v, <2>2, <3>4
  <2> QED
    BY <2>1, <2>2
<1> QED
  BY <1>11, <1>12

(* What is taken off for duplicates.                                          *)
LEMMA DuplicatesScored ==
  ASSUME NEW f \in Files, NEW p, p = Profiles[f], Len(Rows(f)) # 0
  PROVE  DuplicateDimension(p) \in Percentage
<1> DEFINE d == p.duplicates
           exact == 10000 * d.exact
           conflicting == 10000 * d.conflicting
           e == exact \div p.rows
           c == conflicting \div d.groups
           z == 10000 - e - c
<1>1. d = Duplicates(f) /\ p.rows = Len(Rows(f)) /\ p.rows \in Nat \ {0}
  BY SomeRows DEF Profiles, Profile
<1>2. DuplicateDimension(p) = Clamp(z)
  BY DEF DuplicateDimension
<1> HIDE DEF d
<1>3. d.exact \in Int /\ d.groups \in Nat \ {0} /\ d.conflicting \in Nat
  BY <1>1, DuplicatesTyped
<1>4. exact \in Int /\ conflicting \in Int
  BY <1>3
<1> HIDE DEF exact, conflicting
<1>5. e \in Int /\ c \in Int
  BY <1>1, <1>3, <1>4, Quotient
<1> HIDE DEF e, c
<1>6. z \in Int
  BY <1>5
<1> HIDE DEF z
<1> QED
  BY <1>2, <1>6, Clamped

(* The share of the event times that read, less the penalty of a gap.         *)
LEMMA TimesScored ==
  ASSUME NEW f \in Files, NEW p, p = Profiles[f], Timestamps(f).parsed > 0
  PROVE  TimestampDimension(p) \in Percentage
<1> DEFINE ts == p.timestamps
           threshold == GapFactor * DoubleCadence(ts)
           excess == 1000 * (2 * Largest(ts) - threshold)
           penalty == IF ~GapSeen(ts) THEN 0 ELSE Least(3000, excess \div threshold)
           share == IF ts.filled = 0 THEN 10000 ELSE (10000 * ts.parsed) \div ts.filled
           z == share - penalty
<1>1. ts = Timestamps(f)
  BY DEF Profiles, Profile
<1>2. TimestampDimension(p) = Clamp(z)
  BY SMT DEF TimestampDimension
<1> HIDE DEF ts
<1>3. /\ ts.filled \in Nat \ {0} /\ ts.parsed \in Nat
      /\ ts.stamps \in SUBSET Int /\ IsFiniteSet(ts.stamps)
  BY <1>1, TimesRead
<1>4. share \in Int
  <2>1. 10000 * ts.parsed \in Int
    BY <1>3
  <2>2. (10000 * ts.parsed) \div ts.filled \in Int
    BY <1>3, <2>1, Quotient
  <2> QED
    BY <1>3, <2>2
<1>5. penalty \in Int
  <2>1. CASE ~GapSeen(ts)
    BY <2>1
  <2>2. CASE GapSeen(ts)
    <3>1. ~(Cardinality(ts.stamps) < 2) /\ DoubleCadence(ts) = DoubleMedian(ts.stamps)
      BY <2>2 DEF GapSeen, DoubleCadence
    <3>2. DoubleCadence(ts) \in Nat \ {0} /\ Largest(ts) \in Int
      BY <1>3, <3>1, MedianPositive DEF Largest
    <3>3. threshold \in Nat \ {0}
      <4>1. \A a, b \in Nat \ {0} : a * b \in Nat \ {0}
        OBVIOUS
      <4> QED
        BY <3>2, <4>1, QualityAssumption
    <3> HIDE DEF threshold
    <3>4. excess \in Int
      BY <3>2, <3>3
    <3> HIDE DEF excess
    <3>5. excess \div threshold \in Int
      BY <3>3, <3>4, Quotient
    <3> QED
      BY <2>2, <3>5, Clamped
  <2> QED
    BY <2>1, <2>2
<1> HIDE DEF share, penalty
<1>6. z \in Int
  BY <1>4, <1>5
<1> HIDE DEF z
<1> QED
  BY <1>2, <1>6, Clamped

(* The headline lies between the worst and the best score, or each score is   *)
(* that of a dimension without weight.                                        *)
Headlined(scores, q) ==
  \/ Min(Range(scores)) <= q /\ q <= Max(Range(scores))
  \/ /\ q = 0
     /\ \A d \in DOMAIN scores : \E e \in DOMAIN scores : scores[e] = scores[d] /\ Weights[e] = 0

(* Each different score is taken with a weight of its own: that of one of the *)
(* dimensions that have it.                                                   *)
LEMMA HeadlineBetween ==
  ASSUME NEW a \in Percentage, NEW b \in Percentage, NEW c \in Percentage, NEW d \in Percentage,
         NEW e \in Percentage, NEW s,
         s = [schema |-> a, completeness |-> b, validity |-> c, duplicates |-> d, timestamps |-> e]
  PROVE  Range(s) \subseteq Percentage /\ Headlined(s, Overall(s))
<1> DEFINE last(v) == IF v = s.timestamps THEN "timestamps"
                      ELSE IF v = s.duplicates THEN "duplicates"
                      ELSE IF v = s.validity THEN "validity"
                      ELSE IF v = s.completeness THEN "completeness" ELSE "schema"
           S == Range(s)
           w == [v \in S |-> Weights[last(v)]]
           x == [v \in S |-> v * Weights[last(v)]]
           lo == Min(S)
           hi == Max(S)
<1>1. Overall(s) = IF SumFunction(w) = 0 THEN 0 ELSE SumFunction(x) \div SumFunction(w)
  BY Zenon DEF Overall
<1>d. DOMAIN s = {"schema", "completeness", "validity", "duplicates", "timestamps"}
  OBVIOUS
<1>l. \A v \in S : last(v) \in DOMAIN s /\ s[last(v)] = v
  <2>1. \A v \in S : v = s.timestamps \/ v = s.duplicates \/ v = s.validity \/ v = s.completeness \/ v = s.schema
    BY <1>d DEF Range
  <2> QED
    BY <1>d, <2>1
<1>2. S = {a} \cup {b} \cup {c} \cup {d} \cup {e}
  <2>2. s["schema"] = a /\ s["completeness"] = b /\ s["validity"] = c /\ s["duplicates"] = d /\ s["timestamps"] = e
    OBVIOUS
  <2> QED
    BY <1>d, <2>2 DEF Range
<1>3. IsFiniteSet({a} \cup {b} \cup {c} \cup {d} \cup {e})
  BY FS_Singleton, FS_Union
<1>4. \A v : Weights[last(v)] \in Nat
  <2>1. \A v : last(v) \in {"schema", "completeness", "validity", "duplicates", "timestamps"}
    OBVIOUS
  <2> HIDE DEF last
  <2> QED
    BY <2>1, QualityAssumption
<1> HIDE DEF last, S
<1>5. S \in SUBSET Percentage /\ S # {} /\ IsFiniteSet(S) /\ S \in SUBSET Int
  <2>1. IsFiniteSet(S)
    BY <1>2, <1>3
  <2>2. S \in SUBSET Percentage /\ S # {}
    BY <1>2
  <2>3. Percentage \in SUBSET Int
    BY Z3 DEF Percentage
  <2> QED
    BY <2>1, <2>2, <2>3
<1>6. lo \in Int /\ hi \in Int /\ \A v \in S : lo <= v /\ v <= hi
  BY <1>5, Ends
<1> HIDE DEF lo, hi
<1>7. ASSUME NEW v \in S
      PROVE  x[v] \in Int /\ w[v] \in Nat /\ lo * w[v] <= x[v] /\ x[v] <= hi * w[v]
  <2> DEFINE m == Weights[last(v)]
  <2>1. w[v] = m /\ x[v] = v * m
    OBVIOUS
  <2>2. m \in Nat /\ v \in Int /\ lo <= v /\ v <= hi
    BY <1>4, <1>5, <1>6
  <2> HIDE DEF m
  <2>3. \A i, j \in Int : i <= j => i * m <= j * m
    BY <2>2
  <2>4. lo * m <= v * m /\ v * m <= hi * m /\ v * m \in Int
    BY <1>6, <2>2, <2>3
  <2> QED
    BY <2>1, <2>2, <2>4
<1>8. SumFunction(x) = SumFunctionOnSet(x, S) /\ SumFunction(w) = SumFunctionOnSet(w, S)
  BY Zenon DEF SumFunction
<1>w. \A v \in S : w[v] = Weights[last(v)]
  OBVIOUS
<1>r. \A g \in DOMAIN s : s[g] \in S
  BY DEF S, Range
<1> HIDE DEF x, w
<1> DEFINE X == SumFunctionOnSet(x, S)
           W == SumFunctionOnSet(w, S)
<1>9. /\ X \in Int /\ W \in Nat /\ lo * W <= X /\ X <= hi * W
      /\ W = 0 => \A v \in S : w[v] = 0
  BY <1>5, <1>6, <1>7, WeightedSum
<1>10. Overall(s) = IF W = 0 THEN 0 ELSE X \div W
  BY <1>1, <1>8
<1> HIDE DEF X, W
<1>11. CASE W # 0
  <2>1. lo <= X \div W /\ X \div W <= hi
    BY <1>6, <1>9, <1>11, QuotientBetween
  <2>2. Overall(s) = X \div W
    BY <1>10, <1>11
  <2>3. lo <= Overall(s) /\ Overall(s) <= hi
    BY <2>1, <2>2
  <2> QED
    BY <1>5, <2>3 DEF lo, hi, S, Headlined
<1>12. CASE W = 0
  <2>1. Overall(s) = 0
    BY <1>10, <1>12
  <2>2. ASSUME NEW g \in DOMAIN s PROVE \E f \in DOMAIN s : s[f] = s[g] /\ Weights[f] = 0
    <3>1. s[g] \in S
      BY <1>r
    <3>2. Weights[last(s[g])] = 0
      BY <1>9, <1>12, <1>w, <3>1
    <3> QED
      BY <1>l, <3>1, <3>2
  <2> QED
    BY <1>5, <2>1, <2>2 DEF S, Headlined
<1> QED
  BY <1>9, <1>11, <1>12

(* A stored score is one that ScoreWithinDimensions allows.                   *)
Scored(r) ==
  r.scores # None => Range(r.scores) \subseteq Percentage /\ Headlined(r.scores, r.quality)

(* The file that is judged has event times, so rows and columns: no dimension *)
(* divides by nothing.                                                        *)
LEMMA JudgedScored ==
  ASSUME NEW f \in Files, ~Unusable(f), NEW c, IsFiniteSet(c.missing), IsFiniteSet(c.additional),
         NEW v, NEW known
  PROVE  Scored(Judged(Profiles[f], c, v, known))
<1> DEFINE p == Profiles[f]
           F == Evaluate(p, c.missing, c.additional)
           drift == Cardinality(c.missing) + Cardinality(c.additional)
           s == Dimensions(p, F, drift, known)
           r == Judged(p, c, v, known)
<1>1. r.scores = s /\ r.quality = Overall(s)
  BY Zenon DEF Judged
<1>2. Timestamps(f).parsed > 0
  <2>1. p.timestamps = Timestamps(f)
    BY DEF Profiles, Profile
  <2> QED
    BY <2>1 DEF Unusable, WithinTolerance
<1>3. Len(Header(f)) # 0 /\ Len(Rows(f)) # 0
  BY <1>2, TimesRead
<1>4. drift \in Nat
  BY FS_CardinalityType
<1>5. s = [schema |-> SchemaDimension(p, F, drift, known), completeness |-> CompletenessDimension(p),
           validity |-> ValidityDimension(p, F), duplicates |-> DuplicateDimension(p),
           timestamps |-> TimestampDimension(p)]
  BY Zenon DEF Dimensions
<1>p. p = Profiles[f] /\ F = Evaluate(p, c.missing, c.additional)
  OBVIOUS
<1> HIDE DEF p, F, drift, s, r
<1>6. SchemaDimension(p, F, drift, known) \in Percentage
  BY <1>p, <1>3, <1>4, SchemaScored
<1>7. CompletenessDimension(p) \in Percentage /\ ValidityDimension(p, F) \in Percentage
  BY <1>p, CellsScored
<1>8. DuplicateDimension(p) \in Percentage
  BY <1>p, <1>3, DuplicatesScored
<1>9. TimestampDimension(p) \in Percentage
  BY <1>p, <1>2, TimesScored
<1>10. Range(s) \subseteq Percentage /\ Headlined(s, Overall(s))
  BY <1>5, <1>6, <1>7, <1>8, <1>9, HeadlineBetween
<1>11. Scored(r)
  BY <1>1, <1>10 DEF Scored
<1> QED
  BY <1>11 DEF r, p

(* The drift of the current file is of finitely many columns.                 *)
LEMMA DriftFinite ==
  ASSUME Shape, Numbering, Results, NEW w \in Workers, pc[w] = "quality"
  PROVE  IsFiniteSet(local[w].compared.missing) /\ IsFiniteSet(local[w].compared.additional)
<1>1. Current(w) \in Files /\ HeaderOf(w) = Header(Current(w))
  BY CurrentFile DEF Shape, WorkerShape, HeaderOf
<1>2. IsFiniteSet(Identities(HeaderOf(w)))
  BY <1>1, SomeColumns
<1>3. NoDriftRead(w) \/ \E u \in Visible(w) : ComparedWith(w, u)
  BY DEF Results, Underway
<1>4. CASE NoDriftRead(w)
  BY <1>4, FS_EmptySet DEF NoDriftRead
<1>5. CASE \E u \in Visible(w) : ComparedWith(w, u)
  <2>1. PICK u \in Visible(w) : ComparedWith(w, u)
    BY <1>5
  <2>2. u \in Version
    BY DEF Numbering, Consecutive
  <2>3. PICK f \in Files : u.fields = FieldRows(Header(f))
    BY <2>2 DEF Version, Headers
  <2>4. IsFiniteSet(Known(u))
    <3> DEFINE R == Range(u.fields)
               g == [x \in R |-> <<x.name, x.occurrence>>]
    <3>1. IsFiniteSet(R)
      BY <2>3, SomeColumns
    <3>2. DOMAIN g = R /\ g = [x \in R |-> g[x]] /\ Known(u) = {g[x] : x \in R}
      BY DEF Known
    <3> HIDE DEF g, R
    <3> QED
      BY <3>1, <3>2, FiniteImage
  <2>5. /\ local[w].compared.missing \subseteq Known(u)
        /\ local[w].compared.additional \subseteq Identities(HeaderOf(w))
    BY <2>1 DEF ComparedWith
  <2> QED
    BY <1>2, <2>4, <2>5, FS_Subset
<1> QED
  BY <1>3, <1>4, <1>5

ScoreInv ==
  /\ \A f \in DOMAIN records : Scored(records[f])
  /\ \A w \in Workers : \A f \in DOMAIN tx[w].records : Scored(tx[w].records[f])

(* Results that are laid over others are scored as they were.                 *)
LEMMA OverlayScored ==
  ASSUME NEW a, NEW b, \A f \in DOMAIN a : Scored(a[f]), \A f \in DOMAIN b : Scored(b[f])
  PROVE  \A f \in DOMAIN Overlay(a, b) : Scored(Overlay(a, b)[f])
<1> SUFFICES ASSUME NEW f \in DOMAIN Overlay(a, b) PROVE Scored(Overlay(a, b)[f])
  OBVIOUS
<1>1. f \in DOMAIN a \cup DOMAIN b /\ Overlay(a, b)[f] = IF f \in DOMAIN b THEN b[f] ELSE a[f]
  BY DEF Overlay
<1>2. CASE f \in DOMAIN b
  <2>1. Overlay(a, b)[f] = b[f]
    BY <1>1, <1>2
  <2> QED
    BY <1>2, <2>1
<1>3. CASE f \notin DOMAIN b
  <2>1. Overlay(a, b)[f] = a[f] /\ f \in DOMAIN a
    BY <1>1, <1>3
  <2> QED
    BY <2>1
<1> QED
  BY <1>2, <1>3

(* Every operation keeps the scores.                                          *)
LEMMA ScoreInductive ==
  ASSUME AnalysisInv, ScoreInv, NEW w \in Workers, Step(w)
  PROVE  ScoreInv'
<1>0. /\ Shape /\ Numbering /\ Results /\ OnlyHis(w) /\ WorkerShape(w)
  BY StepIsHis DEF AnalysisInv, Shape
<1>s. SUFFICES /\ \A f \in DOMAIN records' : Scored(records'[f])
               /\ \A f \in DOMAIN tx'[w].records : Scored(tx'[w].records[f])
  <2>1. \A o \in Workers : o # w => tx'[o] = tx[o]
    BY <1>0 DEF OnlyHis
  <2> QED
    BY <1>s, <2>1 DEF ScoreInv
<1> DEFINE T == tx[w].records
<1>1. \A f \in DOMAIN T : Scored(T[f])
  BY DEF ScoreInv
<1>f. ASSUME NEW r, Finish(w, r), Scored(r)
      PROVE  \A f \in DOMAIN tx'[w].records : Scored(tx'[w].records[f])
  <2> DEFINE b == [f \in {Current(w)} |-> r]
  <2>1. tx'[w].records = Overlay(T, b)
    BY <1>0, <1>f DEF Finish, Shape, WorkerShape
  <2>2. \A f \in DOMAIN b : Scored(b[f])
    BY <1>f
  <2> HIDE DEF b, T
  <2> QED
    BY <1>1, <2>1, <2>2, OverlayScored
<1>2. CASE Commit(w)
  <2>1. records' = Overlay(records, T) /\ tx'[w] = NoWrites
    BY <1>0, <1>2 DEF Commit, Shape
  <2>2. \A f \in DOMAIN records : Scored(records[f])
    BY DEF ScoreInv
  <2> HIDE DEF T
  <2>3. \A f \in DOMAIN records' : Scored(records'[f])
    BY <1>1, <2>1, <2>2, OverlayScored
  <2>4. DOMAIN tx'[w].records = {}
    BY <2>1 DEF NoWrites
  <2> QED
    BY <2>3, <2>4
<1>3. CASE ~Commit(w)
  <2>1. records' = records
    BY <1>3 DEF Step, Reject, FindVersion, CompareWithActive, NextVersionNumber, AddVersion, Analyse, RollBack
  <2> SUFFICES \A f \in DOMAIN tx'[w].records : Scored(tx'[w].records[f])
    BY <2>1 DEF ScoreInv
  <2>2. CASE Reject(w)
    <3>1. Scored(Rejected) /\ Finish(w, Rejected)
      BY <2>2 DEF Reject, Scored, Rejected
    <3> QED
      BY <1>f, <3>1
  <2>3. CASE FindVersion(w) \/ CompareWithActive(w) \/ NextVersionNumber(w)
    <3>1. tx'[w] = tx[w]
      BY <2>3 DEF FindVersion, CompareWithActive, NextVersionNumber
    <3> QED
      BY <1>1, <3>1
  <2>4. CASE AddVersion(w)
    <3>1. tx'[w].records = T
      BY <1>0, <2>4 DEF AddVersion, Shape, WorkerShape
    <3> QED
      BY <1>1, <3>1
  <2>5. CASE RollBack(w)
    <3>1. tx'[w] = NoWrites
      BY <1>0, <2>5 DEF RollBack, Shape
    <3>2. DOMAIN tx'[w].records = {}
      BY <3>1 DEF NoWrites
    <3> QED
      BY <3>2
  <2>6. CASE Analyse(w)
    <3>0. pc[w] = "quality"
      BY <2>6 DEF Analyse
    <3>1. PICK v \in Registered(w) :
            LET r == Judged(Profiles[Current(w)], local[w].compared, v.number, local[w].number = None)
            IN  Finish(w, r) \/ UNCHANGED tx
      BY <2>6 DEF Analyse
    <3> DEFINE c == local[w].compared
               r == Judged(Profiles[Current(w)], c, v.number, local[w].number = None)
    <3>2. Current(w) \in Files /\ ~Unusable(Current(w))
      BY <1>0, <3>0, CurrentFile DEF WorkerShape, Results, Underway
    <3>3. IsFiniteSet(c.missing) /\ IsFiniteSet(c.additional)
      BY <1>0, <3>0, DriftFinite
    <3>4. Finish(w, r) \/ tx' = tx
      BY <3>1
    <3> HIDE DEF c
    <3>5. Scored(r)
      BY <3>2, <3>3, JudgedScored
    <3> HIDE DEF r
    <3> QED
      BY <1>1, <1>f, <3>4, <3>5
  <2> QED
    BY <1>3, <2>2, <2>3, <2>4, <2>5, <2>6 DEF Step
<1> QED
  BY <1>2, <1>3

(* What is stored of a file's quality is the file's: it is ready exactly when *)
(* its event times read and nothing required is missing, every dimension lies *)
(* between 0 and 100 and the headline score between the worst and the best of *)
(* them, or it is 0 because each score is that of a dimension that weighs      *)
(* nothing: for any workers, runs, files, dictionary and weights that are not  *)
(* negative (QualityService.analyse, compute_quality_score).                  *)
THEOREM JudgementStaysSound == Spec => []JudgementSound
<1>1. Init => ScoreInv
  BY DEF Init, NoWrites, ScoreInv
<1>2. AnalysisInv /\ ScoreInv /\ [Next]_vars => ScoreInv'
  <2>1. ScoreInv /\ UNCHANGED vars => ScoreInv'
    BY DEF vars, ScoreInv
  <2> QED
    BY <2>1, ScoreInductive DEF Next, Done
<1>3. ScoreInv => ScoreWithinDimensions
  <2> SUFFICES ASSUME ScoreInv, NEW f \in DOMAIN records, records[f].scores # None
               PROVE  /\ Range(records[f].scores) \subseteq Percentage
                      /\ Headlined(records[f].scores, records[f].quality)
    BY Zenon DEF ScoreWithinDimensions, Headlined
  <2>1. Scored(records[f])
    BY Zenon DEF ScoreInv
  <2> QED
    BY <2>1, Zenon DEF Scored
<1>4. ReadyIsSound /\ ScoreWithinDimensions => JudgementSound
  BY DEF JudgementSound
<1> QED
  BY <1>1, <1>2, <1>3, <1>4, AnalysisInvariance, ReadyStaysSound, PTL DEF Spec
=============================================================================

------------------------------ MODULE Analysis ------------------------------
(***************************************************************************)
(* The database half of a file's analysis (IngestionService._analyse): the   *)
(* schema version is found or registered, the rules are evaluated and stored, *)
(* the file becomes READY_FOR_NORMALIZATION or QUARANTINED.                  *)
(*                                                                           *)
(* Worker processes run at the same time, each over its files in a single    *)
(* transaction at READ COMMITTED: a statement sees what is committed and     *)
(* what its own transaction wrote.  An insert whose unique key another open  *)
(* transaction has inserted waits for that transaction to end.  A statement  *)
(* that fails aborts the transaction: the file is marked FAILED, the files   *)
(* after it fail at their first statement, the commit raises and everything  *)
(* is rolled back.                                                           *)
(***************************************************************************)
EXTENDS FileQuality

CONSTANTS
  Workers,
  Runs,               \* the sequences of files a worker may be given
  MaxColumns, MaxRows

(* Identical content is recognised before it is analysed: a run holds a file  *)
(* once.                                                                      *)
ASSUME RunsAssumption ==
  /\ Runs \subseteq Seq(Files)
  /\ \A r \in Runs : \A i, j \in DOMAIN r : r[i] = r[j] => i = j
  /\ None \notin Nat

VARIABLES
  versions,   \* committed schema_version rows with their field definitions
  records,    \* [analysed files -> record]: committed analysis results
  given,      \* [Workers -> files]: what the worker's run was started on
  todo,       \* [Workers -> files]: what is left of it
  pc,         \* [Workers -> step]
  tx,         \* [Workers -> [versions, records]]: uncommitted writes
  local       \* [Workers -> [compared, number]]: what the current file has read

vars == <<versions, records, given, todo, pc, tx, local>>

NoWrites == [versions |-> {}, records |-> <<>>]
Nothing == [compared |-> None, number |-> None]

(* No two workers are given the same file either.                            *)
Init ==
  /\ versions = {}
  /\ records = <<>>
  /\ given \in {g \in [Workers -> Runs] :
                  \A v, w \in Workers : v # w => Range(g[v]) \cap Range(g[w]) = {}}
  /\ todo = given
  /\ pc = [w \in Workers |-> "file"]
  /\ tx = [w \in Workers |-> NoWrites]
  /\ local = [w \in Workers |-> Nothing]

-----------------------------------------------------------------------------
Current(w) == Head(todo[w])
HeaderOf(w) == Header(Current(w))
Visible(w) == versions \cup tx[w].versions
Registered(w) == {v \in Visible(w) : v.header = HeaderOf(w)}

(* The results a with the results b put in their place.                       *)
Overlay(a, b) == [f \in DOMAIN a \cup DOMAIN b |-> IF f \in DOMAIN b THEN b[f] ELSE a[f]]

To(w, step) == pc' = [pc EXCEPT ![w] = step]

(* The result of the current file is written; the worker goes on to the next. *)
Finish(w, record) ==
  /\ tx' = [tx EXCEPT ![w].records = Overlay(@, [f \in {Current(w)} |-> record])]
  /\ todo' = [todo EXCEPT ![w] = Tail(@)]
  /\ local' = [local EXCEPT ![w] = Nothing]
  /\ To(w, "file")

Unusable(f) ==
  \/ Len(Header(f)) > MaxColumns
  \/ Len(Rows(f)) > MaxRows
  \/ ~WithinTolerance(Profiles[f].timestamps)

Rejected == [status |-> "QUARANTINED", version |-> None, compatibility |-> None,
             findings |-> {}, scores |-> None, quality |-> None]

(* A file beyond the limits, or whose event times do not read, is             *)
(* quarantined before its schema is looked at.                                *)
Reject(w) ==
  /\ pc[w] = "file" /\ todo[w] # <<>>
  /\ Unusable(Current(w))
  /\ Finish(w, Rejected)
  /\ UNCHANGED <<versions, records, given>>

(* The header differs from a registered schema by whole columns, told by name *)
(* and occurrence.                                                            *)
Compare(h, fields) ==
  LET known == {<<x.name, x.occurrence>> : x \in Range(fields)}
      gone == known \ Identities(h)
      new == Identities(h) \ known
      required == {<<x.name, x.occurrence>> : x \in {y \in Range(fields) : y.required}}
      moved == \E i \in DOMAIN h : \E x \in Range(fields) :
                 <<h[i], Occurrence(h, i)>> = <<x.name, x.occurrence>> /\ i # x.position
  IN  [missing |-> gone, additional |-> new,
       compatibility |-> IF gone \cap required # {} THEN "INCOMPATIBLE_MISSING_REQUIRED"
                         ELSE IF gone # {} THEN "COMPATIBLE_MISSING_OPTIONAL"
                         ELSE IF new # {} \/ moved THEN "COMPATIBLE_ADDITION"
                         ELSE "EXACT_MATCH"]

Exact == [missing |-> {}, additional |-> {}, compatibility |-> "EXACT_MATCH"]
Unknown == [missing |-> {}, additional |-> {}, compatibility |-> "UNKNOWN_SCHEMA"]

(* get_by_fingerprint: a header seen before reuses its version.               *)
FindVersion(w) ==
  /\ pc[w] = "file" /\ todo[w] # <<>>
  /\ ~Unusable(Current(w))
  /\ IF Registered(w) # {}
       THEN /\ local' = [local EXCEPT ![w].compared = Exact]
            /\ To(w, "quality")
       ELSE /\ To(w, "compare")
            /\ UNCHANGED local
  /\ UNCHANGED <<versions, records, given, todo, tx>>

(* Seeded error: the oldest version is taken for the newest.                  *)
NewestOldest(V) == CHOOSE v \in V : \A u \in V : v.number <= u.number

Newest(V) == CHOOSE v \in V : \A u \in V : u.number <= v.number

(* An unseen header is compared with the newest version ...                   *)
CompareWithActive(w) ==
  /\ pc[w] = "compare"
  /\ local' = [local EXCEPT ![w].compared =
       IF Visible(w) = {} THEN Unknown ELSE Compare(HeaderOf(w), Newest(Visible(w)).fields)]
  /\ To(w, "number")
  /\ UNCHANGED <<versions, records, given, todo, tx>>

(* Seeded error: numbers come from a sequence that open transactions advance. *)
NextVersionNumberSequence(w) ==
  /\ pc[w] = "number"
  /\ local' = [local EXCEPT ![w].number =
       1 + Max({0} \cup {v.number : v \in versions \cup UNION {tx[o].versions : o \in Workers}})]
  /\ To(w, "insert")
  /\ UNCHANGED <<versions, records, given, todo, tx>>

(* ... given the number after the largest ...                                 *)
NextVersionNumber(w) ==
  /\ pc[w] = "number"
  /\ local' = [local EXCEPT ![w].number = 1 + Max({0} \cup {v.number : v \in Visible(w)})]
  /\ To(w, "insert")
  /\ UNCHANGED <<versions, records, given, todo, tx>>

NewVersion(w) ==
  [number |-> local[w].number, header |-> HeaderOf(w), fields |-> FieldRows(HeaderOf(w))]

Clash(u, v) == u.number = v.number \/ u.header = v.header

(* Another open transaction has inserted the same number or fingerprint.      *)
Blocked(w) ==
  \E o \in Workers \ {w} : \E v \in tx[o].versions : Clash(v, NewVersion(w))

(* ... and inserted with its field definitions.  Both may break a unique       *)
(* constraint.                                                                *)
AddVersion(w) ==
  /\ pc[w] = "insert" /\ ~Blocked(w)
  /\ IF /\ \A v \in Visible(w) : ~Clash(v, NewVersion(w))
        /\ FieldsInsertable(FieldRows(HeaderOf(w)))
       THEN /\ tx' = [tx EXCEPT ![w].versions = @ \cup {NewVersion(w)}]
            /\ To(w, "quality")
       ELSE /\ To(w, "aborted")
            /\ UNCHANGED tx
  /\ UNCHANGED <<versions, records, given, todo, local>>

(* Seeded error: only the missing required fields of the contract are looked   *)
(* at, not the structural roles.                                               *)
StatusByContract(findings) ==
  IF \E x \in findings : x.severity = "CRITICAL" /\ x.field # None
    THEN "QUARANTINED" ELSE "READY_FOR_NORMALIZATION"

StatusOf(findings) ==
  IF HasCritical(findings) THEN "QUARANTINED" ELSE "READY_FOR_NORMALIZATION"

(* What is written about a file with profile p: c is the comparison with a      *)
(* schema, v the number of its version.                                        *)
Judged(p, c, v, known) ==
  LET findings == Evaluate(p, c.missing, c.additional)
      scores == Dimensions(p, findings, Cardinality(c.missing) + Cardinality(c.additional), known)
  IN  [status |-> StatusOf(findings), version |-> v, compatibility |-> c.compatibility,
       findings |-> findings, scores |-> scores, quality |-> Overall(scores)]

(* QualityService.analyse: the findings replace the file's findings; two with  *)
(* one hash break the unique constraint.  A critical one quarantines the file. *)
Analyse(w) ==
  /\ pc[w] = "quality"
  /\ \E v \in Registered(w), p \in {Profiles[Current(w)]} :
       \E record \in {Judged(p, local[w].compared, v.number, local[w].number = None)} :
         \/ HashesDiffer(record.findings) /\ Finish(w, record)
         \/ ~HashesDiffer(record.findings) /\ To(w, "aborted") /\ UNCHANGED <<todo, tx, local>>
  /\ UNCHANGED <<versions, records, given>>

(* The end of the run's session_scope.                                        *)
Commit(w) ==
  /\ pc[w] = "file" /\ todo[w] = <<>>
  /\ versions' = versions \cup tx[w].versions
  /\ records' = Overlay(records, tx[w].records)
  /\ tx' = [tx EXCEPT ![w] = NoWrites]
  /\ To(w, "committed")
  /\ UNCHANGED <<given, todo, local>>

(* Seeded error: the registered schemas of an aborted run survive it.         *)
RollBackFiles(w) ==
  /\ pc[w] = "aborted"
  /\ versions' = versions \cup tx[w].versions
  /\ tx' = [tx EXCEPT ![w] = NoWrites]
  /\ To(w, "rolled_back")
  /\ UNCHANGED <<records, given, todo, local>>

RollBack(w) ==
  /\ pc[w] = "aborted"
  /\ tx' = [tx EXCEPT ![w] = NoWrites]
  /\ To(w, "rolled_back")
  /\ UNCHANGED <<versions, records, given, todo, local>>

Ended(w) == pc[w] \in {"committed", "rolled_back"}

(* Every run has ended.                                                       *)
Done == (\A w \in Workers : Ended(w)) /\ UNCHANGED vars

Step(w) ==
  \/ Reject(w) \/ FindVersion(w) \/ CompareWithActive(w) \/ NextVersionNumber(w)
  \/ AddVersion(w) \/ Analyse(w) \/ Commit(w) \/ RollBack(w)

Next == (\E w \in Workers : Step(w)) \/ Done

Spec == Init /\ [][Next]_vars

-----------------------------------------------------------------------------
(* Properties.                                                               *)

Statuses == {"READY_FOR_NORMALIZATION", "QUARANTINED"}
(* Types: a stored result has one of two statuses; an open transaction holds  *)
(* results of its own files only.                                            *)
TypeOK ==
  /\ \A v \in versions : v.number \in Nat \ {0} /\ v.header \in {Header(f) : f \in Files}
  /\ DOMAIN records \subseteq Files
  /\ \A f \in DOMAIN records : records[f].status \in Statuses
  /\ \A w \in Workers :
       /\ pc[w] \in {"file", "compare", "number", "insert", "quality", "aborted",
                      "committed", "rolled_back"}
       /\ DOMAIN tx[w].records \subseteq Range(given[w])
       /\ IsSuffix(todo[w], given[w])

(* Registered versions are numbered 1, 2, 3, ... without a hole, and a header *)
(* has one version, whatever two workers register at once and whichever of    *)
(* their runs is rolled back (SchemaRepository.next_version_number).          *)
VersionsConsecutive ==
  /\ {v.number : v \in versions} = 1..Cardinality(versions)
  /\ \A u, v \in versions : u # v => ~Clash(u, v)

(* At most one open transaction holds versions that are not committed: it is  *)
(* why workers that wait for each other's inserts cannot wait in a circle,    *)
(* although runs register the same headers in different orders.               *)
OneRegistrar == Cardinality({w \in Workers : tx[w].versions # {}}) <= 1

(* The registry is well formed, numbered without a hole, and extended by one   *)
(* open transaction at a time.                                                *)
RegistrySound == TypeOK /\ VersionsConsecutive /\ OneRegistrar

(* The findings of a rule count S and list it, as far as a list goes.          *)
Tells(findings, rule, S) ==
  {<<x.count, x.details>> : x \in {y \in findings : y.rule = rule}}
    = If(S # {}, <<Cardinality(S), Shortened(S)>>)
Known(v) == {<<x.name, x.occurrence>> : x \in Range(v.fields)}

(* g comes before f in one run.                                              *)
Precedes(g, f) ==
  \E w \in Workers : \E i, j \in DOMAIN given[w] : i < j /\ g = given[w][i] /\ f = given[w][j]

(* The drift stored with a file counts and lists exactly what its header lacks *)
(* and adds beside an earlier version, and no version of a file before it in its run   *)
(* lies between the two: only what other runs commit meanwhile is passed over *)
(* (SchemaService._compare_with_active).                                      *)
DriftTruthful ==
  \A f \in DOMAIN records : records[f].version # None =>
    /\ \E v \in versions : v.number = records[f].version /\ v.header = Header(f)
    /\ \/ Tells(records[f].findings, "MISSING_FIELD", {}) /\ Tells(records[f].findings, "SCHEMA_MISMATCH", {})
       \/ \E u \in versions :
            /\ u.number < records[f].version
            /\ Tells(records[f].findings, "MISSING_FIELD", Known(u) \ Identities(Header(f)))
            /\ Tells(records[f].findings, "SCHEMA_MISMATCH", Identities(Header(f)) \ Known(u))
            /\ \A g \in DOMAIN records : Precedes(g, f) /\ records[g].version # None =>
                 records[g].version \notin u.number + 1 .. records[f].version - 1

(* Whether the event times of a file read, every structural role has a column *)
(* and every required name of the dictionary is in its header.                *)
Usable ==
  [f \in Files |->
    /\ ~Unusable(f)
    /\ \A r \in DOMAIN RoleSpecs : RoleSpecs[r].required => RoleColumn(Header(f), r) # 0
    /\ \A s \in Range(Dictionary) : s.required => s.name \in Range(Header(f))]

(* A file is declared ready exactly when it is usable.                        *)
ReadyIsSound ==
  \A f \in DOMAIN records : records[f].status = "READY_FOR_NORMALIZATION" <=> Usable[f]

(* Percentages are counted in hundredths of one.                              *)
Percentage == 0..10000

(* Every dimension is between 0 and 100, the headline score between the worst  *)
(* and the best of them, also where equal dimensions share a weight.  It is 0  *)
(* beside better dimensions only when each score is that of a dimension that   *)
(* weighs nothing (compute_quality_score).                                    *)
ScoreWithinDimensions ==
  \A f \in DOMAIN records : records[f].scores # None =>
    /\ Range(records[f].scores) \subseteq Percentage
    /\ \/ /\ Min(Range(records[f].scores)) <= records[f].quality
          /\ records[f].quality <= Max(Range(records[f].scores))
       \/ /\ records[f].quality = 0
          /\ \A d \in DOMAIN records[f].scores : \E e \in DOMAIN records[f].scores :
               records[f].scores[e] = records[f].scores[d] /\ Weights[e] = 0

(* What is stored of a file's quality, status and score, is the file's.        *)
JudgementSound == ReadyIsSound /\ ScoreWithinDimensions

(* A column found in the dictionary is described like another one: by the    *)
(* name and occurrence of one entry, which both spell, or under one canonical *)
(* name.                                                                      *)
DescribedAlike(h) ==
  \E i, j \in DOMAIN h :
    LET x == FieldRows(h)[i]
        y == FieldRows(h)[j]
    IN  /\ i # j /\ BySpelling(h[i]) # 0
        /\ \/ /\ <<x.name, x.occurrence>> = <<y.name, y.occurrence>>
              /\ Squeezed[h[i]] = Squeezed[h[j]]
           \/ x.canonical = y.canonical

(* Two required entries of one name that the header lacks.                    *)
MissingTwice(h) ==
  \E s, t \in Range(Dictionary) :
    s # t /\ s.required /\ t.required /\ s.name = t.name /\ s.name \notin Range(h)

(* The column shows two declared sentinels, or breaks both bounds.            *)
FoundTwice(f, i) ==
  LET spec == Resolve(Header(f), i)
      seen == FieldProfile(f, i)
  IN  \/ \E u, v \in Values(f, i) \cap GlobalSentinels \cap spec.sentinels : u # v
      \/ /\ None \notin {spec.min, spec.max, seen.min, seen.max}
         /\ seen.min < spec.min /\ spec.max < seen.max

(* A whole run is lost only for one of these: another run committed the       *)
(* version first, a column of the dictionary is described like another one,   *)
(* two structural roles or two required entries of one name have no column,   *)
(* or a column shows two sentinels or breaks both bounds.  Two names of one    *)
(* snake_case form are no reason when neither is in the dictionary.           *)
AbortExplained ==
  \A w \in Workers : pc[w] = "aborted" =>
    \/ \E v \in versions : local[w].number # None /\ Clash(v, NewVersion(w))
    \/ DescribedAlike(HeaderOf(w))
    \/ \E r, s \in MissingRoles(HeaderOf(w)) : r # s
    \/ MissingTwice(HeaderOf(w))
    \/ \E i \in DOMAIN HeaderOf(w) : FoundTwice(Current(w), i)

Registry ==
  INSTANCE SchemaRegistry WITH
    Carries <- [f \in Files |-> Header(f)],
    registry <- [i \in 1..Cardinality(versions) |-> (CHOOSE v \in versions : v.number = i).header],
    results <- [f \in Files |-> IF f \notin DOMAIN records THEN None
                                ELSE IF records[f].version = None THEN 0 ELSE records[f].version]

(* Workers that register schemas at the same time, at READ COMMITTED, implement *)
(* a registry that is written by one run at a time: headers are appended, never *)
(* reordered or repeated, together with the results of the files that brought   *)
(* them, and a run that is rolled back leaves no header behind.                 *)
SerialRegistry == Registry!Spec

(* "one bad file must not fail the run": when a run has ended, each of its    *)
(* files has a result.                                                        *)
BadFileContained ==
  \A w \in Workers : Ended(w) => Range(given[w]) \subseteq DOMAIN records
=============================================================================

---------------------------- MODULE SilverProofs ----------------------------
(***************************************************************************)
(* Proofs about Silver, for every dictionary, every content of the files     *)
(* and every page size.  The records and the provenance of a frame are       *)
(* always the resolution of the rows of one file (Derived), whatever was     *)
(* normalised and reconstructed before; what holds of a resolution therefore *)
(* holds of the tables.  A walk has returned every lasting record up to its  *)
(* cursor (WalkInv).                                                         *)
(***************************************************************************)
EXTENDS Silver, SetFacts, SequenceTheorems

-----------------------------------------------------------------------------
(* What resolving a frame computes.                                          *)

(* The raw readings of a field.                                              *)
Raws(p, rows) == {Reading(r, p) : r \in rows} \ {None}

(* Cases A, B and C of resolve_scalar_field.                                 *)
LEMMA ResolveSound ==
  ASSUME NEW p, NEW rows, IsFiniteSet(rows)
  PROVE  LET r == ResolveScalarField(p, rows)
             raws == Raws(p, rows)
         IN  /\ r.value # None => raws = {r.value} /\ r.masked = FALSE /\ r.raw = r.value
             /\ r.value = None /\ raws # {} =>
                  \/ Cardinality(raws) > 1
                  \/ raws = {Junk}
                  \/ r.masked = TRUE /\ raws = {Dictionary[p].sentinel}
             /\ r.raw = None <=> raws = {}
<1> DEFINE g == [r \in rows |-> Reading(r, p)]
           told == {g[r] : r \in rows}
           raws == Raws(p, rows)
           raw == CHOOSE v \in raws : TRUE
<1>1. raws = told \ {None}
  BY DEF Raws
<1>2. IsFiniteSet(raws)
  <2>1. DOMAIN g = rows /\ g = [r \in rows |-> g[r]]
    OBVIOUS
  <2>2. IsFiniteSet({g[r] : r \in rows})
    <3> HIDE DEF g
    <3> QED
      BY <2>1, FiniteImage
  <2> QED
    BY <1>1, <2>2, FS_Subset
<1>3. Cardinality(raws) \in Nat
  BY <1>2, FS_CardinalityType
<1>4. raws # {} => raw \in raws /\ raw # None /\ Cardinality(raws) # 0
  <2>1. Cardinality(raws) = 0 <=> raws = {}
    BY <1>2, FS_EmptySet
  <2> QED
    BY <2>1 DEF Raws
<1>5. Cardinality(raws) = 1 => raws = {raw}
  <2> HAVE Cardinality(raws) = 1
  <2>1. PICK v : raws = {v}
    BY <1>2, FS_Singleton
  <2>2. raws # {}
    BY <2>1
  <2> QED
    BY <1>4, <2>1, <2>2
<1>6. ResolveScalarField(p, rows) =
        IF raws = {} THEN [raw |-> None, value |-> None, masked |-> FALSE, conflict |-> FALSE]
        ELSE IF Cardinality(raws) = 1
        THEN [raw |-> raw, value |-> CoerceValue(raw, Dictionary[p]).value,
              masked |-> CoerceValue(raw, Dictionary[p]).masked, conflict |-> FALSE]
        ELSE [raw |-> raw, value |-> None, masked |-> FALSE, conflict |-> TRUE]
  BY Zenon DEF ResolveScalarField, Raws
<1>7. CASE raws = {}
  BY <1>6, <1>7
<1>8. CASE raws # {} /\ Cardinality(raws) = 1
  <2> HIDE DEF raws, raw
  <2> DEFINE s == Dictionary[p].sentinel
             read == CoerceValue(raw, Dictionary[p])
  <2>1. /\ read.value # None => read.value = raw /\ read.masked = FALSE
        /\ read.value = None => raw = Junk \/ (read.masked = TRUE /\ raw = s)
    BY <1>4, <1>8 DEF CoerceValue
  <2>2. ResolveScalarField(p, rows) =
          [raw |-> raw, value |-> read.value, masked |-> read.masked, conflict |-> FALSE]
    BY <1>6, <1>8
  <2> HIDE DEF read
  <2> QED
    BY <1>4, <1>5, <1>8, <2>1, <2>2 DEF raws
<1>9. CASE raws # {} /\ Cardinality(raws) # 1
  <2> HIDE DEF raws, raw
  <2> QED
    BY <1>3, <1>4, <1>6, <1>9 DEF raws
<1> QED
  BY <1>7, <1>8, <1>9

(* The keys of the resolved records: a table and one of its units.           *)
LEMMA KeysKnown ==
  ASSUME NEW rows, NEW k \in RecordKeys(rows)
  PROVE  /\ k = <<k[1], k[2]>>
         /\ k[1] \in DOMAIN Tables
         /\ k[2] \in UnitsOf(rows, k[1])
<1>1. PICK t \in DOMAIN Tables : k \in {t} \X UnitsOf(rows, t)
  BY DEF RecordKeys
<1> QED
  BY <1>1

(* A table kept per frame has its record, whatever the rows are.             *)
LEMMA FrameTablesPresent ==
  ASSUME NEW rows, NEW t \in DOMAIN Tables, Tables[t].unit = "frame"
  PROVE  <<t, 0>> \in RecordKeys(rows)
<1>1. <<t, 0>> \in {t} \X UnitsOf(rows, t)
  BY DEF UnitsOf
<1> QED
  BY <1>1 DEF RecordKeys

(* The fields of a record are the dictionary's for its table and unit, each   *)
(* resolved over the rows of the unit.                                       *)
LEMMA PayloadShape ==
  ASSUME NEW rows
  PROVE  LET payload == ResolveFrame(rows)
         IN  /\ DOMAIN payload = RecordKeys(rows)
             /\ \A k \in DOMAIN payload :
                  /\ DOMAIN payload[k] \subseteq FieldsOf(k[1], k[2])
                  /\ \A p \in DOMAIN payload[k] :
                       payload[k][p] = ResolveScalarField(p, Scope(rows, k[1], k[2]))
BY DEF ResolveFrame

(* The fields of a record are positions of the header.                       *)
LEMMA FieldsKnown ==
  ASSUME NEW t, NEW u, NEW p \in FieldsOf(t, u)
  PROVE  p \in Positions /\ Dictionary[p].table = t
BY DEF FieldsOf

(* The stored record of a resolution has its keys, its fields and values.    *)
LEMMA RecordShape ==
  ASSUME NEW payload
  PROVE  LET s == CreateSilverRecords(payload)
         IN  /\ DOMAIN s = DOMAIN payload
             /\ \A k \in DOMAIN payload :
                  /\ DOMAIN s[k] = DOMAIN payload[k]
                  /\ \A p \in DOMAIN payload[k] : s[k][p] = payload[k][p].value
BY DEF CreateSilverRecords

(* What a provenance entry says.                                             *)
LEMMA EntryShape ==
  ASSUME NEW payload, NEW f, NEW e \in MakeProvenance(payload, f)
  PROVE  /\ e.key \in DOMAIN payload /\ e.position \in DOMAIN payload[e.key]
         /\ e.position \in Positions
         /\ e.raw = payload[e.key][e.position].raw
         /\ e.masked = payload[e.key][e.position].masked
         /\ e.file = f
<1>1. PICK q \in Resolved(payload) :
        e = [key |-> q[1], position |-> q[2], raw |-> payload[q[1]][q[2]].raw,
             masked |-> payload[q[1]][q[2]].masked, file |-> f]
  BY DEF MakeProvenance
<1>2. q[1] \in DOMAIN payload /\ q[2] \in Positions /\ q[2] \in DOMAIN payload[q[1]]
  BY DEF Resolved
<1> QED
  BY <1>1, <1>2

(* Every field of a resolution has exactly one entry, and no other has any.   *)
LEMMA OneEntry ==
  ASSUME NEW payload, NEW f, NEW k \in DOMAIN payload, NEW p \in Positions
  PROVE  Cardinality({e \in MakeProvenance(payload, f) : e.key = k /\ e.position = p})
           = (IF p \in DOMAIN payload[k] THEN 1 ELSE 0)
<1> DEFINE S == {e \in MakeProvenance(payload, f) : e.key = k /\ e.position = p}
           d == [key |-> k, position |-> p, raw |-> payload[k][p].raw,
                 masked |-> payload[k][p].masked, file |-> f]
<1>1. CASE p \in DOMAIN payload[k]
  <2>1. d \in S
    <3>1. <<k, p>> \in Resolved(payload)
      BY <1>1 DEF Resolved
    <3>2. d \in MakeProvenance(payload, f)
      BY <3>1 DEF MakeProvenance
    <3> QED
      BY <3>2
  <2>2. ASSUME NEW e \in S PROVE e = d
    <3>1. PICK q \in Resolved(payload) :
            e = [key |-> q[1], position |-> q[2], raw |-> payload[q[1]][q[2]].raw,
                 masked |-> payload[q[1]][q[2]].masked, file |-> f]
      BY DEF MakeProvenance
    <3>2. q[1] = k /\ q[2] = p
      BY <3>1
    <3> QED
      BY <3>1, <3>2
  <2>3. S = {d}
    BY <2>1, <2>2
  <2> QED
    BY <1>1, <2>3, FS_Singleton
<1>2. CASE p \notin DOMAIN payload[k]
  <2>1. S = {}
    <3> SUFFICES ASSUME NEW e \in S PROVE FALSE
      OBVIOUS
    <3>1. e \in MakeProvenance(payload, f) /\ e.key = k /\ e.position = p
      OBVIOUS
    <3>2. e.position \in DOMAIN payload[e.key]
      BY <3>1, EntryShape
    <3> QED
      BY <1>2, <3>1, <3>2
  <2> QED
    BY <1>2, <2>1, FS_EmptySet
<1> QED
  BY <1>1, <1>2

-----------------------------------------------------------------------------
(* The tables.                                                               *)

Resolution(x, f) == ResolveFrame(ContributingRows(x, f))

Shape ==
  /\ bronze \in Contents
  /\ sources \in [Frames -> SUBSET Files]
  /\ steps \in 0..MaxRuns
  /\ DOMAIN silver \subseteq Frames
  /\ silver = [x \in DOMAIN silver |-> silver[x]]
  /\ prov = [x \in Frames |-> prov[x]]

(* A frame has the records and the provenance that one file resolves it to,   *)
(* or neither.                                                               *)
Derived ==
  /\ \A x \in Frames : x \notin DOMAIN silver => prov[x] = {}
  /\ \A x \in DOMAIN silver : \E f \in Files :
       /\ silver[x] = CreateSilverRecords(Resolution(x, f))
       /\ prov[x] = MakeProvenance(Resolution(x, f), f)

(* Records are kept for stored frames, and a run that still counts has all    *)
(* of its frames.                                                            *)
Held ==
  /\ \A x \in DOMAIN silver : sources[x] # {}
  /\ \A f \in DOMAIN runs : runs[f] \subseteq DOMAIN silver

SilverInv == Shape /\ Derived /\ Held

(* The Bronze rows never change, so a resolution stays what it is.            *)
LEMMA ResolutionStays ==
  ASSUME bronze' = bronze
  PROVE  \A x, f : Resolution(x, f)' = Resolution(x, f)
BY DEF Resolution, ContributingRows

(* Nothing is stored at first.                                               *)
LEMMA InitSilver == Init => SilverInv
<1> SUFFICES ASSUME Init PROVE SilverInv
  OBVIOUS
<1>1. DOMAIN silver = {} /\ DOMAIN runs = {}
  BY DEF Init
<1>2. Shape
  BY <1>1, LimitAssumption DEF Init, Shape
<1>3. Derived
  BY <1>1 DEF Init, Derived
<1>4. Held
  BY <1>1 DEF Held
<1> QED
  BY <1>2, <1>3, <1>4 DEF SilverInv

(* Replacing the records of the file's frames by its own resolution.          *)
LEMMA NormalizeKeeps ==
  ASSUME SilverInv, NEW f \in Files, NormalizeFile(f)
  PROVE  SilverInv'
<1> DEFINE xs == CanonicalFramesForFile(f)
           payload == [x \in xs |-> Resolution(x, f)]
<1>1. xs \subseteq Frames /\ \A x \in xs : f \in sources[x]
  BY DEF CanonicalFramesForFile
<1>2. /\ silver' = InsertRecords(DeleteForFrames(silver, xs), xs, payload)
      /\ prov' = InsertProvenance(xs, payload, f)
      /\ runs' = [g \in DOMAIN runs \cup {f} |-> IF g = f THEN xs ELSE runs[g]]
      /\ bronze' = bronze /\ sources' = sources
      /\ steps < MaxRuns /\ steps' = steps + 1
  BY Zenon DEF NormalizeFile, Tick, Resolution
<1> HIDE DEF xs
<1>3. DOMAIN silver' = DOMAIN silver \cup xs
  BY <1>2 DEF InsertRecords, DeleteForFrames
<1>4. \A x \in DOMAIN silver' :
        silver'[x] = IF x \in xs THEN CreateSilverRecords(Resolution(x, f)) ELSE silver[x]
  BY <1>2, <1>3 DEF InsertRecords, DeleteForFrames
<1>5. \A x \in Frames :
        prov'[x] = IF x \in xs THEN MakeProvenance(Resolution(x, f), f) ELSE prov[x]
  BY <1>2, <1>1 DEF InsertProvenance
<1>6. Shape'
  <2>1. silver' = [x \in DOMAIN silver' |-> silver'[x]]
    BY <1>2, <1>3 DEF InsertRecords
  <2>2. prov' = [x \in Frames |-> prov'[x]]
    BY <1>2 DEF InsertProvenance
  <2>3. steps' \in 0..MaxRuns
    BY <1>2, LimitAssumption DEF SilverInv, Shape
  <2> QED
    BY <1>1, <1>2, <1>3, <2>1, <2>2, <2>3 DEF SilverInv, Shape
<1>7. Derived'
  <2>1. \A x, g : Resolution(x, g)' = Resolution(x, g)
    BY <1>2, ResolutionStays
  <2>2. ASSUME NEW x \in Frames, x \notin DOMAIN silver' PROVE prov'[x] = {}
    BY <1>3, <1>5, <2>2 DEF SilverInv, Derived
  <2>3. ASSUME NEW x \in DOMAIN silver'
        PROVE  \E g \in Files : /\ silver'[x] = CreateSilverRecords(Resolution(x, g))
                                /\ prov'[x] = MakeProvenance(Resolution(x, g), g)
    <3>1. CASE x \in xs
      BY <1>1, <1>4, <1>5, <3>1
    <3>2. CASE x \notin xs
      <4>1. x \in DOMAIN silver /\ x \in Frames
        BY <1>3, <3>2 DEF SilverInv, Shape
      <4>2. silver'[x] = silver[x] /\ prov'[x] = prov[x]
        BY <1>4, <1>5, <3>2, <4>1
      <4>3. PICK g \in Files : /\ silver[x] = CreateSilverRecords(Resolution(x, g))
                               /\ prov[x] = MakeProvenance(Resolution(x, g), g)
        BY <4>1 DEF SilverInv, Derived
      <4> QED
        BY <4>2, <4>3
    <3> QED
      BY <3>1, <3>2
  <2>4. \A x \in DOMAIN silver' : \E g \in Files :
          /\ silver'[x] = CreateSilverRecords(Resolution(x, g)')
          /\ prov'[x] = MakeProvenance(Resolution(x, g)', g)
    BY <2>1, <2>3
  <2>5. \A x \in Frames : x \notin DOMAIN silver' => prov'[x] = {}
    BY <2>2
  <2> QED
    BY <2>4, <2>5 DEF Derived, CreateSilverRecords, MakeProvenance, Resolved
<1>8. Held'
  <2>1. \A x \in DOMAIN silver' : sources'[x] # {}
    BY <1>1, <1>2, <1>3 DEF SilverInv, Held
  <2>2. \A g \in DOMAIN runs' : runs'[g] \subseteq DOMAIN silver'
    BY <1>2, <1>3 DEF SilverInv, Held
  <2> QED
    BY <2>1, <2>2 DEF Held
<1> QED
  BY <1>6, <1>7, <1>8 DEF SilverInv

(* Deleting the records of the frames that the file alone holds.              *)
LEMMA ReconstructKeeps ==
  ASSUME SilverInv, NEW f \in Files, Reconstruct(f)
  PROVE  SilverInv'
<1> DEFINE alone == {x \in Frames : sources[x] = {f}}
           own == {x \in Frames : FrameDef[x].rows[f] # {}}
<1>1. /\ sources' = [x \in Frames |-> IF x \in own THEN sources[x] \cup {f} ELSE sources[x]]
      /\ silver' = DeleteForFrames(silver, alone)
      /\ prov' = DeleteProvenance(alone)
      /\ runs' = [g \in {h \in DOMAIN runs \ {f} : runs[h] \cap alone = {}} |-> runs[g]]
      /\ bronze' = bronze
      /\ steps < MaxRuns /\ steps' = steps + 1
  BY Zenon DEF Reconstruct, Tick
<1>2. alone \subseteq Frames
  OBVIOUS
<1> HIDE DEF alone, own
<1>3. DOMAIN silver' = DOMAIN silver \ alone
  BY <1>1 DEF DeleteForFrames
<1>4. \A x \in DOMAIN silver' : silver'[x] = silver[x]
  BY <1>1, <1>3 DEF DeleteForFrames
<1>5. \A x \in Frames : prov'[x] = IF x \in alone THEN {} ELSE prov[x]
  BY <1>1 DEF DeleteProvenance
<1>6. Shape'
  <2>1. silver' = [x \in DOMAIN silver' |-> silver'[x]]
    BY <1>1, <1>3 DEF DeleteForFrames
  <2>2. prov' = [x \in Frames |-> prov'[x]]
    BY <1>1 DEF DeleteProvenance
  <2>3. steps' \in 0..MaxRuns
    BY <1>1, LimitAssumption DEF SilverInv, Shape
  <2>4. sources' \in [Frames -> SUBSET Files]
    BY <1>1 DEF SilverInv, Shape
  <2> QED
    BY <1>1, <1>3, <2>1, <2>2, <2>3, <2>4 DEF SilverInv, Shape
<1>7. Derived'
  <2>1. \A x, g : Resolution(x, g)' = Resolution(x, g)
    BY <1>1, ResolutionStays
  <2>2. \A x \in Frames : x \notin DOMAIN silver' => prov'[x] = {}
    BY <1>3, <1>5 DEF SilverInv, Derived
  <2>3. ASSUME NEW x \in DOMAIN silver'
        PROVE  \E g \in Files : /\ silver'[x] = CreateSilverRecords(Resolution(x, g))
                                /\ prov'[x] = MakeProvenance(Resolution(x, g), g)
    <3>1. x \in DOMAIN silver /\ x \in Frames /\ x \notin alone
      BY <1>3 DEF SilverInv, Shape
    <3>2. silver'[x] = silver[x] /\ prov'[x] = prov[x]
      BY <1>4, <1>5, <3>1
    <3>3. PICK g \in Files : /\ silver[x] = CreateSilverRecords(Resolution(x, g))
                             /\ prov[x] = MakeProvenance(Resolution(x, g), g)
      BY <3>1 DEF SilverInv, Derived
    <3> QED
      BY <3>2, <3>3
  <2>4. \A x \in DOMAIN silver' : \E g \in Files :
          /\ silver'[x] = CreateSilverRecords(Resolution(x, g)')
          /\ prov'[x] = MakeProvenance(Resolution(x, g)', g)
    BY <2>1, <2>3
  <2> QED
    BY <2>2, <2>4 DEF Derived, CreateSilverRecords, MakeProvenance, Resolved
<1>8. Held'
  <2>1. \A x \in DOMAIN silver' : sources'[x] # {}
    <3> SUFFICES ASSUME NEW x \in DOMAIN silver' PROVE sources'[x] # {}
      OBVIOUS
    <3>1. x \in Frames /\ sources[x] # {}
      BY <1>3 DEF SilverInv, Shape, Held
    <3> QED
      BY <1>1, <3>1 DEF SilverInv, Shape
  <2>2. \A g \in DOMAIN runs' : runs'[g] \subseteq DOMAIN silver'
    BY <1>1, <1>3 DEF SilverInv, Held
  <2> QED
    BY <2>1, <2>2 DEF Held
<1> QED
  BY <1>6, <1>7, <1>8 DEF SilverInv

(* The other steps leave the tables alone.                                   *)
LEMMA TablesStay ==
  ASSUME SilverInv, UNCHANGED <<bronze, sources, silver, prov, runs>>,
         steps' \in 0..MaxRuns
  PROVE  SilverInv'
<1>1. Shape'
  BY DEF SilverInv, Shape
<1>2. Held'
  BY DEF SilverInv, Held
<1>3. Derived'
  <2>1. \A x, f : Resolution(x, f)' = Resolution(x, f)
    BY ResolutionStays
  <2>2. \A x \in DOMAIN silver : \E f \in Files :
          /\ silver[x] = CreateSilverRecords(Resolution(x, f)')
          /\ prov[x] = MakeProvenance(Resolution(x, f)', f)
    BY <2>1 DEF SilverInv, Derived
  <2>3. \A x \in Frames : x \notin DOMAIN silver => prov[x] = {}
    BY DEF SilverInv, Derived
  <2> QED
    BY <2>2, <2>3 DEF Derived, CreateSilverRecords, MakeProvenance, Resolved
<1> QED
  BY <1>1, <1>2, <1>3 DEF SilverInv

(* Every step keeps the tables derived.                                      *)
LEMMA StepSilver == SilverInv /\ [Next]_vars => SilverInv'
<1> SUFFICES ASSUME SilverInv, [Next]_vars PROVE SilverInv'
  OBVIOUS
<1>0. steps \in 0..MaxRuns
  BY DEF SilverInv, Shape
<1>1. ASSUME NEW f \in Files, NormalizeFile(f) PROVE SilverInv'
  BY <1>1, NormalizeKeeps
<1>2. ASSUME NEW f \in Files, NormalizeFails(f) PROVE SilverInv'
  <2>1. steps' \in 0..MaxRuns
    BY <1>0, <1>2, LimitAssumption DEF NormalizeFails, Tick
  <2> QED
    BY <1>2, <2>1, TablesStay DEF NormalizeFails
<1>3. ASSUME NEW f \in Files, Reconstruct(f) PROVE SilverInv'
  BY <1>3, ReconstructKeeps
<1>4. ASSUME NEW from \in Times, NEW to \in Times, OpenWalk(from, to) PROVE SilverInv'
  <2>1. UNCHANGED <<bronze, sources, silver, prov, runs, steps>>
    BY <1>4 DEF OpenWalk
  <2> QED
    BY <1>0, <2>1, TablesStay
<1>5. CASE GetChargerHistory
  <2>1. UNCHANGED <<bronze, sources, silver, prov, runs, steps>>
    BY <1>5, Zenon DEF GetChargerHistory
  <2> QED
    BY <1>0, <2>1, TablesStay
<1>6. CASE UNCHANGED vars
  <2>1. UNCHANGED <<bronze, sources, silver, prov, runs, steps>>
    BY <1>6 DEF vars
  <2> QED
    BY <1>0, <2>1, TablesStay
<1> QED
  BY <1>1, <1>2, <1>3, <1>4, <1>5, <1>6 DEF Next

-----------------------------------------------------------------------------
(* What the tables say.                                                      *)

(* The rows of a frame are finitely many, and so are those of a unit.         *)
LEMMA RowsFinite ==
  ASSUME NEW x \in Frames, NEW f \in Files, NEW t, NEW u
  PROVE  IsFiniteSet(Scope(ContributingRows(x, f), t, u))
<1> DEFINE N == RowNumbers(x, f) \cap DOMAIN bronze[f]
           g == [n \in N |-> bronze[f][n]]
           order == FrameDef[x].order
<1>1. IsFiniteSet(N)
  <2>1. CASE RowNumbers(x, f) = FrameDef[x].rows[f]
    BY <2>1, FramesAssumption, FS_Subset
  <2>2. CASE order[1] # None /\ order[2] # None /\ RowNumbers(x, f) = order[1]..order[2]
    <3>1. order[1] \in Int /\ order[2] \in Int
      BY <2>2, FramesAssumption
    <3> HIDE DEF order
    <3> QED
      BY <2>2, <3>1, FS_Interval, FS_Subset
  <2> QED
    BY <2>1, <2>2 DEF RowNumbers
<1>2. DOMAIN g = N /\ g = [n \in N |-> g[n]]
  OBVIOUS
<1>3. IsFiniteSet({g[n] : n \in N})
  <2> HIDE DEF g, N
  <2> QED
    BY <1>1, <1>2, FiniteImage
<1>4. ContributingRows(x, f) = {g[n] : n \in N}
  BY DEF ContributingRows
<1>5. Scope(ContributingRows(x, f), t, u) \subseteq ContributingRows(x, f)
  BY DEF Scope
<1> QED
  BY <1>3, <1>4, <1>5, FS_Subset

(* A resolution has every table and one entry per value.                     *)
LEMMA WholeFromInv == SilverInv => NormalizedWhole
<1> SUFFICES ASSUME SilverInv PROVE NormalizedWhole
  OBVIOUS
<1>1. ASSUME NEW x \in DOMAIN silver, NEW k \in DOMAIN silver[x] PROVE k[1] \in DOMAIN Tables
  <2>1. PICK f \in Files : silver[x] = CreateSilverRecords(Resolution(x, f))
    BY DEF SilverInv, Derived
  <2>2. k \in RecordKeys(ContributingRows(x, f))
    BY <2>1, RecordShape, PayloadShape DEF Resolution
  <2> QED
    BY <2>2, KeysKnown
<1>2. TypeOK
  BY <1>1 DEF TypeOK, SilverInv, Shape, Derived, Held
<1>3. ASSUME NEW f \in DOMAIN runs, NEW x \in runs[f]
      PROVE  /\ x \in DOMAIN silver
             /\ {t \in DOMAIN Tables : Tables[t].unit = "frame"}
                  \subseteq {k[1] : k \in DOMAIN silver[x]}
             /\ \A k \in DOMAIN silver[x], p \in Positions :
                  Cardinality({e \in prov[x] : e.key = k /\ e.position = p})
                    = (IF p \in DOMAIN silver[x][k] THEN 1 ELSE 0)
  <2>1. x \in DOMAIN silver
    BY DEF SilverInv, Held
  <2>2. PICK g \in Files : /\ silver[x] = CreateSilverRecords(Resolution(x, g))
                           /\ prov[x] = MakeProvenance(Resolution(x, g), g)
    BY <2>1 DEF SilverInv, Derived
  <2>3. /\ DOMAIN silver[x] = DOMAIN Resolution(x, g)
        /\ \A k \in DOMAIN silver[x] : DOMAIN silver[x][k] = DOMAIN Resolution(x, g)[k]
    BY <2>2, RecordShape
  <2>4. DOMAIN silver[x] = RecordKeys(ContributingRows(x, g))
    BY <2>3, PayloadShape DEF Resolution
  <2>5. ASSUME NEW t \in DOMAIN Tables, Tables[t].unit = "frame"
        PROVE  t \in {k[1] : k \in DOMAIN silver[x]}
    <3>1. <<t, 0>> \in DOMAIN silver[x]
      BY <2>4, <2>5, FrameTablesPresent
    <3> QED
      BY <3>1
  <2>6. ASSUME NEW k \in DOMAIN silver[x], NEW p \in Positions
        PROVE  Cardinality({e \in prov[x] : e.key = k /\ e.position = p})
                 = (IF p \in DOMAIN silver[x][k] THEN 1 ELSE 0)
    BY <2>2, <2>3, OneEntry
  <2> QED
    BY <2>1, <2>5, <2>6
<1>4. RecordsWhole
  BY <1>3 DEF RecordsWhole
<1> QED
  BY <1>2, <1>4 DEF NormalizedWhole

(* A stored value and its entry are what one resolution gives.               *)
LEMMA EntryResolved ==
  ASSUME SilverInv, NEW x \in Frames, NEW e \in prov[x]
  PROVE  LET rows == ContributingRows(x, e.file)
             r == ResolveScalarField(e.position, Scope(rows, e.key[1], e.key[2]))
         IN  /\ x \in DOMAIN silver /\ e.file \in Files
             /\ e.key \in DOMAIN silver[x] /\ e.position \in DOMAIN silver[x][e.key]
             /\ e.key = <<e.key[1], e.key[2]>>
             /\ e.position \in FieldsOf(e.key[1], e.key[2])
             /\ silver[x][e.key][e.position] = r.value
             /\ e.raw = r.raw /\ e.masked = r.masked
<1>1. x \in DOMAIN silver
  BY DEF SilverInv, Derived
<1>2. PICK f \in Files : /\ silver[x] = CreateSilverRecords(Resolution(x, f))
                         /\ prov[x] = MakeProvenance(Resolution(x, f), f)
  BY <1>1 DEF SilverInv, Derived
<1> DEFINE payload == Resolution(x, f)
           rows == ContributingRows(x, f)
<1>3. e \in MakeProvenance(payload, f)
  BY <1>2
<1>4. /\ e.key \in DOMAIN payload /\ e.position \in DOMAIN payload[e.key]
      /\ e.raw = payload[e.key][e.position].raw
      /\ e.masked = payload[e.key][e.position].masked
      /\ e.file = f
  <2> HIDE DEF payload
  <2> QED
    BY <1>3, EntryShape
<1>5. /\ e.key \in RecordKeys(rows)
      /\ e.position \in FieldsOf(e.key[1], e.key[2])
      /\ payload[e.key][e.position] =
           ResolveScalarField(e.position, Scope(rows, e.key[1], e.key[2]))
  BY <1>4, PayloadShape DEF Resolution
<1>6. e.key = <<e.key[1], e.key[2]>>
  BY <1>5, KeysKnown
<1>7. /\ DOMAIN silver[x] = DOMAIN payload
      /\ DOMAIN silver[x][e.key] = DOMAIN payload[e.key]
      /\ silver[x][e.key][e.position] = payload[e.key][e.position].value
  <2> HIDE DEF payload
  <2> QED
    BY <1>2, <1>4, RecordShape DEF payload
<1> HIDE DEF payload
<1> QED
  BY <1>1, <1>4, <1>5, <1>6, <1>7

(* What holds of a resolution holds of the stored values.                    *)
LEMMA NothingFromInv == SilverInv => NothingFabricated
<1> SUFFICES ASSUME SilverInv, NEW x \in Frames, NEW e \in prov[x]
             PROVE  LET value == silver[x][e.key][e.position]
                        told == {Reading(r, e.position) : r \in
                                   {q \in ContributingRows(x, e.file) :
                                      \/ Tables[e.key[1]].unit = "frame"
                                      \/ UnitOf(q, Tables[e.key[1]].unit) = e.key[2]}} \ {None}
                    IN  /\ value # None => told = {value} /\ ~e.masked
                        /\ value = None /\ told # {} =>
                             \/ Cardinality(told) > 1
                             \/ told = {Junk}
                             \/ e.masked /\ told = {Dictionary[e.position].sentinel}
                        /\ e.raw = None <=> told = {}
  BY DEF NothingFabricated
<1> DEFINE rows == ContributingRows(x, e.file)
           scope == Scope(rows, e.key[1], e.key[2])
           r == ResolveScalarField(e.position, scope)
           raws == Raws(e.position, scope)
<1>1. e.file \in Files /\ silver[x][e.key][e.position] = r.value
      /\ e.raw = r.raw /\ e.masked = r.masked
  BY EntryResolved
<1>2. {q \in rows : \/ Tables[e.key[1]].unit = "frame"
                    \/ UnitOf(q, Tables[e.key[1]].unit) = e.key[2]} = scope
  BY DEF Scope
<1>3. IsFiniteSet(scope)
  BY <1>1, RowsFinite
<1>4. /\ r.value # None => raws = {r.value} /\ r.masked = FALSE
      /\ r.value = None /\ raws # {} =>
           \/ Cardinality(raws) > 1
           \/ raws = {Junk}
           \/ r.masked = TRUE /\ raws = {Dictionary[e.position].sentinel}
      /\ r.raw = None <=> raws = {}
  <2> HIDE DEF scope
  <2> QED
    BY <1>3, ResolveSound
<1>5. {Reading(q, e.position) : q \in scope} \ {None} = raws
  BY DEF Raws
<1> HIDE DEF rows, scope, r, raws
<1> QED
  BY <1>1, <1>2, <1>4, <1>5 DEF rows

(* With one unit in the frame, the entry found is the entry of the value.    *)
LEMMA SignalFromInv == SilverInv => SignalTruthful
<1> SUFFICES ASSUME SilverInv, NEW p \in Positions, NEW unit \in 0..2,
                    NEW o \in SignalHistory(p, unit),
                    {k \in DOMAIN silver[o.frame] : k[1] = Dictionary[p].table}
                      = {<<Dictionary[p].table, unit>>}
             PROVE  /\ o.entry.key = <<Dictionary[p].table, unit>>
                    /\ o.value # None => o.value = o.entry.raw /\ ~o.entry.masked
  BY DEF SignalTruthful
<1> DEFINE t == Dictionary[p].table
<1>0. PICK x \in Frames : \E d \in prov[x] :
        HasSignal(x, p, unit) /\ d.position = p /\ o = Shown(x, p, unit, d)
  BY DEF SignalHistory
<1>1. PICK e \in prov[x] :
        HasSignal(x, p, unit) /\ e.position = p /\ o = Shown(x, p, unit, e)
  BY <1>0
<1>2. o.frame = x /\ o.entry = e /\ o.value = silver[x][<<t, unit>>][p]
  BY <1>1 DEF Shown
<1> DEFINE rows == ContributingRows(x, e.file)
           r == ResolveScalarField(e.position, Scope(rows, e.key[1], e.key[2]))
<1>3. /\ e.file \in Files /\ e.key \in DOMAIN silver[x]
      /\ e.position \in FieldsOf(e.key[1], e.key[2])
      /\ silver[x][e.key][e.position] = r.value
      /\ e.raw = r.raw /\ e.masked = r.masked
  BY EntryResolved
<1>4. e.key[1] = t
  BY <1>1, <1>3, FieldsKnown
<1>5. e.key = <<t, unit>>
  BY <1>2, <1>3, <1>4
<1>6. r.value # None => r.masked = FALSE /\ r.raw = r.value
  <2>1. IsFiniteSet(Scope(rows, e.key[1], e.key[2]))
    BY <1>3, RowsFinite
  <2> QED
    BY <2>1, ResolveSound
<1> HIDE DEF r
<1> QED
  BY <1>1, <1>2, <1>3, <1>5, <1>6

(* Type invariant, and whole records: after any sequence of normalisations    *)
(* and reconstructions, records and provenance are there for stored frames    *)
(* only, and a run that still counts has for each of its frames every table   *)
(* and one provenance entry per value.                                        *)
THEOREM NormalizationWhole == Spec => []NormalizedWhole
<1>1. Spec => []SilverInv
  BY InitSilver, StepSilver, PTL DEF Spec
<1> QED
  BY <1>1, WholeFromInv, PTL

(* No stored value is made up, and a reading without a value has a reason:    *)
(* resolve_scalar_field never chooses between conflicting rows, and records   *)
(* of an earlier resolution never stand beside provenance of a later one.     *)
THEOREM ValuesReported == Spec => []NothingFabricated
<1>1. Spec => []SilverInv
  BY InitSilver, StepSilver, PTL DEF Spec
<1> QED
  BY <1>1, NothingFromInv, PTL

(* A signal of the cabinet, or of the only unit of its frame, is shown with   *)
(* its own raw value and masking flag, although get_signal_history looks      *)
(* them up by frame and name.                                                 *)
THEOREM SignalsShownTruly == Spec => []SignalTruthful
<1>1. Spec => []SilverInv
  BY InitSilver, StepSilver, PTL DEF Spec
<1> QED
  BY <1>1, SignalFromInv, PTL

(* A second run of the file that normalised a frame last resolves the same    *)
(* rows, so it writes the records and the provenance that are there; frames   *)
(* of other files are not among those it replaces.                            *)
LEMMA RepeatChangesNothing ==
  ASSUME SilverInv, NEW f \in Files, NormalizeFile(f), NEW x \in Frames,
         f \notin sources[x] \/ (prov[x] # {} /\ \A e \in prov[x] : e.file = f)
  PROVE  /\ x \in DOMAIN silver' <=> x \in DOMAIN silver
         /\ x \in DOMAIN silver => silver'[x] = silver[x]
         /\ prov'[x] = prov[x]
<1> DEFINE xs == CanonicalFramesForFile(f)
           payload == [y \in xs |-> Resolution(y, f)]
<1>1. xs \subseteq Frames /\ \A y \in xs : f \in sources[y]
  BY DEF CanonicalFramesForFile
<1>2. /\ silver' = InsertRecords(DeleteForFrames(silver, xs), xs, payload)
      /\ prov' = InsertProvenance(xs, payload, f)
  BY Zenon DEF NormalizeFile, Resolution
<1> HIDE DEF xs
<1>3. DOMAIN silver' = DOMAIN silver \cup xs
  BY <1>2 DEF InsertRecords, DeleteForFrames
<1>4. x \in DOMAIN silver' =>
        silver'[x] = IF x \in xs THEN CreateSilverRecords(Resolution(x, f)) ELSE silver[x]
  BY <1>2, <1>3 DEF InsertRecords, DeleteForFrames
<1>5. prov'[x] = IF x \in xs THEN MakeProvenance(Resolution(x, f), f) ELSE prov[x]
  BY <1>2 DEF InsertProvenance
<1>6. CASE x \notin xs
  BY <1>3, <1>4, <1>5, <1>6
<1>7. CASE x \in xs
  <2>1. prov[x] # {} /\ \A e \in prov[x] : e.file = f
    BY <1>1, <1>7
  <2>2. x \in DOMAIN silver
    BY <2>1 DEF SilverInv, Derived
  <2>3. PICK g \in Files : /\ silver[x] = CreateSilverRecords(Resolution(x, g))
                           /\ prov[x] = MakeProvenance(Resolution(x, g), g)
    BY <2>2 DEF SilverInv, Derived
  <2>4. PICK e \in prov[x] : e.file = f
    BY <2>1
  <2>5. e.file = g
    BY <2>3, <2>4, EntryShape
  <2> QED
    BY <1>3, <1>4, <1>5, <1>7, <2>2, <2>3, <2>4, <2>5
<1> QED
  BY <1>6, <1>7

(* Normalising a file again leaves every frame that it was the last to         *)
(* normalise as it is, with whatever other commands in between, and never      *)
(* touches a frame of other files: delete_for_frames and the inserts are       *)
(* about the same frames.                                                      *)
THEOREM NormalizingAgain == Spec => NormalizeIdempotent
<1>1. Spec => []SilverInv
  BY InitSilver, StepSilver, PTL DEF Spec
<1>2. SilverInv =>
        \A f \in Files : NormalizeFile(f) => \A x \in Frames :
          f \notin sources[x] \/ (prov[x] # {} /\ \A e \in prov[x] : e.file = f) =>
            /\ x \in DOMAIN silver' <=> x \in DOMAIN silver
            /\ x \in DOMAIN silver => silver'[x] = silver[x]
            /\ prov'[x] = prov[x]
  BY RepeatChangesNothing
<1> QED
  BY <1>1, <1>2, PTL DEF NormalizeIdempotent

-----------------------------------------------------------------------------
(* Pages.                                                                    *)

(* The smaller of two numbers.                                               *)
LEMMA MinOfTwo ==
  ASSUME NEW a \in Nat, NEW b \in Nat
  PROVE  Min({a, b}) = IF a <= b THEN a ELSE b
BY DEF Min

(* The page of a query: the first Limit records found, in order.             *)
PageOf(S) == SubSeq(Chronological(S), 1, Min({Limit, Cardinality(S)}))

(* A page is in order and leaves nothing out up to its last record; a page    *)
(* that no other follows leaves nothing out.                                  *)
LEMMA PageSound ==
  ASSUME NEW S \in SUBSET Instants, IsFiniteSet(S)
  PROVE  /\ Cardinality(S) \in Nat
         /\ PageOf(S) \in Seq(Instants)
         /\ \A i \in 1..Len(PageOf(S)) : PageOf(S)[i] \in S
         /\ \A i, j \in 1..Len(PageOf(S)) : i < j => Before(PageOf(S)[i], PageOf(S)[j])
         /\ Cardinality(S) <= Limit =>
              \A k \in S : \E i \in 1..Len(PageOf(S)) : PageOf(S)[i] = k
         /\ Cardinality(S) > Limit =>
              /\ Len(PageOf(S)) = Limit
              /\ \A k \in S : ~Before(PageOf(S)[Limit], k) =>
                   \E i \in 1..Len(PageOf(S)) : PageOf(S)[i] = k
<1> DEFINE n == Cardinality(S)
           s == Chronological(S)
           m == IF Limit <= n THEN Limit ELSE n
           page == PageOf(S)
<1>1. /\ n \in Nat /\ s \in [1..n -> S]
      /\ \A i, j \in 1..n : i < j => Before(s[i], s[j])
      /\ \A k \in S : \E i \in 1..n : s[i] = k
  BY ChronologicalLists
<1>2. Limit \in Nat /\ Limit > 0
  BY LimitAssumption
<1>3. page = SubSeq(s, 1, m)
  BY <1>1, <1>2, MinOfTwo DEF PageOf
<1> HIDE DEF n, s, page
<1>4. m \in Nat /\ m <= n
  BY <1>1, <1>2
<1>5. \A i \in 1..m : s[i] \in S /\ s[i] \in Instants
  BY <1>1, <1>4
<1>6. page \in Seq(S) /\ Len(page) = m /\ \A i \in 1..m : page[i] = s[i]
  <2>1. 1 \in Int /\ m \in Int
    BY <1>4
  <2>2. \A i \in 1..m : s[i] \in S
    BY <1>5
  <2> HIDE DEF m
  <2>3. /\ SubSeq(s, 1, m) \in Seq(S)
        /\ Len(SubSeq(s, 1, m)) = IF 1 <= m THEN m - 1 + 1 ELSE 0
        /\ \A i \in 1..(m - 1 + 1) : SubSeq(s, 1, m)[i] = s[1 + i - 1]
    BY <2>1, <2>2, SubSeqProperties
  <2> QED
    BY <1>3, <1>4, <2>3
<1>7. page \in Seq(Instants)
  BY <1>6
<1>8. \A i, j \in 1..m : i < j => Before(page[i], page[j])
  BY <1>1, <1>4, <1>6
<1>9. n <= Limit => \A k \in S : \E i \in 1..m : page[i] = k
  BY <1>1, <1>2, <1>6
<1>10. ASSUME n > Limit, NEW k \in S, ~Before(page[Limit], k)
       PROVE  \E i \in 1..m : page[i] = k
  <2>1. PICK i \in 1..n : s[i] = k
    BY <1>1
  <2>2. m = Limit
    BY <1>1, <1>2, <1>10
  <2>3. page[Limit] = s[Limit] /\ Limit \in 1..n
    BY <1>1, <1>2, <1>6, <1>10, <2>2
  <2>4. ~(Limit < i)
    BY <1>1, <1>10, <2>1, <2>3
  <2>5. i \in 1..m
    BY <1>1, <1>2, <2>2, <2>4
  <2> QED
    BY <1>6, <2>1, <2>5
<1>11. n > Limit => m = Limit
  BY <1>1, <1>2
<1> HIDE DEF m
<1> QED
  BY <1>1, <1>6, <1>7, <1>8, <1>9, <1>10, <1>11 DEF n, page

Readers ==
  [open : BOOLEAN, done : BOOLEAN, from : Int, to : Int, cursor : Instants \cup {None},
   served : Seq(Instants), stable : SUBSET Instants]

(* What a walk has returned: in order, up to the cursor, and with nothing     *)
(* left out up to there that was there all the time.                         *)
WalkInv ==
  /\ reader \in Readers
  /\ \A i, j \in 1..Len(reader.served) : i < j => Before(reader.served[i], reader.served[j])
  /\ \A k \in reader.stable : k \in HistoryKeys(silver) /\ k[1] \in reader.from..reader.to
  /\ reader.cursor = None => reader.done = TRUE \/ reader.served = << >>
  /\ reader.cursor # None =>
       reader.served # << >> /\ reader.served[Len(reader.served)] = reader.cursor
  /\ \A k \in reader.stable :
       reader.done = TRUE \/ (reader.cursor # None /\ ~Before(reader.cursor, k)) =>
         \E i \in 1..Len(reader.served) : reader.served[i] = k

(* The keys of the history are finitely many pairs of numbers.                *)
LEMMA HistoryFinite ==
  ASSUME NEW s, DOMAIN s \subseteq Frames
  PROVE  HistoryKeys(s) \subseteq Instants /\ IsFiniteSet(HistoryKeys(s))
<1> DEFINE g == [x \in DOMAIN s |-> KeyOf(x)]
<1>1. HistoryKeys(s) = {g[x] : x \in DOMAIN s}
  BY DEF HistoryKeys
<1>2. IsFiniteSet(DOMAIN s)
  BY FramesAssumption, FS_Subset
<1>3. DOMAIN g = DOMAIN s /\ g = [x \in DOMAIN s |-> g[x]]
  OBVIOUS
<1>4. IsFiniteSet({g[x] : x \in DOMAIN s})
  <2> DEFINE D == DOMAIN s
  <2>1. DOMAIN g = D /\ g = [x \in D |-> g[x]] /\ IsFiniteSet(D)
    BY <1>2, <1>3
  <2> HIDE DEF g, D
  <2>2. IsFiniteSet({g[x] : x \in D})
    BY <2>1, FiniteImage
  <2> QED
    BY <2>2 DEF D
<1>5. \A x \in DOMAIN s : KeyOf(x) \in Instants
  BY FramesAssumption DEF KeyOf, Instants
<1> QED
  BY <1>1, <1>4, <1>5 DEF HistoryKeys

(* A walk begins with nothing returned.                                      *)
LEMMA InitWalk == Init => WalkInv
<1> SUFFICES ASSUME Init PROVE WalkInv
  OBVIOUS
<1>1. reader = [open |-> FALSE, done |-> FALSE, from |-> 0, to |-> 0,
                cursor |-> None, served |-> << >>, stable |-> {}]
  BY DEF Init, NoWalk
<1>2. reader \in Readers
  BY <1>1 DEF Readers
<1>3. Len(reader.served) = 0 /\ reader.stable = {} /\ reader.cursor = None
      /\ reader.served = << >>
  BY <1>1
<1> QED
  BY <1>2, <1>3 DEF WalkInv

(* Records come and go between two pages: a walk only counts on fewer.        *)
LEMMA ObserveKeeps ==
  ASSUME WalkInv, Observe
  PROVE  WalkInv'
<1> DEFINE kept == reader.stable \cap HistoryKeys(silver')
<1>1. reader \in Readers
  BY DEF WalkInv
<1>2. /\ reader'.stable = kept
      /\ reader'.open = reader.open /\ reader'.done = reader.done
      /\ reader'.from = reader.from /\ reader'.to = reader.to
      /\ reader'.cursor = reader.cursor /\ reader'.served = reader.served
  BY <1>1 DEF Observe, Readers
<1>3. reader' \in Readers
  BY <1>1 DEF Observe, Readers
<1>4. \A k \in reader'.stable : k \in HistoryKeys(silver') /\ k \in reader.stable
  BY <1>2
<1>5. \A k \in reader'.stable :
        k \in HistoryKeys(silver') /\ k[1] \in reader'.from..reader'.to
  BY <1>2, <1>4 DEF WalkInv
<1>6. \A k \in reader'.stable :
        reader'.done = TRUE \/ (reader'.cursor # None /\ ~Before(reader'.cursor, k)) =>
          \E i \in 1..Len(reader'.served) : reader'.served[i] = k
  BY <1>2, <1>4 DEF WalkInv
<1>7. HistoryKeys(silver)' = HistoryKeys(silver')
  BY DEF HistoryKeys, KeyOf
<1> QED
  BY <1>2, <1>3, <1>5, <1>6, <1>7 DEF WalkInv, Before

(* A new walk has returned nothing and counts on what there is.              *)
LEMMA OpenKeeps ==
  ASSUME SilverInv, WalkInv, NEW from \in Times, NEW to \in Times, OpenWalk(from, to)
  PROVE  WalkInv'
<1> DEFINE start == {k \in HistoryKeys(silver) : k[1] \in from..to}
<1>1. from \in Int /\ to \in Int
  BY FramesAssumption DEF Times
<1>2. /\ silver' = silver
      /\ reader' = [open |-> TRUE, done |-> FALSE, from |-> from, to |-> to,
                    cursor |-> None, served |-> << >>, stable |-> start]
  BY DEF OpenWalk, NoWalk
<1>3. start \subseteq Instants
  BY HistoryFinite DEF SilverInv, Shape
<1> HIDE DEF start
<1>4. reader' \in Readers
  BY <1>1, <1>2, <1>3 DEF Readers
<1>5. /\ reader'.done = FALSE /\ reader'.cursor = None /\ reader'.served = << >>
      /\ reader'.from = from /\ reader'.to = to /\ reader'.stable = start
      /\ Len(reader'.served) = 0
  BY <1>2
<1>6. \A k \in start : k \in HistoryKeys(silver') /\ k[1] \in from..to
  BY <1>2 DEF start
<1> QED
  BY <1>4, <1>5, <1>6 DEF WalkInv, HistoryKeys, KeyOf, Before

(* One page: what it adds lies after the cursor and reaches the new one.      *)
LEMMA PageKeeps ==
  ASSUME SilverInv, WalkInv, GetChargerHistory
  PROVE  WalkInv'
<1> DEFINE found == {k \in HistoryKeys(silver) :
                       k[1] \in reader.from..reader.to /\ AfterCursor(k)}
           page == PageOf(found)
           cursor == NextCursor(page, found)
           n == Cardinality(found)
           a == Len(reader.served)
           served == reader.served \o page
<1>1. /\ reader.open /\ ~reader.done
      /\ reader' = [reader EXCEPT !.cursor = cursor, !.served = @ \o page,
                                  !.done = (cursor = None)]
      /\ silver' = silver
  BY Zenon DEF GetChargerHistory, PageOf
<1>2. reader \in Readers
  BY DEF WalkInv
<1>3. found \in SUBSET Instants /\ IsFiniteSet(found)
  <2>1. HistoryKeys(silver) \subseteq Instants /\ IsFiniteSet(HistoryKeys(silver))
    BY HistoryFinite DEF SilverInv, Shape
  <2> QED
    BY <2>1, FS_Subset
<1>4. \A k \in found : reader.cursor = None \/ Before(reader.cursor, k)
  BY DEF AfterCursor
<1>5. \A k \in reader.stable :
        k \in found \/ (reader.cursor # None /\ ~Before(reader.cursor, k))
  BY DEF WalkInv, AfterCursor
<1> HIDE DEF found
<1>6. /\ n \in Nat
      /\ page \in Seq(Instants)
      /\ \A i \in 1..Len(page) : page[i] \in found
      /\ \A i, j \in 1..Len(page) : i < j => Before(page[i], page[j])
      /\ n <= Limit => \A k \in found : \E i \in 1..Len(page) : page[i] = k
      /\ n > Limit =>
           /\ Len(page) = Limit
           /\ \A k \in found : ~Before(page[Limit], k) =>
                \E i \in 1..Len(page) : page[i] = k
  BY <1>3, PageSound
<1>7. Limit \in Nat /\ Limit > 0
  BY LimitAssumption
<1>8. cursor = IF n > Limit THEN page[Len(page)] ELSE None
  BY DEF NextCursor
<1> HIDE DEF page, n, cursor
<1>9. /\ Len(page) \in Nat
      /\ n > Limit => cursor \in Instants /\ cursor \in found /\ cursor # None
      /\ n > Limit => cursor = page[Limit]
  <2>1. Len(page) \in Nat
    BY <1>6
  <2>2. n > Limit => page[Len(page)] \in found
    BY <1>6, <1>7, <2>1
  <2> QED
    BY <1>3, <1>6, <1>8, <2>1, <2>2, LimitAssumption DEF Instants
<1>10. /\ a \in Nat /\ reader.served \in Seq(Instants)
       /\ \A i \in 1..a : reader.served[i] \in Instants
  BY <1>2 DEF Readers
<1>11. /\ served \in Seq(Instants) /\ Len(served) = a + Len(page)
       /\ \A i \in 1..(a + Len(page)) :
            served[i] = IF i <= a THEN reader.served[i] ELSE page[i - a]
  BY <1>6, <1>10, ConcatProperties
<1>12. /\ reader'.cursor = cursor /\ reader'.served = served
       /\ reader'.done = (cursor = None)
       /\ reader'.from = reader.from /\ reader'.to = reader.to
       /\ reader'.stable = reader.stable
  BY <1>1, <1>2 DEF Readers
<1>13. reader' \in Readers
  <2>1. cursor \in Instants \cup {None}
    BY <1>6, <1>7, <1>8, <1>9
  <2>2. (cursor = None) \in BOOLEAN
    OBVIOUS
  <2> HIDE DEF served
  <2>3. reader' = [reader EXCEPT !.cursor = cursor, !.served = served,
                                 !.done = (cursor = None)]
    BY <1>1 DEF served
  <2> QED
    BY <1>2, <1>11, <2>1, <2>2, <2>3 DEF Readers
<1> HIDE DEF served, a
<1>14. \A i \in 1..a, j \in 1..Len(page) : Before(reader.served[i], page[j])
  <2> SUFFICES ASSUME NEW i \in 1..a, NEW j \in 1..Len(page)
               PROVE  Before(reader.served[i], page[j])
    OBVIOUS
  <2>1. reader.cursor # None
    <3> SUFFICES ASSUME reader.cursor = None PROVE FALSE
      OBVIOUS
    <3>1. reader.served = << >>
      BY <1>1 DEF WalkInv
    <3>2. a = 0
      BY <3>1 DEF a
    <3> QED
      BY <3>2
  <2>2. reader.served[a] = reader.cursor /\ a \in 1..a
    BY <1>10, <2>1 DEF WalkInv, a
  <2>5. \A h, l \in 1..a : h < l => Before(reader.served[h], reader.served[l])
    BY DEF WalkInv, a
  <2>6. i = a \/ i < a
    BY <1>10
  <2>3. i = a \/ Before(reader.served[i], reader.served[a])
    BY <2>2, <2>5, <2>6
  <2>4. Before(reader.served[a], page[j]) /\ page[j] \in Instants
    BY <1>3, <1>4, <1>6, <2>1, <2>2
  <2> QED
    BY <1>10, <2>2, <2>3, <2>4, BeforeOrders
<1>15. \A i, j \in 1..Len(served) : i < j => Before(served[i], served[j])
  <2> SUFFICES ASSUME NEW i \in 1..Len(served), NEW j \in 1..Len(served), i < j
               PROVE  Before(served[i], served[j])
    OBVIOUS
  <2>1. CASE j <= a
    BY <1>9, <1>10, <1>11, <2>1 DEF WalkInv, a
  <2>2. CASE i <= a /\ j > a
    <3>1. i \in 1..a /\ j - a \in 1..Len(page)
      BY <1>9, <1>10, <1>11, <2>2
    <3>2. served[i] = reader.served[i] /\ served[j] = page[j - a]
      BY <1>9, <1>10, <1>11, <2>2
    <3> QED
      BY <1>14, <3>1, <3>2
  <2>3. CASE i > a
    <3>1. i - a \in 1..Len(page) /\ j - a \in 1..Len(page) /\ i - a < j - a
      BY <1>9, <1>10, <1>11, <2>3
    <3>2. served[i] = page[i - a] /\ served[j] = page[j - a]
      BY <1>9, <1>10, <1>11, <2>3
    <3> QED
      BY <1>6, <3>1, <3>2
  <2> QED
    BY <1>9, <1>10, <1>11, <2>1, <2>2, <2>3
<1>16. cursor # None => served # << >> /\ served[Len(served)] = cursor
  <2> SUFFICES ASSUME cursor # None PROVE served # << >> /\ served[Len(served)] = cursor
    OBVIOUS
  <2>1. n > Limit /\ Len(page) = Limit
    BY <1>6, <1>7, <1>8
  <2> DEFINE z == a + Limit
  <2>2. Len(served) = z /\ ~(z <= a) /\ z \in 1..(a + Len(page)) /\ z - a = Limit
    BY <1>7, <1>10, <1>11, <2>1
  <2> HIDE DEF z
  <2>3. served[z] = IF z <= a THEN reader.served[z] ELSE page[z - a]
    BY <1>11, <2>2
  <2>4. served[z] = page[Limit]
    BY <2>2, <2>3
  <2>5. Len(served) # 0
    BY <1>7, <1>10, <2>2 DEF z
  <2>6. served # << >>
    BY <2>5
  <2> QED
    BY <1>9, <2>1, <2>2, <2>4, <2>6
<1>17. ASSUME NEW k \in reader.stable,
              cursor = None \/ (cursor # None /\ ~Before(cursor, k))
       PROVE  \E i \in 1..Len(served) : served[i] = k
  <2>1. CASE reader.cursor # None /\ ~Before(reader.cursor, k)
    <3>1. PICK i \in 1..a : reader.served[i] = k
      BY <2>1 DEF WalkInv, a
    <3>2. i \in 1..Len(served) /\ served[i] = k
      BY <1>9, <1>10, <1>11, <3>1
    <3> QED
      BY <3>2
  <2>2. CASE k \in found
    <3>1. \E i \in 1..Len(page) : page[i] = k
      <4>1. CASE n <= Limit
        BY <1>6, <2>2, <4>1
      <4>2. CASE n > Limit
        BY <1>6, <1>9, <1>17, <2>2, <4>2
      <4> QED
        BY <1>6, <1>7, <4>1, <4>2
    <3>2. PICK i \in 1..Len(page) : page[i] = k
      BY <3>1
    <3>3. a + i \in 1..Len(served) /\ served[a + i] = page[a + i - a] /\ a + i - a = i
      BY <1>9, <1>10, <1>11
    <3> QED
      BY <3>2, <3>3
  <2> QED
    BY <1>5, <2>1, <2>2
<1>18. \A k \in reader'.stable : k \in HistoryKeys(silver') /\ k[1] \in reader'.from..reader'.to
  BY <1>1, <1>12 DEF WalkInv
<1>19. reader'.cursor = None => reader'.done = TRUE
  BY <1>12
<1>20. \A k \in reader'.stable :
         reader'.done = TRUE \/ (reader'.cursor # None /\ ~Before(reader'.cursor, k)) =>
           \E i \in 1..Len(reader'.served) : reader'.served[i] = k
  BY <1>12, <1>17
<1>21. \A i, j \in 1..Len(reader'.served) : i < j => Before(reader'.served[i], reader'.served[j])
  BY <1>12, <1>15
<1>22. reader'.cursor # None =>
         reader'.served # << >> /\ reader'.served[Len(reader'.served)] = reader'.cursor
  BY <1>12, <1>16
<1> QED
  BY <1>13, <1>18, <1>19, <1>20, <1>21, <1>22 DEF WalkInv, HistoryKeys, KeyOf, Before

(* Every step keeps what a walk has returned up to its cursor.               *)
LEMMA StepWalk == SilverInv /\ WalkInv /\ [Next]_vars => WalkInv'
<1> SUFFICES ASSUME SilverInv, WalkInv, [Next]_vars PROVE WalkInv'
  OBVIOUS
<1>1. ASSUME NEW f \in Files, NormalizeFile(f) PROVE WalkInv'
  <2>1. Observe
    BY <1>1, Zenon DEF NormalizeFile
  <2> QED
    BY <2>1, ObserveKeeps
<1>2. ASSUME NEW f \in Files, Reconstruct(f) PROVE WalkInv'
  <2>1. Observe
    BY <1>2, Zenon DEF Reconstruct
  <2> QED
    BY <2>1, ObserveKeeps
<1>3. ASSUME UNCHANGED <<silver, reader>> PROVE WalkInv'
  BY <1>3 DEF WalkInv, HistoryKeys, KeyOf, Before
<1>4. ASSUME NEW f \in Files, NormalizeFails(f) PROVE WalkInv'
  BY <1>3, <1>4 DEF NormalizeFails
<1>5. CASE UNCHANGED vars
  BY <1>3, <1>5 DEF vars
<1>6. ASSUME NEW from \in Times, NEW to \in Times, OpenWalk(from, to) PROVE WalkInv'
  BY <1>6, OpenKeeps
<1>7. CASE GetChargerHistory
  BY <1>7, PageKeeps
<1> QED
  BY <1>1, <1>2, <1>4, <1>5, <1>6, <1>7 DEF Next

(* The properties of a walk are parts of its invariant.                      *)
LEMMA PagesFromInv == WalkInv => PagesExact
<1> SUFFICES ASSUME WalkInv PROVE PagesExact
  OBVIOUS
<1>1. DOMAIN reader.served = 1..Len(reader.served) /\ reader.done \in BOOLEAN
  BY DEF WalkInv, Readers
<1>2. PagesOrdered
  BY <1>1 DEF WalkInv, PagesOrdered
<1>3. PagesComplete
  BY <1>1 DEF WalkInv, PagesComplete
<1> QED
  BY <1>2, <1>3 DEF PagesExact

(* A client that follows the cursor gets every record that stayed from the    *)
(* first page to the last, once and in order, whatever is normalised or       *)
(* reconstructed between its requests and however many records share a       *)
(* second: the cursor is the pair of event time and sequence.                 *)
THEOREM PagesStayExact == Spec => []PagesExact
<1>1. Spec => [](SilverInv /\ WalkInv)
  BY InitSilver, StepSilver, InitWalk, StepWalk, PTL DEF Spec
<1> QED
  BY <1>1, PagesFromInv, PTL

=============================================================================

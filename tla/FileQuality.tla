----------------------------- MODULE FileQuality -----------------------------
(***************************************************************************)
(* What the pipeline works out about one file, without the database: the     *)
(* identity of its columns, their dictionary entries, the file's profile,    *)
(* the findings of the quality rules and the score.                          *)
(*                                                                           *)
(* A file is a header (a sequence of names) and rows of cells.  A cell is    *)
(* None (empty) or a text; what a text reads as is given by Float and by the *)
(* configured timestamp formats.  A canonical name is a triple: the name's   *)
(* snake_case form, the occurrence it was suffixed with (1: none) and the    *)
(* number that settled a clash (1: none).  Scores are in hundredths.         *)
(***************************************************************************)
EXTENDS Timeline, Sequences, SequencesExt, Functions

CONSTANTS
  Files, FileDef,       \* FileDef[f]: [header, rows, filename_date]
  None,
  Snake,                \* canonicalise: [names -> texts]
  Squeezed,             \* the name without blanks and case: [names -> texts]
  RoleSpecs,            \* ROLE_SPECS: [role -> [exact, patterns, required]]
  Dictionary,           \* the registered specs, in their order
  Unlisted,             \* pattern rules and classifier: [names -> spec]
  Float, FloatText,     \* reading a text as a number, and str() of a float
  Formats,              \* timestamp_formats: a sequence of readings
  DayLen,
  GlobalSentinels, MaxObserved, NumericPct,
  ExpectedConnectors, ExpectedSmrs, GapFactor, TolerancePct,
  MaxListed,            \* as many things as the details of a finding name
  Weights               \* quality_weights: [dimension -> percent]

(* What the dictionary's loader insists on: a name for each entry, one entry  *)
(* for a name or a name and occurrence, and a canonical name for each entry.  *)
DictionaryValid ==
  /\ \A s \in Range(Dictionary) : s.name # None
  /\ \A i, j \in DOMAIN Dictionary : i # j =>
       /\ <<Dictionary[i].name, Dictionary[i].occurrence>>
            # <<Dictionary[j].name, Dictionary[j].occurrence>>
       /\ Dictionary[i].canonical # Dictionary[j].canonical

ASSUME QualityAssumption ==
  /\ DictionaryValid
  /\ GapFactor \in Nat \ {0} /\ TolerancePct \in 0..100 /\ NumericPct \in 1..100
  /\ MaxListed \in Nat \ {0}
  /\ \A d \in {"schema", "completeness", "validity", "duplicates", "timestamps"} :
       Weights[d] \in Nat

-----------------------------------------------------------------------------
(* Columns.                                                                  *)

Header(f) == FileDef[f].header
Positions(f) == 1..Len(Header(f))
Occurrence(h, i) == Cardinality({j \in 1..i : h[j] = h[i]})
Wanted(h, i) == <<Snake[h[i]], Occurrence(h, i)>>

(* Seeded error: a clash of two different names is left unsettled.           *)
CanonicalUnsettled(h, i) == <<Snake[h[i]], Occurrence(h, i), 1>>

(* A repeated name is told apart by its occurrence, two names with the same  *)
(* snake_case form by the first free number.                                 *)
Canonical(h, i) == Append(Wanted(h, i), Cardinality({j \in 1..i : Wanted(h, j) = Wanted(h, i)}))

Identities(h) == {<<h[i], Occurrence(h, i)>> : i \in DOMAIN h}
DuplicateNames(h) == {h[i] : i \in {j \in DOMAIN h : Occurrence(h, j) > 1}}

(* The column of a structural role: the first exact name that occurs, then   *)
(* the earliest column the first matching pattern finds.  0: no column.      *)
RoleColumn(h, r) ==
  LET at(S) == {i \in DOMAIN h : Canonical(h, i) \in S}
      exact == SelectInSeq(RoleSpecs[r].exact, LAMBDA c : at({c}) # {})
      pattern == SelectInSeq(RoleSpecs[r].patterns, LAMBDA S : at(S) # {})
  IN  IF exact # 0 THEN Min(at({RoleSpecs[r].exact[exact]}))
      ELSE IF pattern # 0 THEN Min(at(RoleSpecs[r].patterns[pattern]))
      ELSE 0

MissingRoles(h) == {r \in DOMAIN RoleSpecs : RoleSpecs[r].required /\ RoleColumn(h, r) = 0}

-----------------------------------------------------------------------------
(* The dictionary.  An entry's occurrence is None when it is for the name;    *)
(* an entry is found at its place, the first that fits, or at 0.              *)

ByIdentity(n, k) == SelectInSeq(Dictionary, LAMBDA s : s.name = n /\ s.occurrence = k)
ByName(n) == SelectInSeq(Dictionary, LAMBDA s : s.name = n /\ s.occurrence = None)
BySpelling(n) == SelectInSeq(Dictionary, LAMBDA s : Squeezed[s.name] = Squeezed[n])

(* The definition of one source position.  An entry found by name describes  *)
(* a later occurrence under a canonical name of its own; a name with no      *)
(* entry takes a pattern's template or the classifier's guess.               *)
Resolve(h, i) ==
  LET n == h[i]
      k == Occurrence(h, i)
      named == IF ByName(n) # 0 THEN ByName(n) ELSE BySpelling(n)
  IN  IF ByIdentity(n, k) # 0 THEN Dictionary[ByIdentity(n, k)]
      ELSE IF named # 0
        THEN IF k = 1 THEN Dictionary[named]
             ELSE [Dictionary[named] EXCEPT !.occurrence = k, !.canonical = <<@[1], k, @[3]>>]
      ELSE [Unlisted[n] EXCEPT !.name = n, !.occurrence = k, !.canonical = Canonical(h, i)]

(* The rows of field_definition a new schema version gets.                   *)
FieldRows(h) ==
  [i \in DOMAIN h |->
    LET spec == Resolve(h, i)
    IN  [name |-> spec.name, occurrence |-> IF spec.occurrence = None THEN 1 ELSE spec.occurrence,
         position |-> i, canonical |-> spec.canonical, required |-> spec.required]]

(* Its unique constraints: source identity and canonical name.               *)
FieldsInsertable(rows) ==
  \A i, j \in DOMAIN rows :
    i # j => /\ <<rows[i].name, rows[i].occurrence>> # <<rows[j].name, rows[j].occurrence>>
             /\ rows[i].canonical # rows[j].canonical

-----------------------------------------------------------------------------
(* Profile.                                                                  *)

Rows(f) == FileDef[f].rows

(* The texts a reading is known of.  A file is a table of them and of empty  *)
(* cells, under a header; a specification has all its attributes.             *)
Texts == DOMAIN Float
IsSpec(s) ==
  s = [name |-> s.name, occurrence |-> s.occurrence, canonical |-> s.canonical,
       required |-> s.required, numeric |-> s.numeric, sentinels |-> s.sentinels,
       allowed |-> s.allowed, min |-> s.min, max |-> s.max, mapped |-> s.mapped]

ASSUME FilesAssumption ==
  /\ Dictionary \in Seq(Range(Dictionary))
  /\ \A s \in Range(Dictionary) \cup Range(Unlisted) : IsSpec(s)
  /\ "EVENT_TIME" \in DOMAIN RoleSpecs
  /\ \A r \in DOMAIN RoleSpecs : /\ RoleSpecs[r].exact \in Seq(Range(RoleSpecs[r].exact))
                                /\ RoleSpecs[r].patterns \in Seq(Range(RoleSpecs[r].patterns))
  /\ Formats \in Seq([Texts -> Int \cup {None}]) /\ Formats # <<>>
  /\ None \notin Int
  /\ \A f \in Files : /\ Header(f) \in Seq(DOMAIN Unlisted)
                      /\ Rows(f) \in Seq([DOMAIN Header(f) -> Texts \cup {None}])

Cell(f, k, i) == Rows(f)[k][i]
Filled(f, i) == {k \in DOMAIN Rows(f) : Cell(f, k, i) # None}
Values(f, i) == {Cell(f, k, i) : k \in Filled(f, i)}
CountOf(f, i, v) == Cardinality({k \in DOMAIN Rows(f) : Cell(f, k, i) = v})

(* A column counts as numeric when nearly all its values read as numbers;    *)
(* otherwise the code keeps no numeric count for it.                         *)
FieldProfile(f, i) ==
  LET filled == Filled(f, i)
      numbers == {k \in filled : Float[Cell(f, k, i)] # None}
      numeric == filled # {} /\ 100 * Cardinality(numbers) >= NumericPct * Cardinality(filled)
      readings == {Float[Cell(f, k, i)] : k \in numbers}
  IN  [nulls |-> Len(Rows(f)) - Cardinality(filled),
       all_null |-> filled = {},
       numeric_valid |-> IF numeric THEN Cardinality(numbers) ELSE None,
       min |-> IF numeric THEN Min(readings) ELSE None,
       max |-> IF numeric THEN Max(readings) ELSE None,
       observed |-> IF Cardinality(Values(f, i)) <= MaxObserved THEN Values(f, i) ELSE None,
       hits |-> [v \in Values(f, i) \cap GlobalSentinels |-> CountOf(f, i, v)]]

(* Event time.  The format that reads most values is chosen, the first among *)
(* equals.                                                                   *)
Timestamps(f) ==
  LET c == RoleColumn(Header(f), "EVENT_TIME")
      filled == IF c = 0 THEN {} ELSE Filled(f, c)
      read(m) == {k \in filled : Formats[m][Cell(f, k, c)] # None}
      best == CHOOSE m \in DOMAIN Formats :
                \A n \in DOMAIN Formats :
                  \/ Cardinality(read(n)) < Cardinality(read(m))
                  \/ Cardinality(read(n)) = Cardinality(read(m)) /\ m <= n
      stamps == {Formats[best][Cell(f, k, c)] : k \in read(best)}
      on(d) == Cardinality({t \in stamps : t \div DayLen = d})
  IN  [filled |-> Cardinality(filled), parsed |-> Cardinality(read(best)), stamps |-> stamps,
       failed |-> Cardinality(filled) - Cardinality(read(best)),
       dominant |-> IF stamps = {} THEN None
                    ELSE LET dates == {t \div DayLen : t \in stamps}
                         IN  Min({d \in dates : \A e \in dates : on(e) <= on(d)})]

WithinTolerance(ts) == ts.parsed > 0 /\ 100 * ts.failed <= TolerancePct * ts.filled

(* Twice the median interval, and the largest.  None without two timestamps. *)
DoubleCadence(ts) == IF Cardinality(ts.stamps) < 2 THEN None ELSE DoubleMedian(ts.stamps)
Largest(ts) == Max({p[2] - p[1] : p \in Neighbours(ts.stamps)})
GapSeen(ts) == DoubleCadence(ts) # None /\ 2 * Largest(ts) > GapFactor * DoubleCadence(ts)

(* Duplicates.  The logical key is made of the key columns that were found;  *)
(* a key is in conflict when rows that differ share it.                      *)
KeyColumns(f) ==
  {RoleColumn(Header(f), r) :
     r \in {"CHARGER_ID", "EVENT_TIME", "CONNECTOR", "RECTIFIER", "SMR"} \cap DOMAIN RoleSpecs} \ {0}

Duplicates(f) ==
  LET rows == Rows(f)
      key(k) == [i \in KeyColumns(f) |-> rows[k][i]]
      keys == {key(k) : k \in DOMAIN rows}
      held(x) == {k \in DOMAIN rows : key(k) = x}
  IN  [exact |-> Len(rows) - Cardinality({rows[k] : k \in DOMAIN rows}),
       groups |-> Cardinality(keys),
       collisions |-> Cardinality({x \in keys : Cardinality(held(x)) > 1}),
       conflicting |-> Cardinality({x \in keys : Cardinality({rows[k] : k \in held(x)}) > 1})]

Distinct(f, r) ==
  LET c == RoleColumn(Header(f), r) IN IF c = 0 THEN 0 ELSE Cardinality(Values(f, c))

Profile(f) ==
  [header |-> Header(f), rows |-> Len(Rows(f)), filename_date |-> FileDef[f].filename_date,
   fields |-> [i \in Positions(f) |-> FieldProfile(f, i)],
   specs |-> [i \in Positions(f) |-> Resolve(Header(f), i)],
   timestamps |-> Timestamps(f), duplicates |-> Duplicates(f),
   connectors |-> Distinct(f, "CONNECTOR"), smrs |-> Distinct(f, "SMR")]

(* The file is loaded and profiled once.                                     *)
Profiles == [f \in Files |-> Profile(f)]

-----------------------------------------------------------------------------
(* Rules.  A finding names its rule, scope and severity, the field and       *)
(* occurrence it is about, how often, and details that tell it from others.  *)

Finding(rule, scope, severity, field, occurrence, count, details) ==
  [rule |-> rule, scope |-> scope, severity |-> severity, field |-> field,
   occurrence |-> occurrence, count |-> count, details |-> details]

If(condition, finding) == IF condition THEN {finding} ELSE {}

(* A longer list is cut; which things stay depends on how they sort.         *)
Shortened(S) ==
  IF Cardinality(S) <= MaxListed THEN S
  ELSE CHOOSE T \in SUBSET S : Cardinality(T) = MaxListed

HeaderRules(p) ==
  LET h == p.header
      names == Range(h)
      unmapped == {i \in DOMAIN p.header : ~p.specs[i].mapped}
      times(n) == Cardinality({i \in DOMAIN h : h[i] = n})
  IN  {Finding("DUPLICATE_HEADER", "FILE", "WARNING", n, None, times(n), None) :
         n \in DuplicateNames(h)}
      \cup {Finding("MISSING_REQUIRED_FIELD", "FILE", "CRITICAL", s.name, None, 1, s.canonical) :
              s \in {t \in Range(Dictionary) : t.required /\ t.name \notin names}}
      \cup {Finding("MISSING_REQUIRED_FIELD", "FILE", "CRITICAL", None, None, 1, r) :
              r \in MissingRoles(h)}
      \cup If(unmapped # {}, Finding("UNKNOWN_FIELD", "FIELD", "INFO", None, None,
                                     Cardinality(unmapped), Shortened(unmapped)))

DriftRule(missing, additional) ==
  If(missing # {}, Finding("MISSING_FIELD", "FILE", "WARNING", None, None,
                           Cardinality(missing), Shortened(missing)))
  \cup If(additional # {}, Finding("SCHEMA_MISMATCH", "FILE", "WARNING", None, None,
                                   Cardinality(additional), Shortened(additional)))

TimestampRules(p) ==
  LET ts == p.timestamps
      column == p.header[RoleColumn(p.header, "EVENT_TIME")]
  IN  If(ts.failed > 0,
         Finding("INVALID_TIMESTAMP", "TIMESTAMP",
                 IF WithinTolerance(ts) THEN "WARNING" ELSE "CRITICAL",
                 column, None, ts.failed, None))
      \cup If(GapSeen(ts), Finding("TELEMETRY_GAP", "TIMESTAMP", "WARNING", column, None, 1, None))
      \cup If(/\ None \notin {p.filename_date, ts.dominant}
              /\ p.filename_date # ts.dominant,
              Finding("EVENT_DATE_FILENAME_MISMATCH", "FILE", "INFO", None, None, 1, None))

DuplicateRules(p) ==
  LET d == p.duplicates
  IN  If(d.exact > 0, Finding("EXACT_DUPLICATE", "ROW", "WARNING", None, None, d.exact, None))
      \cup If(d.collisions > 0,
              Finding("LOGICAL_KEY_COLLISION", "ENTITY",
                      IF d.conflicting > 0 THEN "ERROR" ELSE "WARNING",
                      None, None, d.collisions, d.conflicting))

CardinalityRule(rule, expected, observed) ==
  If(observed \notin {0, expected},
     Finding(rule, "FILE", "WARNING", None, None, IF observed < expected THEN expected - observed
                                                  ELSE observed - expected, observed))

(* The rules that read a field's definition beside its profile.  A range is  *)
(* applied only when verified, and a declared sentinel is spared only when   *)
(* it is spelled the way the profile spells a float.                         *)
FieldRules(p, i) ==
  LET spec == p.specs[i]
      seen == p.fields[i]
      about(rule, severity, count, details) ==
        Finding(rule, "FIELD", severity, spec.name, spec.occurrence, count, details)
      filled == p.rows - seen.nulls
      valid == IF seen.numeric_valid = None THEN 0 ELSE seen.numeric_valid
      breach(reading, bound, beyond) ==
        If(None \notin {reading, bound} /\ FloatText[reading] \notin spec.sentinels /\ beyond,
           about("OUT_OF_RANGE", "ERROR", 1, reading))
  IN  {about("SENTINEL_VALUE", "WARNING", seen.hits[v], v) :
         v \in DOMAIN seen.hits \cap spec.sentinels}
      \cup (IF valid = 0 THEN {}
            ELSE breach(seen.min, spec.min, spec.min # None /\ seen.min < spec.min)
                 \cup breach(seen.max, spec.max, spec.max # None /\ seen.max > spec.max))
      \cup If(spec.numeric /\ filled > valid, about("INVALID_TYPE", "ERROR", filled - valid, None))
      \cup (IF spec.allowed = {} \/ seen.observed = None THEN {}
            ELSE If(seen.observed \ spec.allowed # {},
                    about("UNKNOWN_ENUM_VALUE", "WARNING",
                          Cardinality(seen.observed \ spec.allowed), None)))

AllNullRule(p) ==
  LET empty == {i \in DOMAIN p.header : p.fields[i].all_null}
  IN  If(empty # {}, Finding("ALL_NULL_FIELD", "FIELD", "INFO", None, None,
                             Cardinality(empty), Shortened(empty)))

(* RuleRegistry.evaluate over the default registry.                          *)
Evaluate(p, missing, additional) ==
  HeaderRules(p) \cup TimestampRules(p) \cup DuplicateRules(p) \cup AllNullRule(p)
  \cup CardinalityRule("UNEXPECTED_CONNECTOR_CARDINALITY", ExpectedConnectors, p.connectors)
  \cup CardinalityRule("UNEXPECTED_SMR_CARDINALITY", ExpectedSmrs, p.smrs)
  \cup (UNION {FieldRules(p, i) : i \in DOMAIN p.header})
  \cup DriftRule(missing, additional)

(* The stored identity of a finding: rule, scope and locator, no details.    *)
IssueHash(x) == <<x.rule, x.scope, x.field, x.occurrence>>
HashesDiffer(findings) == \A x, y \in findings : IssueHash(x) = IssueHash(y) => x = y
HasCritical(findings) == \E x \in findings : x.severity = "CRITICAL"

-----------------------------------------------------------------------------
(* Score.                                                                    *)

Least(a, b) == IF a < b THEN a ELSE b

Clamp(n) == Least(10000, IF n < 0 THEN 0 ELSE n)

SchemaDimension(p, findings, drift, known) ==
  Clamp(10000
        - (IF \E x \in findings : x.rule = "MISSING_REQUIRED_FIELD" /\ x.severity = "CRITICAL"
           THEN 3000 ELSE 0)
        - Least(1000, 200 * Cardinality(DuplicateNames(p.header)))
        - Least(4000, (10000 * drift) \div Len(p.header))
        - (IF known THEN 0 ELSE 1000))

(* Columns empty throughout the file are left out.                           *)
CompletenessDimension(p) ==
  LET considered == {i \in DOMAIN p.header : ~p.fields[i].all_null}
      total == p.rows * Cardinality(considered)
      nulls == SumFunction([i \in considered |-> p.fields[i].nulls])
  IN  IF total = 0 THEN 10000 ELSE Clamp((10000 * (total - nulls)) \div total)

Violating == {"SENTINEL_VALUE", "OUT_OF_RANGE", "INVALID_TYPE", "UNKNOWN_ENUM_VALUE"}

ValidityDimension(p, findings) ==
  LET cells == SumFunction([i \in DOMAIN p.header |-> p.rows - p.fields[i].nulls])
      violations == SumFunction([x \in {y \in findings : y.rule \in Violating} |-> x.count])
  IN  IF cells = 0 THEN 10000 ELSE Clamp(10000 - (10000 * violations) \div cells)

DuplicateDimension(p) ==
  LET d == p.duplicates
  IN  Clamp(10000 - (10000 * d.exact) \div p.rows - (10000 * d.conflicting) \div d.groups)

TimestampDimension(p) ==
  LET ts == p.timestamps
      threshold == GapFactor * DoubleCadence(ts)
      penalty == IF ~GapSeen(ts) THEN 0
                 ELSE Least(3000, (1000 * (2 * Largest(ts) - threshold)) \div threshold)
  IN  Clamp((IF ts.filled = 0 THEN 10000 ELSE (10000 * ts.parsed) \div ts.filled) - penalty)

Dimensions(p, findings, drift, known) ==
  [schema |-> SchemaDimension(p, findings, drift, known),
   completeness |-> CompletenessDimension(p),
   validity |-> ValidityDimension(p, findings),
   duplicates |-> DuplicateDimension(p),
   timestamps |-> TimestampDimension(p)]

(* The weights are kept by score value, in the order of the dimensions: of   *)
(* dimensions with equal scores the last one's weight stands for all.        *)
(* Weights that add up to nothing give nothing.                              *)
Overall(scores) ==
  LET last(v) == IF v = scores.timestamps THEN "timestamps"
                 ELSE IF v = scores.duplicates THEN "duplicates"
                 ELSE IF v = scores.validity THEN "validity"
                 ELSE IF v = scores.completeness THEN "completeness" ELSE "schema"
      total == SumFunction([v \in Range(scores) |-> Weights[last(v)]])
  IN  IF total = 0 THEN 0
      ELSE SumFunction([v \in Range(scores) |-> v * Weights[last(v)]]) \div total
=============================================================================

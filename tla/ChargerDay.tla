------------------------------ MODULE ChargerDay ------------------------------
(***************************************************************************)
(* Charger-day coverage: what one business date of one charger amounts to,   *)
(* given the files that were delivered for it.                               *)
(*                                                                           *)
(* A file is split by local date when it is ingested (file_day.py), always   *)
(* in the configured default time zone.  CoverageService.reconcile rebuilds  *)
(* every charger-day of a date from those file-days and from the registry:   *)
(* the coverage row, its gaps and its findings are replaced in one           *)
(* transaction.  The metrics are read from the stored rows.                  *)
(*                                                                           *)
(* Time is an integer count of seconds (of any length); an offset z is the   *)
(* distance of a zone's clock from UTC.  A percentage is held in thousandths *)
(* of a percent, the three decimals the code rounds to.                      *)
(***************************************************************************)
EXTENDS Timeline

CONSTANTS
  Chargers, Files, Dates,
  FileDef,            \* FileDef[f]: what the profiler reports of file f
  Profiles,           \* registry records an operator may enter
  None,
  DayLen,             \* seconds of a day (fleet.day_seconds)
  DefaultInterval, DefaultTz, DefaultConnectors,
  GapMultiplier, Moderate, Major, Critical, GapFloor,
  CompletePct, PartialPct, TolerancePct, Grace,
  MaxUpserts          \* bound on registry changes

ASSUME PolicyAssumption ==
  /\ DayLen \in Nat \ {0} /\ DefaultInterval \in Nat \ {0} /\ DefaultTz \in Int
  /\ GapMultiplier \in Nat \ {0, 1} /\ Grace \in Nat /\ DefaultConnectors \in Nat
  /\ Dates \subseteq Nat /\ MaxUpserts \in Nat
  /\ None \notin Int

(* The columns of the registry; an interval of 0 is read as none.            *)
ProfileRecords ==
  [telemetry_expected : BOOLEAN, lifecycle : STRING,
   start : Nat \cup {None}, end : Nat \cup {None},
   interval : (Nat \ {0}) \cup {None}, tz : Int \cup {None}, connectors : Nat \cup {None}]

ASSUME FleetAssumption ==
  /\ IsFiniteSet(Chargers) /\ IsFiniteSet(Files)
  /\ Profiles \subseteq ProfileRecords
  /\ \A f \in Files :
       /\ FileDef[f].charger \in Chargers /\ FileDef[f].received \in Int
       /\ FileDef[f].stamps \subseteq Int /\ IsFiniteSet(FileDef[f].stamps)
       /\ FileDef[f].connectors \subseteq Nat

VARIABLES
  fleet,      \* [Chargers -> Profiles \cup {None}]: the charger registry
  days,       \* [Files -> set of file-days]: telemetry_file_day
  status,     \* [Files -> "ABSENT" | "USABLE" | "UNUSABLE"]
  coverage,   \* the rows of charger_day_coverage, by charger and date
  gaps,       \* [Chargers \X Dates -> set]: telemetry_gap
  issues,     \* [Chargers \X Dates -> set]: CHARGER_DAY findings
  done,       \* the summary reconcile returned; None once anything else happened
  upserts

tables == <<coverage, gaps, issues>>
vars == <<fleet, days, status, tables, done, upserts>>

Init ==
  /\ fleet = [c \in Chargers |-> None]
  /\ days = [f \in Files |-> {}]
  /\ status = [f \in Files |-> "ABSENT"]
  /\ coverage = << >>
  /\ gaps = [cd \in Chargers \X Dates |-> {}]
  /\ issues = [cd \in Chargers \X Dates |-> {}]
  /\ done = None
  /\ upserts = 0

-----------------------------------------------------------------------------
(* The tables.  A percentage has three decimals.                             *)

HundredPct == 100000

FileDayRows ==
  [charger : Chargers, date : Int, tz : Int, offsets : (SUBSET (0..(DayLen - 1))) \ {{}}]

GapRows ==
  [from : Int, to : Int, duration : Nat \ {0}, missing : Nat, severity : 0..3]

CoverageRows ==
  [arrival : {"RECEIVED", "LATE", "MISSING", "UNEXPECTED"},
   completeness : {"COMPLETE", "PARTIAL", "SEVERELY_INCOMPLETE", "NO_DATA"},
   files : Nat, primary : Files \cup {None}, received : Int \cup {None}, late_by : Nat,
   unique : Nat, overlap : Nat,
   sample : 0..HundredPct, span : 0..HundredPct, adjusted : 0..HundredPct,
   leading : 0..DayLen, trailing : 0..DayLen,
   gaps : SUBSET GapRows, lost : Nat, abnormal : BOOLEAN,
   connectors : SUBSET Nat, wanted : Nat]

-----------------------------------------------------------------------------
(* Splitting a file into business dates.                                     *)

LocalDate(t, z) == (t + z) \div DayLen
Midnight(d, z) == d * DayLen - z

(* One file-day per local date present; the unique timestamps as offsets     *)
(* from local midnight.                                                      *)
BuildFileDays(f) ==
  {[charger |-> FileDef[f].charger, date |-> LocalDate(t, DefaultTz), tz |-> DefaultTz,
    offsets |-> {u - Midnight(LocalDate(t, DefaultTz), DefaultTz) :
                 u \in {v \in FileDef[f].stamps :
                          LocalDate(v, DefaultTz) = LocalDate(t, DefaultTz)}}]
   : t \in FileDef[f].stamps}

TimestampsUtc(fd) == {Midnight(fd.date, fd.tz) + o : o \in fd.offsets}

-----------------------------------------------------------------------------
(* The registry and the policy it resolves to.                               *)

Inactive == {"DECOMMISSIONED", "TEMPORARILY_INACTIVE", "TEST"}

ExpectedChargers(d) ==
  {c \in Chargers :
     /\ fleet[c] # None
     /\ fleet[c].telemetry_expected
     /\ fleet[c].lifecycle \notin Inactive
     /\ fleet[c].start = None \/ fleet[c].start <= d
     /\ fleet[c].end = None \/ fleet[c].end >= d}

(* The override of an expected charger, else the configured default.         *)
Resolve(expected, c, field, default) ==
  IF c \in expected /\ fleet[c][field] # None THEN fleet[c][field] ELSE default

PolicyFor(expected, c) ==
  [interval |-> Resolve(expected, c, "interval", DefaultInterval),
   tz |-> Resolve(expected, c, "tz", DefaultTz),
   connectors |-> Resolve(expected, c, "connectors", DefaultConnectors)]

(* Seeded error: the day does not include its first second.                  *)
DayBoundsOpen(d, pol) == (Midnight(d, pol.tz) + 1) .. (Midnight(d + 1, pol.tz) - 1)

DayBounds(d, pol) == Midnight(d, pol.tz) .. (Midnight(d + 1, pol.tz) - 1)
Cutoff(d, pol) == Midnight(d + 1, pol.tz) + Grace

-----------------------------------------------------------------------------
(* Evaluating one charger-day.                                               *)

Contributors(c, d) ==
  {f \in Files : status[f] = "USABLE" /\ \E fd \in days[f] : fd.charger = c /\ fd.date = d}

Contributed(f, c, d) ==
  UNION {TimestampsUtc(fd) : fd \in {e \in days[f] : e.charger = c /\ e.date = d}}

ClassifyGap(duration) ==
  IF duration >= Critical THEN 3
  ELSE IF duration >= Major THEN 2
  ELSE IF duration >= Moderate THEN 1 ELSE 0

(* Seeded error: an interval of exactly the threshold is a gap.              *)
DetectGapsFromThreshold(S, pol) ==
  {[from |-> pair[1], to |-> pair[2], duration |-> pair[2] - pair[1],
    missing |-> ((pair[2] - pair[1]) \div pol.interval) - 1,
    severity |-> ClassifyGap(pair[2] - pair[1])]
   : pair \in {q \in Neighbours(S) : q[2] - q[1] >= pol.interval * GapMultiplier}}

DetectGaps(S, pol) ==
  {[from |-> pair[1], to |-> pair[2], duration |-> pair[2] - pair[1],
    missing |-> ((pair[2] - pair[1]) \div pol.interval) - 1,
    severity |-> ClassifyGap(pair[2] - pair[1])]
   : pair \in {q \in Neighbours(S) : q[2] - q[1] > pol.interval * GapMultiplier}}

CadenceAbnormal(S, pol) ==
  LET m == DoubleMedian(S)
  IN  /\ Neighbours(S) # {}
      /\ \/ m * 100 < 2 * pol.interval * (100 - TolerancePct)
         \/ m * 100 > 2 * pol.interval * (100 + TolerancePct)

(* Thousandths of a percent, rounded to the nearest and capped at 100%.      *)
Percentage(n, whole) == Min({HundredPct, (2 * HundredPct * n + whole) \div (2 * whole)})

ClassifyCompleteness(unique, expected) ==
  IF unique = 0 THEN "NO_DATA"
  ELSE IF 100 * unique >= CompletePct * expected THEN "COMPLETE"
  ELSE IF 100 * unique >= PartialPct * expected THEN "PARTIAL"
  ELSE "SEVERELY_INCOMPLETE"

(* The file with the most timestamps of the day, the first received of those. *)
LargestFiles(c, d) ==
  {f \in Contributors(c, d) : \A g \in Contributors(c, d) :
     Cardinality(Contributed(f, c, d)) >= Cardinality(Contributed(g, c, d))}

FirstOf(S) == CHOOSE f \in S : \A g \in S : FileDef[f].received <= FileDef[g].received

PrimaryFile(c, d) ==
  IF LargestFiles(c, d) = {} THEN None ELSE FirstOf(LargestFiles(c, d))

FirstReceived(c, d) ==
  IF Contributors(c, d) = {} THEN None
  ELSE Min({FileDef[f].received : f \in Contributors(c, d)})

IsLate(c, d, pol) == FirstReceived(c, d) # None /\ FirstReceived(c, d) > Cutoff(d, pol)

Arrival(expected, c, d, pol) ==
  IF Contributors(c, d) = {} THEN "MISSING"
  ELSE IF c \notin expected THEN "UNEXPECTED"
  ELSE IF IsLate(c, d, pol) THEN "LATE" ELSE "RECEIVED"

(* The timestamps a file adds to the day, and the union over the files.      *)
Counted(f, c, d, pol) == Contributed(f, c, d) \cap DayBounds(d, pol)
Seen(c, d, pol) == UNION {Counted(f, c, d, pol) : f \in Contributors(c, d)}
Overlapping(c, d, pol) ==
  {t \in Seen(c, d, pol) : \E f, g \in Contributors(c, d) :
     f # g /\ t \in Counted(f, c, d, pol) \cap Counted(g, c, d, pol)}

Connectors(c, d) == UNION {FileDef[f].connectors : f \in Contributors(c, d)}

TotalGap(found) == MapThenSumSet(LAMBDA g : g.duration, found)

EvaluateChargerDay(expected, c, d) ==
  LET pol == PolicyFor(expected, c)
      seen == Seen(c, d, pol)
      found == DetectGaps(seen, pol)
      lost == TotalGap(found)
      span == IF seen = {} THEN 0 ELSE Max(seen) - Min(seen)
      whole == Max({1, DayLen \div pol.interval})
  IN  [arrival |-> Arrival(expected, c, d, pol),
       files |-> Cardinality(Contributors(c, d)),
       primary |-> PrimaryFile(c, d),
       received |-> FirstReceived(c, d),
       late_by |-> IF IsLate(c, d, pol) THEN FirstReceived(c, d) - Cutoff(d, pol) ELSE 0,
       unique |-> Cardinality(seen),
       overlap |-> Cardinality(Overlapping(c, d, pol)),
       sample |-> Percentage(Cardinality(seen), whole),
       span |-> Percentage(span, DayLen),
       adjusted |-> Percentage(Max({0, span - lost}), DayLen),
       leading |-> IF seen = {} THEN 0 ELSE Min(seen) - Midnight(d, pol.tz),
       trailing |-> IF seen = {} THEN 0 ELSE Midnight(d + 1, pol.tz) - Max(seen),
       gaps |-> found,
       lost |-> lost,
       abnormal |-> CadenceAbnormal(seen, pol),
       connectors |-> Connectors(c, d),
       wanted |-> pol.connectors,
       completeness |-> ClassifyCompleteness(Cardinality(seen), whole)]

-----------------------------------------------------------------------------
(* The charger-day rules.  A finding is identified by its rule, an entity    *)
(* reference and an event time, never by its counts.                         *)

Finding(rule, ref, at) == [rule |-> rule, ref |-> ref, at |-> at]

Mismatched(c, d) ==
  {f \in Contributors(c, d) : FileDef[f].named # None /\ FileDef[f].named # d}

(* The rules that say something of the day as a whole, each with the         *)
(* condition it fires on.                                                    *)
DayRules(ev) ==
  {<<"MISSING_CHARGER_DATA", ev.arrival = "MISSING">>,
   <<"LATE_FILE", ev.arrival = "LATE">>,
   <<"PARTIAL_DAY", ev.completeness = "PARTIAL">>,
   <<"SEVERELY_INCOMPLETE_DAY", ev.completeness = "SEVERELY_INCOMPLETE">>,
   <<"ABNORMAL_SAMPLING_INTERVAL", ev.abnormal>>,
   <<"MISSING_EXPECTED_CONNECTOR",
     ev.unique > 0 /\ Cardinality(ev.connectors) < ev.wanted>>,
   <<"MULTIPLE_FILES_SAME_CHARGER_DAY", ev.files > 1>>,
   <<"OVERLAPPING_FILE_COVERAGE", ev.overlap > 0>>}

(* One gap finding for the day, located at the longest reportable gap.       *)
WorstGap(ev) ==
  LET reportable == {g \in ev.gaps : g.severity >= GapFloor}
  IN  {g \in reportable : \A h \in reportable :
         g.duration > h.duration \/ (g.duration = h.duration /\ g.from <= h.from)}

FindingsOf(ev, c, d) ==
  {Finding(r[1], None, None) : r \in {q \in DayRules(ev) : q[2]}}
  \cup {Finding("TELEMETRY_GAP", None, g.from) : g \in WorstGap(ev)}
  \cup {Finding("EVENT_DATE_FILENAME_MISMATCH", FileDef[f].name, None) : f \in Mismatched(c, d)}

(* Two mismatched files of one name are one identity: the second insert      *)
(* violates uq_data_quality_issue_coverage_hash.                             *)
NamesClash(c, d) ==
  \E f, g \in Mismatched(c, d) : f # g /\ FileDef[f].name = FileDef[g].name

-----------------------------------------------------------------------------
(* Reconciliation.                                                           *)

Evaluated(expected, d) == expected \cup {c \in Chargers : Contributors(c, d) # {}}

(* Seeded error: the file count of a stored row is carried into the new one. *)
UpsertAccumulates(evals, d) ==
  [cd \in DOMAIN coverage \cup {<<c, d>> : c \in DOMAIN evals} |->
     IF cd[2] = d /\ cd[1] \in DOMAIN evals
     THEN IF cd \notin DOMAIN coverage THEN evals[cd[1]]
          ELSE [evals[cd[1]] EXCEPT !.files = @ + coverage[cd].files]
     ELSE coverage[cd]]

UpsertCoverage(evals, d) ==
  [cd \in DOMAIN coverage \cup {<<c, d>> : c \in DOMAIN evals} |->
     IF cd[2] = d /\ cd[1] \in DOMAIN evals THEN evals[cd[1]] ELSE coverage[cd]]

ReplaceGaps(evals, d) ==
  [cd \in Chargers \X Dates |->
     IF cd[2] = d /\ cd[1] \in DOMAIN evals THEN evals[cd[1]].gaps ELSE gaps[cd]]

(* Seeded error: only charger-days that have findings are cleared.           *)
ReplaceWhereFound(evals, d) ==
  [cd \in Chargers \X Dates |->
     IF cd[2] = d /\ cd[1] \in DOMAIN evals
     THEN LET found == FindingsOf(evals[cd[1]], cd[1], d)
          IN  IF found = {} THEN issues[cd] ELSE found
     ELSE issues[cd]]

ReplaceIssues(evals, d) ==
  [cd \in Chargers \X Dates |->
     IF cd[2] = d /\ cd[1] \in DOMAIN evals
     THEN FindingsOf(evals[cd[1]], cd[1], d) ELSE issues[cd]]

CountWhere(evals, field, values) ==
  Cardinality({c \in DOMAIN evals : evals[c][field] \in values})

(* Rounded to the unit that percentages are kept in.                         *)
MeanOver(evals, S) ==
  LET total == MapThenSumSet(LAMBDA c : evals[c].sample, S)
      n == Cardinality(S)
  IN  IF S = {} THEN 0 ELSE (2 * total + n) \div (2 * n)

(* Seeded error: a late charger-day is not counted as received.              *)
TallyLateApart(evals, expected, d) ==
  [date |-> d, expected |-> Cardinality(expected),
   received |-> CountWhere(evals, "arrival", {"RECEIVED"}),
   missing |-> CountWhere(evals, "arrival", {"MISSING"}),
   late |-> CountWhere(evals, "arrival", {"LATE"}),
   unexpected |-> CountWhere(evals, "arrival", {"UNEXPECTED"}),
   complete |-> CountWhere(evals, "completeness", {"COMPLETE"}),
   fleet |-> MeanOver(evals, {c \in DOMAIN evals : evals[c].arrival # "UNEXPECTED"})]

(* ReconciliationSummary: the fleet's mean leaves unexpected chargers out.   *)
Tally(evals, expected, d) ==
  [date |-> d, expected |-> Cardinality(expected),
   received |-> CountWhere(evals, "arrival", {"RECEIVED", "LATE"}),
   missing |-> CountWhere(evals, "arrival", {"MISSING"}),
   late |-> CountWhere(evals, "arrival", {"LATE"}),
   unexpected |-> CountWhere(evals, "arrival", {"UNEXPECTED"}),
   complete |-> CountWhere(evals, "completeness", {"COMPLETE"}),
   fleet |-> MeanOver(evals, {c \in DOMAIN evals : evals[c].arrival # "UNEXPECTED"})]

Reconcile(d) ==
  LET expected == ExpectedChargers(d)
      evals == [c \in Evaluated(expected, d) |-> EvaluateChargerDay(expected, c, d)]
  IN  /\ \A c \in DOMAIN evals : ~NamesClash(c, d)
      /\ coverage' = UpsertCoverage(evals, d)
      /\ gaps' = ReplaceGaps(evals, d)
      /\ issues' = ReplaceIssues(evals, d)
      /\ done' = Tally(evals, expected, d)
      /\ UNCHANGED <<fleet, days, status, upserts>>

(* The unique violation rolls the whole date back.                           *)
ReconcileFails(d) ==
  /\ \E c \in Chargers : NamesClash(c, d)
  /\ done' = None
  /\ UNCHANGED <<fleet, days, status, tables, upserts>>

(* A file is profiled, its days are recorded, and it ends in a usable state  *)
(* or fails afterwards.                                                      *)
PersistFileDays(f, s) ==
  /\ status[f] = "ABSENT"
  /\ days' = [days EXCEPT ![f] = BuildFileDays(f)]
  /\ status' = [status EXCEPT ![f] = s]
  /\ done' = None
  /\ UNCHANGED <<fleet, tables, upserts>>

UpsertCharger(c, p) ==
  /\ upserts < MaxUpserts
  /\ fleet' = [fleet EXCEPT ![c] = p]
  /\ upserts' = upserts + 1
  /\ done' = None
  /\ UNCHANGED <<days, status, tables>>

Next ==
  \/ \E d \in Dates : Reconcile(d) \/ ReconcileFails(d)
  \/ \E f \in Files, s \in {"USABLE", "UNUSABLE"} : PersistFileDays(f, s)
  \/ \E c \in Chargers, p \in Profiles : UpsertCharger(c, p)

Spec == Init /\ [][Next]_vars

-----------------------------------------------------------------------------
(* The daily metrics, aggregated from the stored rows.                       *)

RowsOf(d) == {c \in Chargers : <<c, d>> \in DOMAIN coverage}
StoredRows(d) == [c \in RowsOf(d) |-> coverage[<<c, d>>]]

MetricsDaily(d) ==
  LET arrived(how) == Cardinality({c \in RowsOf(d) : coverage[<<c, d>>].arrival = how})
  IN  [date |-> d,
       expected |-> Cardinality(RowsOf(d)) - arrived("UNEXPECTED"),
       received |-> arrived("RECEIVED") + arrived("LATE"),
       missing |-> arrived("MISSING"),
       late |-> arrived("LATE"),
       unexpected |-> arrived("UNEXPECTED"),
       complete |-> Cardinality({c \in RowsOf(d) : coverage[<<c, d>>].completeness = "COMPLETE"}),
       fleet |-> MeanOver(StoredRows(d), RowsOf(d))]

-----------------------------------------------------------------------------
(* Type invariant of the registry, the file-days and the three tables.       *)
TypeOK ==
  /\ fleet \in [Chargers -> Profiles \cup {None}]
  /\ days \in [Files -> SUBSET FileDayRows]
  /\ status \in [Files -> {"ABSENT", "USABLE", "UNUSABLE"}]
  /\ DOMAIN coverage \subseteq Chargers \X Dates
  /\ \A cd \in Chargers \X Dates :
       IF cd \in DOMAIN coverage
       THEN coverage[cd] \in CoverageRows /\ gaps[cd] = coverage[cd].gaps
       ELSE gaps[cd] = {} /\ issues[cd] = {}
  /\ upserts \in 0..MaxUpserts

(* The timestamps the usable files of a charger carry on a date, by the      *)
(* clock the files were split by.                                            *)
Delivered(c, d) ==
  UNION {{t \in FileDef[f].stamps : LocalDate(t, DefaultTz) = d} :
         f \in {g \in Files : status[g] = "USABLE" /\ FileDef[g].charger = c}}

(* The charger's days are cut where its files were cut.                      *)
SameClock(c, d) == PolicyFor(ExpectedChargers(d), c).tz = DefaultTz

(* Once a date is reconciled, a charger whose clock is the default one has    *)
(* every timestamp its usable files carry counted exactly once, whichever     *)
(* files overlap, cross midnight or arrived late.                             *)
NoSampleLost ==
  done # None =>
    \A c \in Chargers : SameClock(c, done.date) /\ Delivered(c, done.date) # {} =>
      /\ c \in RowsOf(done.date)
      /\ coverage[<<c, done.date>>].unique = Cardinality(Delivered(c, done.date))

(* The stored gaps of a reconciled day are the silence between its samples:   *)
(* nothing was delivered inside one, and where none is stored the next sample *)
(* follows within the threshold.  A late file that fills a gap removes it.    *)
GapsAreSilence ==
  done # None =>
    \A c \in Chargers : SameClock(c, done.date) /\ Delivered(c, done.date) # {} =>
      LET S == Delivered(c, done.date)
          limit == PolicyFor(ExpectedChargers(done.date), c).interval * GapMultiplier
          G == gaps[<<c, done.date>>]
      IN  /\ \A g \in G : g.from \in S /\ g.to \in S /\ g.duration > limit
                          /\ \A t \in S : t <= g.from \/ t >= g.to
          /\ \A t \in S \ {Max(S)} :
               \/ \E u \in S : t < u /\ u <= t + limit
               \/ \E g \in G : g.from = t

(* After reconciliation a day has the MISSING finding exactly when its row    *)
(* says so and no LATE beside it, and an expected charger of which no sample  *)
(* was counted is reported missing: what an earlier pass found is gone.       *)
FindingsCurrent ==
  done # None =>
    \A c \in Evaluated(ExpectedChargers(done.date), done.date) :
      LET row == coverage[<<c, done.date>>]
          has(r) == \E x \in issues[<<c, done.date>>] : x.rule = r
      IN  /\ has("MISSING_CHARGER_DATA") <=> row.arrival = "MISSING"
          /\ has("LATE_FILE") <=> row.arrival = "LATE"
          /\ has("TELEMETRY_GAP") => gaps[<<c, done.date>>] # {}
          /\ c \in ExpectedChargers(done.date) /\ SameClock(c, done.date) /\ row.unique = 0
             => has("MISSING_CHARGER_DATA")

(* Lateness is a matter of the first receipt: a charger-day is LATE exactly   *)
(* when no usable file of it was received by the cutoff, so that a late       *)
(* supplement does not make a day late that was delivered in time.            *)
LateByFirstReceipt ==
  done # None =>
    \A c \in ExpectedChargers(done.date) :
      (coverage[<<c, done.date>>].arrival = "LATE") <=>
        /\ Contributors(c, done.date) # {}
        /\ \A f \in Contributors(c, done.date) :
             FileDef[f].received > Cutoff(done.date, PolicyFor(ExpectedChargers(done.date), c))

(* What is stored of a day is well formed and, once reconciled, current: the  *)
(* findings those of its row, the arrival that of its first receipt.          *)
ReportCurrent == TypeOK /\ FindingsCurrent /\ LateByFirstReceipt

(* Every expected charger is received or missing, and the metrics read from   *)
(* the stored rows agree with the summary of the pass that wrote them, as     *)
(* long as the date has no row of a charger the pass left out.                *)
CountsAgree ==
  done # None =>
    /\ done.expected = done.received + done.missing
    /\ done.late <= done.received
    /\ RowsOf(done.date) = Evaluated(ExpectedChargers(done.date), done.date) =>
         LET m == MetricsDaily(done.date)
         IN  /\ m.expected = done.expected /\ m.received = done.received
             /\ m.missing = done.missing /\ m.late = done.late
             /\ m.complete = done.complete
             /\ m.unexpected = 0 => m.fleet = done.fleet

(* Reconciling a date again changes nothing, and reconciling one date leaves  *)
(* the rows, gaps and findings of every other date alone.                     *)
ReconcileIdempotent ==
  [][\A d \in Dates : Reconcile(d) =>
       /\ done # None /\ done.date = d => UNCHANGED tables
       /\ \A c \in Chargers, e \in Dates \ {d} :
            /\ StoredRows(e)' = StoredRows(e)
            /\ gaps'[<<c, e>>] = gaps[<<c, e>>]
            /\ issues'[<<c, e>>] = issues[<<c, e>>]]_vars
=============================================================================

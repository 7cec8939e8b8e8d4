-------------------------- MODULE ChargerDayProofs --------------------------
(***************************************************************************)
(* Proofs about ChargerDay, for every fleet, every set of files and every   *)
(* policy.  What reconcile returned describes the tables until anything     *)
(* else happens (Reconciled), and the file-days are those of the files that *)
(* were profiled (Split); the properties follow from what evaluating a      *)
(* charger-day computes.                                                    *)
(***************************************************************************)
EXTENDS ChargerDay, SetFacts

(* Shapes of the variables the steps assign to.                             *)
Shape ==
  /\ fleet \in [Chargers -> Profiles \cup {None}]
  /\ status \in [Files -> {"ABSENT", "USABLE", "UNUSABLE"}]
  /\ coverage = [cd \in DOMAIN coverage |-> coverage[cd]]
  /\ DOMAIN coverage \subseteq Chargers \X Dates
  /\ gaps = [cd \in Chargers \X Dates |-> gaps[cd]]
  /\ issues = [cd \in Chargers \X Dates |-> issues[cd]]

(* Only profiled files have days, the ones build_file_days gives them.      *)
Split ==
  days = [f \in Files |-> IF status[f] = "ABSENT" THEN {} ELSE BuildFileDays(f)]

(* The evaluations of a date, as a pass over it would compute them now.     *)
Evals(d) ==
  [c \in Evaluated(ExpectedChargers(d), d) |->
     EvaluateChargerDay(ExpectedChargers(d), c, d)]

(* The tables hold what a pass over date d would write.                     *)
Current(d) ==
  \A c \in Evaluated(ExpectedChargers(d), d) :
    /\ <<c, d>> \in DOMAIN coverage
    /\ coverage[<<c, d>>] = Evals(d)[c]
    /\ gaps[<<c, d>>] = Evals(d)[c].gaps
    /\ issues[<<c, d>>] = FindingsOf(Evals(d)[c], c, d)

Reconciled ==
  done # None =>
    \E d \in Dates : done = Tally(Evals(d), ExpectedChargers(d), d) /\ Current(d)

DayInv == Shape /\ Split /\ Reconciled

-----------------------------------------------------------------------------
(* What a date evaluates to depends on the registry and the files alone.    *)
LEMMA SameEvaluation ==
  ASSUME UNCHANGED <<fleet, days, status>>, NEW d
  PROVE  /\ ExpectedChargers(d)' = ExpectedChargers(d)
         /\ Evaluated(ExpectedChargers(d), d)' = Evaluated(ExpectedChargers(d), d)
         /\ Evals(d)' = Evals(d)
         /\ \A ev, c : FindingsOf(ev, c, d)' = FindingsOf(ev, c, d)
<1>1. ExpectedChargers(d)' = ExpectedChargers(d)
  BY DEF ExpectedChargers
<1>2. \A c : Contributors(c, d)' = Contributors(c, d)
  BY DEF Contributors
<1>3. Evaluated(ExpectedChargers(d), d)' = Evaluated(ExpectedChargers(d), d)
  BY <1>1, <1>2 DEF Evaluated
<1>4. \A f, c : Contributed(f, c, d)' = Contributed(f, c, d)
  BY DEF Contributed
<1>5. \A e, c : PolicyFor(e, c)' = PolicyFor(e, c)
  BY DEF PolicyFor, Resolve
<1>6. \A f, c, p : Counted(f, c, d, p)' = Counted(f, c, d, p)
  BY <1>4 DEF Counted
<1>7. \A c, p : Seen(c, d, p)' = Seen(c, d, p)
  BY <1>2, <1>6 DEF Seen
<1>8. \A c : FirstReceived(c, d)' = FirstReceived(c, d)
  BY <1>2 DEF FirstReceived
<1>9. \A c, p : IsLate(c, d, p)' = IsLate(c, d, p)
  BY <1>8 DEF IsLate
<1>10. \A e, c, p : Arrival(e, c, d, p)' = Arrival(e, c, d, p)
  BY <1>2, <1>9 DEF Arrival
<1>11. \A c : LargestFiles(c, d)' = LargestFiles(c, d)
  BY <1>2, <1>4 DEF LargestFiles
<1>12. \A c : PrimaryFile(c, d)' = PrimaryFile(c, d)
  BY <1>11 DEF PrimaryFile
<1>13. \A c, p : Overlapping(c, d, p)' = Overlapping(c, d, p)
  BY <1>2, <1>6, <1>7 DEF Overlapping
<1>14. \A c : Connectors(c, d)' = Connectors(c, d)
  BY <1>2 DEF Connectors
<1>15. \A e, c : EvaluateChargerDay(e, c, d)' = EvaluateChargerDay(e, c, d)
  <2> SUFFICES ASSUME NEW e, NEW c
               PROVE  EvaluateChargerDay(e, c, d)' = EvaluateChargerDay(e, c, d)
    OBVIOUS
  <2>1. PICK pol : pol = PolicyFor(e, c) /\ pol = PolicyFor(e, c)'
    BY <1>5
  <2>2. PICK S : S = Seen(c, d, pol) /\ S = Seen(c, d, pol)'
    BY <1>7
  <2>3. PICK K : K = Contributors(c, d) /\ K = Contributors(c, d)'
    BY <1>2
  <2>4. PICK first : first = FirstReceived(c, d) /\ first = FirstReceived(c, d)'
    BY <1>8
  <2>5. PICK late : late = IsLate(c, d, pol) /\ late = IsLate(c, d, pol)'
    BY <1>9
  <2>6. PICK how : how = Arrival(e, c, d, pol) /\ how = Arrival(e, c, d, pol)'
    BY <1>10
  <2>7. PICK main : main = PrimaryFile(c, d) /\ main = PrimaryFile(c, d)'
    BY <1>12
  <2>8. PICK twice : twice = Overlapping(c, d, pol) /\ twice = Overlapping(c, d, pol)'
    BY <1>13
  <2>9. PICK guns : guns = Connectors(c, d) /\ guns = Connectors(c, d)'
    BY <1>14
  <2> DEFINE found == DetectGaps(S, pol)
             span == IF S = {} THEN 0 ELSE Max(S) - Min(S)
             whole == Max({1, DayLen \div pol.interval})
             row == [arrival |-> how,
                     files |-> Cardinality(K),
                     primary |-> main,
                     received |-> first,
                     late_by |-> IF late THEN first - Cutoff(d, pol) ELSE 0,
                     unique |-> Cardinality(S),
                     overlap |-> Cardinality(twice),
                     sample |-> Percentage(Cardinality(S), whole),
                     span |-> Percentage(span, DayLen),
                     adjusted |-> Percentage(Max({0, span - TotalGap(found)}), DayLen),
                     leading |-> IF S = {} THEN 0 ELSE Min(S) - Midnight(d, pol.tz),
                     trailing |-> IF S = {} THEN 0
                                  ELSE Midnight(d + 1, pol.tz) - Max(S),
                     gaps |-> found,
                     lost |-> TotalGap(found),
                     abnormal |-> CadenceAbnormal(S, pol),
                     connectors |-> guns,
                     wanted |-> pol.connectors,
                     completeness |-> ClassifyCompleteness(Cardinality(S), whole)]
  <2>10. EvaluateChargerDay(e, c, d) = row
    BY <2>1, <2>2, <2>3, <2>4, <2>5, <2>6, <2>7, <2>8, <2>9, Zenon
       DEF EvaluateChargerDay
  <2>11. EvaluateChargerDay(e, c, d)' = row
    BY <2>1, <2>2, <2>3, <2>4, <2>5, <2>6, <2>7, <2>8, <2>9, Zenon
       DEF EvaluateChargerDay
  <2> HIDE DEF row
  <2> QED
    BY <2>10, <2>11
<1>16. Evals(d)' = Evals(d)
  BY <1>1, <1>3, <1>15 DEF Evals
<1>17. \A ev, c : FindingsOf(ev, c, d)' = FindingsOf(ev, c, d)
  BY <1>2 DEF FindingsOf, Mismatched
<1> QED
  BY <1>1, <1>3, <1>16, <1>17

(* What a pass writes.                                                      *)
LEMMA ReconcileWrites ==
  ASSUME NEW d, Reconcile(d)
  PROVE  /\ coverage' = UpsertCoverage(Evals(d), d)
         /\ gaps' = ReplaceGaps(Evals(d), d)
         /\ issues' = ReplaceIssues(Evals(d), d)
         /\ done' = Tally(Evals(d), ExpectedChargers(d), d)
         /\ UNCHANGED <<fleet, days, status, upserts>>
BY Zenon DEF Reconcile, Evals

(* The rows of a date after a pass over date d: the new ones where the pass *)
(* evaluated a charger, the old ones elsewhere.                             *)
LEMMA AfterPass ==
  ASSUME Shape, NEW d \in Dates, Reconcile(d)
  PROVE  /\ Shape'
         /\ \A c \in DOMAIN Evals(d) :
              /\ <<c, d>> \in DOMAIN coverage'
              /\ coverage'[<<c, d>>] = Evals(d)[c]
              /\ gaps'[<<c, d>>] = Evals(d)[c].gaps
              /\ issues'[<<c, d>>] = FindingsOf(Evals(d)[c], c, d)
         /\ \A cd \in Chargers \X Dates : ~(cd[2] = d /\ cd[1] \in DOMAIN Evals(d)) =>
              /\ cd \in DOMAIN coverage' <=> cd \in DOMAIN coverage
              /\ cd \in DOMAIN coverage => coverage'[cd] = coverage[cd]
              /\ gaps'[cd] = gaps[cd] /\ issues'[cd] = issues[cd]
<1> DEFINE E == Evals(d)
<1>1. /\ coverage' = UpsertCoverage(E, d)
      /\ gaps' = ReplaceGaps(E, d) /\ issues' = ReplaceIssues(E, d)
      /\ UNCHANGED <<fleet, days, status, upserts>>
  BY ReconcileWrites
<1>2. DOMAIN E \subseteq Chargers
  BY DEF Evals, Evaluated, ExpectedChargers
<1> HIDE DEF E
<1>3. /\ DOMAIN coverage' = DOMAIN coverage \cup {<<c, d>> : c \in DOMAIN E}
      /\ \A cd \in DOMAIN coverage' :
           coverage'[cd] = IF cd[2] = d /\ cd[1] \in DOMAIN E THEN E[cd[1]]
                           ELSE coverage[cd]
      /\ coverage' = [cd \in DOMAIN coverage' |-> coverage'[cd]]
  BY <1>1 DEF UpsertCoverage
<1>4. /\ gaps' = [cd \in Chargers \X Dates |-> gaps'[cd]]
      /\ \A cd \in Chargers \X Dates :
           gaps'[cd] = IF cd[2] = d /\ cd[1] \in DOMAIN E THEN E[cd[1]].gaps
                       ELSE gaps[cd]
  BY <1>1 DEF ReplaceGaps
<1>5. /\ issues' = [cd \in Chargers \X Dates |-> issues'[cd]]
      /\ \A cd \in Chargers \X Dates :
           issues'[cd] = IF cd[2] = d /\ cd[1] \in DOMAIN E
                         THEN FindingsOf(E[cd[1]], cd[1], d) ELSE issues[cd]
  BY <1>1 DEF ReplaceIssues
<1>6. Shape'
  BY <1>1, <1>2, <1>3, <1>4, <1>5 DEF Shape
<1>7. ASSUME NEW c \in DOMAIN E
      PROVE  /\ <<c, d>> \in DOMAIN coverage'
             /\ coverage'[<<c, d>>] = E[c]
             /\ gaps'[<<c, d>>] = E[c].gaps
             /\ issues'[<<c, d>>] = FindingsOf(E[c], c, d)
  <2>1. <<c, d>> \in DOMAIN coverage' /\ <<c, d>> \in Chargers \X Dates
    BY <1>2, <1>3, <1>7
  <2>2. <<c, d>>[1] = c /\ <<c, d>>[2] = d
    OBVIOUS
  <2> QED
    BY <1>3, <1>4, <1>5, <1>7, <2>1, <2>2
<1>8. ASSUME NEW cd \in Chargers \X Dates, ~(cd[2] = d /\ cd[1] \in DOMAIN E)
      PROVE  /\ cd \in DOMAIN coverage' <=> cd \in DOMAIN coverage
             /\ cd \in DOMAIN coverage => coverage'[cd] = coverage[cd]
             /\ gaps'[cd] = gaps[cd] /\ issues'[cd] = issues[cd]
  <2>1. \A c \in DOMAIN E : cd # <<c, d>>
    BY <1>8
  <2> QED
    BY <1>3, <1>4, <1>5, <1>8, <2>1
<1> QED
  BY <1>6, <1>7, <1>8 DEF E

(* Nothing is profiled or stored at first.                                  *)
LEMMA DayInitial == Init => DayInv
<1> SUFFICES ASSUME Init PROVE DayInv
  OBVIOUS
<1>1. Shape
  BY DEF Init, Shape
<1>2. Split
  BY DEF Init, Split
<1>3. Reconciled
  BY DEF Init, Reconciled
<1> QED
  BY <1>1, <1>2, <1>3 DEF DayInv

(* A pass leaves the tables current for its date.                           *)
LEMMA ReconcileStep ==
  ASSUME DayInv, NEW d \in Dates, Reconcile(d)
  PROVE  DayInv'
<1>1. Shape /\ Split
  BY DEF DayInv
<1>2. UNCHANGED <<fleet, days, status>> /\ done' = Tally(Evals(d), ExpectedChargers(d), d)
  BY ReconcileWrites
<1>3. /\ ExpectedChargers(d)' = ExpectedChargers(d)
      /\ Evaluated(ExpectedChargers(d), d)' = Evaluated(ExpectedChargers(d), d)
      /\ Evals(d)' = Evals(d)
      /\ \A ev, c : FindingsOf(ev, c, d)' = FindingsOf(ev, c, d)
  BY <1>2, SameEvaluation
<1>4. Shape' /\ \A c \in DOMAIN Evals(d) :
                  /\ <<c, d>> \in DOMAIN coverage'
                  /\ coverage'[<<c, d>>] = Evals(d)[c]
                  /\ gaps'[<<c, d>>] = Evals(d)[c].gaps
                  /\ issues'[<<c, d>>] = FindingsOf(Evals(d)[c], c, d)
  BY <1>1, AfterPass
<1>5. DOMAIN Evals(d) = Evaluated(ExpectedChargers(d), d)
  BY DEF Evals
<1>6. Current(d)'
  BY <1>3, <1>4, <1>5 DEF Current
<1>7. Tally(Evals(d), ExpectedChargers(d), d)' = Tally(Evals(d), ExpectedChargers(d), d)
  BY <1>3
<1>8. Reconciled'
  BY <1>2, <1>6, <1>7 DEF Reconciled
<1>9. Split'
  BY <1>1, <1>2 DEF Split
<1> QED
  BY <1>4, <1>8, <1>9 DEF DayInv

(* Every other step forgets the summary.                                    *)
LEMMA OtherSteps ==
  ASSUME DayInv,
         \/ \E d \in Dates : ReconcileFails(d)
         \/ \E f \in Files, s \in {"USABLE", "UNUSABLE"} : PersistFileDays(f, s)
         \/ \E c \in Chargers, p \in Profiles : UpsertCharger(c, p)
  PROVE  DayInv'
<1>1. Shape /\ Split
  BY DEF DayInv
<1>2. done' = None /\ UNCHANGED <<coverage, gaps, issues>>
  BY DEF ReconcileFails, PersistFileDays, UpsertCharger, tables
<1>3. Reconciled'
  BY <1>2 DEF Reconciled
<1>4. Shape'
  BY <1>1, <1>2 DEF Shape, ReconcileFails, PersistFileDays, UpsertCharger
<1>5. Split'
  <2>1. CASE \E f \in Files, s \in {"USABLE", "UNUSABLE"} : PersistFileDays(f, s)
    <3>1. PICK f \in Files, s \in {"USABLE", "UNUSABLE"} : PersistFileDays(f, s)
      BY <2>1
    <3>2. /\ days' = [days EXCEPT ![f] = BuildFileDays(f)]
          /\ status' = [status EXCEPT ![f] = s]
      BY <3>1 DEF PersistFileDays
    <3>3. \A g : BuildFileDays(g)' = BuildFileDays(g)
      BY DEF BuildFileDays
    <3> QED
      BY <1>1, <3>2, <3>3 DEF Split, Shape
  <2>2. CASE ~\E f \in Files, s \in {"USABLE", "UNUSABLE"} : PersistFileDays(f, s)
    <3>1. UNCHANGED <<days, status>>
      BY <2>2 DEF ReconcileFails, UpsertCharger
    <3> QED
      BY <1>1, <3>1 DEF Split
  <2> QED
    BY <2>1, <2>2
<1> QED
  BY <1>3, <1>4, <1>5 DEF DayInv

(* Nothing changes in a stuttering step.                                    *)
LEMMA DayStutter ==
  ASSUME DayInv, UNCHANGED vars
  PROVE  DayInv'
<1>1. Shape /\ Split /\ Reconciled
  BY DEF DayInv
<1>2. UNCHANGED <<fleet, days, status, coverage, gaps, issues, done>>
  BY DEF vars, tables
<1>3. Shape' /\ Split'
  BY <1>1, <1>2 DEF Shape, Split
<1>4. CASE done # None
  <2>1. PICK d \in Dates : done = Tally(Evals(d), ExpectedChargers(d), d) /\ Current(d)
    BY <1>1, <1>4 DEF Reconciled
  <2>2. /\ ExpectedChargers(d)' = ExpectedChargers(d)
        /\ Evaluated(ExpectedChargers(d), d)' = Evaluated(ExpectedChargers(d), d)
        /\ Evals(d)' = Evals(d)
        /\ \A ev, c : FindingsOf(ev, c, d)' = FindingsOf(ev, c, d)
    BY <1>2, SameEvaluation
  <2>3. Current(d)'
    BY <1>2, <2>1, <2>2 DEF Current
  <2>4. Tally(Evals(d), ExpectedChargers(d), d)' = Tally(Evals(d), ExpectedChargers(d), d)
    BY <2>2
  <2> QED
    BY <1>2, <1>3, <2>1, <2>3, <2>4 DEF DayInv, Reconciled
<1>5. CASE done = None
  BY <1>2, <1>3, <1>5 DEF DayInv, Reconciled
<1> QED
  BY <1>4, <1>5

(* Every step keeps the invariant.                                          *)
LEMMA DayInductive == DayInv /\ [Next]_vars => DayInv'
<1> SUFFICES ASSUME DayInv, [Next]_vars PROVE DayInv'
  OBVIOUS
<1>1. ASSUME NEW d \in Dates, Reconcile(d) PROVE DayInv'
  BY <1>1, ReconcileStep
<1>2. CASE \/ \E d \in Dates : ReconcileFails(d)
           \/ \E f \in Files, s \in {"USABLE", "UNUSABLE"} : PersistFileDays(f, s)
           \/ \E c \in Chargers, p \in Profiles : UpsertCharger(c, p)
  BY <1>2, OtherSteps
<1>3. CASE UNCHANGED vars
  BY <1>3, DayStutter
<1> QED
  BY <1>1, <1>2, <1>3 DEF Next

-----------------------------------------------------------------------------
(* The timestamps a file carries on a date, by the default clock.           *)
DayStamps(f, d) == {t \in FileDef[f].stamps : LocalDate(t, DefaultTz) = d}

(* A date's midnights enclose the timestamps that fall on it.               *)
LEMMA WithinTheDay ==
  ASSUME NEW t \in Int, NEW z \in Int
  PROVE  /\ LocalDate(t, z) \in Int
         /\ Midnight(LocalDate(t, z), z) \in Int
         /\ Midnight(LocalDate(t, z), z) <= t
         /\ t <= Midnight(LocalDate(t, z) + 1, z) - 1
         /\ Midnight(LocalDate(t, z) + 1, z) = Midnight(LocalDate(t, z), z) + DayLen
<1> DEFINE d == (t + z) \div DayLen
<1>1. DayLen \in Nat \ {0}
  BY PolicyAssumption
<1>2. d \in Int /\ DayLen * d <= t + z /\ t + z < DayLen * d + DayLen
  BY <1>1
<1>3. DayLen * d \in Int /\ d * DayLen = DayLen * d
      /\ (d + 1) * DayLen = DayLen * d + DayLen
  BY <1>1, <1>2
<1> HIDE DEF d
<1>4. LocalDate(t, z) = d
  BY DEF LocalDate, d
<1> DEFINE m == DayLen * d
<1>5. /\ m \in Int /\ m <= t + z /\ t + z < m + DayLen
      /\ d * DayLen = m /\ (d + 1) * DayLen = m + DayLen
  BY <1>2, <1>3
<1> HIDE DEF m
<1>6. Midnight(d, z) = m - z /\ Midnight(d + 1, z) = m + DayLen - z
  <2>1. Midnight(d, z) = d * DayLen - z /\ Midnight(d + 1, z) = (d + 1) * DayLen - z
    BY Zenon DEF Midnight
  <2>2. d * DayLen = m /\ (d + 1) * DayLen = m + DayLen
    BY <1>5, Zenon
  <2> QED
    BY <1>1, <1>2, <1>5, <2>1, <2>2
<1>7. /\ Midnight(d, z) \in Int /\ Midnight(d, z) <= t
      /\ t <= Midnight(d + 1, z) - 1
      /\ Midnight(d + 1, z) = Midnight(d, z) + DayLen
  BY <1>1, <1>5, <1>6
<1> QED
  BY <1>2, <1>4, <1>7, Zenon

(* Splitting a file and reading a file-day back gives the timestamps of the *)
(* date: the offsets lose nothing.                                          *)
LEMMA FileDayRead ==
  ASSUME NEW f \in Files, NEW fd \in BuildFileDays(f)
  PROVE  /\ fd.charger = FileDef[f].charger /\ fd.tz = DefaultTz
         /\ DayStamps(f, fd.date) # {}
         /\ TimestampsUtc(fd) = DayStamps(f, fd.date)
<1>1. PICK t \in FileDef[f].stamps :
        fd = [charger |-> FileDef[f].charger, date |-> LocalDate(t, DefaultTz),
              tz |-> DefaultTz,
              offsets |-> {u - Midnight(LocalDate(t, DefaultTz), DefaultTz) :
                           u \in {v \in FileDef[f].stamps :
                                    LocalDate(v, DefaultTz) = LocalDate(t, DefaultTz)}}]
  BY DEF BuildFileDays
<1> DEFINE d == LocalDate(t, DefaultTz)
           m == Midnight(d, DefaultTz)
           S == DayStamps(f, d)
<1>2. FileDef[f].stamps \subseteq Int /\ t \in Int /\ DefaultTz \in Int
  BY FleetAssumption, PolicyAssumption
<1>3. m \in Int /\ S \subseteq Int /\ t \in S
  BY <1>2, WithinTheDay DEF DayStamps
<1>4. /\ fd.charger = FileDef[f].charger /\ fd.tz = DefaultTz /\ fd.date = d
      /\ fd.offsets = {u - m : u \in S}
  BY <1>1 DEF DayStamps
<1> HIDE DEF m, S, d
<1>5. {m + o : o \in {u - m : u \in S}} = S
  <2>1. \A u \in S : m + (u - m) = u
    BY <1>3
  <2> QED
    BY <2>1
<1>6. TimestampsUtc(fd) = S
  BY <1>4, <1>5 DEF TimestampsUtc, m
<1> QED
  BY <1>3, <1>4, <1>6 DEF S

(* Every date a file has a timestamp on has a file-day.                     *)
LEMMA FileDayBuilt ==
  ASSUME NEW f \in Files, NEW t \in FileDef[f].stamps
  PROVE  \E fd \in BuildFileDays(f) :
           fd.charger = FileDef[f].charger /\ fd.date = LocalDate(t, DefaultTz)
<1> DEFINE built(u) ==
             [charger |-> FileDef[f].charger, date |-> LocalDate(u, DefaultTz),
              tz |-> DefaultTz,
              offsets |-> {w - Midnight(LocalDate(u, DefaultTz), DefaultTz) :
                           w \in {v \in FileDef[f].stamps :
                                    LocalDate(v, DefaultTz) = LocalDate(u, DefaultTz)}}]
<1>1. BuildFileDays(f) = {built(u) : u \in FileDef[f].stamps}
  BY Zenon DEF BuildFileDays
<1>2. built(t).charger = FileDef[f].charger /\ built(t).date = LocalDate(t, DefaultTz)
  OBVIOUS
<1> HIDE DEF built
<1>3. built(t) \in BuildFileDays(f)
  BY <1>1
<1> QED
  BY <1>2, <1>3

(* A usable file contributes to a charger-day exactly what it carries.      *)
LEMMA Contribution ==
  ASSUME DayInv, NEW f \in Files, status[f] = "USABLE", NEW c, NEW d
  PROVE  /\ FileDef[f].charger = c => Contributed(f, c, d) = DayStamps(f, d)
         /\ f \in Contributors(c, d) <=>
              FileDef[f].charger = c /\ DayStamps(f, d) # {}
<1>1. days[f] = BuildFileDays(f)
  BY DEF DayInv, Split
<1>2. \A fd \in days[f] : /\ fd.charger = FileDef[f].charger
                          /\ DayStamps(f, fd.date) # {}
                          /\ TimestampsUtc(fd) = DayStamps(f, fd.date)
  BY <1>1, FileDayRead
<1>3. \A t \in DayStamps(f, d) : \E fd \in days[f] :
        fd.charger = FileDef[f].charger /\ fd.date = d
  BY <1>1, FileDayBuilt DEF DayStamps
<1>4. ASSUME FileDef[f].charger = c
      PROVE  Contributed(f, c, d) = DayStamps(f, d)
  <2> DEFINE F == {e \in days[f] : e.charger = c /\ e.date = d}
  <2>1. \A fd \in F : TimestampsUtc(fd) = DayStamps(f, d)
    BY <1>2
  <2>2. DayStamps(f, d) # {} => F # {}
    BY <1>3, <1>4
  <2>3. Contributed(f, c, d) = UNION {TimestampsUtc(fd) : fd \in F}
    BY DEF Contributed
  <2> HIDE DEF F
  <2> QED
    BY <2>1, <2>2, <2>3
<1>5. f \in Contributors(c, d) <=> \E fd \in days[f] : fd.charger = c /\ fd.date = d
  BY DEF Contributors
<1> QED
  BY <1>2, <1>3, <1>4, <1>5

(* Where the charger's days are cut by the default clock, the timestamps of *)
(* a day are all that was delivered for it.                                 *)
LEMMA SeenIsDelivered ==
  ASSUME DayInv, NEW c \in Chargers, NEW d, NEW pol, pol.tz = DefaultTz
  PROVE  /\ Seen(c, d, pol) = Delivered(c, d)
         /\ Contributors(c, d) = {} <=> Delivered(c, d) = {}
<1> DEFINE G == {g \in Files : status[g] = "USABLE" /\ FileDef[g].charger = c}
<1>1. Delivered(c, d) = UNION {DayStamps(f, d) : f \in G}
  BY DEF Delivered, DayStamps
<1>2. \A f \in Contributors(c, d) : /\ f \in G /\ DayStamps(f, d) # {}
                                    /\ Contributed(f, c, d) = DayStamps(f, d)
  BY Contribution DEF Contributors
<1>3. \A f \in G : DayStamps(f, d) # {} => f \in Contributors(c, d)
  BY Contribution
<1>4. ASSUME NEW f \in Files PROVE DayStamps(f, d) \subseteq DayBounds(d, pol)
  <2> SUFFICES ASSUME NEW t \in DayStamps(f, d) PROVE t \in DayBounds(d, pol)
    OBVIOUS
  <2>1. t \in Int /\ LocalDate(t, DefaultTz) = d
    BY FleetAssumption DEF DayStamps
  <2>2. /\ Midnight(d, DefaultTz) \in Int /\ Midnight(d, DefaultTz) <= t
        /\ Midnight(d + 1, DefaultTz) = Midnight(d, DefaultTz) + DayLen
        /\ t <= Midnight(d + 1, DefaultTz) - 1
    BY <2>1, WithinTheDay, PolicyAssumption
  <2> QED
    BY <2>1, <2>2, PolicyAssumption DEF DayBounds
<1>5. \A f \in Contributors(c, d) : Counted(f, c, d, pol) = DayStamps(f, d)
  BY <1>2, <1>4 DEF Counted, Contributors
<1>6. Seen(c, d, pol) = UNION {DayStamps(f, d) : f \in Contributors(c, d)}
  BY <1>5 DEF Seen
<1> HIDE DEF G
<1>7. Seen(c, d, pol) = Delivered(c, d)
  BY <1>1, <1>2, <1>3, <1>6
<1>8. Contributors(c, d) = {} <=> Delivered(c, d) = {}
  BY <1>1, <1>2, <1>3
<1> QED
  BY <1>7, <1>8

-----------------------------------------------------------------------------
(* The columns of a row that the properties speak of.                       *)
LEMMA Columns ==
  ASSUME NEW e, NEW c, NEW d, NEW pol, pol = PolicyFor(e, c)
  PROVE  /\ EvaluateChargerDay(e, c, d).arrival = Arrival(e, c, d, pol)
         /\ EvaluateChargerDay(e, c, d).unique = Cardinality(Seen(c, d, pol))
         /\ EvaluateChargerDay(e, c, d).gaps = DetectGaps(Seen(c, d, pol), pol)
BY DEF EvaluateChargerDay

(* The date a summary is about, and the rows of that date.                  *)
LEMMA DateDone ==
  ASSUME DayInv, done # None
  PROVE  /\ done.date \in Dates
         /\ done = Tally(Evals(done.date), ExpectedChargers(done.date), done.date)
         /\ Current(done.date)
<1>1. PICK d \in Dates : done = Tally(Evals(d), ExpectedChargers(d), d) /\ Current(d)
  BY DEF DayInv, Reconciled
<1>2. Tally(Evals(d), ExpectedChargers(d), d).date = d
  BY DEF Tally
<1> QED
  BY <1>1, <1>2

(* A charger with a delivery is evaluated, by what was delivered.           *)
LEMMA DeliveredRow ==
  ASSUME DayInv, done # None, NEW c \in Chargers,
         SameClock(c, done.date), Delivered(c, done.date) # {}
  PROVE  LET pol == PolicyFor(ExpectedChargers(done.date), c)
         IN  /\ <<c, done.date>> \in DOMAIN coverage
             /\ coverage[<<c, done.date>>].unique = Cardinality(Delivered(c, done.date))
             /\ gaps[<<c, done.date>>] = DetectGaps(Delivered(c, done.date), pol)
<1> DEFINE d == done.date
           e == ExpectedChargers(d)
           pol == PolicyFor(e, c)
<1>1. Current(d)
  BY DateDone
<1>2. pol.tz = DefaultTz
  BY DEF SameClock
<1>3. Seen(c, d, pol) = Delivered(c, d) /\ Contributors(c, d) # {}
  BY <1>2, SeenIsDelivered
<1>4. c \in Evaluated(e, d)
  BY <1>3 DEF Evaluated
<1>5. Evals(d)[c] = EvaluateChargerDay(e, c, d)
  BY <1>4 DEF Evals
<1>6. /\ EvaluateChargerDay(e, c, d).unique = Cardinality(Delivered(c, d))
      /\ EvaluateChargerDay(e, c, d).gaps = DetectGaps(Delivered(c, d), pol)
  BY <1>3, Columns
<1> QED
  BY <1>1, <1>4, <1>5, <1>6 DEF Current

(* Every delivered sample is counted, once.                                 *)
LEMMA SamplesCounted == DayInv => NoSampleLost
<1> SUFFICES ASSUME DayInv, done # None, NEW c \in Chargers,
                    SameClock(c, done.date), Delivered(c, done.date) # {}
             PROVE  /\ c \in RowsOf(done.date)
                    /\ coverage[<<c, done.date>>].unique
                         = Cardinality(Delivered(c, done.date))
  BY DEF NoSampleLost
<1> QED
  BY DeliveredRow DEF RowsOf

(* The policy of a charger has an interval and a clock.                     *)
LEMMA PolicyTyped ==
  ASSUME DayInv, NEW d, NEW c \in Chargers
  PROVE  /\ PolicyFor(ExpectedChargers(d), c).interval \in Nat \ {0}
         /\ PolicyFor(ExpectedChargers(d), c).tz \in Int
         /\ PolicyFor(ExpectedChargers(d), c).connectors \in Nat
<1>1. c \in ExpectedChargers(d) => fleet[c] \in ProfileRecords
  BY FleetAssumption DEF DayInv, Shape, ExpectedChargers
<1>2. c \in ExpectedChargers(d) =>
        /\ fleet[c]["interval"] \in (Nat \ {0}) \cup {None}
        /\ fleet[c]["tz"] \in Int \cup {None}
        /\ fleet[c]["connectors"] \in Nat \cup {None}
  BY <1>1 DEF ProfileRecords
<1> QED
  BY <1>2, PolicyAssumption DEF PolicyFor, Resolve

(* A sample is the last one, or has a next one.                             *)
LEMMA NextSample ==
  ASSUME NEW S \in SUBSET Int, NEW t \in S, t # Max(S)
  PROVE  \E u \in S : t < u /\ \A v \in S : v <= t \/ v >= u
<1>1. \E v \in S : t < v
  <2> SUFFICES ASSUME \A v \in S : ~(t < v) PROVE FALSE
    OBVIOUS
  <2>1. \A v \in S : t >= v
    OBVIOUS
  <2>2. Max(S) \in S /\ \A v \in S : Max(S) >= v
    BY <2>1 DEF Max
  <2>3. Max(S) \in Int /\ Max(S) >= t /\ t >= Max(S) /\ t \in Int
    BY <2>1, <2>2
  <2> QED
    BY <2>3
<1> DEFINE After == {v \in S : t < v}
           D == {v - t : v \in After}
<1>2. D \in SUBSET Nat /\ D # {}
  BY <1>1
<1>3. PICK n \in D : \A k \in D : n <= k
  <2> HIDE DEF D
  <2> QED
    BY <1>2, LeastNumber
<1>4. PICK u \in After : n = u - t
  OBVIOUS
<1>5. \A v \in After : u - t <= v - t
  BY <1>3, <1>4
<1>6. ASSUME NEW v \in S PROVE v <= t \/ v >= u
  <2>1. v \in Int /\ t \in Int /\ u \in Int
    OBVIOUS
  <2>2. CASE t < v
    BY <1>5, <2>1, <2>2
  <2>3. CASE ~(t < v)
    BY <2>1, <2>3
  <2> QED
    BY <2>2, <2>3
<1> QED
  BY <1>4, <1>6

(* The gaps found between the samples of a set.                             *)
LEMMA GapsBetween ==
  ASSUME NEW S \in SUBSET Int, NEW pol, pol.interval \in Nat \ {0}
  PROVE  LET limit == pol.interval * GapMultiplier
         IN  /\ \A g \in DetectGaps(S, pol) :
                  /\ g.from \in S /\ g.to \in S /\ g.duration > limit
                  /\ \A t \in S : t <= g.from \/ t >= g.to
             /\ \A t \in S \ {Max(S)} :
                  \/ \E u \in S : t < u /\ u <= t + limit
                  \/ \E g \in DetectGaps(S, pol) : g.from = t
<1> DEFINE limit == pol.interval * GapMultiplier
           wide == {q \in Neighbours(S) : q[2] - q[1] > limit}
           gap(q) == [from |-> q[1], to |-> q[2], duration |-> q[2] - q[1],
                      missing |-> ((q[2] - q[1]) \div pol.interval) - 1,
                      severity |-> ClassifyGap(q[2] - q[1])]
<1>1. DetectGaps(S, pol) = {gap(q) : q \in wide}
  BY Zenon DEF DetectGaps
<1>2. \A q \in wide : /\ gap(q).from = q[1] /\ gap(q).to = q[2]
                      /\ gap(q).duration = q[2] - q[1]
  OBVIOUS
<1>3. limit \in Nat
  BY PolicyAssumption
<1> HIDE DEF gap, limit
<1>4. ASSUME NEW q \in wide
      PROVE  /\ q[1] \in S /\ q[2] \in S /\ q[2] - q[1] > limit
             /\ \A t \in S : t <= q[1] \/ t >= q[2]
  BY <1>4 DEF Neighbours
<1>5. ASSUME NEW t \in S \ {Max(S)}
      PROVE  \/ \E u \in S : t < u /\ u <= t + limit
             \/ \E g \in DetectGaps(S, pol) : g.from = t
  <2>1. PICK u \in S : t < u /\ \A v \in S : v <= t \/ v >= u
    BY <1>5, NextSample
  <2>2. t \in Int /\ u \in Int
    BY <1>5
  <2>3. CASE u - t > limit
    <3>1. <<t, u>> \in wide
      BY <1>5, <2>1, <2>3 DEF Neighbours
    <3>2. gap(<<t, u>>) \in DetectGaps(S, pol) /\ gap(<<t, u>>).from = t
      BY <1>1, <1>2, <3>1
    <3> QED
      BY <3>2
  <2>4. CASE ~(u - t > limit)
    BY <1>3, <2>1, <2>2, <2>4
  <2> QED
    BY <2>3, <2>4
<1>6. ASSUME NEW g \in DetectGaps(S, pol)
      PROVE  /\ g.from \in S /\ g.to \in S /\ g.duration > limit
             /\ \A t \in S : t <= g.from \/ t >= g.to
  <2>1. PICK q \in wide : g = gap(q)
    BY <1>1, <1>6
  <2> QED
    BY <1>2, <1>4, <2>1
<1> QED
  BY <1>5, <1>6 DEF limit

(* The stored gaps are those between the delivered samples.                 *)
LEMMA SilenceStored == DayInv => GapsAreSilence
<1> SUFFICES ASSUME DayInv, done # None, NEW c \in Chargers,
                    SameClock(c, done.date), Delivered(c, done.date) # {}
             PROVE  LET S == Delivered(c, done.date)
                        limit == PolicyFor(ExpectedChargers(done.date), c).interval
                                   * GapMultiplier
                        G == gaps[<<c, done.date>>]
                    IN  /\ \A g \in G : g.from \in S /\ g.to \in S /\ g.duration > limit
                                        /\ \A t \in S : t <= g.from \/ t >= g.to
                        /\ \A t \in S \ {Max(S)} :
                             \/ \E u \in S : t < u /\ u <= t + limit
                             \/ \E g \in G : g.from = t
  BY DEF GapsAreSilence
<1> DEFINE S == Delivered(c, done.date)
           pol == PolicyFor(ExpectedChargers(done.date), c)
<1>1. gaps[<<c, done.date>>] = DetectGaps(S, pol)
  BY DeliveredRow
<1>2. S \in SUBSET Int
  BY FleetAssumption DEF Delivered
<1>3. pol.interval \in Nat \ {0}
  BY PolicyTyped
<1> HIDE DEF S, pol
<1>4. /\ \A g \in DetectGaps(S, pol) :
           /\ g.from \in S /\ g.to \in S /\ g.duration > pol.interval * GapMultiplier
           /\ \A t \in S : t <= g.from \/ t >= g.to
      /\ \A t \in S \ {Max(S)} :
           \/ \E u \in S : t < u /\ u <= t + pol.interval * GapMultiplier
           \/ \E g \in DetectGaps(S, pol) : g.from = t
  BY <1>2, <1>3, GapsBetween
<1> QED
  BY <1>1, <1>4, Zenon DEF S, pol

(* A pass over a date that is current writes what is there, and no pass     *)
(* touches another date.                                                    *)
LEMMA PassRepeated ==
  ASSUME DayInv, NEW d \in Dates, Reconcile(d)
  PROVE  /\ done # None /\ done.date = d => UNCHANGED tables
         /\ \A c \in Chargers, e \in Dates \ {d} :
              /\ StoredRows(e)' = StoredRows(e)
              /\ gaps'[<<c, e>>] = gaps[<<c, e>>]
              /\ issues'[<<c, e>>] = issues[<<c, e>>]
<1> DEFINE new(cd) == cd[2] = d /\ cd[1] \in DOMAIN Evals(d)
<1>1. Shape
  BY DEF DayInv
<1>2. Shape'
  BY <1>1, AfterPass
<1>3. \A c \in DOMAIN Evals(d) :
        /\ <<c, d>> \in DOMAIN coverage'
        /\ coverage'[<<c, d>>] = Evals(d)[c]
        /\ gaps'[<<c, d>>] = Evals(d)[c].gaps
        /\ issues'[<<c, d>>] = FindingsOf(Evals(d)[c], c, d)
  BY <1>1, AfterPass
<1>4. \A cd \in Chargers \X Dates : ~new(cd) =>
        /\ cd \in DOMAIN coverage' <=> cd \in DOMAIN coverage
        /\ cd \in DOMAIN coverage => coverage'[cd] = coverage[cd]
        /\ gaps'[cd] = gaps[cd] /\ issues'[cd] = issues[cd]
  BY <1>1, AfterPass
<1>5. DOMAIN Evals(d) = Evaluated(ExpectedChargers(d), d)
  BY DEF Evals
<1>6. ASSUME done # None, done.date = d PROVE UNCHANGED tables
  <2>1. \A c \in DOMAIN Evals(d) :
          /\ <<c, d>> \in DOMAIN coverage
          /\ coverage[<<c, d>>] = Evals(d)[c]
          /\ gaps[<<c, d>>] = Evals(d)[c].gaps
          /\ issues[<<c, d>>] = FindingsOf(Evals(d)[c], c, d)
    BY <1>5, <1>6, DateDone DEF Current
  <2>2. \A cd \in Chargers \X Dates :
          /\ cd \in DOMAIN coverage' <=> cd \in DOMAIN coverage
          /\ cd \in DOMAIN coverage => coverage'[cd] = coverage[cd]
          /\ gaps'[cd] = gaps[cd] /\ issues'[cd] = issues[cd]
    <3> SUFFICES ASSUME NEW cd \in Chargers \X Dates
                 PROVE  /\ cd \in DOMAIN coverage' <=> cd \in DOMAIN coverage
                        /\ cd \in DOMAIN coverage => coverage'[cd] = coverage[cd]
                        /\ gaps'[cd] = gaps[cd] /\ issues'[cd] = issues[cd]
      OBVIOUS
    <3>1. CASE new(cd)
      <4>1. cd = <<cd[1], d>> /\ cd[1] \in DOMAIN Evals(d)
        BY <3>1
      <4> QED
        BY <1>3, <2>1, <4>1
    <3>2. CASE ~new(cd)
      BY <1>4, <3>2
    <3> QED
      BY <3>1, <3>2
  <2>3. DOMAIN coverage' = DOMAIN coverage
    BY <1>1, <1>2, <2>2 DEF Shape
  <2>4. coverage' = coverage
    <3>1. \A cd \in DOMAIN coverage : coverage'[cd] = coverage[cd]
      BY <1>1, <2>2 DEF Shape
    <3>2. /\ coverage = [cd \in DOMAIN coverage |-> coverage[cd]]
          /\ coverage' = [cd \in DOMAIN coverage' |-> coverage'[cd]]
      BY <1>1, <1>2 DEF Shape
    <3> QED
      BY <2>3, <3>1, <3>2
  <2>5. gaps' = gaps
    BY <1>1, <1>2, <2>2 DEF Shape
  <2>6. issues' = issues
    BY <1>1, <1>2, <2>2 DEF Shape
  <2> QED
    BY <2>4, <2>5, <2>6 DEF tables
<1>7. ASSUME NEW c \in Chargers, NEW e \in Dates \ {d}
      PROVE  /\ StoredRows(e)' = StoredRows(e)
             /\ gaps'[<<c, e>>] = gaps[<<c, e>>]
             /\ issues'[<<c, e>>] = issues[<<c, e>>]
  <2>1. \A x \in Chargers : <<x, e>> \in Chargers \X Dates /\ ~new(<<x, e>>)
    BY <1>7
  <2> HIDE DEF new
  <2>2. \A x \in Chargers :
          /\ <<x, e>> \in DOMAIN coverage' <=> <<x, e>> \in DOMAIN coverage
          /\ <<x, e>> \in DOMAIN coverage => coverage'[<<x, e>>] = coverage[<<x, e>>]
          /\ gaps'[<<x, e>>] = gaps[<<x, e>>] /\ issues'[<<x, e>>] = issues[<<x, e>>]
    BY <1>4, <2>1
  <2>3. RowsOf(e)' = RowsOf(e)
    BY <2>2 DEF RowsOf
  <2>4. \A x \in RowsOf(e) : coverage'[<<x, e>>] = coverage[<<x, e>>]
    BY <2>2 DEF RowsOf
  <2>5. StoredRows(e)' = StoredRows(e)
    BY <2>3, <2>4 DEF StoredRows
  <2> QED
    BY <1>7, <2>2, <2>5
<1> QED
  BY <1>6, <1>7

-----------------------------------------------------------------------------
(* The identities of the findings about the day as a whole.                 *)
LEMMA FindingRules ==
  ASSUME NEW ev, NEW c, NEW d
  PROVE  /\ (\E x \in FindingsOf(ev, c, d) : x.rule = "MISSING_CHARGER_DATA")
              <=> ev.arrival = "MISSING"
         /\ (\E x \in FindingsOf(ev, c, d) : x.rule = "LATE_FILE")
              <=> ev.arrival = "LATE"
         /\ (\E x \in FindingsOf(ev, c, d) : x.rule = "TELEMETRY_GAP")
              => ev.gaps # {}
<1> DEFINE A == {Finding(r[1], None, None) : r \in {q \in DayRules(ev) : q[2]}}
           B == {Finding("TELEMETRY_GAP", None, g.from) : g \in WorstGap(ev)}
           C == {Finding("EVENT_DATE_FILENAME_MISMATCH", FileDef[f].name, None) :
                   f \in Mismatched(c, d)}
<1>1. FindingsOf(ev, c, d) = A \cup B \cup C
  BY DEF FindingsOf
<1>2. \A r, x, t : Finding(r, x, t).rule = r
  BY DEF Finding
<1>3. \A x \in B : x.rule = "TELEMETRY_GAP" /\ ev.gaps # {}
  BY <1>2 DEF WorstGap
<1>4. \A x \in C : x.rule = "EVENT_DATE_FILENAME_MISMATCH"
  BY <1>2
<1>5. \A x \in A : \E q \in DayRules(ev) : q[2] /\ x.rule = q[1]
  BY <1>2
<1>6. \A q \in DayRules(ev) : q[2] => \E x \in A : x.rule = q[1]
  <2> SUFFICES ASSUME NEW q \in DayRules(ev), q[2] PROVE \E x \in A : x.rule = q[1]
    OBVIOUS
  <2>1. Finding(q[1], None, None) \in A
    OBVIOUS
  <2> HIDE DEF A
  <2> QED
    BY <1>2, <2>1
<1>7. /\ \A q \in DayRules(ev) :
           /\ q[1] = "MISSING_CHARGER_DATA" => (q[2] <=> ev.arrival = "MISSING")
           /\ q[1] = "LATE_FILE" => (q[2] <=> ev.arrival = "LATE")
           /\ q[1] # "TELEMETRY_GAP"
      /\ <<"MISSING_CHARGER_DATA", ev.arrival = "MISSING">> \in DayRules(ev)
      /\ <<"LATE_FILE", ev.arrival = "LATE">> \in DayRules(ev)
  <2>1. /\ <<"MISSING_CHARGER_DATA", ev.arrival = "MISSING">> \in DayRules(ev)
        /\ <<"LATE_FILE", ev.arrival = "LATE">> \in DayRules(ev)
    BY Zenon DEF DayRules
  <2>2. \A q \in DayRules(ev) :
          \/ q = <<"MISSING_CHARGER_DATA", ev.arrival = "MISSING">>
          \/ q = <<"LATE_FILE", ev.arrival = "LATE">>
          \/ q[1] \notin {"MISSING_CHARGER_DATA", "LATE_FILE", "TELEMETRY_GAP"}
    BY DEF DayRules
  <2>3. ASSUME NEW q \in DayRules(ev)
        PROVE  /\ q[1] = "MISSING_CHARGER_DATA" => (q[2] <=> ev.arrival = "MISSING")
               /\ q[1] = "LATE_FILE" => (q[2] <=> ev.arrival = "LATE")
               /\ q[1] # "TELEMETRY_GAP"
    <3>1. CASE q = <<"MISSING_CHARGER_DATA", ev.arrival = "MISSING">>
      <4>1. q[1] = "MISSING_CHARGER_DATA" /\ q[2] = (ev.arrival = "MISSING")
        BY <3>1, Zenon
      <4> QED
        BY <4>1
    <3>2. CASE q = <<"LATE_FILE", ev.arrival = "LATE">>
      <4>1. q[1] = "LATE_FILE" /\ q[2] = (ev.arrival = "LATE")
        BY <3>2, Zenon
      <4> QED
        BY <4>1
    <3>3. CASE q[1] \notin {"MISSING_CHARGER_DATA", "LATE_FILE", "TELEMETRY_GAP"}
      BY <3>3
    <3> QED
      BY <2>2, <3>1, <3>2, <3>3
  <2> QED
    BY <2>1, <2>3
<1> HIDE DEF A, B, C
<1>8. ev.arrival = "MISSING" => \E x \in A : x.rule = "MISSING_CHARGER_DATA"
  BY <1>6, <1>7
<1>9. ev.arrival = "LATE" => \E x \in A : x.rule = "LATE_FILE"
  BY <1>6, <1>7
<1>10. (\E x \in A : x.rule = "MISSING_CHARGER_DATA") => ev.arrival = "MISSING"
  BY <1>5, <1>7
<1>11. (\E x \in A : x.rule = "LATE_FILE") => ev.arrival = "LATE"
  BY <1>5, <1>7
<1>12. \A x \in A : x.rule # "TELEMETRY_GAP"
  BY <1>5, <1>7
<1> QED
  BY <1>1, <1>3, <1>4, <1>8, <1>9, <1>10, <1>11, <1>12

(* What was delivered for a day is finite.                                  *)
LEMMA DeliveredFinite ==
  ASSUME NEW c, NEW d
  PROVE  IsFiniteSet(Delivered(c, d)) /\ Delivered(c, d) \subseteq Int
<1> DEFINE g == [f \in Files |-> FileDef[f].stamps]
           all == {g[f] : f \in Files}
<1>1. IsFiniteSet(all)
  BY FiniteImage, FleetAssumption
<1>2. \A T \in all : IsFiniteSet(T) /\ T \subseteq Int
  BY FleetAssumption
<1>3. Delivered(c, d) \subseteq UNION all
  BY DEF Delivered
<1> HIDE DEF all
<1>4. IsFiniteSet(UNION all)
  BY <1>1, <1>2, FS_UNION
<1> QED
  BY <1>2, <1>3, <1>4, FS_Subset

(* The row of an evaluated charger.                                         *)
LEMMA RowIs ==
  ASSUME DayInv, done # None,
         NEW c \in Evaluated(ExpectedChargers(done.date), done.date)
  PROVE  LET d == done.date
             e == ExpectedChargers(d)
             ev == EvaluateChargerDay(e, c, d)
         IN  /\ <<c, d>> \in DOMAIN coverage /\ coverage[<<c, d>>] = ev
             /\ gaps[<<c, d>>] = ev.gaps
             /\ issues[<<c, d>>] = FindingsOf(ev, c, d)
             /\ ev.arrival = Arrival(e, c, d, PolicyFor(e, c))
             /\ ev.unique = Cardinality(Seen(c, d, PolicyFor(e, c)))
<1> DEFINE d == done.date
           e == ExpectedChargers(d)
<1>1. Current(d)
  BY DateDone
<1>2. Evals(d)[c] = EvaluateChargerDay(e, c, d)
  BY DEF Evals
<1> QED
  BY <1>1, <1>2, Columns DEF Current

(* The findings of a day are those of its row, and silence is reported.     *)
LEMMA FindingsFollow == DayInv => FindingsCurrent
<1> SUFFICES ASSUME DayInv, done # None,
                    NEW c \in Evaluated(ExpectedChargers(done.date), done.date)
             PROVE  LET row == coverage[<<c, done.date>>]
                        has(r) == \E x \in issues[<<c, done.date>>] : x.rule = r
                    IN  /\ has("MISSING_CHARGER_DATA") <=> row.arrival = "MISSING"
                        /\ has("LATE_FILE") <=> row.arrival = "LATE"
                        /\ has("TELEMETRY_GAP") => gaps[<<c, done.date>>] # {}
                        /\ c \in ExpectedChargers(done.date)
                             /\ SameClock(c, done.date) /\ row.unique = 0
                           => has("MISSING_CHARGER_DATA")
  BY DEF FindingsCurrent
<1> DEFINE d == done.date
           e == ExpectedChargers(d)
           pol == PolicyFor(e, c)
           row == coverage[<<c, d>>]
           has(r) == \E x \in issues[<<c, d>>] : x.rule = r
<1>1. /\ gaps[<<c, d>>] = row.gaps /\ issues[<<c, d>>] = FindingsOf(row, c, d)
      /\ row.arrival = Arrival(e, c, d, pol)
      /\ row.unique = Cardinality(Seen(c, d, pol))
  BY RowIs
<1>2. /\ has("MISSING_CHARGER_DATA") <=> row.arrival = "MISSING"
      /\ has("LATE_FILE") <=> row.arrival = "LATE"
      /\ has("TELEMETRY_GAP") => row.gaps # {}
  BY <1>1, FindingRules
<1>3. ASSUME SameClock(c, d), row.unique = 0
      PROVE  row.arrival = "MISSING"
  <2>1. pol.tz = DefaultTz /\ c \in Chargers
    BY <1>3 DEF SameClock, Evaluated, ExpectedChargers
  <2>2. Seen(c, d, pol) = Delivered(c, d)
        /\ (Contributors(c, d) = {} <=> Delivered(c, d) = {})
    BY <2>1, SeenIsDelivered
  <2>3. Delivered(c, d) = {}
    BY <1>1, <1>3, <2>2, DeliveredFinite, FS_EmptySet
  <2> QED
    BY <1>1, <2>2, <2>3 DEF Arrival
<1> QED
  BY <1>1, <1>2, <1>3

(* The first receipt of a day is the least of its files' receipts.          *)
LEMMA FirstReceipt ==
  ASSUME NEW c, NEW d, Contributors(c, d) # {}
  PROVE  /\ FirstReceived(c, d) \in Int
         /\ \E f \in Contributors(c, d) : FirstReceived(c, d) = FileDef[f].received
         /\ \A f \in Contributors(c, d) : FirstReceived(c, d) <= FileDef[f].received
<1> DEFINE K == Contributors(c, d)
           g == [f \in K |-> FileDef[f].received]
           R == {FileDef[f].received : f \in K}
<1>1. K \subseteq Files /\ IsFiniteSet(K)
  BY FleetAssumption, FS_Subset DEF Contributors
<1>2. R = {g[f] : f \in K} /\ IsFiniteSet({g[f] : f \in K})
  BY <1>1, FiniteImage
<1>3. R \in SUBSET Int /\ R # {}
  BY <1>1, FleetAssumption
<1>4. FirstReceived(c, d) = Min(R)
  BY DEF FirstReceived
<1> HIDE DEF R
<1>5. \E m \in R : \A n \in R : m <= n
  BY <1>2, <1>3, LeastInteger
<1>6. Min(R) \in R /\ \A n \in R : Min(R) <= n
  BY <1>5 DEF Min
<1> QED
  BY <1>3, <1>4, <1>6 DEF R

(* A day is late when its first receipt is.                                 *)
LEMMA LateFollows == DayInv => LateByFirstReceipt
<1> SUFFICES ASSUME DayInv, done # None, NEW c \in ExpectedChargers(done.date)
             PROVE  (coverage[<<c, done.date>>].arrival = "LATE") <=>
                      /\ Contributors(c, done.date) # {}
                      /\ \A f \in Contributors(c, done.date) :
                           FileDef[f].received >
                             Cutoff(done.date, PolicyFor(ExpectedChargers(done.date), c))
  BY DEF LateByFirstReceipt
<1> DEFINE d == done.date
           e == ExpectedChargers(d)
           pol == PolicyFor(e, c)
           K == Contributors(c, d)
           limit == Cutoff(d, pol)
<1>1. c \in Evaluated(e, d) /\ c \in Chargers
  BY DEF Evaluated, ExpectedChargers
<1>2. coverage[<<c, d>>].arrival = Arrival(e, c, d, pol)
  BY <1>1, RowIs
<1>3. limit \in Int
  <2>1. d \in Dates
    BY DateDone
  <2>4. Dates \subseteq Int
    BY PolicyAssumption
  <2>2. d \in Int
    BY <2>1, <2>4, Zenon
  <2>3. pol.tz \in Int
    BY <1>1, PolicyTyped
  <2> HIDE DEF d, pol
  <2> QED
    BY <2>2, <2>3, PolicyAssumption DEF Cutoff, Midnight
<1>4. CASE K = {}
  BY <1>2, <1>4 DEF Arrival
<1>5. CASE K # {}
  <2>1. /\ FirstReceived(c, d) \in Int
        /\ \E f \in K : FirstReceived(c, d) = FileDef[f].received
        /\ \A f \in K : FirstReceived(c, d) <= FileDef[f].received
    BY <1>5, FirstReceipt
  <2>2. \A f \in K : FileDef[f].received \in Int
    BY FleetAssumption DEF Contributors
  <2>3. IsLate(c, d, pol) <=> FirstReceived(c, d) > limit
    BY <2>1, PolicyAssumption DEF IsLate
  <2>6. c \in e
    OBVIOUS
  <2> HIDE DEF K, limit, pol, e, d
  <2>4. IsLate(c, d, pol) <=> \A f \in K : FileDef[f].received > limit
    BY <1>3, <2>1, <2>2, <2>3
  <2>5. Arrival(e, c, d, pol) = "LATE" <=> IsLate(c, d, pol)
    BY <1>5, <2>6 DEF Arrival, K
  <2> QED
    BY <1>2, <1>5, <2>4, <2>5 DEF K, limit, pol, e, d
<1> QED
  BY <1>4, <1>5

-----------------------------------------------------------------------------
(* Two sets that share nothing count apart.                                 *)
LEMMA CountApart ==
  ASSUME NEW S, NEW T, IsFiniteSet(S), IsFiniteSet(T), S \cap T = {}
  PROVE  Cardinality(S \cup T) = Cardinality(S) + Cardinality(T)
<1>1. Cardinality(S \cap T) = 0
  BY FS_EmptySet
<1>2. Cardinality(S) \in Nat /\ Cardinality(T) \in Nat
  BY FS_CardinalityType
<1>3. Cardinality(S \cup T) = Cardinality(S) + Cardinality(T) - Cardinality(S \cap T)
  BY FS_Union
<1> QED
  BY <1>1, <1>2, <1>3

(* The arrivals of a reconciled date: every evaluated charger has one, and   *)
(* the expected ones are those that are not UNEXPECTED.                      *)
LEMMA Arrivals ==
  ASSUME DayInv, done # None
  PROVE  LET d == done.date
             evals == Evals(d)
             e == ExpectedChargers(d)
         IN  /\ DOMAIN evals = Evaluated(e, d) /\ IsFiniteSet(DOMAIN evals)
             /\ e \subseteq DOMAIN evals
             /\ \A c \in DOMAIN evals :
                  /\ coverage[<<c, d>>] = evals[c] /\ <<c, d>> \in DOMAIN coverage
                  /\ evals[c].arrival \in {"RECEIVED", "LATE", "MISSING", "UNEXPECTED"}
                  /\ c \in e <=> evals[c].arrival # "UNEXPECTED"
<1> DEFINE d == done.date
           e == ExpectedChargers(d)
           evals == Evals(d)
<1>1. DOMAIN evals = Evaluated(e, d)
  BY DEF Evals
<1>2. e \subseteq Evaluated(e, d) /\ Evaluated(e, d) \subseteq Chargers
  BY DEF Evaluated, ExpectedChargers
<1>3. IsFiniteSet(Evaluated(e, d))
  BY <1>2, FleetAssumption, FS_Subset
<1>4. Current(d)
  BY DateDone
<1>5. ASSUME NEW c \in Evaluated(e, d)
      PROVE  /\ coverage[<<c, d>>] = evals[c] /\ <<c, d>> \in DOMAIN coverage
             /\ evals[c].arrival \in {"RECEIVED", "LATE", "MISSING", "UNEXPECTED"}
             /\ c \in e <=> evals[c].arrival # "UNEXPECTED"
  <2>1. coverage[<<c, d>>] = evals[c] /\ <<c, d>> \in DOMAIN coverage
    BY <1>4 DEF Current
  <2>2. evals[c].arrival = Arrival(e, c, d, PolicyFor(e, c))
    BY <2>1, RowIs
  <2>3. c \in e \/ Contributors(c, d) # {}
    BY DEF Evaluated
  <2> HIDE DEF d, e, evals
  <2> QED
    BY <2>1, <2>2, <2>3 DEF Arrival
<1> QED
  BY <1>1, <1>2, <1>3, <1>5

(* What the summary counts, and what the metrics count again, by arrival.    *)
LEMMA CountsFollow == DayInv => CountsAgree
<1> SUFFICES ASSUME DayInv, done # None
             PROVE  /\ done.expected = done.received + done.missing
                    /\ done.late <= done.received
                    /\ RowsOf(done.date) = Evaluated(ExpectedChargers(done.date), done.date) =>
                         LET m == MetricsDaily(done.date)
                         IN  /\ m.expected = done.expected /\ m.received = done.received
                             /\ m.missing = done.missing /\ m.late = done.late
                             /\ m.complete = done.complete
                             /\ m.unexpected = 0 => m.fleet = done.fleet
  BY DEF CountsAgree
<1> DEFINE d == done.date
           e == ExpectedChargers(d)
           evals == Evals(d)
           D == DOMAIN evals
           with(a) == {c \in D : evals[c].arrival = a}
           whole == {c \in D : evals[c].completeness = "COMPLETE"}
           known == {c \in D : evals[c].arrival # "UNEXPECTED"}
<1>1. done = Tally(evals, e, d)
  BY DateDone
<1>2. /\ D = Evaluated(e, d) /\ IsFiniteSet(D) /\ e \subseteq D
      /\ \A c \in D :
           /\ coverage[<<c, d>>] = evals[c] /\ <<c, d>> \in DOMAIN coverage
           /\ evals[c].arrival \in {"RECEIVED", "LATE", "MISSING", "UNEXPECTED"}
           /\ c \in e <=> evals[c].arrival # "UNEXPECTED"
  BY Arrivals
<1> HIDE DEF d, e, evals
<1>3. /\ done.expected = Cardinality(e)
      /\ done.received = Cardinality(with("RECEIVED") \cup with("LATE"))
      /\ done.missing = Cardinality(with("MISSING"))
      /\ done.late = Cardinality(with("LATE"))
      /\ done.complete = Cardinality(whole)
      /\ done.fleet = MeanOver(evals, known)
  <2>1. /\ {c \in D : evals[c]["arrival"] \in {"RECEIVED", "LATE"}}
             = with("RECEIVED") \cup with("LATE")
        /\ {c \in D : evals[c]["arrival"] \in {"MISSING"}} = with("MISSING")
        /\ {c \in D : evals[c]["arrival"] \in {"LATE"}} = with("LATE")
        /\ {c \in D : evals[c]["completeness"] \in {"COMPLETE"}} = whole
    OBVIOUS
  <2> QED
    BY <1>1, <2>1 DEF Tally, CountWhere
<1>4. \A a : IsFiniteSet(with(a)) /\ Cardinality(with(a)) \in Nat
  BY <1>2, FS_Subset, FS_CardinalityType
<1>5. Cardinality(with("RECEIVED") \cup with("LATE"))
        = Cardinality(with("RECEIVED")) + Cardinality(with("LATE"))
  BY <1>4, CountApart
<1>6. Cardinality(e) = Cardinality(with("RECEIVED") \cup with("LATE"))
                         + Cardinality(with("MISSING"))
  <2>1. e = (with("RECEIVED") \cup with("LATE")) \cup with("MISSING")
    BY <1>2
  <2>2. IsFiniteSet(with("RECEIVED") \cup with("LATE"))
    BY <1>4, FS_Union
  <2> QED
    BY <1>4, <2>1, <2>2, CountApart
<1>7. Cardinality(D) = Cardinality(e) + Cardinality(with("UNEXPECTED"))
  <2>1. D = e \cup with("UNEXPECTED") /\ e \cap with("UNEXPECTED") = {}
    BY <1>2
  <2>2. IsFiniteSet(e)
    BY <1>2, FS_Subset
  <2> QED
    BY <1>4, <2>1, <2>2, CountApart
<1>8. ASSUME RowsOf(d) = D
      PROVE  LET m == MetricsDaily(d)
             IN  /\ m.expected = Cardinality(D) - Cardinality(with("UNEXPECTED"))
                 /\ m.received = Cardinality(with("RECEIVED")) + Cardinality(with("LATE"))
                 /\ m.missing = Cardinality(with("MISSING"))
                 /\ m.late = Cardinality(with("LATE"))
                 /\ m.unexpected = Cardinality(with("UNEXPECTED"))
                 /\ m.complete = Cardinality(whole)
                 /\ m.fleet = MeanOver(evals, D)
  <2>1. \A a : {c \in RowsOf(d) : coverage[<<c, d>>].arrival = a} = with(a)
    BY <1>2, <1>8
  <2>2. {c \in RowsOf(d) : coverage[<<c, d>>].completeness = "COMPLETE"} = whole
    BY <1>2, <1>8
  <2>3. StoredRows(d) = evals
    <3>1. evals = [c \in D |-> evals[c]]
      BY DEF evals, Evals
    <3> QED
      BY <1>2, <1>8, <3>1 DEF StoredRows
  <2> HIDE DEF D, with, whole
  <2> QED
    BY <1>8, <2>1, <2>2, <2>3 DEF MetricsDaily
<1>9. ASSUME Cardinality(with("UNEXPECTED")) = 0
      PROVE  known = D
  <2>1. with("UNEXPECTED") = {}
    BY <1>4, <1>9, FS_EmptySet
  <2> QED
    BY <2>1
<1>10. /\ done.expected = done.received + done.missing
       /\ done.late <= done.received
  <2> DEFINE r == Cardinality(with("RECEIVED"))
             l == Cardinality(with("LATE"))
             both == Cardinality(with("RECEIVED") \cup with("LATE"))
  <2>1. r \in Nat /\ l \in Nat /\ both = r + l
    BY <1>4, <1>5
  <2>2. done.received = both /\ done.late = l
    BY <1>3
  <2>3. done.expected = done.received + done.missing
    BY <1>3, <1>6
  <2> HIDE DEF r, l, both
  <2> QED
    BY <2>1, <2>2, <2>3
<1>12. Cardinality(with("RECEIVED")) + Cardinality(with("LATE")) = done.received
  BY <1>3, <1>5
<1>11. ASSUME RowsOf(d) = D
       PROVE  LET m == MetricsDaily(d)
              IN  /\ m.expected = done.expected /\ m.received = done.received
                  /\ m.missing = done.missing /\ m.late = done.late
                  /\ m.complete = done.complete
                  /\ m.unexpected = 0 => m.fleet = done.fleet
  <2> DEFINE m == MetricsDaily(d)
  <2>1. /\ m.expected = Cardinality(D) - Cardinality(with("UNEXPECTED"))
        /\ m.received = Cardinality(with("RECEIVED")) + Cardinality(with("LATE"))
        /\ m.missing = Cardinality(with("MISSING"))
        /\ m.late = Cardinality(with("LATE"))
        /\ m.unexpected = Cardinality(with("UNEXPECTED"))
        /\ m.complete = Cardinality(whole)
        /\ m.fleet = MeanOver(evals, D)
    BY <1>8, <1>11
  <2>2. Cardinality(e) \in Nat
    BY <1>2, FS_Subset, FS_CardinalityType
  <2> HIDE DEF m, D, with, whole, known
  <2>3. m.expected = done.expected
    BY <1>3, <1>4, <1>7, <2>1, <2>2
  <2> QED
    BY <1>3, <1>12, <1>9, <2>1, <2>3 DEF m
<1> QED
  BY <1>2, <1>10, <1>11 DEF d, e

-----------------------------------------------------------------------------
(* A sum of durations is the sum of a function that adds up.                *)
LEMMA TotalIsSum ==
  ASSUME NEW S, IsFiniteSet(S)
  PROVE  \E h : AddsUp(h, [g \in S |-> g.duration], S) /\ TotalGap(S) = h[S]
<1> DEFINE f == [g \in S |-> g.duration]
           step(h, s) == IF s = {} THEN 0
                         ELSE (CHOOSE x \in s : TRUE).duration
                                + h[s \ {CHOOSE x \in s : TRUE}]
           total == CHOOSE h : h = [s \in SUBSET S |-> step(h, s)]
<1>1. TotalGap(S) = total[S]
  BY DEF TotalGap, MapThenSumSet, MapThenFoldSet
<1>2. ASSUME NEW h, NEW s \in SUBSET S
      PROVE  step(h, s) = IF s = {} THEN 0 ELSE f[Some(s)] + h[s \ {Some(s)}]
  <2>1. CASE s = {}
    BY <2>1
  <2>2. CASE s # {}
    <3>1. Some(s) \in S
      BY <2>2, SomeTaken
    <3>2. f[Some(s)] = Some(s).duration
      BY <3>1
    <3>3. step(h, s) = Some(s).duration + h[s \ {Some(s)}]
      BY <2>2, Zenon DEF Some
    <3> QED
      BY <2>2, <3>2, <3>3
  <2> QED
    BY <2>1, <2>2
<1> HIDE DEF f, step
<1>3. PICK k : AddsUp(k, f, S)
  BY SumExists
<1>4. k = [s \in SUBSET S |-> step(k, s)]
  <2>1. \A s \in SUBSET S : k[s] = step(k, s)
    BY <1>2, <1>3, Zenon DEF AddsUp
  <2>2. k = [s \in SUBSET S |-> k[s]]
    BY <1>3, Zenon DEF AddsUp
  <2> QED
    BY <2>1, <2>2
<1>5. total = [s \in SUBSET S |-> step(total, s)]
  BY <1>4, Zenon
<1> HIDE DEF total
<1>6. AddsUp(total, f, S)
  <2>1. \A s \in SUBSET S : total[s] = step(total, s)
    BY <1>5
  <2>2. total = [s \in SUBSET S |-> total[s]]
    BY <1>5, <2>1
  <2> QED
    BY <1>2, <2>1, <2>2, Zenon DEF AddsUp
<1> QED
  BY <1>1, <1>6 DEF f

(* The silences of a day add up to a number.                                *)
LEMMA TotalTyped ==
  ASSUME NEW S, IsFiniteSet(S), \A g \in S : g.duration \in Nat
  PROVE  TotalGap(S) \in Nat
<1> DEFINE f == [g \in S |-> g.duration]
<1>1. PICK h : AddsUp(h, f, S) /\ TotalGap(S) = h[S]
  BY TotalIsSum
<1>2. \A g \in S : f[g] \in Nat
  OBVIOUS
<1> HIDE DEF f
<1> QED
  BY <1>1, <1>2, SumNat

(* A percentage is one, whatever it is taken of.                            *)
LEMMA PercentageTyped ==
  ASSUME NEW n \in Nat, NEW whole \in Nat \ {0}
  PROVE  Percentage(n, whole) \in 0..HundredPct
<1> DEFINE a == 2 * HundredPct * n + whole
           b == 2 * whole
           q == a \div b
           p == Min({HundredPct, q})
<1>1. HundredPct \in Nat
  BY DEF HundredPct
<1>2. a \in Nat /\ b \in Nat \ {0}
  BY <1>1
<1>3. Percentage(n, whole) = p
  BY DEF Percentage
<1> HIDE DEF a, b
<1>4. q \in Int /\ 0 <= q
  BY <1>2
<1> HIDE DEF q
<1>5. p \in {HundredPct, q} /\ p <= HundredPct
  BY <1>1, <1>4, OfTwo
<1> HIDE DEF p
<1> QED
  BY <1>1, <1>3, <1>4, <1>5

(* The timestamps counted for a day lie between its midnights.              *)
LEMMA SeenTyped ==
  ASSUME NEW c, NEW d \in Int, NEW pol, pol.tz \in Int
  PROVE  /\ Seen(c, d, pol) \in SUBSET Int /\ IsFiniteSet(Seen(c, d, pol))
         /\ Midnight(d, pol.tz) \in Int
         /\ Midnight(d + 1, pol.tz) = Midnight(d, pol.tz) + DayLen
         /\ \A t \in Seen(c, d, pol) :
              Midnight(d, pol.tz) <= t /\ t < Midnight(d, pol.tz) + DayLen
<1> DEFINE m == Midnight(d, pol.tz)
           z == pol.tz
<1>1. DayLen \in Nat \ {0}
  BY PolicyAssumption
<1>2. m \in Int /\ Midnight(d + 1, pol.tz) = m + DayLen
  <2> HIDE DEF z
  <2>1. z \in Int
    BY DEF z
  <2>2. d * DayLen \in Int /\ (d + 1) * DayLen = d * DayLen + DayLen
    BY <1>1
  <2>3. Midnight(d, z) = d * DayLen - z /\ Midnight(d + 1, z) = (d + 1) * DayLen - z
    BY Zenon DEF Midnight
  <2> DEFINE p == d * DayLen
             q == (d + 1) * DayLen
  <2>4. p \in Int /\ q = p + DayLen /\ Midnight(d, z) = p - z /\ Midnight(d + 1, z) = q - z
    BY <2>2, <2>3
  <2> HIDE DEF p, q
  <2>5. Midnight(d, z) \in Int /\ Midnight(d + 1, z) = Midnight(d, z) + DayLen
    BY <1>1, <2>1, <2>4
  <2> QED
    BY <2>5 DEF z
<1> HIDE DEF m, z
<1>3. DayBounds(d, pol) = m .. (m + DayLen - 1)
  <2> DEFINE x == Midnight(d + 1, pol.tz)
  <2>1. DayBounds(d, pol) = m .. (x - 1)
    BY Zenon DEF DayBounds, m
  <2>2. x = m + DayLen
    BY <1>2
  <2> HIDE DEF x
  <2>3. x - 1 = m + DayLen - 1
    BY <1>1, <1>2, <2>2
  <2> QED
    BY <2>1, <2>3
<1>4. Seen(c, d, pol) \subseteq DayBounds(d, pol)
  BY DEF Seen, Counted
<1>5. IsFiniteSet(m .. (m + DayLen - 1))
  BY <1>1, <1>2, FS_Interval
<1>6. IsFiniteSet(Seen(c, d, pol))
  BY <1>3, <1>4, <1>5, FS_Subset
<1>7. Seen(c, d, pol) \subseteq m .. (m + DayLen - 1)
  BY <1>3, <1>4
<1>8. \A t \in Seen(c, d, pol) : t \in Int /\ m <= t /\ t < m + DayLen
  BY <1>1, <1>2, <1>7
<1> QED
  BY <1>2, <1>6, <1>8 DEF m

(* A gap is a row of telemetry_gap, and a day has finitely many.            *)
LEMMA GapsTyped ==
  ASSUME NEW S \in SUBSET Int, IsFiniteSet(S), NEW pol, pol.interval \in Nat \ {0}
  PROVE  /\ DetectGaps(S, pol) \in SUBSET GapRows
         /\ IsFiniteSet(DetectGaps(S, pol))
<1> DEFINE k == pol.interval
           limit == k * GapMultiplier
           P == {q \in Neighbours(S) : q[2] - q[1] > limit}
           row(q) == [from |-> q[1], to |-> q[2], duration |-> q[2] - q[1],
                      missing |-> ((q[2] - q[1]) \div k) - 1,
                      severity |-> ClassifyGap(q[2] - q[1])]
           g == [q \in P |-> row(q)]
<1>1. DetectGaps(S, pol) = {row(q) : q \in P}
  BY Zenon DEF DetectGaps
<1>2. k \in Nat \ {0} /\ GapMultiplier \in Nat \ {0, 1}
  BY PolicyAssumption
<1>3. limit \in Int /\ limit >= 2 * k
  <2> HIDE DEF k
  <2> QED BY <1>2
<1>4. P \subseteq S \X S
  BY DEF Neighbours
<1>5. IsFiniteSet(P)
  BY <1>4, FS_Product, FS_Subset
<1> HIDE DEF k, limit
<1>6. ASSUME NEW q \in P PROVE row(q) \in GapRows
  <2> DEFINE n == q[2] - q[1]
  <2>7. q \in S \X S /\ n > limit
    BY <1>4, Zenon
  <2>8. q[1] \in Int /\ q[2] \in Int
    BY <2>7
  <2>1. q[1] \in Int /\ q[2] \in Int /\ n \in Int /\ n > limit
    BY <2>7, <2>8
  <2> HIDE DEF n, P
  <2>2. n \in Nat \ {0} /\ n >= 2 * k
    BY <1>2, <1>3, <2>1
  <2>3. n \div k \in Int /\ 2 <= n \div k
    BY <1>2, <2>2
  <2>4. ClassifyGap(n) \in 0..3
    BY DEF ClassifyGap
  <2>5. row(q) = [from |-> q[1], to |-> q[2], duration |-> n,
                  missing |-> (n \div k) - 1, severity |-> ClassifyGap(n)]
    BY Zenon DEF n
  <2>6. (n \div k) - 1 \in Nat
    BY <2>3
  <2> HIDE DEF row
  <2> QED
    BY <2>1, <2>2, <2>4, <2>5, <2>6 DEF GapRows
<1> HIDE DEF P
<1>7. DetectGaps(S, pol) \in SUBSET GapRows
  <2> HIDE DEF row
  <2> QED BY <1>1, <1>6
<1>8. DOMAIN g = P /\ g = [q \in P |-> g[q]] /\ \A q \in P : g[q] = row(q)
  <2> HIDE DEF row
  <2> QED OBVIOUS
<1> HIDE DEF g, row
<1>9. IsFiniteSet({g[q] : q \in P})
  BY <1>5, <1>8, FiniteImage
<1>10. {g[q] : q \in P} = DetectGaps(S, pol)
  BY <1>1, <1>8
<1> QED
  BY <1>7, <1>9, <1>10

(* The file a day is attributed to is one of its files.                     *)
LEMMA PrimaryTyped ==
  ASSUME NEW c, NEW d
  PROVE  PrimaryFile(c, d) \in Files \cup {None}
<1> DEFINE L == LargestFiles(c, d)
           R == {FileDef[f].received : f \in L}
           g == [f \in L |-> FileDef[f].received]
<1>1. L \subseteq Files
  BY DEF LargestFiles, Contributors
<1>2. CASE L = {}
  BY <1>2 DEF PrimaryFile
<1>3. CASE L # {}
  <2>1. IsFiniteSet(L)
    BY <1>1, FleetAssumption, FS_Subset
  <2> HIDE DEF L
  <2>2. DOMAIN g = L /\ g = [f \in L |-> g[f]] /\ R = {g[f] : f \in L}
    OBVIOUS
  <2>3. R \in SUBSET Int /\ R # {}
    BY <1>1, <1>3, FleetAssumption
  <2> HIDE DEF g
  <2>4. IsFiniteSet(R)
    BY <2>1, <2>2, FiniteImage
  <2>5. \E m \in R : \A n \in R : m <= n
    <3> HIDE DEF R
    <3> QED BY <2>3, <2>4, LeastInteger
  <2>6. \E f \in L : \A h \in L : FileDef[f].received <= FileDef[h].received
    BY <2>5
  <2>7. FirstOf(L) \in L
    BY <2>6 DEF FirstOf
  <2>8. PrimaryFile(c, d) = FirstOf(L)
    BY <1>3 DEF PrimaryFile, L
  <2> QED
    BY <1>1, <2>7, <2>8
<1> QED
  BY <1>2, <1>3

(* What evaluating a charger-day computes is a row of charger_day_coverage. *)
LEMMA RowTyped ==
  ASSUME DayInv, NEW d \in Dates, NEW c \in Chargers
  PROVE  EvaluateChargerDay(ExpectedChargers(d), c, d) \in CoverageRows
<1> DEFINE e == ExpectedChargers(d)
           pol == PolicyFor(e, c)
           seen == Seen(c, d, pol)
           found == DetectGaps(seen, pol)
           lost == TotalGap(found)
           span == IF seen = {} THEN 0 ELSE Max(seen) - Min(seen)
           whole == Max({1, DayLen \div pol.interval})
           covered == Max({0, span - lost})
           m == Midnight(d, pol.tz)
           late == IF IsLate(c, d, pol) THEN FirstReceived(c, d) - Cutoff(d, pol) ELSE 0
           lead == IF seen = {} THEN 0 ELSE Min(seen) - Midnight(d, pol.tz)
           trail == IF seen = {} THEN 0 ELSE Midnight(d + 1, pol.tz) - Max(seen)
<1>1. pol.interval \in Nat \ {0} /\ pol.tz \in Int /\ pol.connectors \in Nat
  BY PolicyTyped
<1>2. d \in Int /\ DayLen \in Nat \ {0}
  BY PolicyAssumption
<1> HIDE DEF e, pol
<1>3. /\ seen \in SUBSET Int /\ IsFiniteSet(seen) /\ m \in Int
      /\ Midnight(d + 1, pol.tz) = m + DayLen
      /\ \A t \in seen : m <= t /\ t < m + DayLen
  BY <1>1, <1>2, SeenTyped
<1>4. Cardinality(seen) \in Nat
  BY <1>3, FS_CardinalityType
<1>5. found \in SUBSET GapRows /\ IsFiniteSet(found)
  <2> HIDE DEF seen
  <2> QED BY <1>1, <1>3, GapsTyped
<1>6. lost \in Nat
  <2> HIDE DEF found
  <2>1. \A g \in found : g.duration \in Nat
    BY <1>5 DEF GapRows
  <2> QED BY <1>5, <2>1, TotalTyped
<1>7. /\ span \in Nat
      /\ lead \in 0..DayLen
      /\ trail \in 0..DayLen
  <2>1. CASE seen = {}
    BY <1>2, <2>1
  <2>2. CASE seen # {}
    <3> DEFINE lo == Min(seen)
               hi == Max(seen)
               n == Midnight(d + 1, pol.tz)
    <3>1. lo \in seen /\ hi \in seen /\ \A t \in seen : lo <= t /\ t <= hi
      <4> HIDE DEF seen
      <4> QED BY <1>3, <2>2, Ends
    <3>2. span = hi - lo /\ lead = lo - m /\ trail = n - hi
      BY <2>2
    <3>3. n = m + DayLen
      BY <1>3
    <3> HIDE DEF lo, hi, m, n, span, lead, trail, seen
    <3>4. /\ lo \in Int /\ hi \in Int /\ lo <= hi
          /\ m <= lo /\ hi < m + DayLen /\ m <= hi /\ lo < m + DayLen
      BY <1>3, <3>1
    <3> QED
      BY <1>2, <1>3, <3>2, <3>3, <3>4
  <2> QED
    BY <2>1, <2>2
<1>8. whole \in Nat \ {0}
  <2> DEFINE k == pol.interval
             n == DayLen \div k
  <2>1. k \in Nat \ {0}
    BY <1>1
  <2> HIDE DEF k
  <2>2. n \in Int
    BY <1>2, <2>1
  <2> HIDE DEF n
  <2>3. Max({1, n}) \in {1, n} /\ 1 <= Max({1, n})
    <3>1. 1 \in Int
      OBVIOUS
    <3> QED
      BY <2>2, <3>1, OfTwo, Zenon
  <2>4. whole = Max({1, n})
    BY DEF n, k
  <2> DEFINE w == Max({1, n})
  <2> HIDE DEF w
  <2>5. (w = 1 \/ w = n) /\ 1 <= w
    BY <2>3 DEF w
  <2>6. w \in Nat \ {0}
    BY <2>2, <2>5
  <2> QED
    BY <2>4, <2>6 DEF w
<1>9. covered \in Nat
  <2> DEFINE n == span - lost
  <2> HIDE DEF span, lost
  <2>1. n \in Int
    BY <1>6, <1>7
  <2> HIDE DEF n
  <2>2. Max({0, n}) \in {0, n} /\ 0 <= Max({0, n})
    <3>1. 0 \in Int
      OBVIOUS
    <3> QED
      BY <2>1, <3>1, OfTwo, Zenon
  <2>3. covered = Max({0, n})
    BY DEF n
  <2> DEFINE w == Max({0, n})
  <2> HIDE DEF w
  <2>4. (w = 0 \/ w = n) /\ 0 <= w
    BY <2>2 DEF w
  <2>5. w \in Nat
    BY <2>1, <2>4
  <2> QED
    BY <2>3, <2>5 DEF w
<1>10. /\ Percentage(Cardinality(seen), whole) \in 0..HundredPct
       /\ Percentage(span, DayLen) \in 0..HundredPct
       /\ Percentage(covered, DayLen) \in 0..HundredPct
  <2> HIDE DEF seen, span, covered, whole
  <2> QED BY <1>2, <1>4, <1>7, <1>8, <1>9, PercentageTyped
<1>11. /\ Contributors(c, d) \subseteq Files /\ IsFiniteSet(Contributors(c, d))
       /\ Cardinality(Contributors(c, d)) \in Nat
  <2>1. Contributors(c, d) \subseteq Files
    BY DEF Contributors
  <2> QED
    BY <2>1, FleetAssumption, FS_Subset, FS_CardinalityType
<1>12. Cardinality(Overlapping(c, d, pol)) \in Nat
  <2>1. Overlapping(c, d, pol) \subseteq seen
    BY DEF Overlapping
  <2> QED
    BY <1>3, <2>1, FS_Subset, FS_CardinalityType
<1>13. Connectors(c, d) \in SUBSET Nat
  BY <1>11, FleetAssumption DEF Connectors
<1>14. FirstReceived(c, d) \in Int \cup {None}
  <2>1. CASE Contributors(c, d) = {}
    BY <2>1 DEF FirstReceived
  <2>2. CASE Contributors(c, d) # {}
    BY <2>2, FirstReceipt
  <2> QED
    BY <2>1, <2>2
<1>15. late \in Nat
  <2> DEFINE lim == Cutoff(d, pol)
             n == Midnight(d + 1, pol.tz)
             r == FirstReceived(c, d)
  <2>1. lim = n + Grace
    BY DEF Cutoff
  <2>2. n = m + DayLen
    BY <1>3
  <2> HIDE DEF n, m
  <2>3. lim \in Int
    BY <1>2, <1>3, <2>1, <2>2, PolicyAssumption
  <2>4. late = IF IsLate(c, d, pol) THEN r - lim ELSE 0
    OBVIOUS
  <2>5. IsLate(c, d, pol) => r # None /\ r > lim
    BY DEF IsLate
  <2> HIDE DEF lim, r, late
  <2>6. r \in Int \cup {None}
    BY <1>14 DEF r
  <2> QED
    BY <2>3, <2>4, <2>5, <2>6
<1>16. Arrival(e, c, d, pol) \in {"RECEIVED", "LATE", "MISSING", "UNEXPECTED"}
  BY DEF Arrival
<1>17. ClassifyCompleteness(Cardinality(seen), whole)
         \in {"COMPLETE", "PARTIAL", "SEVERELY_INCOMPLETE", "NO_DATA"}
  BY DEF ClassifyCompleteness
<1>18. PrimaryFile(c, d) \in Files \cup {None}
  BY PrimaryTyped
<1>19. CadenceAbnormal(seen, pol) \in BOOLEAN
  BY Zenon DEF CadenceAbnormal
<1> DEFINE row ==
      [arrival |-> Arrival(e, c, d, pol),
       files |-> Cardinality(Contributors(c, d)),
       primary |-> PrimaryFile(c, d),
       received |-> FirstReceived(c, d),
       late_by |-> late,
       unique |-> Cardinality(seen),
       overlap |-> Cardinality(Overlapping(c, d, pol)),
       sample |-> Percentage(Cardinality(seen), whole),
       span |-> Percentage(span, DayLen),
       adjusted |-> Percentage(covered, DayLen),
       leading |-> lead,
       trailing |-> trail,
       gaps |-> found,
       lost |-> lost,
       abnormal |-> CadenceAbnormal(seen, pol),
       connectors |-> Connectors(c, d),
       wanted |-> pol.connectors,
       completeness |-> ClassifyCompleteness(Cardinality(seen), whole)]
<1>20. EvaluateChargerDay(e, c, d) = row
  BY Zenon DEF EvaluateChargerDay, pol
<1> HIDE DEF late, lead, trail, covered, whole, span, lost, found, seen
<1>21. row \in CoverageRows
  BY <1>1, <1>4, <1>5, <1>6, <1>7, <1>10, <1>11, <1>12, <1>13, <1>14, <1>15, <1>16,
     <1>17, <1>18, <1>19 DEF CoverageRows
<1> QED
  BY <1>20, <1>21 DEF e

-----------------------------------------------------------------------------
(* The stored rows are rows, each with its gaps beside it; where there is no *)
(* row there is neither gap nor finding.                                     *)
Stored ==
  \A cd \in Chargers \X Dates :
    IF cd \in DOMAIN coverage
    THEN coverage[cd] \in CoverageRows /\ gaps[cd] = coverage[cd].gaps
    ELSE gaps[cd] = {} /\ issues[cd] = {}

(* Splitting a file gives rows of telemetry_file_day, none of them empty.    *)
LEMMA FileDaysTyped ==
  ASSUME NEW f \in Files
  PROVE  BuildFileDays(f) \in SUBSET FileDayRows
<1> SUFFICES ASSUME NEW fd \in BuildFileDays(f) PROVE fd \in FileDayRows
  OBVIOUS
<1>1. PICK t \in FileDef[f].stamps :
        fd = [charger |-> FileDef[f].charger, date |-> LocalDate(t, DefaultTz),
              tz |-> DefaultTz,
              offsets |-> {u - Midnight(LocalDate(t, DefaultTz), DefaultTz) :
                           u \in {v \in FileDef[f].stamps :
                                    LocalDate(v, DefaultTz) = LocalDate(t, DefaultTz)}}]
  BY DEF BuildFileDays
<1> DEFINE d == LocalDate(t, DefaultTz)
           m == Midnight(d, DefaultTz)
           S == {v \in FileDef[f].stamps : LocalDate(v, DefaultTz) = d}
           O == {u - m : u \in S}
<1>2. FileDef[f].stamps \subseteq Int /\ t \in Int /\ DefaultTz \in Int
      /\ DayLen \in Nat \ {0} /\ FileDef[f].charger \in Chargers
  BY FleetAssumption, PolicyAssumption
<1>3. d \in Int /\ m \in Int
  BY <1>2, WithinTheDay
<1>4. ASSUME NEW u \in S PROVE u - m \in 0..(DayLen - 1)
  <2>1. u \in Int /\ LocalDate(u, DefaultTz) = d
    BY <1>2
  <2>2. m <= u /\ u <= Midnight(d + 1, DefaultTz) - 1
        /\ Midnight(d + 1, DefaultTz) = m + DayLen
    BY <1>2, <2>1, WithinTheDay
  <2> DEFINE x == Midnight(d + 1, DefaultTz)
  <2>3. m <= u /\ u <= x - 1 /\ x = m + DayLen
    BY <2>2
  <2> HIDE DEF m, x, d
  <2> QED
    BY <1>2, <1>3, <2>1, <2>3
<1>5. t \in S
  OBVIOUS
<1>6. fd = [charger |-> FileDef[f].charger, date |-> d, tz |-> DefaultTz, offsets |-> O]
  BY <1>1
<1> HIDE DEF d, m, S
<1>7. O \in SUBSET (0..(DayLen - 1)) /\ O # {}
  BY <1>4, <1>5
<1> HIDE DEF O
<1> QED
  BY <1>2, <1>3, <1>6, <1>7 DEF FileDayRows

(* The shapes, the split and the stored rows make up the type invariant.     *)
LEMMA TypedFrom ==
  ASSUME DayInv, Stored, upserts \in 0..MaxUpserts
  PROVE  TypeOK
<1>1. days \in [Files -> SUBSET FileDayRows]
  <2>1. days = [f \in Files |-> IF status[f] = "ABSENT" THEN {} ELSE BuildFileDays(f)]
    BY DEF DayInv, Split
  <2>2. \A f \in Files : (IF status[f] = "ABSENT" THEN {} ELSE BuildFileDays(f))
                           \in SUBSET FileDayRows
    BY FileDaysTyped
  <2> QED
    BY <2>1, <2>2
<1> QED
  BY <1>1 DEF TypeOK, DayInv, Shape, Stored

(* A pass stores rows, any other step leaves the tables alone.               *)
LEMMA StoredKept ==
  ASSUME DayInv, Stored, upserts \in 0..MaxUpserts, [Next]_vars
  PROVE  Stored' /\ (upserts \in 0..MaxUpserts)'
<1>1. ASSUME NEW d \in Dates, Reconcile(d)
      PROVE  Stored' /\ (upserts \in 0..MaxUpserts)'
  <2> DEFINE E == Evals(d)
  <2>1. Shape
    BY DEF DayInv
  <2>2. \A c \in DOMAIN E :
          /\ <<c, d>> \in DOMAIN coverage'
          /\ coverage'[<<c, d>>] = E[c] /\ gaps'[<<c, d>>] = E[c].gaps
    BY <1>1, <2>1, AfterPass
  <2>3. \A cd \in Chargers \X Dates : ~(cd[2] = d /\ cd[1] \in DOMAIN E) =>
          /\ cd \in DOMAIN coverage' <=> cd \in DOMAIN coverage
          /\ cd \in DOMAIN coverage => coverage'[cd] = coverage[cd]
          /\ gaps'[cd] = gaps[cd] /\ issues'[cd] = issues[cd]
    BY <1>1, <2>1, AfterPass
  <2>4. \A c \in DOMAIN E : E[c] \in CoverageRows
    <3> SUFFICES ASSUME NEW c \in DOMAIN E PROVE E[c] \in CoverageRows
      OBVIOUS
    <3>1. c \in Evaluated(ExpectedChargers(d), d) /\ c \in Chargers
      BY DEF Evals, Evaluated, ExpectedChargers
    <3>2. E[c] = EvaluateChargerDay(ExpectedChargers(d), c, d)
      BY <3>1 DEF Evals
    <3> QED
      BY <3>1, <3>2, RowTyped
  <2> HIDE DEF E
  <2>5. ASSUME NEW cd \in Chargers \X Dates
        PROVE  IF cd \in DOMAIN coverage'
               THEN coverage'[cd] \in CoverageRows /\ gaps'[cd] = coverage'[cd].gaps
               ELSE gaps'[cd] = {} /\ issues'[cd] = {}
    <3>1. CASE cd[2] = d /\ cd[1] \in DOMAIN E
      <4>1. cd = <<cd[1], d>>
        BY <3>1
      <4> QED
        BY <2>2, <2>4, <3>1, <4>1
    <3>2. CASE ~(cd[2] = d /\ cd[1] \in DOMAIN E)
      BY <2>3, <3>2 DEF Stored
    <3> QED
      BY <3>1, <3>2
  <2>6. upserts' = upserts
    BY <1>1, ReconcileWrites
  <2> QED
    BY <2>5, <2>6 DEF Stored
<1>2. ASSUME UNCHANGED tables PROVE Stored'
  BY <1>2 DEF Stored, tables
<1>3. ASSUME NEW c \in Chargers, NEW p \in Profiles, UpsertCharger(c, p)
      PROVE  Stored' /\ (upserts \in 0..MaxUpserts)'
  BY <1>2, <1>3, PolicyAssumption DEF UpsertCharger
<1>4. CASE \/ \E d \in Dates : ReconcileFails(d)
           \/ \E f \in Files, s \in {"USABLE", "UNUSABLE"} : PersistFileDays(f, s)
           \/ UNCHANGED vars
  <2>1. UNCHANGED tables /\ upserts' = upserts
    BY <1>4 DEF ReconcileFails, PersistFileDays, vars
  <2> QED
    BY <1>2, <2>1
<1> QED
  BY <1>1, <1>3, <1>4 DEF Next

-----------------------------------------------------------------------------
(* The inductive invariant of reconciliation holds throughout: what the last *)
(* pass returned describes the registry, the files and the tables.           *)
THEOREM DayInvariance == Spec => []DayInv
<1>1. Init => DayInv
  BY DayInitial
<1>2. DayInv /\ [Next]_vars => DayInv'
  BY DayInductive
<1> QED
  BY <1>1, <1>2, PTL DEF Spec

(* Whatever files overlap, cross midnight or arrive late, a reconciled day   *)
(* counts each delivered timestamp once.                                     *)
THEOREM EverySampleCounted == Spec => []NoSampleLost
BY DayInvariance, SamplesCounted, PTL

(* The stored gaps of a reconciled day are exactly its silences.             *)
THEOREM GapsStaySilence == Spec => []GapsAreSilence
BY DayInvariance, SilenceStored, PTL

(* The summary adds up, and the metrics read back from the rows agree.       *)
THEOREM CountsStayAgreed == Spec => []CountsAgree
BY DayInvariance, CountsFollow, PTL

(* A second pass over a date changes nothing, a pass over another date does  *)
(* not touch this one.                                                       *)
THEOREM ReconcilingAgain == Spec => ReconcileIdempotent
<1>1. DayInv /\ [Next]_vars =>
        [\A d \in Dates : Reconcile(d) =>
           /\ done # None /\ done.date = d => UNCHANGED tables
           /\ \A c \in Chargers, e \in Dates \ {d} :
                /\ StoredRows(e)' = StoredRows(e)
                /\ gaps'[<<c, e>>] = gaps[<<c, e>>]
                /\ issues'[<<c, e>>] = issues[<<c, e>>]]_vars
  BY PassRepeated
<1> QED
  BY <1>1, DayInvariance, PTL DEF Spec, ReconcileIdempotent

(* What is stored of a day is well formed throughout, and once reconciled it *)
(* is current: the findings are those of its row, the arrival is that of its *)
(* first receipt.                                                            *)
THEOREM ReportStaysCurrent == Spec => []ReportCurrent
<1> DEFINE Rows == Stored /\ upserts \in 0..MaxUpserts
<1>1. Init => Rows
  BY PolicyAssumption DEF Init, Stored
<1>2. DayInv /\ Rows /\ [Next]_vars => Rows'
  BY StoredKept
<1>3. DayInv /\ Rows => ReportCurrent
  BY TypedFrom, FindingsFollow, LateFollows DEF ReportCurrent
<1> QED
  BY <1>1, <1>2, <1>3, DayInvariance, PTL DEF Spec
=============================================================================

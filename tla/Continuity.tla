----------------------------- MODULE Continuity -----------------------------
(***************************************************************************)
(* Descriptive analysis of a charger's history: sampling, gaps, cumulative   *)
(* counters and eligibility for pattern research.  Pure definitions; the     *)
(* ratios 2.5, 0.5 and 0.35 of the code are written as fractions.            *)
(***************************************************************************)
EXTENDS Timeline, Sequences, SequencesExt

CONSTANTS
  None,
  MinGap,          \* DEFAULT_MINIMUM_GAP_SECONDS
  ResetFloor,      \* a counter has to have passed it to be reset
  MinHistoryDays, MinObservations, DaySeconds

ASSUME FloorAssumption == ResetFloor \in Int

(* SamplingProfile of the frames' timestamps; count includes the frames that *)
(* share a second.                                                           *)
Analyze(S, count) ==
  [count |-> count, distinct |-> Cardinality(S),
   first |-> IF S = {} THEN None ELSE Min(S),
   last |-> IF S = {} THEN None ELSE Max(S),
   coverage |-> IF S = {} THEN 0 ELSE Max(S) - Min(S),
   same_second |-> count - Cardinality(S)]

(* Longer than two and a half medians and than the minimum.  The inferred    *)
(* interval, when there is one, is the median.                               *)
IsGap(pair, S) ==
  4 * (pair[2] - pair[1]) > Max({4 * MinGap, 5 * DoubleMedian(S)})

DetectGaps(S) == {pair \in Neighbours(S) : IsGap(pair, S)}

(* TelemetryGapInterval.overlaps, of an interval that has an end.            *)
Overlaps(gap, start, end) == ~(gap[2] <= start \/ gap[1] >= end)

-----------------------------------------------------------------------------
(* CounterAnalyzer: a pass over the values in order, None where a frame has   *)
(* no reading.                                                               *)

NoCounter == [seen |-> 0, first |-> None, last |-> None, peak |-> 0,
              increased |-> 0, unchanged |-> 0, decreased |-> 0, resets |-> << >>]

(* Seeded error: the peak is forgotten when the counter decreases.           *)
CounterStepFromLast(r, v) ==
  IF v = None THEN r
  ELSE IF r.seen = 0 THEN [r EXCEPT !.seen = 1, !.first = v, !.last = v, !.peak = v]
  ELSE [r EXCEPT !.seen = @ + 1, !.last = v, !.peak = v,
                 !.increased = @ + (IF v > r.last THEN 1 ELSE 0),
                 !.unchanged = @ + (IF v = r.last THEN 1 ELSE 0),
                 !.decreased = @ + (IF v < r.last THEN 1 ELSE 0),
                 !.resets = IF v < r.last /\ r.peak > ResetFloor /\ 2 * v < r.peak
                            THEN Append(@, r.seen + 1) ELSE @]

CounterStep(r, v) ==
  IF v = None THEN r
  ELSE IF r.seen = 0 THEN [r EXCEPT !.seen = 1, !.first = v, !.last = v, !.peak = v]
  ELSE [r EXCEPT !.seen = @ + 1, !.last = v, !.peak = Max({@, v}),
                 !.increased = @ + (IF v > r.last THEN 1 ELSE 0),
                 !.unchanged = @ + (IF v = r.last THEN 1 ELSE 0),
                 !.decreased = @ + (IF v < r.last THEN 1 ELSE 0),
                 !.resets = IF v < r.last /\ r.peak > ResetFloor /\ 2 * v < r.peak
                            THEN Append(@, r.seen + 1) ELSE @]

AnalyzeCounter(values) ==
  LET after[i \in 0..Len(values)] == IF i = 0 THEN NoCounter ELSE CounterStep(after[i - 1], values[i])
  IN  after[Len(values)]

-----------------------------------------------------------------------------
(* PatternResearchEligibilityEvaluator.                                      *)

ActiveDays(S) == {t \div DaySeconds : t \in S}

Extent(intervals) == SumFunction([p \in intervals |-> p[2] - p[1]])

TotalGap(S) == Extent(DetectGaps(S))

PatternResearchReady(S, count) ==
  /\ count > 1
  /\ Cardinality(ActiveDays(S)) >= MinHistoryDays
  /\ count >= MinObservations
  /\ 100 * TotalGap(S) <= 35 * Analyze(S, count).coverage
=============================================================================

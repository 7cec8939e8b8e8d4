------------------------------ MODULE Timeline ------------------------------
(***************************************************************************)
(* The order of observations and the intervals between the timestamps of a   *)
(* series.  An instant is an event time and a frame sequence; times are      *)
(* integers.                                                                 *)
(***************************************************************************)
EXTENDS Integers, Sequences, FiniteSets, FiniteSetsExt

Instants == Int \X Int

Before(s, t) == s[1] < t[1] \/ (s[1] = t[1] /\ s[2] < t[2])

(* ORDER BY event_time, frame_sequence: the instants by their rank.          *)
Chronological(S) ==
  [i \in 1..Cardinality(S) |->
     CHOOSE s \in S : Cardinality({t \in S : Before(t, s)}) = i - 1]

(* The pairs of neighbouring timestamps: the code zips the sorted list with  *)
(* its own tail.                                                             *)
Neighbours(S) ==
  {pair \in S \X S : pair[1] < pair[2] /\ \A t \in S : t <= pair[1] \/ t >= pair[2]}

(* Twice the median of the intervals between neighbours, of which there are  *)
(* some.                                                                     *)
DoubleMedian(S) ==
  LET P == Neighbours(S)
      below(n) == Cardinality({q \in P : q[2] - q[1] <= n})
      at(k) == Min({q[2] - q[1] : q \in {r \in P : below(r[2] - r[1]) >= k}})
      n == Cardinality(P)
  IN  IF n % 2 = 1 THEN 2 * at((n + 1) \div 2) ELSE at(n \div 2) + at(n \div 2 + 1)
=============================================================================

---------------------------- MODULE MCFrameBuild ----------------------------
(***************************************************************************)
(* An instance of FrameBuild for TLC.  Position pos3 is not of the topology.   *)
(***************************************************************************)
EXTENDS FrameBuild

CONSTANTS pos1, pos2, pos3, fp1, fp2

Row(t, s, v) == [time |-> t, pos |-> s, fp |-> v]

(* Two positions with two values each at time 1, an unexpected position, a  *)
(* second time, a row without a position and one without a time.            *)
MixedRows ==
  {Row(1, s, v) : s \in {pos1, pos2}, v \in {fp1, fp2}}
    \cup {Row(1, pos3, fp1), Row(2, pos1, fp1), Row(2, None, fp1),
          Row(None, pos2, fp1)}
=============================================================================

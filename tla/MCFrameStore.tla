---------------------------- MODULE MCFrameStore ----------------------------
(***************************************************************************)
(* Instances of FrameStore for TLC.  Payloads pa and pb hold all positions, *)
(* pc is a fragment of pa: it repeats some of its positions and contradicts *)
(* pb.  First and Second are the frames FrameBuild makes of candidates.     *)
(***************************************************************************)
EXTENDS FrameStore, TLC

CONSTANTS pa, pb, pc

Frame(t, n, p, k, o) ==
  [time |-> t, seq |-> n, fp |-> p, class |-> k, replayOf |-> o]

First(t, p) == Frame(t, 0, p, "UNIQUE", None)
Second(t, p, q) ==
  CASE q = p            -> Frame(t, 1, q, "FULL_FRAME_REPLAY", 0)
    [] p = pa /\ q = pc -> Frame(t, 1, q, "PARTIAL_FRAME_REPLAY", 0)
    [] OTHER            -> Frame(t, 1, q, "SAME_TIMESTAMP_DISTINCT_FRAME", None)

Single(t) == {<<First(t, p)>> : p \in Payloads}
(* A later candidate has no position that the first one lacks.              *)
Double(t) == {<<First(t, p), Second(t, p, q)>> :
                <<p, q>> \in {pq \in Payloads \X Payloads :
                                pq[1] = pc => pq[2] = pc}}

(* Files whose first group has at most one frame have unassigned rows.      *)
Reading(s, u) == [frames |-> s \o u, unassigned |-> Len(s) < 2]

TwoTimes == {Reading(s, u) : s \in {<<>>} \cup Single(1) \cup Double(1),
                             u \in {<<>>} \cup Single(2)}
=============================================================================

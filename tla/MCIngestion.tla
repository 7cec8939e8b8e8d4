----------------------------- MODULE MCIngestion -----------------------------
(***************************************************************************)
(* Instances of Ingestion for TLC.                                          *)
(***************************************************************************)
EXTENDS Ingestion, TLC

CONSTANTS c1, c2, big

(* Both contents report the same charger-day, the second one another too.   *)
TwoDays == [c \in Contents |-> IF c = c1 THEN {1} ELSE {1, 2}]

OneDay == [c \in Contents |-> {1}]

File(c, n) == [sha |-> c, name |-> n]

NoFiles == {}
AllFiles == Keys
(* One content under two names, and another content under the first name.   *)
ThreeFiles == {File(c1, 1), File(c1, 2), File(c2, 1)}
SharedDayFiles == {File(c1, 1), File(c2, 2)}
(* A copy of an uploaded content, and a file over the size limit.          *)
InboxCopies == {File(c1, 2), File(big, 2)}
=============================================================================

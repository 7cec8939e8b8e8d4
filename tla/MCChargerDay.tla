---------------------------- MODULE MCChargerDay ----------------------------
(***************************************************************************)
(* Instances of ChargerDay for TLC: days of six seconds, a sample expected   *)
(* every second, a gap above two, and the default clock one second ahead.    *)
(***************************************************************************)
EXTENDS ChargerDay, TLC

CONSTANTS ca, cz, f1, f2, f3, f4, n1, n2

Described(charger, stamps, received, name, named, connectors) ==
  [charger |-> charger, stamps |-> stamps, received |-> received,
   name |-> name, named |-> named, connectors |-> connectors]

(* The first file of ca crosses midnight and leaves a gap, the second fills    *)
(* part of it late, the third has the second's name and another content; the  *)
(* file of cz covers a whole day.                                              *)
Deliveries ==
  f1 :> Described(ca, {5, 6, 10, 11}, 14, n1, None, {1}) @@
  f2 :> Described(ca, {6, 7, 8}, 30, n2, 2, {2}) @@
  f3 :> Described(ca, {9}, 31, n2, 2, {1, 2}) @@
  f4 :> Described(cz, {5, 6, 7, 8, 9, 10}, 23, n1, 1, {1, 2})

Registered(lifecycle, start, interval, tz) ==
  [telemetry_expected |-> TRUE, lifecycle |-> lifecycle, start |-> start, end |-> None,
   interval |-> interval, tz |-> tz, connectors |-> None]

Registrations ==
  {Registered("ACTIVE", None, None, None), Registered("ACTIVE", 2, 2, None),
   Registered("DECOMMISSIONED", None, None, None), Registered("ACTIVE", None, None, 0)}
=============================================================================

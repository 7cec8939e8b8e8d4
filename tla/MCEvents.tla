------------------------------ MODULE MCEvents ------------------------------
(***************************************************************************)
(* Instance of Events for TLC: five frames, two of them in one second and    *)
(* the last after a gap.                                                     *)
(***************************************************************************)
EXTENDS Events, TLC

Conn(status, sid, begin, flowing, energy, stop) ==
  [status |-> status, sid |-> sid, begin |-> begin, flowing |-> flowing,
   energy |-> energy, stop |-> stop]

Obs(conn, flags, config, counter) ==
  [conn |-> conn, flags |-> flags, config |-> config, counter |-> counter]

Idle == Obs(Conn("available", 0, None, FALSE, None, None), {}, "v1", 4)
Standby == Obs(Conn("standby", None, None, FALSE, None, None), {"door_open"}, None, None)
Preparing == Obs(Conn("preparing", None, 1, FALSE, None, None), {}, "v2", 12)
Charge1 == Obs(Conn("charging", 1, None, TRUE, 5, None), {"door_open", "fan_fault"}, "v2", 14)
Charge2 == Obs(Conn("charging", 2, 1, TRUE, 3, None), {"fan_fault"}, None, 7)
Stopping == Obs(Conn("plugged", 1, None, FALSE, 4, "USER_STOPPED"), {}, "v1", 3)
Silent == Obs(Conn(None, None, None, TRUE, 2, None), None, None, None)
Cabinet == Obs(None, {"door_open"}, "v1", 4)

At(s1, s2, s3, s4, s5) ==
  <<1, 0>> :> s1 @@ <<1, 1>> :> s2 @@ <<2, 0>> :> s3 @@ <<3, 0>> :> s4 @@ <<7, 0>> :> s5

Observed ==
  {At(s1, s2, s3, s4, s5) :
     s1 \in {Idle, Preparing, Charge1}, s2 \in {None, Charge1, Charge2, Standby},
     s3 \in {None, Charge1, Stopping, Silent}, s4 \in {Idle, Charge2, Stopping, Cabinet},
     s5 \in {None, Charge1, Standby}}

LateOnes == {Idle, Charge2}

TimeWindows ==
  {[from |-> None, to |-> None], [from |-> 2, to |-> None], [from |-> None, to |-> 2]}
=============================================================================

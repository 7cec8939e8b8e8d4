------------------------------ MODULE MCSilver ------------------------------
(***************************************************************************)
(* Instances of Silver for TLC: a file of four rows, the first two of them   *)
(* one frame, the second of which may break off before its last column; a    *)
(* second file that shares the next frame and adds one at the same second;   *)
(* and a replay of the first frame.                                          *)
(***************************************************************************)
EXTENDS Silver, TLC

CONSTANTS a, b, x1, x2, x3, x4

Field(name, table, sentinel, only) ==
  [canonical |-> name, table |-> table, sentinel |-> sentinel, only |-> only]

(* Cabinet voltage, gun temperature, the two columns of the stop reason, and  *)
(* a cumulative counter, whose canonical name is the header of the voltage.   *)
Names == <<"voltage", "Gun Temp", "Stop Reason", "Stop Reason", "Energy">>
Fields == <<Field("dc_voltage", "charger", None, None), Field("gun_temp", "connector", 999, None),
            Field("stop_reason_1", "session", None, 1), Field("stop_reason_2", "session", None, 2),
            Field("voltage", "counters", None, None)>>

Row(connector, v, t, s1, s2, e) ==
  [units |-> [connector |-> connector, rectifier |-> None, smr |-> 1],
   cells |-> <<v, t, s1, s2, e>>]

(* The same line, broken off before its last column.                         *)
Short(row) == [row EXCEPT !.cells = SubSeq(@, 1, Len(@) - 1)]

Cells == {None, 40, 999, Junk}

FirstFile ==
  LET Middle(v, e, w) == <<Row(2, v, 999, None, 8, e), Row(1, w, 41, 7, None, 2)>>
      agreeing == Middle(5, 1, 5)
      short == <<Short(agreeing[1]), agreeing[2]>>
      Rows(c, t, m) == <<Row(c, 5, t, 7, 8, 1), m[1], m[2], Row(0, 6, 42, None, None, 3)>>
  IN  {Rows(2, t, agreeing) : t \in Cells} \cup
      {Rows(1, t, m) : t \in Cells,
         m \in {Middle(None, 1, 5), agreeing, Middle(5, 1, 6), Middle(5, 2, 5), short}}

Uploads ==
  {a :> first @@ b :> <<first[3], first[4], Row(1, 9, 43, 7, 8, 4)>> : first \in FirstFile}

(* The order of a frame is that of the file that wrote it.                    *)
FrameOf(t, s, canonical, ra, rb) ==
  LET first == IF ra = {} THEN rb ELSE ra
  IN  [time |-> t, seq |-> s, canonical |-> canonical, rows |-> a :> ra @@ b :> rb,
       order |-> <<Min(first), Max(first)>>]

StoredFrames ==
  x1 :> FrameOf(1, 0, TRUE, {0, 1}, {}) @@
  x2 :> FrameOf(2, 0, TRUE, {2, 3}, {0, 1}) @@
  x3 :> FrameOf(2, 1, TRUE, {}, {2}) @@
  x4 :> FrameOf(1, 1, FALSE, {1}, {})
=============================================================================

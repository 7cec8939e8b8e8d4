----------------------------- MODULE MCAnalysis -----------------------------
(***************************************************************************)
(* Instances of Analysis for TLC: ten files of at most seven rows under six  *)
(* headers, days of ten seconds, two timestamp formats.                      *)
(***************************************************************************)
EXTENDS Analysis

CONSTANTS plain, noisy, wider, narrow, roleless, bare, spelt, unread, glitch, wild

Base == <<"Time", "Charger", "Conn", "Smr", "Temp", "State">>

SnakeOf ==
  [n \in {"Time", "Charger", "Conn", "Smr", "Temp", "State"} |-> n] @@
  "temp " :> "temp" @@ "Volt (V)" :> "volt_v" @@ "Volt V" :> "volt_v"

SqueezedNames == [n \in DOMAIN SnakeOf |-> IF n = "temp " THEN "Temp" ELSE n]

Plainly(n) == <<n, 1, 1>>
Role(n, required) == [exact |-> <<Plainly(n)>>, patterns |-> <<{<<n, 2, 1>>}>>, required |-> required]
RoleTable ==
  [EVENT_TIME |-> Role("Time", TRUE), CHARGER_ID |-> Role("Charger", TRUE),
   CONNECTOR |-> Role("Conn", TRUE), SMR |-> Role("Smr", TRUE), RECTIFIER |-> Role("Rect", FALSE)]

Entry(n, required, numeric, sentinels, allowed, min, max) ==
  [name |-> n, occurrence |-> None, canonical |-> Plainly(n), required |-> required,
   numeric |-> numeric, sentinels |-> sentinels, allowed |-> allowed, min |-> min, max |-> max,
   mapped |-> TRUE]

Entries ==
  <<Entry("Time", TRUE, FALSE, {}, {}, None, None), Entry("Charger", TRUE, FALSE, {}, {}, None, None),
    Entry("Temp", FALSE, TRUE, {"-150", "-999"}, {}, -500, 90),
    Entry("State", FALSE, FALSE, {}, {"on", "off"}, None, None)>>

Guess == [Entry("State", FALSE, FALSE, {}, {}, None, None) EXCEPT !.mapped = FALSE]
Guesses == [n \in DOMAIN SnakeOf |-> Guess]

Numbers == ("20" :> 20) @@ ("95" :> 95) @@ ("-150" :> -150) @@ ("-999" :> -999) @@
           [c \in {"hot", "on", "off", "odd", "A", "1", "2", "bad"} |-> None] @@
           [c \in {"t1", "t2", "t3", "t9", "u1", "u2"} |-> None]
NumberTexts == 20 :> "20.0" @@ 95 :> "95.0" @@ (-150) :> "-150.0" @@ (-999) :> "-999.0"

DayFirst == [c \in DOMAIN Numbers |-> CASE c = "t1" -> 1 [] c = "t2" -> 2 [] c = "t3" -> 3
                                        [] c = "t9" -> 19 [] c = "u1" -> 5 [] OTHER -> None]
YearFirst == [c \in DOMAIN Numbers |-> CASE c = "u1" -> 1 [] c = "u2" -> 11 [] OTHER -> None]
Readings == <<DayFirst, YearFirst>>

Described(header, rows, date) == [header |-> header, rows |-> rows, filename_date |-> date]

Deliveries ==
  plain :> Described(Base, <<<<"t1", "A", "1", "1", "20", "on">>, <<"t2", "A", "1", "1", "20", "off">>>>, 0) @@
  noisy :> Described(Base,
    <<<<"t1", "A", "1", "1", "-150", "on">>, <<"t1", "A", "1", "1", "-150", "on">>,
      <<"t2", "A", "2", "1", "95", "odd">>, <<"t2", "A", "2", "1", "hot", None>>,
      <<"t3", "A", "1", "1", "20", "on">>, <<"t9", "A", "1", "1", "20", "on">>,
      <<"bad", "A", "1", "1", "20", "on">>>>, 1) @@
  wider :> Described(Base \o <<"Volt (V)", "Volt V">>,
    <<<<"u1", "A", "1", "1", "20", "on", "20", None>>, <<"u2", "A", "2", "1", "20", "on", None, None>>>>, None) @@
  narrow :> Described(<<"Time", "Charger", "Conn", "Smr", "Temp", "Temp">>,
    <<<<"t1", "A", "1", "1", "20", "20">>, <<"t2", "A", "2", "2", "20", "95">>>>, None) @@
  roleless :> Described(<<"Time", "Charger", "Conn", "State">>,
    <<<<"t1", "A", "1", "on">>, <<"t1", "A", "1", "on">>, <<"t1", "A", "1", "off">>>>, None) @@
  bare :> Described(<<"Time", "Charger">>, <<<<"t1", "A">>>>, None) @@
  spelt :> Described(<<"Time", "Charger", "Conn", "Smr", "Temp", "temp ">>,
    <<<<"t1", "A", "1", "1", "20", "20">>>>, None) @@
  unread :> Described(Base, <<<<"bad", "A", "1", "1", "20", "on">>>>, None) @@
  glitch :> Described(Base,
    <<<<"t1", "A", "1", "1", "-150", "on">>, <<"t2", "A", "2", "1", "-999", "on">>>>, None) @@
  wild :> Described(Base,
    <<<<"t1", "A", "1", "1", "-999", "on">>, <<"t2", "A", "2", "1", "95", "on">>>>, None)

(* The default shares, and shares without the timestamps: a file that is perfect *)
(* throughout then scores nothing.                                              *)
Shares == [schema |-> 30, completeness |-> 20, validity |-> 20, duplicates |-> 15, timestamps |-> 15]
Timeless == [Shares EXCEPT !.timestamps = 0]

(* Runs for three workers: headers registered in different orders, by runs    *)
(* that also hold a file that is rejected or that loses the run.               *)
Worked ==
  {<<narrow>>, <<bare>>, <<wider, plain>>, <<narrow, wider>>, <<noisy, plain>>,
   <<plain, wider, narrow>>, <<unread, roleless>>, <<roleless, plain>>, <<narrow, bare>>,
   <<wider, spelt>>, <<plain, wild>>, <<plain, narrow, glitch>>}

Interchangeable == Permutations(Workers)

(* One worker, a good file and a file that two required roles are missing of. *)
Mixed == {<<plain, bare>>, <<bare, plain>>, <<plain, roleless>>}
=============================================================================

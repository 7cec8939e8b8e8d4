------------------------------- MODULE Events -------------------------------
(***************************************************************************)
(* Discrete events of one charger, rebuilt from its normalised history:      *)
(* sessions of one connector, alarm and fault intervals, state transitions   *)
(* and configuration changes.  A rebuild reads the observations of a window, *)
(* deletes the stored events that start in it and saves the new ones in one  *)
(* transaction.  Connectors and alarm codes are rebuilt independently.       *)
(*                                                                           *)
(* A slot is <<event_time, frame_sequence>>, the key of the Silver tables.   *)
(* The observation of a slot is [conn, flags, config, counter]: the connector *)
(* row with its session row, the set of raised codes, the configuration hash *)
(* and a cumulative counter; each is None when the frame has no such row.    *)
(***************************************************************************)
EXTENDS Continuity

CONSTANTS
  Histories,       \* functions from slots to an observation or None
  LateObservations,\* observations a slot may still receive
  Windows,         \* [from, to], an end None when the caller leaves it out
  FaultCodes,      \* the codes the service saves as faults, not as alarms
  MaxLate, MaxRebuilds

VARIABLES
  obs,             \* the normalised history
  sessions, alarms, transitions, configs,     \* the event tables, faults with the alarms
  window,          \* window of the last rebuild when it saw all of obs, else None
  late, rebuilds   \* bounded counters

tables == <<sessions, alarms, transitions, configs>>
vars == <<obs, sessions, alarms, transitions, configs, window, late, rebuilds>>

Observations == LateObservations \cup UNION {Range(h) : h \in Histories}

ASSUME HistoriesAssumption ==
  /\ \A h \in Histories : /\ h = [s \in DOMAIN h |-> h[s]]
                         /\ DOMAIN h \subseteq Instants /\ IsFiniteSet(DOMAIN h)
  /\ None \notin Instants /\ None \notin Int

ASSUME ObservationsAssumption ==
  \A o \in Observations \ {None} :
    /\ o.conn # None => {o.conn.begin, o.conn.energy} \subseteq Int \cup {None}
    /\ o.flags # None => IsFiniteSet(o.flags)
    /\ o.counter # None => o.counter \in Int

ASSUME BoundsAssumption == MaxLate \in Nat /\ MaxRebuilds \in Nat

Slots == DOMAIN obs
NotAfter(s, t) == s = t \/ Before(s, t)

InWindow(t, w) == (w.from # None => t >= w.from) /\ (w.to # None => t <= w.to)

(* The rows of a Silver table: the slots whose observation has the field.    *)
Rows(field) == {s \in Slots : obs[s] # None /\ obs[s][field] # None}
RowsIn(field, w) == {s \in Rows(field) : InWindow(s[1], w)}

Times(S) == {s[1] : s \in S}
Frames == {s \in Slots : obs[s] # None}

(* Gaps of the charger's frames, else of its connector rows.                 *)
Gaps == LET ofFrames == DetectGaps(Times(Frames))
        IN  IF ofFrames # {} THEN ofFrames ELSE DetectGaps(Times(Rows("conn")))

HasGap(start, end) == \E g \in Gaps : Overlaps(g, start, end)

-----------------------------------------------------------------------------
(* Sessions                                                                  *)

(* map_connector_state: vendor spellings of one state are kept apart, since   *)
(* the transition detector compares spellings.                               *)
MapConnectorState(status) ==
  CASE status \in {"available", "standby"} -> "IDLE"
    [] status = "plugged" -> "PLUGGED"
    [] status = "preparing" -> "PREPARING"
    [] status = "charging" -> "CHARGING"
    [] status = "completed" -> "COMPLETED"
    [] status = "faulted" -> "FAULTED"
    [] OTHER -> "UNKNOWN"

ActiveStates == {"PREPARING", "AUTHORIZED", "CHARGING", "SUSPENDED", "FINISHING"}

(* A stop reason is modelled by the class its words decide.                  *)
ClassifyTermination(stop, final) ==
  IF stop # None THEN stop
  ELSE CASE final \in {"IDLE", "COMPLETED"} -> "NORMAL"
         [] final = "FAULTED" -> "FAULT_STOPPED"
         [] OTHER -> "UNKNOWN"

State(s) == MapConnectorState(obs[s].conn.status)
IsActive(s) == State(s) \in ActiveStates
Delivering(s) == obs[s].conn.flowing
Charging(s) == State(s) = "CHARGING" \/ Delivering(s)
SessionId(s) == IF obs[s].conn.sid = 0 THEN None ELSE obs[s].conn.sid

Larger(x, y) == IF x = None THEN y ELSE IF y = None THEN x ELSE Max({x, y})
OrElse(x, y) == IF x # None THEN x ELSE y

StartsSession(s) == IsActive(s) \/ SessionId(s) # None \/ Delivering(s)

StartSession(s) ==
  [id |-> SessionId(s), start |-> OrElse(obs[s].conn.begin, s[1]), first |-> s, last |-> s,
   charging |-> IF Charging(s) THEN <<s[1], s[1]>> ELSE None,
   energy |-> obs[s].conn.energy, stop |-> obs[s].conn.stop]

Accumulate(cur, s) ==
  [cur EXCEPT !.last = s, !.id = OrElse(@, SessionId(s)),
              !.charging = IF ~Charging(s) THEN @
                           ELSE IF @ = None THEN <<s[1], s[1]>> ELSE <<@[1], s[1]>>,
              !.energy = Larger(@, obs[s].conn.energy),
              !.stop = OrElse(obs[s].conn.stop, @)]

EndsSession(cur, s) ==
  \/ State(s) \in {"IDLE", "COMPLETED"}
  \/ cur.stop # None /\ ~IsActive(s) /\ ~Delivering(s)

Confidence(cur, gap) ==
  IF ~gap /\ cur.id # None /\ cur.stop # None /\ cur.charging # None THEN "HIGH"
  ELSE IF gap \/ cur.id = None THEN "LOW" ELSE "MEDIUM"

(* close_active_session, at the time of the slot s.                          *)
CloseSession(cur, s) ==
  LET gap == HasGap(cur.start, s[1])
  IN  [id |-> cur.id, start |-> cur.start, end |-> s[1], charging |-> cur.charging,
       energy |-> cur.energy, stop |-> cur.stop,
       termination |-> ClassifyTermination(cur.stop, State(s)),
       gap |-> gap, confidence |-> Confidence(cur, gap),
       first |-> cur.first, last |-> cur.last]

(* The open session of a pass, of which there is none when it has no first.  *)
NoSession == [open |-> [first |-> None], done |-> << >>]
InSession(r) == r.open.first # None

Closed(r, s) == [NoSession EXCEPT !.done = Append(r.done, CloseSession(r.open, s))]

(* Seeded error: a new session id does not end the session.                  *)
SessionStepSameId(r, s) ==
  IF ~InSession(r)
  THEN IF StartsSession(s) THEN [r EXCEPT !.open = StartSession(s)] ELSE r
  ELSE LET cur == Accumulate(r.open, s)
           running == [r EXCEPT !.open = cur]
       IN  IF EndsSession(cur, s) THEN Closed(running, s) ELSE running

(* One observation: a new id closes the session first (case A); outside a     *)
(* session it may start one (case B), inside it is accumulated and may end    *)
(* it (case C).                                                              *)
SessionStep(r, s) ==
  LET new == InSession(r) /\ SessionId(s) # None /\ r.open.id \notin {None, SessionId(s)}
      q == IF new THEN Closed(r, s) ELSE r
  IN  IF ~InSession(q)
      THEN IF StartsSession(s) THEN [q EXCEPT !.open = StartSession(s)] ELSE q
      ELSE LET cur == Accumulate(q.open, s)
               running == [q EXCEPT !.open = cur]
           IN  IF EndsSession(cur, s) THEN Closed(running, s) ELSE running

(* SessionReconstructor.reconstruct: a session still open ends with the last  *)
(* observation.                                                              *)
ReconstructSessions(w) ==
  LET seq == Chronological(RowsIn("conn", w))
      after[i \in 0..Len(seq)] == IF i = 0 THEN NoSession ELSE SessionStep(after[i - 1], seq[i])
      r == after[Len(seq)]
  IN  IF InSession(r) THEN Closed(r, Last(seq)).done ELSE r.done

-----------------------------------------------------------------------------
(* Alarms and faults: the same intervals, saved in two tables by their code.  *)
(* The service leaves the debounce at zero, so intervals are never merged.   *)

Codes == UNION {obs[s].flags : s \in Rows("flags")}

Raised(code, s) == code \in obs[s].flags

NoAlarm == [start |-> None, lastActive |-> None, done |-> {}]

(* Seeded error: a cleared alarm ends with its last active observation.      *)
AlarmStepToLastActive(code, r, s) ==
  IF Raised(code, s)
  THEN [r EXCEPT !.start = OrElse(@, s), !.lastActive = s]
  ELSE IF r.start = None THEN r
  ELSE [NoAlarm EXCEPT !.done = r.done \cup
         {[code |-> code, start |-> r.start[1], first |-> r.start, last |-> r.lastActive, open |-> FALSE,
           gap |-> HasGap(r.start[1], s[1])]}]

AlarmStep(code, r, s) ==
  IF Raised(code, s)
  THEN [r EXCEPT !.start = OrElse(@, s), !.lastActive = s]
  ELSE IF r.start = None THEN r
  ELSE [NoAlarm EXCEPT !.done = r.done \cup
         {[code |-> code, start |-> r.start[1], first |-> r.start, last |-> s, open |-> FALSE,
           gap |-> HasGap(r.start[1], s[1])]}]

ReconstructAlarms(code, w) ==
  LET seq == Chronological(RowsIn("flags", w))
      after[i \in 0..Len(seq)] == IF i = 0 THEN NoAlarm ELSE AlarmStep(code, after[i - 1], seq[i])
      r == after[Len(seq)]
  IN  IF r.start = None THEN r.done
      ELSE r.done \cup {[code |-> code, start |-> r.start[1], first |-> r.start, last |-> r.lastActive, open |-> TRUE,
                         gap |-> HasGap(r.start[1], r.lastActive[1])]}

-----------------------------------------------------------------------------
(* State transitions and configuration changes                               *)

Statuses(w) == Chronological({s \in RowsIn("conn", w) : obs[s].conn.status # None})

(* Seeded error: statuses of one second are compared with the second before. *)
DetectTransitionsBySecond(w) ==
  LET seq == Statuses(w)
      status(i) == obs[seq[i]].conn.status
  IN  {[start |-> seq[i][1], at |-> seq[i], from |-> status(i - 1), to |-> status(i)] :
         i \in {j \in 2..Len(seq) : status(j) # status(j - 1) /\ seq[j][1] # seq[j - 1][1]}}

DetectTransitions(w) ==
  LET seq == Statuses(w)
      status(i) == obs[seq[i]].conn.status
  IN  {[start |-> seq[i][1], at |-> seq[i], from |-> status(i - 1), to |-> status(i)] :
         i \in {j \in 2..Len(seq) : status(j) # status(j - 1)}}

(* The query orders snapshots by time alone: those of one second come in any  *)
(* order.                                                                    *)
ConfigOrders(w) ==
  LET S == RowsIn("config", w)
  IN  {seq \in SetToSeqs(S) : \A i, j \in 1..Len(seq) : i < j => seq[i][1] <= seq[j][1]}

DetectChanges(seq) ==
  {[i |-> i, start |-> seq[i][1], old |-> obs[seq[i - 1]].config, new |-> obs[seq[i]].config] :
     i \in {j \in 2..Len(seq) : obs[seq[j]].config # obs[seq[j - 1]].config}}

WithoutIndex(c) == [start |-> c.start, old |-> c.old, new |-> c.new]

-----------------------------------------------------------------------------
(* reconstruct_charger_events                                                *)

(* Seeded error: the upper end of the window is not passed on.               *)
OutsideFromOnly(S, w) == {e \in S : w.from # None /\ e.start < w.from}

(* What clear_events_in_window leaves of a table.                            *)
Outside(S, w) == {e \in S : ~InWindow(e.start, w)}

(* uq_charging_session_event and uq_configuration_change_event; the key of    *)
(* alarms and faults holds a null and so never collides.                     *)
Unique(kept, new, changes) ==
  /\ \A i, j \in 1..Len(new) : new[i].start = new[j].start => i = j
  /\ \A i \in 1..Len(new), e \in kept : e.start # new[i].start
  /\ \A c, d \in changes : WithoutIndex(c) = WithoutIndex(d) => c = d

Init ==
  /\ obs \in Histories
  /\ sessions = {} /\ alarms = {} /\ transitions = {} /\ configs = {}
  /\ window = None
  /\ late = 0 /\ rebuilds = 0

(* A frame of an earlier time is normalised late.                            *)
Arrive(s, o) ==
  /\ late < MaxLate
  /\ obs[s] = None
  /\ obs' = [obs EXCEPT ![s] = o]
  /\ window' = None
  /\ late' = late + 1
  /\ UNCHANGED <<tables, rebuilds>>

Reconstruct(w, order) ==
  LET new == ReconstructSessions(w)
      kept == Outside(sessions, w)
      changes == DetectChanges(order)
  IN  /\ rebuilds < MaxRebuilds
      /\ rebuilds' = rebuilds + 1
      /\ UNCHANGED <<obs, late>>
      /\ IF Unique(kept, new, changes)
         THEN /\ sessions' = kept \cup ToSet(new)
              /\ alarms' = Outside(alarms, w)
                           \cup UNION {ReconstructAlarms(c, w) : c \in Codes}
              /\ transitions' = Outside(transitions, w) \cup DetectTransitions(w)
              /\ configs' = Outside(configs, w) \cup {WithoutIndex(c) : c \in changes}
              /\ window' = w
         ELSE UNCHANGED <<tables, window>>

Next ==
  \/ \E s \in Slots, o \in LateObservations : Arrive(s, o)
  \/ \E w \in Windows : \E order \in ConfigOrders(w) : Reconstruct(w, order)

Spec == Init /\ [][Next]_vars

-----------------------------------------------------------------------------
(* Reading                                                                   *)

(* The first n rows of a query ordered by time.                              *)
Earliest(S, n) ==
  CHOOSE T \in SUBSET S :
    /\ Cardinality(T) = Min({n, Cardinality(S)})
    /\ \A x \in T, y \in S \ T : x.start <= y.start

Items(type, S) == {[type |-> type, start |-> e.start, event |-> e] : e \in S}

Faults == {e \in alarms : e.code \in FaultCodes}
AllItems == Items("session", sessions) \cup Items("alarm", alarms \ Faults)
            \cup Items("fault", Faults) \cup Items("config", configs)

(* get_unified_timeline: each table gives its own first rows, the merged list *)
(* is sorted and cut.  Transitions are not part of it.                       *)
UnifiedTimeline(limit) ==
  Earliest(Items("session", Earliest(sessions, limit)) \cup
           Items("alarm", Earliest(alarms \ Faults, limit)) \cup
           Items("fault", Earliest(Faults, limit)) \cup
           Items("config", Earliest(configs, limit)), limit)

(* get_counter_history: the readings in frame order.                         *)
CounterReadings == LET seq == Chronological(Frames) IN [i \in 1..Len(seq) |-> obs[seq[i]].counter]

-----------------------------------------------------------------------------
Full == window # None /\ window.from = None /\ window.to = None

Spans(e, s) == NotAfter(e.first, s) /\ NotAfter(s, e.last)
Members(e) == {s \in Rows("conn") : Spans(e, s)}

(* Types: stored events lie on observed slots in order, with the statuses a   *)
(* rebuild can give them, and a transition always changes the status.         *)
TypeOK ==
  /\ obs \in [Slots -> Observations \cup {None}]
  /\ \A e \in sessions : /\ e.first \in Slots /\ e.last \in Slots /\ NotAfter(e.first, e.last)
                         /\ e.start \in Int /\ e.end \in Int /\ e.last[1] <= e.end
                         /\ e.confidence \in {"HIGH", "MEDIUM", "LOW"}
  /\ \A e \in alarms : /\ e.first \in Slots /\ e.last \in Slots /\ NotAfter(e.first, e.last)
                       /\ e.open \in BOOLEAN /\ e.gap \in BOOLEAN
  /\ \A e \in transitions : e.at \in Slots /\ e.from # e.to
  /\ window \in Windows \cup {None}
  /\ late \in 0..MaxLate /\ rebuilds \in 0..MaxRebuilds

(* Every observation in which the connector charges or delivers current is in *)
(* a stored session once its time has been rebuilt.                          *)
ChargingCovered ==
  window # None =>
    \A s \in RowsIn("conn", window) : Charging(s) => \E e \in sessions : Spans(e, s)

(* A session is exactly what its observations say: one id, the largest        *)
(* energy, the last stop reason, the first and last moment of charging; high  *)
(* confidence means that no telemetry gap lies between its start and its end. *)
Faithful(e) ==
  LET M == Members(e)
      energies == {obs[s].conn.energy : s \in M} \ {None}
      stops == {s \in M : obs[s].conn.stop # None}
      moments == {s[1] : s \in {q \in M : Charging(q)}}
  IN  /\ {SessionId(s) : s \in M} \ {None} = {e.id} \ {None}
      /\ e.energy = IF energies = {} THEN None ELSE Max(energies)
      /\ e.stop # None <=> stops # {}
      /\ \A s \in stops : (\A t \in stops : NotAfter(t, s)) => e.stop = obs[s].conn.stop
      /\ e.charging = IF moments = {} THEN None ELSE <<Min(moments), Max(moments)>>
      /\ e.confidence = "HIGH" => ~\E g \in Gaps : e.start <= g[1] /\ g[2] <= e.end

(* After a full rebuild sessions share no observation, and each is faithful   *)
(* to its own.                                                               *)
SessionsExact ==
  Full =>
    /\ \A e, f \in sessions : e # f => Members(e) \cap Members(f) = {}
    /\ \A e \in sessions : Faithful(e)

(* The stored sessions are those of the observations: all charging is in one, *)
(* and each is told by its own observations only.                             *)
SessionsTruthful == TypeOK /\ ChargingCovered /\ SessionsExact

(* After a full rebuild a code is raised in an observation if and only if a   *)
(* stored interval of the code covers it; the observation that clears it is   *)
(* outside.                                                                  *)
AlarmsExact ==
  Full =>
    \A s \in Rows("flags"), code \in Codes :
      Raised(code, s) <=>
        \E e \in alarms : /\ e.code = code /\ NotAfter(e.first, s)
                          /\ IF e.open THEN NotAfter(s, e.last) ELSE Before(s, e.last)

(* After a full rebuild, replaying the transitions in frame order from the    *)
(* first status gives every observed status, same-second changes included.   *)
TransitionsReplay ==
  Full =>
    \A s \in {r \in Rows("conn") : obs[r].conn.status # None} :
      LET upTo == {e \in transitions : NotAfter(e.at, s)}
          latest == CHOOSE e \in upTo : \A f \in upTo : NotAfter(f.at, e.at)
      IN  IF upTo = {} THEN obs[Statuses(window)[1]].conn.status = obs[s].conn.status
          ELSE latest.to = obs[s].conn.status

(* After a full rebuild, a change is stored between two seconds, with one     *)
(* snapshot each and none between them, if and only if the hashes differ.    *)
ConfigsExact ==
  Full =>
    \A s, t \in Rows("config") :
      (/\ s[1] < t[1]
       /\ \A r \in Rows("config") \ {s, t} : r[1] < s[1] \/ r[1] > t[1]) =>
        {e \in configs : e.start = t[1]} =
          IF obs[s].config = obs[t].config THEN {}
          ELSE {[start |-> t[1], old |-> obs[s].config, new |-> obs[t].config]}

(* Every change between observations is stored, and nothing else is.          *)
ChangesExact == TransitionsReplay /\ ConfigsExact

(* A rebuild of a window adds, removes or changes no alarm, transition or     *)
(* configuration change that starts outside it, and removes no session that   *)
(* starts outside.                                                           *)
WindowIsolated ==
  [][\A w \in Windows :
       (rebuilds' # rebuilds /\ window' = w) =>
         /\ {e \in sessions : ~InWindow(e.start, w)} \subseteq sessions'
         /\ \A e \in (alarms \ alarms') \cup (alarms' \ alarms)
                    \cup (transitions \ transitions') \cup (transitions' \ transitions)
                    \cup (configs \ configs') \cup (configs' \ configs) :
              InWindow(e.start, w)]_vars

(* The timeline is a prefix of all stored events: no event it leaves out      *)
(* starts before one it shows, and it is short only when there are no more.  *)
ShowsPrefix(limit) ==
  LET shown == UnifiedTimeline(limit)
  IN  /\ shown \subseteq AllItems
      /\ Cardinality(shown) = Min({limit, Cardinality(AllItems)})
      /\ \A x \in shown, y \in AllItems \ shown : x.start <= y.start

TimelinePrefix == \A limit \in 1..3 : ShowsPrefix(limit)

(* The frames with a reading of the counter, and the pairs of one and the     *)
(* next.                                                                     *)
Metered == {s \in Frames : obs[s].counter # None}
Reading(s) == obs[s].counter
Consecutive ==
  {pair \in Metered \X Metered :
     Before(pair[1], pair[2]) /\ ~\E t \in Metered : Before(pair[1], t) /\ Before(t, pair[2])}

(* Below the reading before it, and below half of an earlier one that had      *)
(* passed the floor.                                                         *)
IsReset(s) ==
  /\ \E pair \in Consecutive : pair[2] = s /\ Reading(s) < Reading(pair[1])
  /\ \E t \in Metered : Before(t, s) /\ Reading(t) > ResetFloor /\ 2 * Reading(s) < Reading(t)

(* Each change between consecutive readings is counted once as what it is,    *)
(* every reading but the first is one, and the reset candidates are the       *)
(* readings that look like a reset, by their number.                         *)
CounterLedger ==
  LET r == AnalyzeCounter(CounterReadings)
  IN  /\ r.increased = Cardinality({p \in Consecutive : Reading(p[1]) < Reading(p[2])})
      /\ r.unchanged = Cardinality({p \in Consecutive : Reading(p[1]) = Reading(p[2])})
      /\ r.decreased = Cardinality({p \in Consecutive : Reading(p[1]) > Reading(p[2])})
      /\ Metered # {} => r.increased + r.unchanged + r.decreased = Cardinality(Metered) - 1
      /\ ToSet(r.resets) = {Cardinality({t \in Metered : NotAfter(t, s)}) :
                              s \in {q \in Metered : IsReset(q)}}

(* A history declared ready for pattern research is observed for at least     *)
(* 65 percent of its extent: intervals that are no gap add up to that much.  *)
ReadyMeansObserved ==
  LET S == Times(Frames)
      observed == Neighbours(S) \ DetectGaps(S)
  IN  PatternResearchReady(S, Cardinality(Frames)) =>
        100 * Extent(observed) >= 65 * (Max(S) - Min(S))

(* What is read of a history is all there: the first events of the timeline,  *)
(* every transition of a counter, and enough observed time to be called ready. *)
ReadsTruthful == TimelinePrefix /\ CounterLedger /\ ReadyMeansObserved
=============================================================================

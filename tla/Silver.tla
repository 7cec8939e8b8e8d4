------------------------------- MODULE Silver -------------------------------
(***************************************************************************)
(* The Silver layer: canonical frames are resolved from the Bronze rows that *)
(* contribute to them into typed records of eleven tables, each value with   *)
(* its provenance, and the cabinet history is read in pages while files are  *)
(* normalised and reconstructed again.                                       *)
(*                                                                           *)
(* A Bronze row gives the unit numbers it reports for and its raw cells by    *)
(* header position, fewer than there are headers where the line breaks off; a *)
(* cell is None where it is empty or a null token.                           *)
(***************************************************************************)
EXTENDS Timeline

CONSTANTS
  Files, Frames,
  FrameDef,     \* FrameDef[x] = [time, seq, canonical, rows, order]; rows[f]: 0-based
                \* numbers of its rows; order: the first and last of them, or None
  Contents,     \* the Bronze contents the files may have
  Header,       \* Header[p]: the source name at position p
  Dictionary,   \* Dictionary[p]: the field specification of position p
  None, Junk,   \* no value; a cell that does not parse as its type
  Limit,        \* page size of a history query
  MaxRuns       \* bound on reconstructions and normalisations

VARIABLES
  bronze,     \* [Files -> sequence of Bronze rows]
  sources,    \* [Frames -> set of files holding the frame]; {} when not stored
  silver,     \* the records of each normalised frame, a partial function on Frames
  prov,       \* [Frames -> set of provenance entries]
  runs,       \* the frames of the last completed run, a partial function on Files
  reader,     \* a client walking the history page by page
  steps

vars == <<bronze, sources, silver, prov, runs, reader, steps>>

(* Event times and sequences are numbers, a frame is built from finitely many *)
(* rows of a file, a page holds a record, and no value is none of the keys.   *)
ASSUME FramesAssumption ==
  /\ IsFiniteSet(Frames)
  /\ \A x \in Frames :
       /\ FrameDef[x].time \in Int /\ FrameDef[x].seq \in Int
       /\ \A f \in Files : IsFiniteSet(FrameDef[x].rows[f])
       /\ \A i \in 1..2 : FrameDef[x].order[i] \in Int \cup {None}

ASSUME LimitAssumption == Limit \in Nat \ {0} /\ MaxRuns \in Nat /\ None \notin Instants

-----------------------------------------------------------------------------
(* The eleven tables: what a record is kept for, whether conflicts of its    *)
(* fields are reported, and whether it keeps the raw value of masked columns. *)

Table(unit, reports, masks) == [unit |-> unit, reports |-> reports, masks |-> masks]

SiteMetadata == Table("frame", FALSE, FALSE)
ChargerTelemetry == Table("frame", TRUE, FALSE)
ConnectorTelemetry == Table("connector", TRUE, TRUE)
RectifierTelemetry == Table("rectifier", TRUE, TRUE)
SmrTelemetry == Table("smr", TRUE, TRUE)
ContactorObservation == Table("frame", TRUE, FALSE)
AlarmObservation == Table("frame", TRUE, FALSE)
SessionObservation == Table("connector", TRUE, FALSE)
LifecycleCounterObservation == Table("frame", FALSE, FALSE)
CommunicationObservation == Table("frame", TRUE, FALSE)
ConfigurationSnapshot == Table("frame", FALSE, FALSE)

Tables ==
  [site |-> SiteMetadata, charger |-> ChargerTelemetry, connector |-> ConnectorTelemetry,
   rectifier |-> RectifierTelemetry, smr |-> SmrTelemetry, contactor |-> ContactorObservation,
   alarm |-> AlarmObservation, session |-> SessionObservation,
   counters |-> LifecycleCounterObservation, communication |-> CommunicationObservation,
   configuration |-> ConfigurationSnapshot]

-----------------------------------------------------------------------------
(* Resolving one frame.                                                      *)

Positions == DOMAIN Header

(* A row as the reader builds it: a dictionary by header, in which the last   *)
(* of several columns with one name remains; a line that breaks off has no    *)
(* key for the headers it does not reach.                                    *)
RowDict(row) ==
  LET reached == Positions \cap DOMAIN row.cells
  IN  [h \in {Header[p] : p \in reached} |-> row.cells[Max({p \in reached : Header[p] = h})]]

(* What a row reports for a position: by its header, or by its canonical name *)
(* where the row has no such key.                                            *)
Reading(row, p) ==
  LET dict == RowDict(row)
  IN  IF Header[p] \in DOMAIN dict THEN dict[Header[p]]
      ELSE IF Dictionary[p].canonical \in DOMAIN dict THEN dict[Dictionary[p].canonical]
      ELSE None

(* A missing or zero unit number counts as unit 1.                           *)
UnitOf(row, u) == IF row.units[u] \in {None, 0} THEN 1 ELSE row.units[u]

(* The row numbers of a frame in a file: its links, or the range of its order *)
(* where it has none and neither end is missing or zero.                      *)
RowNumbers(x, f) ==
  LET links == FrameDef[x].rows[f]
      order == FrameDef[x].order
  IN  IF links = {} /\ order[1] \notin {None, 0} /\ order[2] \notin {None, 0}
      THEN order[1]..order[2] ELSE links

(* The frame's links are numbered from 0, the lines of the file from 1.      *)
ContributingRows(x, f) == {bronze[f][n] : n \in RowNumbers(x, f) \cap DOMAIN bronze[f]}

CoerceValue(raw, field) ==
  IF raw = Junk THEN [value |-> None, masked |-> FALSE]
  ELSE IF raw = field.sentinel THEN [value |-> None, masked |-> TRUE]
  ELSE [value |-> raw, masked |-> FALSE]

(* Seeded error: of conflicting values one is taken.                         *)
ResolveTakingOne(p, rows) ==
  LET raws == {Reading(r, p) : r \in rows} \ {None}
  IN  IF raws = {} THEN [raw |-> None, value |-> None, masked |-> FALSE, conflict |-> FALSE]
      ELSE LET raw == CHOOSE v \in raws : TRUE
           IN  [raw |-> raw, value |-> CoerceValue(raw, Dictionary[p]).value,
                masked |-> CoerceValue(raw, Dictionary[p]).masked, conflict |-> FALSE]

(* Cases A, B and C: agreeing rows give their value, conflicting ones none.  *)
ResolveScalarField(p, rows) ==
  LET raws == {Reading(r, p) : r \in rows} \ {None}
      raw == CHOOSE v \in raws : TRUE
      read == CoerceValue(raw, Dictionary[p])
  IN  IF raws = {} THEN [raw |-> None, value |-> None, masked |-> FALSE, conflict |-> FALSE]
      ELSE IF Cardinality(raws) = 1
      THEN [raw |-> raw, value |-> read.value, masked |-> read.masked, conflict |-> FALSE]
      ELSE [raw |-> raw, value |-> None, masked |-> FALSE, conflict |-> TRUE]

(* The rows a field of one unit is resolved over.                            *)
Scope(rows, table, unit) ==
  IF Tables[table].unit = "frame" THEN rows
  ELSE {r \in rows : UnitOf(r, Tables[table].unit) = unit}

UnitsOf(rows, table) ==
  IF Tables[table].unit = "frame" THEN {0}
  ELSE {UnitOf(r, Tables[table].unit) : r \in rows}

(* The positions resolved for a unit: a stop reason belongs to one connector. *)
FieldsOf(table, unit) ==
  {p \in Positions : /\ Dictionary[p].table = table
                     /\ Dictionary[p].only \in {None, unit}}

(* The record keys of a frame.  A table kept per unit has a record only for   *)
(* units with a field; the others always have one.                           *)
RecordKeys(rows) ==
  {k \in UNION {{t} \X UnitsOf(rows, t) : t \in DOMAIN Tables} :
     Tables[k[1]].unit = "frame" \/ FieldsOf(k[1], k[2]) # {}}

ResolveFrame(rows) ==
  [k \in RecordKeys(rows) |->
     [p \in IF rows = {} THEN {} ELSE FieldsOf(k[1], k[2]) |->
        ResolveScalarField(p, Scope(rows, k[1], k[2]))]]

(* The record and position of every resolved field.                          *)
Resolved(payload) ==
  {q \in (DOMAIN payload) \X Positions : q[2] \in DOMAIN payload[q[1]]}

Conflicts(payload) ==
  {q \in Resolved(payload) : payload[q[1]][q[2]].conflict /\ Tables[q[1][1]].reports}

(* A reported conflict builds an issue from a column the model does not have, *)
(* and the raw value of a masked column is converted without a guard.         *)
Raises(payload) ==
  \/ Conflicts(payload) # {}
  \/ \E q \in Resolved(payload) :
       /\ Tables[q[1][1]].masks /\ Dictionary[q[2]].sentinel # None
       /\ payload[q[1]][q[2]].raw = Junk

(* The values of a record, and one provenance entry for each of them.        *)
CreateSilverRecords(payload) ==
  [k \in DOMAIN payload |-> [p \in DOMAIN payload[k] |-> payload[k][p].value]]

MakeProvenance(payload, f) ==
  {[key |-> q[1], position |-> q[2], raw |-> payload[q[1]][q[2]].raw,
    masked |-> payload[q[1]][q[2]].masked, file |-> f] : q \in Resolved(payload)}

-----------------------------------------------------------------------------
(* Normalisation.                                                            *)

(* Seeded error: the frames are not restricted to those the file is a source of. *)
CanonicalFramesOfAll(f) == {x \in Frames : sources[x] # {} /\ FrameDef[x].canonical}

CanonicalFramesForFile(f) == {x \in Frames : f \in sources[x] /\ FrameDef[x].canonical}

(* The keys of the cabinet history: one record per normalised frame, whose   *)
(* time and sequence no other frame of the charger has.                       *)
KeyOf(x) == <<FrameDef[x].time, FrameDef[x].seq>>
HistoryKeys(s) == {KeyOf(x) : x \in DOMAIN s}

Tick == steps < MaxRuns /\ steps' = steps + 1

(* What an open walk may still rely on being there.                          *)
Observe == reader' = [reader EXCEPT !.stable = @ \cap HistoryKeys(silver')]

(* delete_for_frames.                                                        *)
DeleteForFrames(s, xs) == [x \in DOMAIN s \ xs |-> s[x]]

DeleteProvenance(xs) == [x \in Frames |-> IF x \in xs THEN {} ELSE prov[x]]

(* Seeded error: the provenance of an earlier run stays.                     *)
InsertBesideOldProvenance(xs, payload, f) ==
  [x \in Frames |-> IF x \in xs THEN prov[x] \cup MakeProvenance(payload[x], f) ELSE prov[x]]

InsertProvenance(xs, payload, f) ==
  [x \in Frames |-> IF x \in xs THEN MakeProvenance(payload[x], f) ELSE prov[x]]

InsertRecords(s, xs, payload) ==
  [x \in DOMAIN s \cup xs |->
     IF x \in xs THEN CreateSilverRecords(payload[x]) ELSE s[x]]

NormalizeFile(f) ==
  LET xs == CanonicalFramesForFile(f)
      payload == [x \in xs |-> ResolveFrame(ContributingRows(x, f))]
  IN  /\ Tick
      /\ \A x \in xs : ~Raises(payload[x])
      /\ silver' = InsertRecords(DeleteForFrames(silver, xs), xs, payload)
      /\ prov' = InsertProvenance(xs, payload, f)
      /\ runs' = [g \in DOMAIN runs \cup {f} |-> IF g = f THEN xs ELSE runs[g]]
      /\ Observe
      /\ UNCHANGED <<bronze, sources>>

(* The request's session is rolled back, the run record included.            *)
NormalizeFails(f) ==
  /\ Tick
  /\ \E x \in CanonicalFramesForFile(f) : Raises(ResolveFrame(ContributingRows(x, f)))
  /\ UNCHANGED <<bronze, sources, silver, prov, runs, reader>>

(* Reconstructing a file deletes the frames it alone holds, and with them     *)
(* their Silver records, before it stores its frames.                         *)
Reconstruct(f) ==
  LET alone == {x \in Frames : sources[x] = {f}}
      own == {x \in Frames : FrameDef[x].rows[f] # {}}
  IN  /\ Tick
      /\ sources' = [x \in Frames |-> IF x \in own THEN sources[x] \cup {f} ELSE sources[x]]
      /\ silver' = DeleteForFrames(silver, alone)
      /\ prov' = DeleteProvenance(alone)
      /\ runs' = [g \in {h \in DOMAIN runs \ {f} : runs[h] \cap alone = {}} |-> runs[g]]
      /\ Observe
      /\ UNCHANGED bronze

-----------------------------------------------------------------------------
(* Reading the history of a charger in pages.                                *)

NoWalk == [open |-> FALSE, done |-> FALSE, from |-> 0, to |-> 0,
           cursor |-> None, served |-> << >>, stable |-> {}]

OpenWalk(from, to) ==
  /\ reader = NoWalk
  /\ reader' = [NoWalk EXCEPT !.open = TRUE, !.from = from, !.to = to,
                              !.stable = {k \in HistoryKeys(silver) : k[1] \in from..to}]
  /\ UNCHANGED <<bronze, sources, silver, prov, runs, steps>>

AfterCursor(k) == reader.cursor = None \/ Before(reader.cursor, k)

(* Seeded error: the cursor names the first record of the next page.         *)
NextCursorBeyond(page, found) ==
  IF Cardinality(found) > Limit
  THEN CHOOSE k \in found : Cardinality({j \in found : Before(j, k)}) = Limit ELSE None

(* The key of the last record of the page, when more follow.                 *)
NextCursor(page, found) ==
  IF Cardinality(found) > Limit THEN page[Len(page)] ELSE None

GetChargerHistory ==
  LET found == {k \in HistoryKeys(silver) :
                  k[1] \in reader.from..reader.to /\ AfterCursor(k)}
      page == SubSeq(Chronological(found), 1, Min({Limit, Cardinality(found)}))
      cursor == NextCursor(page, found)
  IN  /\ reader.open /\ ~reader.done
      /\ reader' = [reader EXCEPT !.cursor = cursor, !.served = @ \o page,
                                  !.done = (cursor = None)]
      /\ UNCHANGED <<bronze, sources, silver, prov, runs, steps>>

Init ==
  /\ bronze \in Contents
  /\ sources = [x \in Frames |-> {}]
  /\ silver = << >>
  /\ prov = [x \in Frames |-> {}]
  /\ runs = << >>
  /\ reader = NoWalk
  /\ steps = 0

Times == {FrameDef[x].time : x \in Frames}

Next ==
  \/ \E f \in Files : NormalizeFile(f) \/ NormalizeFails(f) \/ Reconstruct(f)
  \/ \E from, to \in Times : from <= to /\ OpenWalk(from, to)
  \/ GetChargerHistory

Spec == Init /\ [][Next]_vars

-----------------------------------------------------------------------------
(* The observations of one signal of one unit, each with the provenance it is *)
(* shown with: looked up by the frame and the signal's name alone.            *)

HasSignal(x, p, unit) ==
  LET k == <<Dictionary[p].table, unit>>
  IN  x \in DOMAIN silver /\ k \in DOMAIN silver[x] /\ p \in DOMAIN silver[x][k]

Shown(x, p, unit, e) ==
  [frame |-> x, value |-> silver[x][<<Dictionary[p].table, unit>>][p], entry |-> e]

(* Seeded error: the provenance is looked up by the frame alone.             *)
SignalHistoryByFrame(p, unit) ==
  UNION {{Shown(x, p, unit, e) : e \in prov[x]} : x \in {y \in Frames : HasSignal(y, p, unit)}}

SignalHistory(p, unit) ==
  UNION {{Shown(x, p, unit, e) : e \in {d \in prov[x] : d.position = p}} :
         x \in {y \in Frames : HasSignal(y, p, unit)}}

(* Type invariant: records and provenance exist for stored frames only.      *)
TypeOK ==
  /\ bronze \in Contents
  /\ sources \in [Frames -> SUBSET Files]
  /\ \A x \in Frames :
       /\ x \in DOMAIN silver => sources[x] # {}
       /\ x \notin DOMAIN silver => prov[x] = {}
       /\ x \in DOMAIN silver => \A k \in DOMAIN silver[x] : k[1] \in DOMAIN Tables
  /\ steps \in 0..MaxRuns

(* Every frame of a file whose run completed, and that nothing replaced       *)
(* since, has its records, and each value exactly one provenance entry: no    *)
(* record of an earlier run is left beside the new ones.                      *)
RecordsWhole ==
  \A f \in DOMAIN runs : \A x \in runs[f] :
    /\ x \in DOMAIN silver
    /\ {t \in DOMAIN Tables : Tables[t].unit = "frame"} \subseteq {k[1] : k \in DOMAIN silver[x]}
    /\ \A k \in DOMAIN silver[x], p \in Positions :
         Cardinality({e \in prov[x] : e.key = k /\ e.position = p})
           = (IF p \in DOMAIN silver[x][k] THEN 1 ELSE 0)

(* Records and provenance are there for stored frames only, and whole for      *)
(* every file whose run completed.                                            *)
NormalizedWhole == TypeOK /\ RecordsWhole

(* No value is fabricated and none is dropped in silence: a stored value was  *)
(* reported by a row of its own unit and by no row of the unit otherwise, and *)
(* a raw reading without a value is masked, unparsable or in conflict.        *)
NothingFabricated ==
  \A x \in Frames : \A e \in prov[x] :
    LET value == silver[x][e.key][e.position]
        told == {Reading(r, e.position) : r \in
                   {q \in ContributingRows(x, e.file) :
                      \/ Tables[e.key[1]].unit = "frame"
                      \/ UnitOf(q, Tables[e.key[1]].unit) = e.key[2]}} \ {None}
    IN  /\ value # None => told = {value} /\ ~e.masked
        /\ value = None /\ told # {} =>
             \/ Cardinality(told) > 1
             \/ told = {Junk}
             \/ e.masked /\ told = {Dictionary[e.position].sentinel}
        /\ e.raw = None <=> told = {}

(* Where a signal is read of the cabinet, or of the only unit of its frame,   *)
(* the raw value and the masking flag it is shown with are its own.           *)
SignalTruthful ==
  \A p \in Positions : \A unit \in 0..2 : \A o \in SignalHistory(p, unit) :
    LET t == Dictionary[p].table
    IN  {k \in DOMAIN silver[o.frame] : k[1] = t} = {<<t, unit>>} =>
          /\ o.entry.key = <<t, unit>>
          /\ o.value # None => o.value = o.entry.raw /\ ~o.entry.masked

(* A walk never returns a record twice and keeps the order of event time and  *)
(* sequence, whatever is normalised or reconstructed between two pages.       *)
PagesOrdered ==
  \A i, j \in DOMAIN reader.served : i < j => Before(reader.served[i], reader.served[j])

(* When a walk has ended, every record that was there from the first page to  *)
(* the last has been returned, records of one second included.                *)
PagesComplete ==
  reader.done => \A k \in reader.stable : \E i \in DOMAIN reader.served : reader.served[i] = k

(* A walk returns each record that stayed exactly once and in order.          *)
PagesExact == PagesOrdered /\ PagesComplete

(* Normalising a file again, with whatever other commands in between, leaves  *)
(* every frame that it was the last to normalise as it is, and it never       *)
(* touches a frame of other files.                                            *)
NormalizeIdempotent ==
  [][\A f \in Files : NormalizeFile(f) => \A x \in Frames :
       f \notin sources[x] \/ (prov[x] # {} /\ \A e \in prov[x] : e.file = f) =>
         /\ x \in DOMAIN silver' <=> x \in DOMAIN silver
         /\ x \in DOMAIN silver => silver'[x] = silver[x]
         /\ prov'[x] = prov[x]]_vars

(* The values of a frame come from the rows of the file that make it up:      *)
(* "Read raw Bronze rows indexed by 1-based source row number".               *)
OwnRowsRead ==
  \A x \in Frames : \A e \in prov[x] :
    e.raw # None => \E n \in FrameDef[x].rows[e.file] :
      Reading(bronze[e.file][n + 1], e.position) = e.raw
=============================================================================

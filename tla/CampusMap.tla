------------------------------ MODULE CampusMap ------------------------------
(***************************************************************************)
(* The campus vocabulary and the positions compared with it: zones and     *)
(* locations brought in by the import script and the demo seed, each in    *)
(* one transaction that meets the other's uncommitted rows on the unique   *)
(* indexes; the location an SOS or a report is anchored to; the verdict    *)
(* stored beside it; and where a responder is sent.  Positions lie on a    *)
(* line and are given in metres.  A row a transaction has inserted holds   *)
(* its code until the transaction ends.                                    *)
(***************************************************************************)
EXTENDS Integers, Sequences, FiniteSets

CONSTANTS
  Commands,            \* runs of the import script and of the demo seed
  Seeds,               \* those that are runs of the seed
  FileOf,              \* the zones and locations a run of the import reads
  DryRuns,             \* imports without --commit
  DemoZone, DemoPlaces,
  ProductionNamed,     \* commands whose DATABASE_URL names a prod or live database
  ZoneCodes, NoZone, PlaceCodes, Sentinel,
  Points, NoPoint,
  FirstPlaces,         \* the rows the database holds when it starts
  Filings,             \* reports and SOS presses
  Corrections,         \* what a surveyor may write by hand
  MaxRunning, MaxReports, MaxCorrections   \* the bounds of an instance

CORROBORATION_RADIUS_M == 150
EMERGENCY_MATCH_RADIUS_M == 300

CoordinateStatus == {"required", "provisional", "verified"}

PlaceRow ==
  [code: PlaceCodes, name: PlaceCodes, zone: ZoneCodes \cup {NoZone}, at: Points \cup {NoPoint},
   status: CoordinateStatus, sourced: BOOLEAN, active: BOOLEAN, synthetic: BOOLEAN]

\* The lines of the two files; see parse_zones for `readable'.
ZoneLine == [code: ZoneCodes, role: STRING, readable: BOOLEAN]
PlaceLine ==
  [code: PlaceCodes, name: PlaceCodes, zone: ZoneCodes \cup {NoZone}, at: Points \cup {NoPoint},
   status: CoordinateStatus, sourced: BOOLEAN, active: BOOLEAN, readable: BOOLEAN]

VARIABLES
  zones,      \* core.campus_zone: the codes
  places,     \* core.campus_location: a row for each code there is
  job,        \* where each command stands, the codes it need not insert, and what it wrote
  applied,    \* the commands that committed
  draft,      \* the report being filed, with the location row it has loaded
  reports,    \* core.report.location_id and core.report_location_detail, and what was sent
  repeat,     \* the report a repeated press was last answered with, or 0
  corrections

vars == <<zones, places, job, applied, draft, reports, repeat, corrections>>
filing == <<draft, reports, repeat, corrections>>

-----------------------------------------------------------------------------
(* Constraints of the tables                                               *)

\* ck_campus_location_*: a point only where one was taken, its source where it is
\* verified, and only verified locations active.
LocationChecks(row) ==
  /\ row.status = "required" => row.at = NoPoint
  /\ row.status = "verified" => row.at # NoPoint /\ row.sourced
  /\ row.active => row.status = "verified"

\* ck_location_detail_*: a verdict about a signal has one, and the default has none.
DetailChecks(d) ==
  /\ d.resolution \in {"corroborated", "conflicting"}
       => d.at # NoPoint /\ d.source # "location_default"
  /\ d.source = "location_default" => d.at = NoPoint

-----------------------------------------------------------------------------
(* Validation of the files                                                 *)

Distinct(rows, column) ==
  \A m, n \in DOMAIN rows : m # n => rows[m][column] # rows[n][column]

\* readable stands for the columns that must parse by themselves: the header, the
\* code and name, the enumerations, numbers in range and times with an offset.
parse_zones(rows) ==
  /\ \A n \in DOMAIN rows : rows[n].readable /\ rows[n].role # "student"
  /\ Distinct(rows, "code")

\* Mutant: a placeholder is let through with the point somebody guessed.
ParsesGuesses(rows) ==
  /\ \A n \in DOMAIN rows :
       /\ rows[n].readable
       /\ rows[n].status = "verified" => rows[n].at # NoPoint /\ rows[n].sourced
       /\ rows[n].active => rows[n].status = "verified"
  /\ Distinct(rows, "code")

parse_locations(rows) ==
  /\ \A n \in DOMAIN rows :
       /\ rows[n].readable
       /\ rows[n].status = "required" => rows[n].at = NoPoint
       /\ rows[n].status = "verified" => rows[n].at # NoPoint /\ rows[n].sourced
       /\ rows[n].active => rows[n].status = "verified"
  /\ Distinct(rows, "code")
  /\ Distinct(rows, "name")
  /\ \A m, n \in DOMAIN rows : rows[m].at = rows[n].at => m = n \/ rows[m].at = NoPoint

\* The row an INSERT writes: the import leaves is_synthetic to its default.
Imported(row) ==
  [code |-> row.code, name |-> row.name, zone |-> row.zone, at |-> row.at, status |-> row.status,
   sourced |-> row.sourced, active |-> row.active, synthetic |-> FALSE]

CodesOf(rows) == {rows[n].code : n \in DOMAIN rows}
DemoCodes == CodesOf(DemoPlaces)

\* The constraints hold in the database as it starts and of what the seed writes.
\* Codes that begin with DEMO- are the seed's: no file has one.
ASSUME CampusAssumptions ==
  /\ Seeds \subseteq Commands /\ DryRuns \subseteq Commands \ Seeds
  /\ Points \subseteq Int /\ NoPoint \notin Points
  /\ NoZone \notin ZoneCodes /\ ZoneCodes \cap PlaceCodes = {}
  /\ \A c \in Commands \ Seeds :
       /\ FileOf[c].zones \in Seq(ZoneLine) /\ FileOf[c].places \in Seq(PlaceLine)
       /\ CodesOf(FileOf[c].places) \cap DemoCodes = {}
  /\ DemoZone \in ZoneCodes /\ DemoPlaces \in Seq(PlaceRow)
  /\ \A n \in DOMAIN DemoPlaces :
       /\ LocationChecks(DemoPlaces[n])
       /\ DemoPlaces[n].synthetic /\ DemoPlaces[n].zone = DemoZone
  /\ Sentinel \in DOMAIN FirstPlaces /\ DOMAIN FirstPlaces \subseteq PlaceCodes \ DemoCodes
  /\ FirstPlaces \in [DOMAIN FirstPlaces -> PlaceRow]
  /\ \A code \in DOMAIN FirstPlaces :
       /\ LocationChecks(FirstPlaces[code])
       /\ FirstPlaces[code].code = code /\ ~FirstPlaces[code].synthetic
  /\ Filings \subseteq [kind: {"report", "sos"}, place: PlaceCodes, device: Points \cup {NoPoint},
                       photo: [usable: BOOLEAN, at: Points \cup {NoPoint}]]
  /\ Corrections \subseteq PlaceCodes \X (Points \cup {NoPoint})

-----------------------------------------------------------------------------
(* The commands                                                            *)

NotStarted == [pc |-> "start", have |-> {}, looked |-> FALSE, wrote |-> <<>>]
Ended == [NotStarted EXCEPT !.pc = "done"]

Init ==
  /\ zones = {}
  /\ places = FirstPlaces
  /\ job = [c \in Commands |-> NotStarted]
  /\ applied = {}
  /\ draft = <<>>
  /\ reports = <<>>
  /\ repeat = 0
  /\ corrections = 0

Committed == zones \cup DOMAIN places
Holds(c) == CodesOf(job[c].wrote)

Running == {c \in Commands : job[c].pc \notin {"start", "done"}}
Starts(c) == job[c].pc = "start" /\ Cardinality(Running) < MaxRunning

Ends(c) == job' = [job EXCEPT ![c] = Ended] /\ UNCHANGED <<zones, places, applied, filing>>
Moves(c, pc, changes) ==
  /\ job' = [job EXCEPT ![c] = [changes EXCEPT !.pc = pc]]
  /\ UNCHANGED <<zones, places, applied, filing>>

\* The whole of both files is validated before anything is read or written.
Validate(c) ==
  /\ c \notin Seeds
  /\ Starts(c)
  /\ parse_zones(FileOf[c].zones) /\ parse_locations(FileOf[c].places)
  /\ Moves(c, "validated", job[c])

RejectFile(c) ==
  /\ c \notin Seeds
  /\ Starts(c)
  /\ ~(parse_zones(FileOf[c].zones) /\ parse_locations(FileOf[c].places))
  /\ Ends(c)

ReadZones(c) ==
  /\ job[c].pc = "validated"
  /\ Moves(c, "zones", [job[c] EXCEPT !.have = zones])

NamedZones(c) == {FileOf[c].places[n].zone : n \in DOMAIN FileOf[c].places} \ {NoZone}
Unresolved(c) == NamedZones(c) \ (CodesOf(FileOf[c].zones) \cup job[c].have)

\* What a command is to bring, its zones first.
RowsOf == [c \in Commands |->
  IF c \in Seeds THEN <<[code |-> DemoZone]>> \o DemoPlaces
  ELSE [n \in DOMAIN FileOf[c].zones |-> [code |-> FileOf[c].zones[n].code]]
         \o [n \in DOMAIN FileOf[c].places |-> Imported(FileOf[c].places[n])]]

ReadPlaces(c) ==
  /\ job[c].pc = "zones"
  /\ Unresolved(c) = {} /\ c \notin DryRuns
  /\ ~(CodesOf(RowsOf[c]) \subseteq job[c].have \cup DOMAIN places)
  /\ Moves(c, "writing", [job[c] EXCEPT !.have = (@ \cup DOMAIN places) \cap CodesOf(RowsOf[c])])

NothingToWrite(c) ==
  /\ job[c].pc = "zones"
  /\ \/ Unresolved(c) # {} \/ c \in DryRuns
     \/ CodesOf(RowsOf[c]) \subseteq job[c].have \cup DOMAIN places
  /\ Ends(c)

BeginSeed(c) ==
  /\ c \in Seeds
  /\ Starts(c)
  /\ c \notin ProductionNamed
  /\ Moves(c, "writing", job[c])

RefuseSeed(c) == c \in Seeds /\ Starts(c) /\ c \in ProductionNamed /\ Ends(c)

\* The rows still to be inserted, in their order: those whose code was neither
\* found nor dealt with.
Left(c) == {n \in DOMAIN RowsOf[c] : RowsOf[c][n].code \notin job[c].have}
Writing(c) == job[c].pc = "writing" /\ Left(c) # {}
Row(c) == RowsOf[c][CHOOSE n \in Left(c) : \A m \in Left(c) : n <= m]
SkipsRow(c) == [job[c] EXCEPT !.have = @ \cup {Row(c).code}]

\* The seed's SELECT before each location.
Look(c) ==
  /\ c \in Seeds
  /\ Writing(c) /\ Row(c).code \in PlaceCodes /\ ~job[c].looked
  /\ Moves(c, "writing", IF Row(c).code \in DOMAIN places THEN SkipsRow(c)
                         ELSE [job[c] EXCEPT !.looked = TRUE])

Inserts(c) == Writing(c) /\ (c \in Seeds /\ Row(c).code \in PlaceCodes => job[c].looked)

\* An INSERT waits for the transaction that holds its code.
WaitsFor(c, d) == d # c /\ Inserts(c) /\ Row(c).code \in Holds(d)
Waits(c) == \E d \in Commands : WaitsFor(c, d)

\* The zone's id by its code, among the committed zones and the command's own.
ZoneSeen(c, zone) == IF zone \in zones \cup Holds(c) THEN zone ELSE NoZone

InsertRow(c) ==
  /\ Inserts(c) /\ ~Waits(c)
  /\ Row(c).code \notin Committed
  /\ LET row == IF Row(c).code \in PlaceCodes
                THEN [Row(c) EXCEPT !.zone = ZoneSeen(c, @)] ELSE Row(c)
     IN Moves(c, "writing", [SkipsRow(c) EXCEPT !.wrote = Append(@, row), !.looked = FALSE])

\* ON CONFLICT (code) DO NOTHING, for the demo zone.
ConflictIgnored(c) ==
  /\ Inserts(c) /\ ~Waits(c)
  /\ c \in Seeds /\ Row(c).code \in zones
  /\ Moves(c, "writing", SkipsRow(c))

\* Mutant: what was inserted before the failure stays.
LeavesRows(c) == job[c].wrote

\* What a transaction that does not commit leaves behind.
LeftBehind(c) == <<>>

Stores(rows) ==
  LET new == {n \in DOMAIN rows : rows[n].code \in PlaceCodes}
      row == [code \in {rows[n].code : n \in new} |->
                rows[CHOOSE n \in new : rows[n].code = code]]
  IN /\ places' = [code \in DOMAIN places \cup DOMAIN row |->
                     IF code \in DOMAIN row THEN row[code] ELSE places[code]]
     /\ zones' = zones \cup (CodesOf(rows) \ PlaceCodes)

Aborts(c) ==
  /\ job' = [job EXCEPT ![c] = Ended]
  /\ Stores(LeftBehind(c))
  /\ UNCHANGED <<applied, filing>>

\* The code was committed by another since it was looked for.
UniqueViolation(c) ==
  /\ Inserts(c) /\ ~Waits(c)
  /\ Row(c).code \in Committed
  /\ c \in Seeds => Row(c).code \in PlaceCodes
  /\ Aborts(c)

\* Two commands that wait for each other: the database ends one.
DeadlockVictim(c) == (\E d \in Commands : WaitsFor(c, d) /\ WaitsFor(d, c)) /\ Aborts(c)

CommitRows(c) ==
  /\ job[c].pc = "writing" /\ Left(c) = {}
  /\ job' = [job EXCEPT ![c] = Ended]
  /\ Stores(job[c].wrote)
  /\ applied' = applied \cup {c}
  /\ UNCHANGED filing

Crash(c) == job[c].pc \in {"validated", "zones", "writing"} /\ Aborts(c)

-----------------------------------------------------------------------------
(* Filing: the location a report is anchored to, and the verdict beside it *)

\* (0, 0) is what a device writes when it has no fix.
NullIsland == 0

\* A photograph's position; usable stands for a GPS block with hemispheres, three
\* finite rationals each, minutes and seconds under sixty and degrees in range.
extract_photo_location(photo) ==
  IF photo.usable /\ photo.at # NullIsland THEN photo.at ELSE NoPoint

NoSignal == [source |-> "location_default", at |-> NoPoint]
Signal(source, at) == IF at = NoPoint THEN NoSignal ELSE [source |-> source, at |-> at]

Metres(a, b) == IF a <= b THEN b - a ELSE a - b

\* Active, or provisionally mapped with a point.
Offered(row) == row.active \/ (row.status = "provisional" /\ row.at # NoPoint)
list_active == {code \in DOMAIN places : Offered(places[code])}

Near(at) ==
  {code \in list_active : /\ places[code].at # NoPoint
                          /\ Metres(at, places[code].at) <= EMERGENCY_MATCH_RADIUS_M}

\* The nearest candidates; of several at one distance the first by name is taken.
nearest_verified_location(at) ==
  {code \in Near(at) : \A other \in Near(at) :
     Metres(at, places[code].at) <= Metres(at, places[other].at)}

\* A filing names a location or, for an SOS, none; its photograph or its device
\* may carry a position.
Anchors(f) ==
  IF f.kind = "report" THEN {f.place} \cap list_active
  ELSE IF f.device = NoPoint \/ Near(f.device) = {} THEN {Sentinel}
  ELSE nearest_verified_location(f.device)

SignalOf(f) == IF f.kind = "report" THEN Signal("photo_exif", extract_photo_location(f.photo))
               ELSE Signal("device_gps", f.device)

\* A provisional coordinate is nobody's surveyed point.
Surveyed(row) == row.status = "verified" /\ row.at # NoPoint

Verdict(resolution, signal) ==
  [resolution |-> resolution, source |-> signal.source, at |-> signal.at]

resolve(row, signal) ==
  IF ~Surveyed(row)
  THEN Verdict("unresolved", IF signal.source = "device_gps" THEN signal ELSE NoSignal)
  ELSE IF signal = NoSignal THEN Verdict("approximate", NoSignal)
  ELSE IF Metres(signal.at, row.at) <= CORROBORATION_RADIUS_M THEN Verdict("corroborated", signal)
  ELSE Verdict("conflicting", signal)

Load(f) ==
  /\ draft = <<>>
  /\ Len(reports) < MaxReports
  /\ \E code \in Anchors(f) : draft' = <<[sent |-> f, row |-> places[code]]>>
  /\ UNCHANGED <<zones, places, job, applied, reports, repeat, corrections>>

File ==
  /\ draft # <<>>
  /\ reports' = Append(reports, [sent |-> draft[1].sent, place |-> draft[1].row.code,
                                 detail |-> resolve(draft[1].row, SignalOf(draft[1].sent))])
  /\ draft' = <<>>
  /\ UNCHANGED <<zones, places, job, applied, repeat, corrections>>

\* A press within EMERGENCY_DEDUP_WINDOW of its own is answered with that report: nothing
\* is stored and the new position is dropped.  Whether a press is one is left open here
\* (ReportSubmission has the clock).
Repeat(f) ==
  /\ f.kind = "sos"
  /\ draft = <<>>
  /\ \E n \in DOMAIN reports :
       /\ reports[n].sent.kind = "sos"
       /\ repeat' = n
  /\ UNCHANGED <<zones, places, job, applied, draft, reports, corrections>>

\* A surveyor writes a point by hand, or takes a location back to a placeholder.
Correct(code, at) ==
  /\ corrections < MaxCorrections
  /\ code \in DOMAIN places \ {Sentinel}
  /\ corrections' = corrections + 1
  /\ places' = [places EXCEPT ![code] =
                  [@ EXCEPT !.at = at, !.sourced = TRUE, !.active = at # NoPoint,
                            !.status = IF at = NoPoint THEN "required" ELSE "verified"]]
  /\ UNCHANGED <<zones, job, applied, draft, reports, repeat>>

-----------------------------------------------------------------------------
(* Where a responder who opens the incident is sent                        *)

\* Mutant: any stored signal is a position to go to.
SendsToSignal(r) ==
  IF r.detail.at # NoPoint
  THEN [at |-> r.detail.at, gps |-> TRUE, synthetic |-> FALSE]
  ELSE [at |-> IF Surveyed(places[r.place]) THEN places[r.place].at ELSE NoPoint,
        gps |-> FALSE, synthetic |-> places[r.place].synthetic]

destination_for(r) ==
  IF r.detail.source = "device_gps" /\ r.detail.at # NoPoint
  THEN [at |-> r.detail.at, gps |-> TRUE, synthetic |-> FALSE]
  ELSE [at |-> IF Surveyed(places[r.place]) THEN places[r.place].at ELSE NoPoint,
        gps |-> FALSE, synthetic |-> places[r.place].synthetic]

-----------------------------------------------------------------------------
Step(c) ==
  \/ Validate(c) \/ RejectFile(c) \/ ReadZones(c) \/ ReadPlaces(c) \/ NothingToWrite(c)
  \/ BeginSeed(c) \/ RefuseSeed(c) \/ Look(c) \/ InsertRow(c) \/ ConflictIgnored(c)
  \/ UniqueViolation(c) \/ DeadlockVictim(c) \/ CommitRows(c)

\* Every command has ended and nothing is being filed.
Rest == (\A c \in Commands : job[c].pc = "done") /\ draft = <<>> /\ UNCHANGED vars

Next ==
  \/ \E c \in Commands : Step(c) \/ Crash(c)
  \/ \E f \in Filings : Load(f) \/ Repeat(f)
  \/ File
  \/ \E x \in Corrections : Correct(x[1], x[2])
  \/ Rest

Spec == Init /\ [][Next]_vars

-----------------------------------------------------------------------------
\* Every variable has its type, and neither a row an import is about to insert nor a
\* verdict about to be stored would be refused by a CHECK: what parse_locations lets
\* through and what resolve answers never fails half way into a transaction.
TypeOK ==
  /\ zones \subseteq ZoneCodes
  /\ \A code \in DOMAIN places : /\ code \in PlaceCodes /\ places[code] \in PlaceRow
                                 /\ places[code].code = code /\ LocationChecks(places[code])
  /\ \A c \in Commands :
       job[c].pc = "writing" =>
         \A n \in DOMAIN RowsOf[c] : RowsOf[c][n].code \in PlaceCodes => LocationChecks(RowsOf[c][n])
  /\ \A n \in DOMAIN reports : DetailChecks(reports[n].detail)

\* The locations and the zones of a command's file.
Brings(c) == IF c \in Seeds THEN DemoPlaces ELSE FileOf[c].places
BringsZones(c) == IF c \in Seeds THEN {DemoZone} ELSE CodesOf(FileOf[c].zones)

\* An import or a seed is applied whole or not at all: a location is in the database
\* because it was there at the start or because a command that committed brought it, in
\* the zone its file names; and a command that committed finds every location and zone of its
\* file there, whoever wrote the same codes beside it, whatever crashed, collided or locked.
ImportIsWhole ==
  /\ \A code \in DOMAIN places \ DOMAIN FirstPlaces :
       \E c \in applied : \E n \in DOMAIN Brings(c) :
         Brings(c)[n].code = code /\ Brings(c)[n].zone = places[code].zone
  /\ \A c \in applied : /\ CodesOf(Brings(c)) \subseteq DOMAIN places
                         /\ BringsZones(c) \subseteq zones
  /\ zones \subseteq UNION {BringsZones(c) : c \in applied}

\* A responder is sent to the position an SOS's device gave with the press that filed it,
\* whatever a repeated press gave, or
\* else to the surveyed point, as it stands now, of the location the reporter chose:
\* never to where a photograph was taken or to a point nobody stood at, and never to a
\* demo location that does not say so (destination_for).
SentWhereAsked ==
  \A n \in DOMAIN reports :
    LET r == reports[n]
        d == destination_for(r)
    IN IF r.sent.kind = "sos" /\ r.sent.device # NoPoint
       THEN d.gps /\ d.at = r.sent.device
       ELSE /\ ~d.gps
            /\ r.place = IF r.sent.kind = "sos" THEN Sentinel ELSE r.sent.place
            /\ d.at # NoPoint => places[r.place].status = "verified" /\ d.at = places[r.place].at
            /\ d.synthetic <=> r.place \in DemoCodes
=============================================================================

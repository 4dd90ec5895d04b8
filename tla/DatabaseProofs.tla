---------------------------- MODULE DatabaseProofs ----------------------------
(***************************************************************************)
(* Theorems about what the database promises: SchemaDatabase, for any rows *)
(* of any tables, any deletions and any alembic commands; and CampusMap,   *)
(* for any files, commands, filings and corrections.                       *)
(***************************************************************************)
EXTENDS SchemaDatabase, CampusMap, WellFoundedInduction, NaturalsInduction, TLAPS

-----------------------------------------------------------------------------
(* The catalogue                                                           *)

Members(s) == {s[i] : i \in DOMAIN s}
IsSeq(s) == s \in Seq(Members(s))

LEMMA Joined ==
  ASSUME NEW s, NEW t, IsSeq(s), IsSeq(t)
  PROVE  IsSeq(s \o t) /\ Members(s \o t) = Members(s) \cup Members(t)
<1>1. PICK S : S = Members(s) \cup Members(t)
  OBVIOUS
<1>2. s \in Seq(S) /\ t \in Seq(S)
  <2>1. PICK A, B : A = Members(s) /\ B = Members(t)
    OBVIOUS
  <2>2. s \in Seq(A) /\ t \in Seq(B) /\ A \subseteq S /\ B \subseteq S
    BY <1>1, <2>1 DEF IsSeq
  <2> QED
    BY <2>2
<1>3. PICK m \in Nat, n \in Nat : m = Len(s) /\ n = Len(t)
  BY <1>2
<1>4. PICK u : u = s \o t
  OBVIOUS
<1>5. u \in Seq(S) /\ Len(u) = m + n
  BY <1>2, <1>3, <1>4
<1>6. DOMAIN u = 1 .. m + n /\ DOMAIN s = 1 .. m /\ DOMAIN t = 1 .. n
  BY <1>2, <1>3, <1>5
<1>7. (\A i \in 1 .. m : u[i] = s[i]) /\ (\A i \in 1 .. n : u[i + m] = t[i])
  BY <1>2, <1>3, <1>4
<1>8. (\A i \in 1 .. m : i \in 1 .. m + n) /\ (\A i \in 1 .. n : i + m \in 1 .. m + n)
  OBVIOUS
<1>9. ASSUME NEW x \in S
      PROVE  x \in Members(u)
  BY <1>1, <1>6, <1>7, <1>8 DEF Members
<1>10. Members(u) = S
  BY <1>5, <1>9 DEF Members
<1>11. IsSeq(u)
  BY <1>5, <1>10 DEF IsSeq
<1> QED
  BY <1>1, <1>4, <1>10, <1>11

\* The tables of 0001, whatever their order.
LEMMA TheTables ==
  Members(TABLES) = Members(PeopleAndPlaces) \cup Members(CategoriesAndClusters)
    \cup Members(ReportTable) \cup Members(ReportFragments) \cup Members(LinksAndScores)
    \cup Members(CaseTables) \cup Members(EvidenceTable) \cup Members(MlTables)
    \cup Members(HotspotsAndInterventions) \cup Members(ImpactTables) \cup Members(NotifyTables)
    \cup Members(AuditTables)
<1>1. IsSeq(PeopleAndPlaces)
  BY DEF PeopleAndPlaces, IsSeq, Members
<1>2. IsSeq(CategoriesAndClusters)
  BY DEF CategoriesAndClusters, IsSeq, Members
<1>3. IsSeq(ReportTable)
  BY DEF ReportTable, IsSeq, Members
<1>4. IsSeq(ReportFragments)
  BY DEF ReportFragments, IsSeq, Members
<1>5. IsSeq(LinksAndScores)
  BY DEF LinksAndScores, IsSeq, Members
<1>6. IsSeq(CaseTables)
  BY DEF CaseTables, IsSeq, Members
<1>7. IsSeq(EvidenceTable)
  BY DEF EvidenceTable, IsSeq, Members
<1>8. IsSeq(MlTables)
  BY DEF MlTables, IsSeq, Members
<1>9. IsSeq(HotspotsAndInterventions)
  BY DEF HotspotsAndInterventions, IsSeq, Members
<1>10. IsSeq(ImpactTables)
  BY DEF ImpactTables, IsSeq, Members
<1>11. IsSeq(NotifyTables)
  BY DEF NotifyTables, IsSeq, Members
<1>12. IsSeq(AuditTables)
  BY DEF AuditTables, IsSeq, Members
<1>13. PICK s2 : s2 = PeopleAndPlaces \o CategoriesAndClusters
  OBVIOUS
<1>14. IsSeq(s2) /\ Members(s2) = Members(PeopleAndPlaces) \cup Members(CategoriesAndClusters)
  BY <1>1, <1>2, <1>13, Joined
<1>15. PICK s3 : s3 = s2 \o ReportTable
  OBVIOUS
<1>16. IsSeq(s3) /\ Members(s3) = Members(s2) \cup Members(ReportTable)
  BY <1>14, <1>3, <1>15, Joined
<1>17. PICK s4 : s4 = s3 \o ReportFragments
  OBVIOUS
<1>18. IsSeq(s4) /\ Members(s4) = Members(s3) \cup Members(ReportFragments)
  BY <1>16, <1>4, <1>17, Joined
<1>19. PICK s5 : s5 = s4 \o LinksAndScores
  OBVIOUS
<1>20. IsSeq(s5) /\ Members(s5) = Members(s4) \cup Members(LinksAndScores)
  BY <1>18, <1>5, <1>19, Joined
<1>21. PICK s6 : s6 = s5 \o CaseTables
  OBVIOUS
<1>22. IsSeq(s6) /\ Members(s6) = Members(s5) \cup Members(CaseTables)
  BY <1>20, <1>6, <1>21, Joined
<1>23. PICK s7 : s7 = s6 \o EvidenceTable
  OBVIOUS
<1>24. IsSeq(s7) /\ Members(s7) = Members(s6) \cup Members(EvidenceTable)
  BY <1>22, <1>7, <1>23, Joined
<1>25. PICK s8 : s8 = s7 \o MlTables
  OBVIOUS
<1>26. IsSeq(s8) /\ Members(s8) = Members(s7) \cup Members(MlTables)
  BY <1>24, <1>8, <1>25, Joined
<1>27. PICK s9 : s9 = s8 \o HotspotsAndInterventions
  OBVIOUS
<1>28. IsSeq(s9) /\ Members(s9) = Members(s8) \cup Members(HotspotsAndInterventions)
  BY <1>26, <1>9, <1>27, Joined
<1>29. PICK s10 : s10 = s9 \o ImpactTables
  OBVIOUS
<1>30. IsSeq(s10) /\ Members(s10) = Members(s9) \cup Members(ImpactTables)
  BY <1>28, <1>10, <1>29, Joined
<1>31. PICK s11 : s11 = s10 \o NotifyTables
  OBVIOUS
<1>32. IsSeq(s11) /\ Members(s11) = Members(s10) \cup Members(NotifyTables)
  BY <1>30, <1>11, <1>31, Joined
<1>33. PICK s12 : s12 = s11 \o AuditTables
  OBVIOUS
<1>34. IsSeq(s12) /\ Members(s12) = Members(s11) \cup Members(AuditTables)
  BY <1>32, <1>12, <1>33, Joined
<1>35. TABLES = s12
  BY <1>13, <1>15, <1>17, <1>19, <1>21, <1>23, <1>25, <1>27, <1>29, <1>31, <1>33 DEF TABLES
<1> QED
  BY <1>14, <1>16, <1>18, <1>20, <1>22, <1>24, <1>26, <1>28, <1>30, <1>32, <1>34, <1>35

\* What 0002 to 0008 add.
Later == Upgrade0002 \cup Upgrade0003 \cup Upgrade0004 \cup Upgrade0005 \cup Upgrade0006
           \cup Upgrade0008

\* What the rules below rest on: SET NULL is for nullable columns, a column has one
\* target, which 0001 creates; a log or sentinel row is nobody's part; and an
\* attribution and a line of the history are parts of a report.
Regular(t) ==
  /\ \A c \in t.refs :
       /\ c.onDelete \in {"cascade", "restrict", "null"}
       /\ c.onDelete = "null" => c.nullable
       /\ c.target \notin Later
       /\ \A d \in t.refs : d.column = c.column => d = c
       /\ t.name \in AppendOnly \cup {"campus_location", "report_category"} =>
            c.onDelete # "cascade" /\ c.nullable
       /\ t.name \in {"report_attribution", "case_status_history"} /\ c.column = "report_id" =>
            c.target = "report" /\ ~c.nullable
  /\ t.name \in {"report_attribution", "case_status_history"} => OfReport \in t.refs

LEMMA NamesAreEarly ==
  \A name \in
     {"app_user", "system_policy", "campus_zone", "campus_location", "authority_profile",
      "report_category", "model_version", "report_cluster", "report", "report_narrative",
      "report_attribution", "submission_quota", "report_access_token", "emergency_dispatch",
      "cluster_member", "report_link", "risk_assessment", "case_assignment",
      "case_status_history", "evidence_object", "report_classification", "report_embedding",
      "annotation", "evaluation_run", "hotspot", "intervention", "intervention_report_link",
      "impact_measurement", "intervention_outcome", "broadcast_alert", "notification",
      "device_token", "access_log", "identity_disclosure_log"} :
    name \notin Later
BY DEF Later, Upgrade0002, Upgrade0003, Upgrade0004, Upgrade0005, Upgrade0006, Upgrade0008

LEMMA Fields ==
  /\ \A column, target, onDelete :
       LET c == Must(column, target, onDelete)
       IN  c.column = column /\ c.target = target /\ c.onDelete = onDelete /\ ~c.nullable
  /\ \A column, target, onDelete :
       LET c == May(column, target, onDelete)
       IN  c.column = column /\ c.target = target /\ c.onDelete = onDelete /\ c.nullable
  /\ \A name, refs : Table(name, refs).name = name /\ Table(name, refs).refs = refs
BY DEF Must, May, Table

LEMMA TablesAreRegular ==
  /\ \A t \in AllTables : Regular(t)
  /\ \A t \in Members(TABLES) : t.name \notin Later
<1>1. \A t \in Members(PeopleAndPlaces) : Regular(t) /\ t.name \notin Later
  BY Fields, NamesAreEarly DEF PeopleAndPlaces, Members, Regular, OfReport, AppendOnly
<1>2. \A t \in Members(CategoriesAndClusters) : Regular(t) /\ t.name \notin Later
  BY Fields, NamesAreEarly DEF CategoriesAndClusters, Members, Regular, OfReport, AppendOnly
<1>3. \A t \in Members(ReportTable) : Regular(t) /\ t.name \notin Later
  BY Fields, NamesAreEarly DEF ReportTable, Members, Regular, OfReport, AppendOnly
<1>4. \A t \in Members(ReportFragments) : Regular(t) /\ t.name \notin Later
  BY Fields, NamesAreEarly DEF ReportFragments, Members, Regular, OfReport, AppendOnly
<1>5. \A t \in Members(LinksAndScores) : Regular(t) /\ t.name \notin Later
  BY Fields, NamesAreEarly DEF LinksAndScores, Members, Regular, OfReport, AppendOnly
<1>6. \A t \in Members(CaseTables) : Regular(t) /\ t.name \notin Later
  BY Fields, NamesAreEarly DEF CaseTables, Members, Regular, OfReport, AppendOnly
<1>7. \A t \in Members(EvidenceTable) : Regular(t) /\ t.name \notin Later
  BY Fields, NamesAreEarly DEF EvidenceTable, Members, Regular, OfReport, AppendOnly
<1>8. \A t \in Members(MlTables) : Regular(t) /\ t.name \notin Later
  BY Fields, NamesAreEarly DEF MlTables, Members, Regular, OfReport, AppendOnly
<1>9. \A t \in Members(HotspotsAndInterventions) : Regular(t) /\ t.name \notin Later
  BY Fields, NamesAreEarly DEF HotspotsAndInterventions, Members, Regular, OfReport, AppendOnly
<1>10. \A t \in Members(ImpactTables) : Regular(t) /\ t.name \notin Later
  BY Fields, NamesAreEarly DEF ImpactTables, Members, Regular, OfReport, AppendOnly
<1>11. \A t \in Members(NotifyTables) : Regular(t) /\ t.name \notin Later
  BY Fields, NamesAreEarly DEF NotifyTables, Members, Regular, OfReport, AppendOnly
<1>12. \A t \in Members(AuditTables) : Regular(t) /\ t.name \notin Later
  BY Fields, NamesAreEarly DEF AuditTables, Members, Regular, OfReport, AppendOnly
<1>13. Regular(LocationDetail)
  BY Fields, NamesAreEarly DEF LocationDetail, Regular, OfReport, AppendOnly
<1>14. \A t \in Members(TABLES) : Regular(t) /\ t.name \notin Later
  BY TheTables, <1>1, <1>2, <1>3, <1>4, <1>5, <1>6, <1>7, <1>8, <1>9, <1>10, <1>11, <1>12
<1> QED
  BY <1>13, <1>14 DEF AllTables, Members


LEMMA RefsAreRegular ==
  ASSUME NEW name \in TableNames
  PROVE  \E t \in AllTables : t.name = name /\ RefsOf[name] = t.refs /\ Regular(t)
<1>1. PICK t : t = CHOOSE x \in AllTables : x.name = name
  OBVIOUS
<1>2. t \in AllTables /\ t.name = name
  BY <1>1 DEF TableNames
<1>3. RefsOf[name] = t.refs
  BY <1>1 DEF RefsOf
<1> QED
  BY <1>2, <1>3, TablesAreRegular

-----------------------------------------------------------------------------
(* The objects of a version                                                *)

LEMMA LaterIsNew == Later \cap Upgrade0001 = {}
<1>1. Later \cap PolicySeed = {}
  BY DEF Later, PolicySeed, Upgrade0002, Upgrade0003, Upgrade0004, Upgrade0005, Upgrade0006, Upgrade0008
<1>2. Later \cap TypesOf1 = {}
  BY DEF Later, TypesOf1, Upgrade0002, Upgrade0003, Upgrade0004, Upgrade0005, Upgrade0006, Upgrade0008
<1>3. Later \cap {TABLES[i].name : i \in DOMAIN TABLES} = {}
  BY TablesAreRegular DEF Members
<1> QED
  BY <1>1, <1>2, <1>3 DEF Upgrade0001

LEMMA LaterIsSplit ==
  /\ Upgrade0003 \cap Upgrade0002 = {}
  /\ Upgrade0004 \cap (Upgrade0002 \cup Upgrade0003) = {}
  /\ Upgrade0005 \cap (Upgrade0002 \cup Upgrade0003 \cup Upgrade0004) = {}
  /\ Upgrade0006 \cap (Upgrade0002 \cup Upgrade0003 \cup Upgrade0004 \cup Upgrade0005) = {}
  /\ Upgrade0008 \cap (Upgrade0002 \cup Upgrade0003 \cup Upgrade0004 \cup Upgrade0005 \cup Upgrade0006) = {}
BY DEF Upgrade0002, Upgrade0003, Upgrade0004, Upgrade0005, Upgrade0006, Upgrade0008

LEMMA ObjectsGrow ==
  /\ ObjectsAt(0) = {}
  /\ \A v \in Versions : ObjectsAt(v) = ObjectsAt(v - 1) \cup Adds(v)
<1>1. ObjectsAt(0) = {}
  BY DEF ObjectsAt
<1>2. ASSUME NEW v \in Versions
      PROVE  ObjectsAt(v) = ObjectsAt(v - 1) \cup Adds(v)
  <2>1. 1 .. v = (1 .. v - 1) \cup {v}
    BY DEF Versions
  <2> QED
    BY <2>1 DEF ObjectsAt
<1> QED
  BY <1>1, <1>2

LEMMA AddsAreNew ==
  ASSUME NEW v \in Versions
  PROVE  /\ Adds(v) \cap ObjectsAt(v - 1) = {}
         /\ v # 1 => Adds(v) \subseteq Later
<1>1. ASSUME NEW i \in 1 .. v - 1
      PROVE  Adds(v) \cap Adds(i) = {}
  BY LaterIsNew, LaterIsSplit DEF Versions, Adds, Later
<1>2. v # 1 => Adds(v) \subseteq Later
  BY DEF Versions, Adds, Later
<1> QED
  BY <1>1, <1>2 DEF ObjectsAt

\* A downgrade takes away what its migration added and nothing else.
LEMMA DropsUndo ==
  ASSUME NEW v \in Versions
  PROVE  /\ ObjectsAt(v) \ Drops(v, ObjectsAt(v)) = ObjectsAt(v - 1)
         /\ v # 1 => Drops(v, ObjectsAt(v)) \subseteq Later
<1>1. CASE v = 1
  <2>1. ObjectsAt(1) = Upgrade0001 /\ ObjectsAt(0) = {}
    <3>1. ObjectsAt(1) = ObjectsAt(0) \cup Adds(1)
      BY ObjectsGrow DEF Versions
    <3> QED
      BY <3>1, ObjectsGrow DEF Adds
  <2>2. PublicTypes \subseteq TypesOf1 \cup Later
    BY DEF PublicTypes, Later, Upgrade0003, Upgrade0004
  <2>3. Drops(1, Upgrade0001) = Downgrade0001(Upgrade0001)
    BY DEF Drops
  <2>4. Upgrade0001 \ Downgrade0001(Upgrade0001) = {}
    BY <2>2, LaterIsNew DEF Downgrade0001
  <2> QED
    BY <1>1, <2>1, <2>3, <2>4
<1>2. CASE v # 1
  <2>1. Drops(v, ObjectsAt(v)) = Adds(v)
    <3>1. /\ Downgrade0002 = Upgrade0002 /\ Downgrade0003 = Upgrade0003 /\ Downgrade0004 = Upgrade0004
          /\ Downgrade0005 = Upgrade0005 /\ Downgrade0006 = Upgrade0006 /\ Downgrade0008 = Upgrade0008
      BY DEF Upgrade0002, Upgrade0003, Upgrade0004, Upgrade0005, Upgrade0006, Upgrade0008,
         Downgrade0002, Downgrade0003, Downgrade0004, Downgrade0005, Downgrade0006, Downgrade0008
    <3> QED
      BY <1>2, <3>1 DEF Drops, Adds, Versions
  <2> QED
    BY <1>2, <2>1, AddsAreNew, ObjectsGrow
<1> QED
  BY <1>1, <1>2

-----------------------------------------------------------------------------
(* The rows                                                                *)

LEMMA ColumnRules ==
  ASSUME NEW r \in Rows, NEW c \in ColumnsOf[r]
  PROVE  /\ c.column \in ColumnNames[r]
         /\ c.onDelete \in {"cascade", "restrict", "null"}
         /\ c.onDelete = "null" => c.nullable
         /\ c.target \notin Later
         /\ \A d \in ColumnsOf[r] : d.column = c.column => d = c
         /\ TableOf[r] \in AppendOnly \cup {"campus_location", "report_category"} =>
              c.onDelete # "cascade" /\ c.nullable
         /\ TableOf[r] \in {"report_attribution", "case_status_history"} /\ c.column = "report_id" =>
              c.target = "report" /\ ~c.nullable
         /\ c.onDelete = "cascade" => [table |-> TableOf[r], target |-> c.target] \in Cascades
<1>1. TableOf[r] \in TableNames
  BY RowsAssumption DEF RowsAssumption
<1>2. PICK t \in AllTables : t.name = TableOf[r] /\ RefsOf[TableOf[r]] = t.refs /\ Regular(t)
  BY <1>1, RefsAreRegular
<1>3. ColumnsOf[r] \subseteq t.refs
  BY <1>2 DEF ColumnsOf
<1>4. c.column \in ColumnNames[r]
  BY DEF ColumnNames
<1>5. c.onDelete = "cascade" => [table |-> TableOf[r], target |-> c.target] \in Cascades
  BY <1>2, <1>3 DEF Cascades
<1> QED
  BY <1>2, <1>3, <1>4, <1>5 DEF Regular

LEMMA PartsOfReports ==
  ASSUME NEW r \in Rows, TableOf[r] \in {"report_attribution", "case_status_history"}
  PROVE  OfReport \in ColumnsOf[r] /\ OfReport.column = "report_id"
<1>1. TableOf[r] \in TableNames
  BY RowsAssumption DEF RowsAssumption
<1>2. OfReport \in RefsOf[TableOf[r]]
  BY <1>1, RefsAreRegular DEF Regular
<1>3. OfReport.target = "report" /\ OfReport.column = "report_id"
  BY Fields DEF OfReport
<1>4. RowsIn("report") # {}
  BY RowsAssumption DEF RowsAssumption, RowsIn
<1> QED
  BY <1>2, <1>3, <1>4 DEF ColumnsOf

\* A database at some version: the record it is, and its rows in their tables.
Placed(d) ==
  /\ d = [version |-> d.version, objects |-> d.objects, refs |-> d.refs,
          contactable |-> d.contactable, reasons |-> d.reasons, flagged |-> d.flagged]
  /\ d.version \in 0 .. 8 /\ d.objects = ObjectsAt(d.version)
  /\ DOMAIN d.refs \subseteq Rows
  /\ \A r \in DOMAIN d.refs :
       TableOf[r] \in d.objects /\ d.refs[r] \in [ColumnNames[r] -> Rows \cup {Null}]
  /\ d.contactable \cup d.reasons \cup d.flagged \subseteq DOMAIN d.refs

Resolved(d) ==
  \A r \in DOMAIN d.refs : \A c \in ColumnsOf[r] :
    \/ d.refs[r][c.column] \in DOMAIN d.refs /\ TableOf[d.refs[r][c.column]] = c.target
    \/ c.nullable /\ d.refs[r][c.column] = Null

Attributed(d) ==
  /\ \A r \in DOMAIN d.refs :
       TableOf[r] = "report_attribution" => d.refs[r]["report_id"] \notin Anonymous
  /\ \A report \in d.contactable :
       \E r \in DOMAIN d.refs :
         TableOf[r] = "report_attribution" /\ d.refs[r]["report_id"] = report

Migrated(d) ==
  /\ d.version >= 4 => Closing \cap DOMAIN d.refs \subseteq d.reasons
  /\ d.version >= 7 => Sentinels \subseteq DOMAIN d.refs

Sound(d) == Placed(d) /\ Resolved(d) /\ Attributed(d) /\ Migrated(d)

LEMMA ReportIsThere ==
  ASSUME NEW d, Sound(d), NEW r \in DOMAIN d.refs,
         TableOf[r] \in {"report_attribution", "case_status_history"}
  PROVE  /\ d.refs[r]["report_id"] \in DOMAIN d.refs
         /\ TableOf[d.refs[r]["report_id"]] = "report"
<1>1. r \in Rows
  BY DEF Sound, Placed
<1>2. OfReport \in ColumnsOf[r] /\ OfReport.column = "report_id"
  BY <1>1, PartsOfReports
<1>3. OfReport.target = "report" /\ ~OfReport.nullable
  BY <1>1, <1>2, ColumnRules
<1> QED
  BY <1>2, <1>3 DEF Sound, Resolved

LEMMA SentinelRules ==
  ASSUME NEW s \in Sentinels
  PROVE  /\ s \in Rows
         /\ TableOf[s] \in {"campus_location", "report_category"}
         /\ TableOf[s] \notin Erasable
         /\ s \notin Closing
<1>1. s \in Rows /\ TableOf[s] = SentinelTable[s] /\ SentinelTable[s] \notin Erasable
  BY RowsAssumption DEF RowsAssumption
<1>2. SentinelTable[s] \in {"campus_location", "report_category"}
  BY DEF SentinelTable
<1>3. s \notin Closing
  BY <1>1, <1>2, RowsAssumption DEF RowsAssumption
<1> QED
  BY <1>1, <1>2, <1>3

LEMMA SoundDb ==
  ASSUME NEW d, Sound(d), NEW refs, NEW contactable, NEW reasons, NEW flagged, NEW e,
         e = [version |-> d.version, objects |-> d.objects, refs |-> refs,
              contactable |-> contactable, reasons |-> reasons, flagged |-> flagged],
         DOMAIN refs \subseteq Rows,
         contactable \cup reasons \cup flagged \subseteq DOMAIN refs,
         \A r \in DOMAIN refs :
           TableOf[r] \in d.objects /\ refs[r] \in [ColumnNames[r] -> Rows \cup {Null}]
  PROVE  /\ Placed(e) /\ e.version = d.version /\ e.objects = d.objects /\ e.refs = refs
         /\ e.contactable = contactable /\ e.reasons = reasons
<1>1. /\ e.version = d.version /\ e.objects = d.objects /\ e.refs = refs
      /\ e.contactable = contactable /\ e.reasons = reasons /\ e.flagged = flagged
  OBVIOUS
<1> QED
  BY <1>1 DEF Sound, Placed

LEMMA ReasonIsAsked ==
  ASSUME NEW d, Sound(d), d.version >= 4
  PROVE  "case_status_history.resolution_reason" \in d.objects
<1>1. 4 \in 1 .. d.version
  BY DEF Sound, Placed
<1>2. "case_status_history.resolution_reason" \in Adds(4)
  BY DEF Adds, Upgrade0004
<1> QED
  BY <1>1, <1>2 DEF Sound, Placed, ObjectsAt

LEMMA InsertIsSound ==
  ASSUME Sound(db), NEW r \in Rows, Insert(r)
  PROVE  Sound(db')
<1>1. PICK f \in NewRefs(r), consent \in BOOLEAN :
        /\ fn_attribution_requires_identified(r, f)
        /\ consent => TableOf[r] = "report_attribution"
        /\ db' = [db EXCEPT
            !.refs = [x \in DOMAIN db.refs \cup {r} |-> IF x = r THEN f ELSE db.refs[x]],
            !.contactable = IF TableOf[r] = "report_attribution"
                            THEN fn_sync_reporter_contactable(@, f["report_id"], consent)
                            ELSE @,
            !.reasons = IF /\ r \in Closing
                           /\ "case_status_history.resolution_reason" \in db.objects
                        THEN @ \cup {r} ELSE @,
            !.flagged = IF r \in Demo THEN @ \cup {r} ELSE @]
  BY DEF Insert
<1>2. TableOf[r] \in db.objects /\ r \notin DOMAIN db.refs \cup Sentinels
  BY DEF Insert
<1>3. PICK refs, contactable, reasons, flagged :
        /\ refs = [x \in DOMAIN db.refs \cup {r} |-> IF x = r THEN f ELSE db.refs[x]]
        /\ contactable = IF TableOf[r] = "report_attribution"
                         THEN IF consent THEN db.contactable \cup {f["report_id"]}
                              ELSE db.contactable \ {f["report_id"]}
                         ELSE db.contactable
        /\ reasons = IF r \in Closing /\ "case_status_history.resolution_reason" \in db.objects
                     THEN db.reasons \cup {r} ELSE db.reasons
        /\ flagged = IF r \in Demo THEN db.flagged \cup {r} ELSE db.flagged
  OBVIOUS
<1>4. PICK e : e = db'
  OBVIOUS
<1>5. e = [version |-> db.version, objects |-> db.objects, refs |-> refs,
           contactable |-> contactable, reasons |-> reasons, flagged |-> flagged]
  BY <1>1, <1>3, <1>4 DEF Sound, Placed, fn_sync_reporter_contactable
<1>6. /\ DOMAIN refs = DOMAIN db.refs \cup {r} /\ refs[r] = f
      /\ \A x \in DOMAIN db.refs : refs[x] = db.refs[x]
  BY <1>2, <1>3
<1>7. /\ f \in [ColumnNames[r] -> Rows \cup {Null}]
      /\ \A c \in ColumnsOf[r] :
           \/ f[c.column] \in DOMAIN db.refs /\ TableOf[f[c.column]] = c.target
           \/ c.nullable /\ f[c.column] = Null
  BY DEF NewRefs, Targets, Sound, Placed
<1>8. TableOf[r] = "report_attribution" => f["report_id"] \in DOMAIN db.refs
  <2>1. ASSUME TableOf[r] = "report_attribution"
        PROVE  f["report_id"] \in DOMAIN db.refs
    <3>1. OfReport \in ColumnsOf[r] /\ OfReport.column = "report_id"
      BY <2>1, PartsOfReports
    <3> QED
      BY <1>7, <2>1, <3>1, ColumnRules
  <2> QED
    BY <2>1
<1>9. Placed(e) /\ e.version = db.version /\ e.refs = refs /\ e.contactable = contactable /\ e.reasons = reasons
  <2>1. contactable \cup reasons \cup flagged \subseteq DOMAIN refs
    BY <1>3, <1>6, <1>8 DEF Sound, Placed
  <2>2. DOMAIN refs \subseteq Rows
    BY <1>6 DEF Sound, Placed
  <2>3. \A x \in DOMAIN refs :
          TableOf[x] \in db.objects /\ refs[x] \in [ColumnNames[x] -> Rows \cup {Null}]
    BY <1>2, <1>6, <1>7 DEF Sound, Placed
  <2> QED
    BY <1>5, <2>1, <2>2, <2>3, SoundDb
<1>10. Resolved(e)
  <2>1. ASSUME NEW x \in DOMAIN refs, NEW c \in ColumnsOf[x]
        PROVE  \/ refs[x][c.column] \in DOMAIN refs /\ TableOf[refs[x][c.column]] = c.target
               \/ c.nullable /\ refs[x][c.column] = Null
    <3>1. CASE x = r
      BY <1>6, <1>7, <2>1, <3>1
    <3>2. CASE x # r
      BY <1>6, <2>1, <3>2 DEF Sound, Resolved
    <3> QED
      BY <3>1, <3>2
  <2> QED
    BY <1>9, <2>1 DEF Resolved
<1>11. Attributed(e)
  <2>1. \A x \in DOMAIN refs : TableOf[x] = "report_attribution" => refs[x]["report_id"] \notin Anonymous
    BY <1>1, <1>6 DEF Sound, Attributed, fn_attribution_requires_identified
  <2>2. ASSUME NEW report \in contactable
        PROVE  \E x \in DOMAIN refs : TableOf[x] = "report_attribution" /\ refs[x]["report_id"] = report
    <3>1. CASE report \in db.contactable
      BY <1>6, <3>1 DEF Sound, Attributed
    <3>2. CASE report \notin db.contactable
      BY <1>3, <1>6, <2>2, <3>2
    <3> QED
      BY <3>1, <3>2
  <2> QED
    BY <1>9, <2>1, <2>2 DEF Attributed
<1>12. Migrated(e)
  <2>1. db.version >= 4 => Closing \cap DOMAIN refs \subseteq reasons
    BY <1>3, <1>6, ReasonIsAsked DEF Sound, Migrated
  <2>2. db.version >= 7 => Sentinels \subseteq DOMAIN refs
    BY <1>6 DEF Sound, Migrated
  <2> QED
    BY <1>9, <2>1, <2>2 DEF Migrated
<1> QED
  BY <1>4, <1>9, <1>10, <1>11, <1>12 DEF Sound

LEMMA ReferIsSound ==
  ASSUME Sound(db), NEW r \in Rows, NEW c \in ColumnsOf[r], NEW y \in Rows, Refer(r, c, y)
  PROVE  Sound(db')
<1>1. /\ r \in DOMAIN db.refs /\ c.nullable /\ y \in DOMAIN db.refs /\ TableOf[y] = c.target
      /\ db' = [db EXCEPT !.refs[r][c.column] = y]
  BY DEF Refer, Exists, Targets
<1>2. PICK new, refs : new = [db.refs[r] EXCEPT ![c.column] = y] /\ refs = [db.refs EXCEPT ![r] = new]
  OBVIOUS
<1>3. PICK e : e = db'
  OBVIOUS
<1>4. e = [version |-> db.version, objects |-> db.objects, refs |-> refs,
           contactable |-> db.contactable, reasons |-> db.reasons, flagged |-> db.flagged]
  BY <1>1, <1>2, <1>3 DEF Sound, Placed
<1>5. /\ db.refs[r] \in [ColumnNames[r] -> Rows \cup {Null}] /\ c.column \in ColumnNames[r]
      /\ \A d \in ColumnsOf[r] : d.column = c.column => d = c
  BY <1>1, ColumnRules DEF Sound, Placed
<1>6. /\ new \in [ColumnNames[r] -> Rows \cup {Null}] /\ new[c.column] = y
      /\ \A col \in ColumnNames[r] \ {c.column} : new[col] = db.refs[r][col]
  BY <1>2, <1>5
<1>7. /\ DOMAIN refs = DOMAIN db.refs /\ refs[r] = new
      /\ \A x \in DOMAIN db.refs \ {r} : refs[x] = db.refs[x]
  BY <1>1, <1>2
<1>8. Placed(e) /\ e.version = db.version /\ e.refs = refs /\ e.contactable = db.contactable
      /\ e.reasons = db.reasons
  <2>1. db.contactable \cup db.reasons \cup db.flagged \subseteq DOMAIN refs /\ DOMAIN refs \subseteq Rows
    BY <1>7 DEF Sound, Placed
  <2>2. \A x \in DOMAIN refs :
          TableOf[x] \in db.objects /\ refs[x] \in [ColumnNames[x] -> Rows \cup {Null}]
    BY <1>6, <1>7 DEF Sound, Placed
  <2> QED
    BY <1>4, <2>1, <2>2, SoundDb
<1>9. Resolved(e)
  <2>1. ASSUME NEW x \in DOMAIN refs, NEW d \in ColumnsOf[x]
        PROVE  \/ refs[x][d.column] \in DOMAIN refs /\ TableOf[refs[x][d.column]] = d.target
               \/ d.nullable /\ refs[x][d.column] = Null
    <3>1. \/ db.refs[x][d.column] \in DOMAIN db.refs /\ TableOf[db.refs[x][d.column]] = d.target
          \/ d.nullable /\ db.refs[x][d.column] = Null
      BY <1>7, <2>1 DEF Sound, Resolved
    <3>2. CASE x = r /\ d = c
      BY <1>1, <1>6, <1>7, <3>2
    <3>3. CASE x = r /\ d # c
      <4>1. d.column \in ColumnNames[r] \ {c.column}
        BY <1>5, <2>1, <3>3, ColumnRules
      <4> QED
        BY <1>6, <1>7, <3>1, <3>3, <4>1
    <3>4. CASE x # r
      BY <1>7, <2>1, <3>1, <3>4
    <3> QED
      BY <3>2, <3>3, <3>4
  <2> QED
    BY <1>8, <2>1 DEF Resolved
<1>10. Attributed(e)
  <2>1. ASSUME NEW x \in DOMAIN refs, TableOf[x] = "report_attribution"
        PROVE  refs[x]["report_id"] = db.refs[x]["report_id"]
    <3>1. x \in Rows /\ OfReport \in ColumnsOf[x] /\ OfReport.column = "report_id"
      BY <1>7, <2>1, PartsOfReports DEF Sound, Placed
    <3>2. "report_id" \in ColumnNames[x]
      BY <3>1, ColumnRules
    <3>3. x = r => c.column # "report_id"
      BY <1>1, <2>1, ColumnRules
    <3> QED
      BY <1>6, <1>7, <3>2, <3>3
  <2> QED
    BY <1>7, <1>8, <2>1 DEF Sound, Attributed
<1>11. Migrated(e)
  BY <1>7, <1>8 DEF Sound, Migrated
<1> QED
  BY <1>3, <1>8, <1>9, <1>10, <1>11 DEF Sound

LEMMA ConsentIsSound ==
  ASSUME Sound(db), NEW r \in Rows, Consent(r)
  PROVE  Sound(db')
<1>1. PICK consent \in BOOLEAN :
        db' = [db EXCEPT !.contactable =
                 fn_sync_reporter_contactable(@, db.refs[r]["report_id"], consent)]
  BY DEF Consent
<1>2. r \in DOMAIN db.refs /\ TableOf[r] = "report_attribution"
  BY DEF Consent, Exists
<1>3. PICK contactable :
        contactable = IF consent THEN db.contactable \cup {db.refs[r]["report_id"]}
                      ELSE db.contactable \ {db.refs[r]["report_id"]}
  OBVIOUS
<1>4. PICK e : e = db'
  OBVIOUS
<1>5. e = [version |-> db.version, objects |-> db.objects, refs |-> db.refs,
           contactable |-> contactable, reasons |-> db.reasons, flagged |-> db.flagged]
  BY <1>1, <1>3, <1>4 DEF Sound, Placed, fn_sync_reporter_contactable
<1>6. Placed(e) /\ e.version = db.version /\ e.refs = db.refs /\ e.contactable = contactable
      /\ e.reasons = db.reasons
  <2>1. db.refs[r]["report_id"] \in DOMAIN db.refs
    BY <1>2, ReportIsThere
  <2>2. contactable \cup db.reasons \cup db.flagged \subseteq DOMAIN db.refs
    BY <1>3, <2>1 DEF Sound, Placed
  <2>3. /\ DOMAIN db.refs \subseteq Rows
        /\ \A x \in DOMAIN db.refs :
             TableOf[x] \in db.objects /\ db.refs[x] \in [ColumnNames[x] -> Rows \cup {Null}]
    BY DEF Sound, Placed
  <2> QED
    BY <1>5, <2>2, <2>3, SoundDb
<1>7. Attributed(e)
  BY <1>2, <1>3, <1>6 DEF Sound, Attributed
<1>8. Resolved(e) /\ Migrated(e)
  BY <1>6 DEF Sound, Resolved, Migrated
<1> QED
  BY <1>4, <1>6, <1>7, <1>8 DEF Sound

\* What a DELETE cannot reach: a row that stays refers to a row that goes only by a
\* nullable column, which turns to null.
LEMMA SurvivorsResolve ==
  ASSUME Sound(db), NEW r \in DOMAIN db.refs, ~Restricted(Doomed(r)),
         NEW x \in DOMAIN db.refs \ Doomed(r), NEW c \in ColumnsOf[x],
         db.refs[x][c.column] \in Doomed(r)
  PROVE  c.nullable
<1>1. PICK y : y = db.refs[x][c.column]
  OBVIOUS
<1>2. x \in Rows /\ r \in Rows /\ y \in DOMAIN db.refs /\ y \in Rows
  BY <1>1 DEF Sound, Placed, Doomed
<1>3. c.onDelete # "restrict"
  BY <1>1 DEF Restricted, Refers
<1>4. c.onDelete # "cascade"
  <2> SUFFICES ASSUME c.onDelete = "cascade"
               PROVE  FALSE
    OBVIOUS
  <2>1. y # r
    BY <1>1 DEF Doomed, Refers
  <2>2. PICK d \in ColumnsOf[y] : d.onDelete = "cascade"
    BY <1>1, <2>1 DEF Doomed, Refers
  <2>3. c.target = TableOf[y]
    BY <1>1, <1>2, RowsAssumption DEF Sound, Resolved, RowsAssumption
  <2>4. /\ [table |-> TableOf[x], target |-> c.target] \in Cascades
        /\ [table |-> TableOf[y], target |-> d.target] \in Cascades
    BY <1>2, <2>2, ColumnRules
  <2> QED
    BY <2>3, <2>4, NoCascadeOfCascades DEF CascadesAreFlat
<1> QED
  BY <1>2, <1>3, <1>4, ColumnRules

LEMMA DeleteIsSound ==
  ASSUME Sound(db), NEW r \in Rows, Delete(r)
  PROVE  Sound(db')
<1>1. PICK D : D = Doomed(r)
  OBVIOUS
<1>2. PICK refs : refs = [x \in DOMAIN db.refs \ D |-> Survivor(db, x, D)]
  OBVIOUS
<1>3. PICK e : e = db'
  OBVIOUS
<1>4. PICK contactable, reasons, flagged :
        /\ contactable = db.contactable \ (D \cup Uncontactable(D))
        /\ reasons = db.reasons \ D /\ flagged = db.flagged \ D
  OBVIOUS
<1>5. e = [version |-> db.version, objects |-> db.objects, refs |-> refs,
           contactable |-> contactable, reasons |-> reasons, flagged |-> flagged]
  BY <1>1, <1>2, <1>3, <1>4 DEF Delete, Sound, Placed
<1>6. r \in DOMAIN db.refs /\ TableOf[r] \in Erasable /\ ~Restricted(D)
  BY <1>1 DEF Delete, Exists
<1>7. ASSUME NEW x \in DOMAIN refs
      PROVE  /\ x \in DOMAIN db.refs \ D /\ x \in Rows
             /\ refs[x] \in [ColumnNames[x] -> Rows \cup {Null}]
             /\ \A col \in ColumnNames[x] :
                  refs[x][col] = IF db.refs[x][col] \in D THEN Null ELSE db.refs[x][col]
  BY <1>2, <1>7 DEF Survivor, Sound, Placed
<1>8. DOMAIN refs = DOMAIN db.refs \ D
  BY <1>2
<1>9. Placed(e) /\ e.version = db.version /\ e.refs = refs /\ e.contactable = contactable
      /\ e.reasons = reasons
  <2>1. contactable \cup reasons \cup flagged \subseteq DOMAIN refs /\ DOMAIN refs \subseteq Rows
    BY <1>4, <1>8 DEF Sound, Placed
  <2>2. \A x \in DOMAIN refs :
          TableOf[x] \in db.objects /\ refs[x] \in [ColumnNames[x] -> Rows \cup {Null}]
    BY <1>7 DEF Sound, Placed
  <2> QED
    BY <1>5, <2>1, <2>2, SoundDb
<1>10. Resolved(e)
  <2>1. ASSUME NEW x \in DOMAIN refs, NEW c \in ColumnsOf[x]
        PROVE  \/ refs[x][c.column] \in DOMAIN refs /\ TableOf[refs[x][c.column]] = c.target
               \/ c.nullable /\ refs[x][c.column] = Null
    <3>1. x \in DOMAIN db.refs \ D /\ c.column \in ColumnNames[x]
      BY <1>7, <2>1, ColumnRules
    <3>2. refs[x][c.column] = IF db.refs[x][c.column] \in D THEN Null ELSE db.refs[x][c.column]
      BY <1>7, <3>1
    <3>3. db.refs[x][c.column] \in D => c.nullable
      BY <1>1, <1>6, <2>1, <3>1, SurvivorsResolve
    <3>4. \/ db.refs[x][c.column] \in DOMAIN db.refs /\ TableOf[db.refs[x][c.column]] = c.target
          \/ c.nullable /\ db.refs[x][c.column] = Null
      BY <2>1, <3>1 DEF Sound, Resolved
    <3> QED
      BY <1>8, <3>2, <3>3, <3>4
  <2> QED
    BY <1>9, <2>1 DEF Resolved
<1>11. ASSUME NEW x \in DOMAIN refs, TableOf[x] = "report_attribution"
       PROVE  refs[x]["report_id"] = db.refs[x]["report_id"]
  <2>1. x \in DOMAIN db.refs \ D /\ x \in Rows
    BY <1>7, <1>11
  <2>2. OfReport \in ColumnsOf[x] /\ OfReport.column = "report_id"
    BY <1>11, <2>1, PartsOfReports
  <2>3. OfReport.column \in ColumnNames[x] /\ ~OfReport.nullable
    BY <1>11, <2>1, <2>2, ColumnRules
  <2>4. db.refs[x]["report_id"] \notin D
    BY <1>1, <1>6, <2>1, <2>2, <2>3, SurvivorsResolve
  <2> QED
    BY <1>7, <2>2, <2>3, <2>4
<1>12. Attributed(e)
  <2>1. \A x \in DOMAIN refs : TableOf[x] = "report_attribution" => refs[x]["report_id"] \notin Anonymous
    BY <1>8, <1>11 DEF Sound, Attributed
  <2>2. ASSUME NEW report \in contactable
        PROVE  \E x \in DOMAIN refs : TableOf[x] = "report_attribution" /\ refs[x]["report_id"] = report
    <3>1. report \in db.contactable \ (D \cup Uncontactable(D))
      BY <1>4, <2>2
    <3>2. PICK x \in DOMAIN db.refs : TableOf[x] = "report_attribution" /\ db.refs[x]["report_id"] = report
      BY <3>1 DEF Sound, Attributed
    <3>3. x \notin D
      BY <3>1, <3>2 DEF Uncontactable
    <3> QED
      BY <1>8, <1>11, <3>2, <3>3
  <2> QED
    BY <1>9, <2>1, <2>2 DEF Attributed
<1>13. Migrated(e)
  <2>1. db.version >= 4 => Closing \cap DOMAIN refs \subseteq reasons
    BY <1>4, <1>8 DEF Sound, Migrated
  <2>2. ASSUME NEW s \in Sentinels
        PROVE  s \notin D
    <3>1. s # r /\ s \in Rows
      BY <1>6, SentinelRules
    <3>2. \A c \in ColumnsOf[s] : c.onDelete # "cascade"
      BY <3>1, SentinelRules, ColumnRules
    <3> QED
      BY <1>1, <3>1, <3>2 DEF Doomed, Refers
  <2>3. db.version >= 7 => Sentinels \subseteq DOMAIN refs
    BY <1>8, <2>2 DEF Sound, Migrated
  <2> QED
    BY <1>9, <2>1, <2>3 DEF Migrated
<1> QED
  BY <1>3, <1>9, <1>10, <1>12, <1>13 DEF Sound

-----------------------------------------------------------------------------
(* The migrations                                                          *)

LEMMA FirstTables == {"campus_location", "report_category"} \subseteq Upgrade0001
<1>1. \A t \in Members(PeopleAndPlaces) \cup Members(CategoriesAndClusters) :
        t.name \in {TABLES[i].name : i \in DOMAIN TABLES}
  <2>1. \A t \in Members(TABLES) : t.name \in {TABLES[i].name : i \in DOMAIN TABLES}
    BY DEF Members
  <2> QED
    BY <2>1, TheTables
<1>2. \E t \in Members(PeopleAndPlaces) : t.name = "campus_location"
  BY Fields DEF PeopleAndPlaces, Members
<1>3. \E t \in Members(CategoriesAndClusters) : t.name = "report_category"
  BY Fields DEF CategoriesAndClusters, Members
<1> QED
  BY <1>1, <1>2, <1>3 DEF Upgrade0001

\* What an upgrade leaves of the rows: all of them, and the two of 0007 added.
Raised(v, refs) ==
  /\ v \in Versions
  /\ v = work.version + 1
  /\ work' = [version |-> v, objects |-> ObjectsAt(v), refs |-> refs,
              contactable |-> work.contactable, reasons |-> work.reasons,
              flagged |-> work.flagged]
  /\ DOMAIN refs = DOMAIN work.refs \cup (IF v = 7 THEN Sentinels ELSE {})
  /\ \A r \in DOMAIN work.refs : refs[r] = work.refs[r]
  /\ \A s \in DOMAIN refs \ DOMAIN work.refs : s \in Sentinels /\ refs[s] = EmptyRow(s)
  /\ v = 4 => Closing \cap DOMAIN work.refs = {}

LEMMA UpRows ==
  ASSUME Sound(work), goal \in 0 .. 8, StepUp
  PROVE  \E v, refs : Raised(v, refs)
<1>1. PICK v : v = work.version + 1
  OBVIOUS
<1>2. v \in Versions /\ v - 1 = work.version
  BY <1>1 DEF StepUp, Sound, Placed, Versions
<1>3. Upgradable(v, work)
  BY <1>1 DEF StepUp
<1>4. PICK refs : refs = IF v = 7
                         THEN [r \in DOMAIN work.refs \cup Sentinels |->
                                IF r \in Sentinels THEN EmptyRow(r) ELSE work.refs[r]]
                         ELSE work.refs
  OBVIOUS
<1>5. work' = [work EXCEPT !.version = v, !.objects = @ \cup Adds(v), !.refs = refs]
  BY <1>1, <1>4 DEF StepUp
<1>6. work.objects \cup Adds(v) = ObjectsAt(v)
  BY <1>2, ObjectsGrow DEF Sound, Placed
<1>7. work' = [version |-> v, objects |-> ObjectsAt(v), refs |-> refs,
               contactable |-> work.contactable, reasons |-> work.reasons, flagged |-> work.flagged]
  BY <1>5, <1>6 DEF Sound, Placed
<1>8. /\ DOMAIN refs = DOMAIN work.refs \cup (IF v = 7 THEN Sentinels ELSE {})
      /\ \A r \in DOMAIN work.refs : refs[r] = work.refs[r]
      /\ \A s \in DOMAIN refs \ DOMAIN work.refs : s \in Sentinels /\ refs[s] = EmptyRow(s)
  BY <1>3, <1>4 DEF Upgradable
<1>9. Raised(v, refs)
  <2>1. v = 4 => Closing \cap DOMAIN work.refs = {}
    BY <1>3 DEF Upgradable
  <2> QED
    BY <1>1, <1>2, <1>7, <1>8, <2>1 DEF Raised
<1> QED
  BY <1>9

LEMMA UpIsSound ==
  ASSUME Sound(work), goal \in 0 .. 8, StepUp
  PROVE  Sound(work')
<1> USE DEF Raised
<1>1. PICK v, refs : Raised(v, refs)
  BY UpRows
<1>2. PICK e : e = work'
  OBVIOUS
<1>3. /\ e.version = v /\ e.objects = ObjectsAt(v) /\ e.refs = refs /\ e.contactable = work.contactable
      /\ e.reasons = work.reasons /\ e.flagged = work.flagged
  BY <1>1, <1>2
<1>4. work.objects \subseteq ObjectsAt(v) /\ Upgrade0001 \subseteq ObjectsAt(v)
  <2>1. work.objects = ObjectsAt(v - 1) /\ ObjectsAt(v) = ObjectsAt(v - 1) \cup Adds(v)
    BY <1>1, ObjectsGrow DEF Sound, Placed
  <2>2. 1 \in 1 .. v /\ Adds(1) = Upgrade0001
    BY <1>1 DEF Versions, Adds
  <2> QED
    BY <2>1, <2>2 DEF ObjectsAt
<1>5. ASSUME NEW s \in DOMAIN refs \ DOMAIN work.refs
      PROVE  /\ s \in Rows /\ TableOf[s] \in ObjectsAt(v) /\ s \notin Closing
             /\ TableOf[s] # "report_attribution"
             /\ refs[s] \in [ColumnNames[s] -> Rows \cup {Null}]
             /\ \A c \in ColumnsOf[s] : c.nullable /\ refs[s][c.column] = Null
  <2>1. s \in Sentinels /\ refs[s] = EmptyRow(s)
    BY <1>1
  <2>2. /\ s \in Rows /\ TableOf[s] \in {"campus_location", "report_category"} /\ s \notin Closing
    BY <2>1, SentinelRules
  <2>3. refs[s] = [col \in ColumnNames[s] |-> Null]
    BY <2>1 DEF EmptyRow
  <2>4. \A c \in ColumnsOf[s] : c.nullable /\ c.column \in ColumnNames[s]
    BY <2>2, ColumnRules
  <2> QED
    BY <1>4, <2>2, <2>3, <2>4, FirstTables
<1>6. Placed(e)
  <2>1. e.version \in 0 .. 8
    BY <1>1, <1>3 DEF Versions
  <2>2. \A r \in DOMAIN refs :
          TableOf[r] \in ObjectsAt(v) /\ refs[r] \in [ColumnNames[r] -> Rows \cup {Null}]
    BY <1>1, <1>4, <1>5 DEF Sound, Placed
  <2>3. DOMAIN refs \subseteq Rows
    BY <1>1, <1>5 DEF Sound, Placed
  <2>4. work.contactable \cup work.reasons \cup work.flagged \subseteq DOMAIN refs
    BY <1>1 DEF Sound, Placed
  <2>5. e = [version |-> e.version, objects |-> e.objects, refs |-> e.refs,
             contactable |-> e.contactable, reasons |-> e.reasons, flagged |-> e.flagged]
    BY <1>1, <1>2, <1>3
  <2> QED
    BY <1>3, <2>1, <2>2, <2>3, <2>4, <2>5 DEF Placed
<1>7. Resolved(e)
  <2>1. ASSUME NEW x \in DOMAIN refs, NEW c \in ColumnsOf[x]
        PROVE  \/ refs[x][c.column] \in DOMAIN refs /\ TableOf[refs[x][c.column]] = c.target
               \/ c.nullable /\ refs[x][c.column] = Null
    <3>1. CASE x \in DOMAIN work.refs
      BY <1>1, <2>1, <3>1 DEF Sound, Resolved
    <3>2. CASE x \notin DOMAIN work.refs
      BY <1>5, <2>1, <3>2
    <3> QED
      BY <3>1, <3>2
  <2> QED
    BY <1>3, <2>1 DEF Resolved
<1>8. Attributed(e)
  <2>1. \A x \in DOMAIN refs : TableOf[x] = "report_attribution" => x \in DOMAIN work.refs
    BY <1>5
  <2>2. DOMAIN work.refs \subseteq DOMAIN refs
    BY <1>1
  <2> QED
    BY <1>1, <1>3, <2>1, <2>2 DEF Sound, Attributed
<1>9. Migrated(e)
  <2>1. Closing \cap DOMAIN refs = Closing \cap DOMAIN work.refs
    BY <1>1, <1>5
  <2>2. v >= 4 => v = 4 \/ work.version >= 4
    BY <1>1 DEF Sound, Placed
  <2>3. v >= 7 => v = 7 \/ work.version >= 7
    BY <1>1 DEF Sound, Placed
  <2> QED
    BY <1>1, <1>3, <2>1, <2>2, <2>3 DEF Sound, Migrated
<1> QED
  BY <1>2, <1>6, <1>7, <1>8, <1>9 DEF Sound

\* What a downgrade leaves of the rows: at version 0 none, and above it all but the
\* verdicts of 0003 and the two rows of 0007.
Lowered(v, kept, refs) ==
  /\ v \in Versions
  /\ v = work.version /\ v - 1 >= goal
  /\ work' = [version |-> v - 1, objects |-> ObjectsAt(v - 1), refs |-> refs,
              contactable |-> work.contactable \cap kept,
              reasons |-> IF v = 4 THEN {} ELSE work.reasons \cap kept,
              flagged |-> IF v = 5 THEN {} ELSE work.flagged \cap kept]
  /\ DOMAIN refs = kept
  /\ \A r \in kept :
       /\ refs[r] \in [ColumnNames[r] -> Rows \cup {Null}]
       /\ \A col \in ColumnNames[r] :
            refs[r][col] = IF v = 7 /\ work.refs[r][col] \in Sentinels THEN Null
                           ELSE work.refs[r][col]
  /\ kept \subseteq DOMAIN work.refs
  /\ v = 1 => kept = {}
  /\ v # 1 => \A r \in DOMAIN work.refs \ kept :
                TableOf[r] \in Later \/ (v = 7 /\ r \in Sentinels)
  /\ \A r \in kept : TableOf[r] \in ObjectsAt(v - 1)
  /\ Downgradable(v, work)

LEMMA DownRows ==
  ASSUME Sound(work), goal \in 0 .. 8, StepDown
  PROVE  \E v, kept, refs : Lowered(v, kept, refs)
<1>1. PICK v : v = work.version
  OBVIOUS
<1>2. v \in Versions /\ v - 1 >= goal /\ work.objects = ObjectsAt(v) /\ Downgradable(v, work)
  BY <1>1 DEF StepDown, Sound, Placed, Versions
<1>3. PICK kept, refs : kept = Kept(v, work) /\ refs = [r \in kept |-> Remnant(v, work, r)]
  OBVIOUS
<1>4. ObjectsAt(v) \ Drops(v, ObjectsAt(v)) = ObjectsAt(v - 1)
  BY <1>2, DropsUndo
<1>5. PICK reasons, flagged :
        /\ reasons = IF v = 4 THEN {} ELSE work.reasons \cap kept
        /\ flagged = IF v = 5 THEN {} ELSE work.flagged \cap kept
  OBVIOUS
<1>6. work' = [work EXCEPT !.version = v - 1, !.objects = ObjectsAt(v - 1), !.refs = refs,
                           !.contactable = work.contactable \cap kept, !.reasons = reasons,
                           !.flagged = flagged]
  BY <1>1, <1>2, <1>3, <1>4, <1>5 DEF StepDown
<1>7. work' = [version |-> v - 1, objects |-> ObjectsAt(v - 1), refs |-> refs,
               contactable |-> work.contactable \cap kept, reasons |-> reasons, flagged |-> flagged]
  BY <1>6 DEF Sound, Placed
<1>8. kept \subseteq DOMAIN work.refs
  BY <1>3 DEF Kept
<1>9. \A r \in kept : TableOf[r] \in ObjectsAt(v - 1)
  BY <1>2, <1>3, <1>4 DEF Kept, Sound, Placed
<1>10. v = 1 => kept = {}
  BY <1>9, ObjectsGrow
<1>11. v # 1 => \A r \in DOMAIN work.refs \ kept :
                  TableOf[r] \in Later \/ (v = 7 /\ r \in Sentinels)
  BY <1>2, <1>3, DropsUndo DEF Kept
<1>12. ASSUME NEW r \in kept
       PROVE  /\ refs[r] \in [ColumnNames[r] -> Rows \cup {Null}]
              /\ \A col \in ColumnNames[r] :
                   refs[r][col] = IF v = 7 /\ work.refs[r][col] \in Sentinels THEN Null
                                  ELSE work.refs[r][col]
  <2>1. refs[r] = Remnant(v, work, r) /\ work.refs[r] \in [ColumnNames[r] -> Rows \cup {Null}]
    BY <1>3, <1>8 DEF Sound, Placed
  <2>2. CASE v = 7
    BY <2>1, <2>2 DEF Remnant, Survivor
  <2>3. CASE v # 7
    BY <2>1, <2>3 DEF Remnant
  <2> QED
    BY <2>2, <2>3
<1>13. DOMAIN refs = kept
  BY <1>3
<1>14. Lowered(v, kept, refs)
  BY <1>1, <1>2, <1>5, <1>7, <1>8, <1>9, <1>10, <1>11, <1>12, <1>13 DEF Lowered
<1> QED
  BY <1>14

LEMMA DownIsSound ==
  ASSUME Sound(work), goal \in 0 .. 8, StepDown
  PROVE  Sound(work')
<1> USE DEF Lowered
<1>1. PICK v, kept, refs : Lowered(v, kept, refs)
  BY DownRows
<1>2. PICK e : e = work'
  OBVIOUS
<1>3. /\ e.version = v - 1 /\ e.objects = ObjectsAt(v - 1) /\ e.refs = refs
      /\ e.contactable = work.contactable \cap kept
      /\ e.reasons = IF v = 4 THEN {} ELSE work.reasons \cap kept
      /\ e.flagged = IF v = 5 THEN {} ELSE work.flagged \cap kept
  BY <1>1, <1>2
<1>4. DOMAIN refs = kept
  BY <1>1
<1>5. Placed(e)
  <2>1. e.version \in 0 .. 8
    BY <1>1, <1>3 DEF Versions
  <2>2. \A r \in kept :
          TableOf[r] \in ObjectsAt(v - 1) /\ refs[r] \in [ColumnNames[r] -> Rows \cup {Null}]
    BY <1>1, <1>4 DEF Sound, Placed
  <2>3. kept \subseteq Rows
    BY <1>1 DEF Sound, Placed
  <2>4. e.contactable \cup e.reasons \cup e.flagged \subseteq kept
    BY <1>3
  <2>5. e = [version |-> e.version, objects |-> e.objects, refs |-> e.refs,
             contactable |-> e.contactable, reasons |-> e.reasons, flagged |-> e.flagged]
    BY <1>1, <1>2, <1>3
  <2> QED
    BY <1>3, <1>4, <2>1, <2>2, <2>3, <2>4, <2>5 DEF Placed
<1>6. Resolved(e)
  <2>1. ASSUME NEW x \in kept, NEW c \in ColumnsOf[x]
        PROVE  \/ refs[x][c.column] \in kept /\ TableOf[refs[x][c.column]] = c.target
               \/ c.nullable /\ refs[x][c.column] = Null
    <3>1. PICK y : y = refs[x][c.column]
      OBVIOUS
    <3>2. x \in DOMAIN work.refs /\ x \in Rows /\ v # 1
      BY <1>1, <1>4, <2>1, <3>1 DEF Sound, Placed
    <3>3. PICK z : z = work.refs[x][c.column]
      OBVIOUS
    <3>4. c.target \notin Later /\ c.column \in ColumnNames[x] /\ (c.onDelete = "null" => c.nullable)
      BY <2>1, <3>2, ColumnRules
    <3>5. y = IF v = 7 /\ z \in Sentinels THEN Null ELSE z
      BY <1>1, <2>1, <3>1, <3>3, <3>4
    <3>6. (z \in DOMAIN work.refs /\ TableOf[z] = c.target) \/ (c.nullable /\ z = Null)
      <4>1. Resolved(work)
        BY DEF Sound
      <4>2. c \in ColumnsOf[x] /\ x \in DOMAIN work.refs
        BY <2>1, <3>2
      <4>3. \/ work.refs[x][c.column] \in DOMAIN work.refs /\ TableOf[work.refs[x][c.column]] = c.target
            \/ c.nullable /\ work.refs[x][c.column] = Null
        BY <4>1, <4>2 DEF Resolved
      <4> QED
        BY <3>3, <4>3
    <3>7. CASE v = 7 /\ z \in Sentinels
      <4>1. c.onDelete = "null"
        BY <1>1, <2>1, <3>2, <3>3, <3>7 DEF Downgradable
      <4> QED
        BY <3>1, <3>4, <3>5, <3>7, <4>1
    <3>8. CASE ~(v = 7 /\ z \in Sentinels)
      <4>1. y = z
        BY <3>5, <3>8
      <4> QED
        BY <1>1, <3>1, <3>2, <3>4, <3>6, <3>8, <4>1
    <3> QED
      BY <3>7, <3>8
  <2> QED
    BY <1>3, <1>4, <2>1 DEF Resolved
<1>7. Attributed(e)
  <2>0. ASSUME NEW x \in kept, TableOf[x] = "report_attribution"
        PROVE  refs[x]["report_id"] = work.refs[x]["report_id"]
    <3>1. x \in DOMAIN work.refs /\ x \in Rows
      BY <1>1 DEF Sound, Placed
    <3>2. "report_id" \in ColumnNames[x]
      BY <2>0, <3>1, PartsOfReports, ColumnRules
    <3>3. work.refs[x]["report_id"] \notin Sentinels
      BY <2>0, <3>1, ReportIsThere, SentinelRules
    <3> QED
      BY <1>1, <3>2, <3>3
  <2>1. \A x \in kept : TableOf[x] = "report_attribution" => refs[x]["report_id"] \notin Anonymous
    BY <1>1, <1>4, <2>0 DEF Sound, Attributed
  <2>2. ASSUME NEW report \in work.contactable \cap kept
        PROVE  \E x \in kept : TableOf[x] = "report_attribution" /\ refs[x]["report_id"] = report
    <3>1. PICK x \in DOMAIN work.refs :
            TableOf[x] = "report_attribution" /\ work.refs[x]["report_id"] = report
      BY DEF Sound, Attributed
    <3>2. v # 1 /\ x \notin Sentinels /\ TableOf[x] \notin Later
      BY <1>1, <3>1, SentinelRules, NamesAreEarly
    <3> QED
      BY <1>1, <1>4, <2>0, <3>1, <3>2
  <2> QED
    BY <1>3, <1>4, <2>1, <2>2 DEF Attributed
<1>8. Migrated(e)
  <2>1. v - 1 >= 4 => v # 4 /\ work.version >= 4
    BY <1>1 DEF Versions
  <2>2. v - 1 >= 7 => v # 1 /\ v # 7 /\ work.version >= 7
    BY <1>1 DEF Versions
  <2>3. v - 1 >= 4 => Closing \cap kept \subseteq e.reasons
    BY <1>1, <1>3, <2>1 DEF Sound, Migrated
  <2>4. ASSUME v - 1 >= 7, NEW s \in Sentinels
        PROVE  s \in kept
    <3>1. s \in DOMAIN work.refs
      BY <2>2, <2>4 DEF Sound, Migrated
    <3>2. TableOf[s] \notin Later
      BY SentinelRules, NamesAreEarly
    <3> QED
      BY <1>1, <2>2, <2>4, <3>1, <3>2
  <2> QED
    BY <1>3, <1>4, <2>3, <2>4 DEF Migrated
<1> QED
  BY <1>2, <1>5, <1>6, <1>7, <1>8 DEF Sound

-----------------------------------------------------------------------------
(* The theorems                                                            *)

\* What a command in progress has not touched: it is a copy of the committed
\* database, and until it goes to the base it drops no record of what was done, nor of
\* who did it.
Drift ==
  goal \in 1 .. 8 =>
    /\ \A r \in DOMAIN db.refs \ DOMAIN work.refs :
         TableOf[r] \notin AppendOnly \cup {"case_status_history"}
    /\ \A r \in (DOMAIN db.refs \cap DOMAIN work.refs) \ Sentinels, p \in Pinned :
         TableOf[r] = p[1] /\ p[2] \in ColumnNames[r] => work.refs[r][p[2]] = db.refs[r][p[2]]

SchemaInv ==
  /\ Sound(db) /\ Sound(work) /\ goal \in 0 .. 8 \cup {NoCommand}
  /\ Drift

LEMMA EmptyIsSound == Sound(EmptyDatabase)
<1>1. PICK d : d = EmptyDatabase
  OBVIOUS
<1>2. /\ d.version = 0 /\ d.objects = {} /\ d.refs = <<>> /\ d.contactable = {} /\ d.reasons = {}
      /\ d.flagged = {}
  BY <1>1 DEF EmptyDatabase
<1>3. DOMAIN d.refs = {}
  BY <1>2
<1>4. d = [version |-> d.version, objects |-> d.objects, refs |-> d.refs,
           contactable |-> d.contactable, reasons |-> d.reasons, flagged |-> d.flagged]
  BY <1>1, <1>2 DEF EmptyDatabase
<1>5. Placed(d)
  BY <1>2, <1>3, <1>4, ObjectsGrow DEF Placed
<1>6. Resolved(d) /\ Attributed(d) /\ Migrated(d)
  BY <1>2, <1>3 DEF Resolved, Attributed, Migrated
<1> QED
  BY <1>1, <1>5, <1>6 DEF Sound

LEMMA UpDrifts ==
  ASSUME Sound(work), goal \in 0 .. 8, Drift, StepUp
  PROVE  Drift'
<1>1. PICK v, refs : Raised(v, refs)
  BY UpRows
<1>2. work'.refs = refs /\ UNCHANGED <<db, goal>>
  <2>1. PICK e : e = work'
    OBVIOUS
  <2>2. e.refs = refs
    BY <1>1, <2>1 DEF Raised
  <2>3. UNCHANGED <<db, goal>>
    BY DEF StepUp
  <2> QED
    BY <2>1, <2>2, <2>3
<1> QED
  BY <1>1, <1>2 DEF Raised, Drift

LEMMA DownDrifts ==
  ASSUME Sound(work), goal \in 0 .. 8, Drift, StepDown
  PROVE  Drift'
<1>1. PICK v, kept, refs : Lowered(v, kept, refs)
  BY DownRows
<1>2. work'.refs = refs /\ UNCHANGED <<db, goal>>
  <2>1. PICK e : e = work'
    OBVIOUS
  <2>2. e.refs = refs
    BY <1>1, <2>1 DEF Lowered
  <2>3. UNCHANGED <<db, goal>>
    BY DEF StepDown
  <2> QED
    BY <2>1, <2>2, <2>3
<1>3. DOMAIN refs = kept /\ kept \subseteq DOMAIN work.refs
  BY <1>1 DEF Lowered
<1>4. SUFFICES ASSUME goal \in 1 .. 8
               PROVE  /\ \A r \in DOMAIN db.refs \ DOMAIN refs :
                           TableOf[r] \notin AppendOnly \cup {"case_status_history"}
                      /\ \A r \in (DOMAIN db.refs \cap DOMAIN refs) \ Sentinels, p \in Pinned :
                           TableOf[r] = p[1] /\ p[2] \in ColumnNames[r] =>
                             refs[r][p[2]] = db.refs[r][p[2]]
  BY <1>2 DEF Drift
<1>5. ASSUME NEW r \in DOMAIN db.refs \ DOMAIN refs
      PROVE  TableOf[r] \notin AppendOnly \cup {"case_status_history"}
  <2>1. CASE r \notin DOMAIN work.refs
    BY <1>4, <1>5, <2>1 DEF Drift
  <2>2. CASE r \in DOMAIN work.refs
    <3>1. v # 1
      BY <1>1, <1>4 DEF Lowered
    <3>2. TableOf[r] \in Later \/ r \in Sentinels
      BY <1>1, <1>3, <1>5, <2>2, <3>1 DEF Lowered
    <3> QED
      BY <3>2, NamesAreEarly, SentinelRules DEF AppendOnly
  <2> QED
    BY <2>1, <2>2
<1>6. ASSUME NEW r \in (DOMAIN db.refs \cap DOMAIN refs) \ Sentinels, NEW p \in Pinned,
             TableOf[r] = p[1], p[2] \in ColumnNames[r]
      PROVE  refs[r][p[2]] = db.refs[r][p[2]]
  <2>1. r \in kept /\ r \in DOMAIN work.refs
    BY <1>3
  <2>2. work.refs[r][p[2]] = db.refs[r][p[2]]
    BY <1>4, <1>6, <2>1 DEF Drift
  <2>3. v = 7 => work.refs[r][p[2]] \notin Sentinels
    <3>1. SUFFICES ASSUME v = 7
                   PROVE  work.refs[r][p[2]] \notin Sentinels
      OBVIOUS
    <3>2. ~RefusesNull(work, Sentinels)
      BY <1>1, <3>1 DEF Lowered, Downgradable
    <3> QED
      BY <1>6, <2>1, <3>2 DEF RefusesNull
  <2>4. PICK col \in ColumnNames[r] : col = p[2]
    BY <1>6
  <2>5. refs[r][col] = work.refs[r][col]
    BY <1>1, <2>1, <2>3, <2>4 DEF Lowered
  <2> QED
    BY <2>2, <2>4, <2>5
<1> QED
  BY <1>5, <1>6

LEMMA SchemaSteps ==
  ASSUME SchemaInv, [SchemaNext]_schemaVars
  PROVE  SchemaInv'
<1>1. Sound(db) /\ Sound(work) /\ goal \in 0 .. 8 \cup {NoCommand} /\ Drift
  BY DEF SchemaInv
<1>2. NoCommand \notin 0 .. 8
  BY DEF NoCommand
<1>3. ASSUME goal = NoCommand, UNCHANGED <<work, goal>>, Sound(db')
      PROVE  SchemaInv'
  BY <1>1, <1>2, <1>3 DEF SchemaInv, Drift
<1>4. ASSUME NEW r \in Rows, Insert(r)
      PROVE  SchemaInv'
  BY <1>1, <1>3, <1>4, InsertIsSound DEF Insert
<1>5. ASSUME NEW r \in Rows, NEW c \in ColumnsOf[r], NEW x \in Rows, Refer(r, c, x)
      PROVE  SchemaInv'
  BY <1>1, <1>3, <1>5, ReferIsSound DEF Refer
<1>6. ASSUME NEW r \in Rows, Consent(r)
      PROVE  SchemaInv'
  BY <1>1, <1>3, <1>6, ConsentIsSound DEF Consent
<1>7. ASSUME NEW r \in Rows, Delete(r)
      PROVE  SchemaInv'
  BY <1>1, <1>3, <1>7, DeleteIsSound DEF Delete
<1>8. ASSUME NEW target \in Revisions, Command(target)
      PROVE  SchemaInv'
  <2>1. work' = db /\ db' = db /\ goal' \in 0 .. 8
    BY <1>8, RowsAssumption DEF Command, RowsAssumption
  <2> QED
    BY <1>1, <2>1 DEF SchemaInv, Drift
<1>9. ASSUME StepUp
      PROVE  SchemaInv'
  <2>1. goal \in 0 .. 8 /\ UNCHANGED <<db, goal>>
    BY <1>1, <1>9 DEF StepUp
  <2>2. Sound(work') /\ Drift'
    BY <1>1, <1>9, <2>1, UpIsSound, UpDrifts
  <2> QED
    BY <1>1, <2>1, <2>2 DEF SchemaInv
<1>10. ASSUME StepDown
       PROVE  SchemaInv'
  <2>1. goal \in 0 .. 8 /\ UNCHANGED <<db, goal>>
    BY <1>1, <1>10 DEF StepDown
  <2>2. Sound(work') /\ Drift'
    BY <1>1, <1>10, <2>1, DownIsSound, DownDrifts
  <2> QED
    BY <1>1, <2>1, <2>2 DEF SchemaInv
<1>11. ASSUME Commit \/ RollBack
       PROVE  SchemaInv'
  <2>1. work' = EmptyDatabase /\ goal' = NoCommand /\ db' \in {db, work}
    BY <1>11 DEF Commit, RollBack
  <2>2. Sound(db') /\ Sound(work')
    BY <1>1, <2>1, EmptyIsSound
  <2> QED
    BY <1>2, <2>1, <2>2 DEF SchemaInv, Drift
<1>12. ASSUME UNCHANGED schemaVars
       PROVE  SchemaInv'
  BY <1>1, <1>12 DEF SchemaInv, Drift, schemaVars
<1> QED
  BY <1>4, <1>5, <1>6, <1>7, <1>8, <1>9, <1>10, <1>11, <1>12 DEF SchemaNext

LEMMA SchemaAlways == SchemaSpec => []SchemaInv
<1>1. SchemaInit => SchemaInv
  BY EmptyIsSound DEF SchemaInit, SchemaInv, Drift, NoCommand
<1>2. SchemaInv /\ [SchemaNext]_schemaVars => SchemaInv'
  BY SchemaSteps
<1> QED
  BY <1>1, <1>2, PTL DEF SchemaSpec

\* The committed schema is the one its version number names, through any upgrades,
\* downgrades, refusals and interruptions.
THEOREM SchemaIsWhole == SchemaSpec => []WholeSchema
<1>1. SchemaInv => WholeSchema
  BY DEF SchemaInv, Sound, Placed, WholeSchema
<1> QED
  BY <1>1, SchemaAlways, PTL

\* No row refers to one that is gone, through any inserts, deletes with their
\* cascades, and migrations, over all the tables.
THEOREM EveryReferenceResolves == SchemaSpec => []ReferencesResolve
<1>1. SchemaInv => ReferencesResolve
  BY DEF SchemaInv, Sound, Resolved, ReferencesResolve, Targets
<1> QED
  BY <1>1, SchemaAlways, PTL

\* A report is contactable only beside the attribution that names whom to contact.
THEOREM ContactsAreAttributed == SchemaSpec => []ContactableIsAttributed
<1>1. SchemaInv => ContactableIsAttributed
  BY DEF SchemaInv, Sound, Attributed, ContactableIsAttributed
<1> QED
  BY <1>1, SchemaAlways, PTL

\* What the migrations promise of the rows they meet and insert holds at every later
\* version.
THEOREM MigrationsHold == SchemaSpec => []MigratedDataIsValid
<1>1. SchemaInv => MigratedDataIsValid
  BY DEF SchemaInv, Sound, Migrated, MigratedDataIsValid
<1> QED
  BY <1>1, SchemaAlways, PTL

\* The step property of RecordsKeepTheirAuthors.
RecordsKept ==
  db'.version > 0 =>
    /\ \A r \in DOMAIN db.refs \ DOMAIN db'.refs :
         /\ TableOf[r] \notin AppendOnly
         /\ TableOf[r] = "case_status_history" => db.refs[r]["report_id"] \notin DOMAIN db'.refs
    /\ \A r \in DOMAIN db.refs \cap DOMAIN db'.refs, p \in Pinned :
         (TableOf[r] = p[1] /\ p[2] \in ColumnNames[r] /\ db.refs[r][p[2]] # Null)
           => db'.refs[r][p[2]] = db.refs[r][p[2]]

LEMMA NothingGoes ==
  ASSUME DOMAIN db.refs \subseteq DOMAIN db'.refs, \A r \in DOMAIN db.refs : db'.refs[r] = db.refs[r]
  PROVE  RecordsKept
BY DEF RecordsKept

LEMMA InsertKeepsRecords ==
  ASSUME Sound(db), NEW r \in Rows, Insert(r)
  PROVE  RecordsKept
<1>1. r \notin DOMAIN db.refs
  BY DEF Insert
<1>2. PICK f, refs : /\ refs = [x \in DOMAIN db.refs \cup {r} |-> IF x = r THEN f ELSE db.refs[x]]
                     /\ db'.refs = refs
  <2>1. PICK f \in NewRefs(r), consent \in BOOLEAN :
        db' = [db EXCEPT
            !.refs = [x \in DOMAIN db.refs \cup {r} |-> IF x = r THEN f ELSE db.refs[x]],
            !.contactable = IF TableOf[r] = "report_attribution"
                            THEN fn_sync_reporter_contactable(@, f["report_id"], consent)
                            ELSE @,
            !.reasons = IF /\ r \in Closing
                           /\ "case_status_history.resolution_reason" \in db.objects
                        THEN @ \cup {r} ELSE @,
            !.flagged = IF r \in Demo THEN @ \cup {r} ELSE @]
    BY DEF Insert
  <2>2. PICK refs, contactable, reasons, flagged, e :
          /\ refs = [x \in DOMAIN db.refs \cup {r} |-> IF x = r THEN f ELSE db.refs[x]]
          /\ e = db'
          /\ e = [db EXCEPT !.refs = refs, !.contactable = contactable, !.reasons = reasons,
                            !.flagged = flagged]
    BY <2>1
  <2>3. e.refs = refs
    BY <2>2 DEF Sound, Placed
  <2> QED
    BY <2>2, <2>3
<1> QED
  BY <1>1, <1>2, NothingGoes

LEMMA ReferKeepsRecords ==
  ASSUME Sound(db), NEW r \in Rows, NEW c \in ColumnsOf[r], NEW y \in Rows, Refer(r, c, y)
  PROVE  RecordsKept
<1>1. /\ r \in DOMAIN db.refs /\ db.refs[r][c.column] = Null
      /\ db' = [db EXCEPT !.refs[r][c.column] = y]
  BY DEF Refer, Exists
<1>2. PICK new, refs : new = [db.refs[r] EXCEPT ![c.column] = y] /\ refs = [db.refs EXCEPT ![r] = new]
  OBVIOUS
<1>3. db'.refs = refs
  <2>1. PICK e : e = db' /\ e = [db EXCEPT !.refs = refs]
    BY <1>1, <1>2
  <2>2. e.refs = refs
    BY <2>1 DEF Sound, Placed
  <2> QED
    BY <2>1, <2>2
<1>4. DOMAIN db.refs[r] = ColumnNames[r]
  BY <1>1 DEF Sound, Placed
<1>5. /\ DOMAIN refs = DOMAIN db.refs
      /\ \A x \in DOMAIN db.refs \ {r} : refs[x] = db.refs[x]
      /\ \A col \in ColumnNames[r] \ {c.column} : refs[r][col] = db.refs[r][col]
  BY <1>1, <1>2, <1>4
<1>6. ASSUME NEW x \in DOMAIN db.refs, NEW col \in ColumnNames[x], db.refs[x][col] # Null
      PROVE  refs[x][col] = db.refs[x][col]
  BY <1>1, <1>5, <1>6
<1> QED
  BY <1>3, <1>5, <1>6 DEF RecordsKept

LEMMA ConsentKeepsRecords ==
  ASSUME Sound(db), NEW r \in Rows, Consent(r)
  PROVE  RecordsKept
<1>1. db'.refs = db.refs
  <2>1. PICK contactable, e : e = db' /\ e = [db EXCEPT !.contactable = contactable]
    BY DEF Consent
  <2>2. e.refs = db.refs
    BY <2>1 DEF Sound, Placed
  <2> QED
    BY <2>1, <2>2
<1> QED
  BY <1>1, NothingGoes

LEMMA DeleteKeepsRecords ==
  ASSUME Sound(db), NEW r \in Rows, Delete(r)
  PROVE  RecordsKept
<1>1. PICK D, refs : D = Doomed(r) /\ refs = [x \in DOMAIN db.refs \ D |-> Survivor(db, x, D)]
  OBVIOUS
<1>2. db'.refs = refs
  <2>1. PICK contactable, reasons, flagged :
          db' = [db EXCEPT !.refs = refs, !.contactable = contactable, !.reasons = reasons,
                           !.flagged = flagged]
    <3> DEFINE left == db.contactable \ (D \cup Uncontactable(D))
    <3>1. db' = [db EXCEPT !.refs = refs, !.contactable = left, !.reasons = db.reasons \ D,
                           !.flagged = db.flagged \ D]
      BY <1>1 DEF Delete
    <3> HIDE DEF left
    <3> QED
      BY <3>1
  <2>2. PICK e : e = [db EXCEPT !.refs = refs, !.contactable = contactable, !.reasons = reasons,
                                !.flagged = flagged]
    OBVIOUS
  <2>3. e.refs = refs
    BY <2>2 DEF Sound, Placed
  <2> QED
    BY <2>1, <2>2, <2>3
<1>3. ~fn_append_only(D) /\ ~fn_case_status_history_append_only(D)
  BY <1>1 DEF Delete
<1>4. DOMAIN refs = DOMAIN db.refs \ D
  BY <1>1
<1>5. ASSUME NEW x \in DOMAIN db.refs \ DOMAIN refs
      PROVE  /\ TableOf[x] \notin AppendOnly
             /\ TableOf[x] = "case_status_history" => db.refs[x]["report_id"] \notin DOMAIN refs
  <2>1. x \in D
    BY <1>4, <1>5
  <2>2. TableOf[x] = "case_status_history" => db.refs[x]["report_id"] \in D
    BY <1>3, <2>1 DEF fn_case_status_history_append_only, RefusesNull, Tampers
  <2> QED
    BY <1>3, <1>4, <2>1, <2>2 DEF fn_append_only
<1>6. ASSUME NEW x \in DOMAIN refs, NEW p \in Pinned, TableOf[x] = p[1], p[2] \in ColumnNames[x]
      PROVE  refs[x][p[2]] = db.refs[x][p[2]]
  <2>1. x \in DOMAIN db.refs \ D /\ DOMAIN db.refs[x] = ColumnNames[x]
    BY <1>4, <1>6 DEF Sound, Placed
  <2>2. db.refs[x][p[2]] \notin D
    BY <1>3, <1>6, <2>1 DEF fn_case_status_history_append_only, RefusesNull
  <2>3. PICK col : col = p[2]
    OBVIOUS
  <2>4. refs[x][col] = IF db.refs[x][col] \in D THEN Null ELSE db.refs[x][col]
    BY <1>1, <1>6, <2>1, <2>3 DEF Survivor
  <2> QED
    BY <2>2, <2>3, <2>4
<1> QED
  BY <1>2, <1>4, <1>5, <1>6 DEF RecordsKept

LEMMA CommitKeepsRecords ==
  ASSUME SchemaInv, Commit
  PROVE  RecordsKept
<1>1. db' = work /\ goal \in 0 .. 8 /\ work.version = goal /\ Sound(db)
  BY DEF SchemaInv, Commit
<1>2. CASE goal = 0
  <2>1. db'.version = 0
    BY <1>1, <1>2
  <2> QED
    BY <2>1 DEF RecordsKept
<1>3. CASE goal # 0
  <2>1. goal \in 1 .. 8 /\ Drift
    BY <1>1, <1>3 DEF SchemaInv
  <2>2. \A r \in DOMAIN db.refs \ DOMAIN work.refs :
          TableOf[r] \notin AppendOnly \cup {"case_status_history"}
    BY <2>1 DEF Drift
  <2>3. ASSUME NEW r \in DOMAIN db.refs \cap DOMAIN work.refs, NEW p \in Pinned, TableOf[r] = p[1],
               p[2] \in ColumnNames[r]
        PROVE  work.refs[r][p[2]] = db.refs[r][p[2]]
    <3>1. p[1] \notin {"campus_location", "report_category"}
      BY DEF Pinned
    <3>2. r \notin Sentinels
      BY <2>3, <3>1, SentinelRules
    <3> QED
      BY <2>1, <2>3, <3>2 DEF Drift
  <2> QED
    BY <1>1, <2>2, <2>3 DEF RecordsKept
<1> QED
  BY <1>2, <1>3

\* What was done stays on record with who did it, through any deletions and migrations
\* that leave a schema at all.
THEOREM AuthorsAreKept == SchemaSpec => RecordsKeepTheirAuthors
<1>1. SchemaInv /\ [SchemaNext]_schemaVars => [RecordsKept]_schemaVars
  <2> SUFFICES ASSUME SchemaInv, SchemaNext
               PROVE  RecordsKept
    OBVIOUS
  <2>1. Sound(db)
    BY DEF SchemaInv
  <2>2. ASSUME UNCHANGED db
        PROVE  RecordsKept
    BY <2>2, NothingGoes
  <2>3. ASSUME NEW target \in Revisions, Command(target)
        PROVE  RecordsKept
    BY <2>2, <2>3 DEF Command
  <2>4. CASE StepUp \/ StepDown \/ RollBack
    BY <2>2, <2>4 DEF StepUp, StepDown, RollBack
  <2> QED
    BY <2>1, <2>3, <2>4, InsertKeepsRecords, ReferKeepsRecords, ConsentKeepsRecords,
       DeleteKeepsRecords, CommitKeepsRecords DEF SchemaNext
<1>2. SchemaSpec => [][RecordsKept]_schemaVars
  BY <1>1, SchemaAlways, PTL DEF SchemaSpec
<1>3. RecordsKeepTheirAuthors <=> [][RecordsKept]_schemaVars
  BY PTL DEF RecordsKeepTheirAuthors, RecordsKept
<1> QED
  BY <1>2, <1>3, PTL

-----------------------------------------------------------------------------
(* The campus vocabulary                                                   *)

ZoneRow == [code: ZoneCodes]
Stages == {"start", "validated", "zones", "writing", "done"}
Job == [pc: Stages, have: SUBSET (ZoneCodes \cup PlaceCodes), looked: BOOLEAN,
        wrote: Seq(ZoneRow \cup PlaceRow)]

\* A location of the vocabulary: a row no CHECK refuses, a demo location exactly
\* if its code is the seed's.
Valid(row) ==
  row \in PlaceRow /\ LocationChecks(row) /\ (row.synthetic <=> row.code \in DemoCodes)

Vocabulary ==
  /\ zones \subseteq ZoneCodes
  /\ places \in [DOMAIN places -> PlaceRow]
  /\ DOMAIN FirstPlaces \subseteq DOMAIN places /\ DOMAIN places \subseteq PlaceCodes
  /\ \A code \in DOMAIN places : places[code].code = code /\ Valid(places[code])

Parsed(c) == c \in Seeds \/ parse_locations(FileOf[c].places)

\* The zone a row names is no zone, a committed one, or one of the rows before it.
ZoneComesFirst(rows, zs) ==
  \A n \in DOMAIN rows : rows[n].code \in PlaceCodes =>
    rows[n].zone \in {NoZone} \cup zs \cup {rows[m].code : m \in 1 .. n - 1}

\* Where command c stands, given the zones and the locations there are.
Sane(c, j, zs, codes) ==
  /\ j.pc = "start" => j = NotStarted
  /\ j.pc \in {"validated", "zones"} => c \notin Seeds /\ j.wrote = <<>>
  /\ j.pc \in {"validated", "zones", "writing"} => Parsed(c)
  /\ j.pc = "zones" => j.have \subseteq zs
  /\ j.pc = "writing" =>
       /\ j.have \subseteq zs \cup codes \cup CodesOf(j.wrote)
       /\ ZoneComesFirst(RowsOf[c], zs)
       /\ \A n \in DOMAIN j.wrote : \E m \in DOMAIN RowsOf[c] : j.wrote[n] = RowsOf[c][m]

Commanded ==
  /\ job \in [Commands -> Job] /\ applied \subseteq Commands
  /\ \A c \in Commands : Sane(c, job[c], zones, DOMAIN places)

LEMMA Least ==
  ASSUME NEW S \in SUBSET Nat, S # {}
  PROVE  \E n \in S : \A m \in S : n <= m
<1> DEFINE R == {ss \in Nat \X Nat : ss[1] < ss[2]}
<1>1. IsWellFoundedOn(R, Nat)
  BY NatLessThanWellFounded DEF OpToRel
<1>2. PICK n \in S : \A m \in S : ~ (<<m, n>> \in R)
  BY <1>1, WFMin
<1>3. ASSUME NEW m \in S
      PROVE  n <= m
  <2>1. m \in Nat /\ n \in Nat
    OBVIOUS
  <2>2. ~ (m < n)
    BY <1>2, <2>1
  <2> QED
    BY <2>1, <2>2
<1> QED
  BY <1>3

LEMMA RowsOfSeed ==
  ASSUME NEW c \in Commands, c \in Seeds
  PROVE  /\ RowsOf[c] \in Seq(ZoneRow \cup PlaceRow)
         /\ \A n \in DOMAIN RowsOf[c] :
              \/ n = 1 /\ RowsOf[c][n] = [code |-> DemoZone]
              \/ /\ 1 \in 1 .. n - 1 /\ RowsOf[c][1] = [code |-> DemoZone]
                 /\ \E k \in DOMAIN DemoPlaces : RowsOf[c][n] = DemoPlaces[k]
         /\ \A k \in DOMAIN DemoPlaces : \E n \in DOMAIN RowsOf[c] : RowsOf[c][n] = DemoPlaces[k]
<1>1. DemoPlaces \in Seq(ZoneRow \cup PlaceRow) /\ <<[code |-> DemoZone]>> \in Seq(ZoneRow \cup PlaceRow)
  BY CampusAssumptions DEF CampusAssumptions, ZoneRow
<1>2. RowsOf[c] = <<[code |-> DemoZone]>> \o DemoPlaces
  BY DEF RowsOf
<1>3. PICK rows : rows = RowsOf[c]
  OBVIOUS
<1>4. PICK l \in Nat : l = Len(DemoPlaces) /\ DOMAIN DemoPlaces = 1 .. l
  BY <1>1
<1>5. rows \in Seq(ZoneRow \cup PlaceRow) /\ Len(rows) = l + 1 /\ DOMAIN rows = 1 .. l + 1
  BY <1>1, <1>2, <1>3, <1>4
<1>6. rows[1] = [code |-> DemoZone]
  BY <1>1, <1>2, <1>3
<1>7. \A k \in 1 .. l : rows[k + 1] = DemoPlaces[k]
  BY <1>1, <1>2, <1>3, <1>4
<1>8. ASSUME NEW n \in 1 .. l + 1, n # 1
      PROVE  n - 1 \in 1 .. l /\ rows[n] = DemoPlaces[n - 1] /\ 1 \in 1 .. n - 1
  <2>1. n - 1 \in 1 .. l /\ (n - 1) + 1 = n /\ 1 \in 1 .. n - 1
    BY <1>8
  <2> QED
    BY <1>7, <2>1
<1>9. \A k \in 1 .. l : k + 1 \in 1 .. l + 1
  OBVIOUS
<1>10. \A n \in DOMAIN rows :
         \/ n = 1 /\ rows[n] = [code |-> DemoZone]
         \/ /\ 1 \in 1 .. n - 1 /\ rows[1] = [code |-> DemoZone]
            /\ \E k \in DOMAIN DemoPlaces : rows[n] = DemoPlaces[k]
  BY <1>4, <1>5, <1>6, <1>8
<1>11. \A k \in DOMAIN DemoPlaces : \E n \in DOMAIN rows : rows[n] = DemoPlaces[k]
  BY <1>4, <1>5, <1>7, <1>9
<1> QED
  BY <1>3, <1>5, <1>10, <1>11

LEMMA RowsOfFile ==
  ASSUME NEW c \in Commands, c \notin Seeds
  PROVE  /\ RowsOf[c] \in Seq(ZoneRow \cup PlaceRow)
         /\ \A n \in DOMAIN RowsOf[c] :
              \/ \E k \in DOMAIN FileOf[c].zones : RowsOf[c][n] = [code |-> FileOf[c].zones[k].code]
              \/ /\ \A k \in DOMAIN FileOf[c].zones :
                      /\ k \in 1 .. n - 1
                      /\ RowsOf[c][k] = [code |-> FileOf[c].zones[k].code]
                 /\ \E k \in DOMAIN FileOf[c].places : RowsOf[c][n] = Imported(FileOf[c].places[k])
         /\ \A k \in DOMAIN FileOf[c].places :
              \E n \in DOMAIN RowsOf[c] : RowsOf[c][n] = Imported(FileOf[c].places[k])
         /\ \A k \in DOMAIN FileOf[c].zones :
              \E n \in DOMAIN RowsOf[c] : RowsOf[c][n] = [code |-> FileOf[c].zones[k].code]
<1>0. PICK Z, P : Z = FileOf[c].zones /\ P = FileOf[c].places
  OBVIOUS
<1> DEFINE zr == [n \in DOMAIN Z |-> [code |-> Z[n].code]]
           pr == [n \in DOMAIN P |-> Imported(P[n])]
<1>1. Z \in Seq(ZoneLine) /\ P \in Seq(PlaceLine)
  BY <1>0, CampusAssumptions DEF CampusAssumptions
<1>2. RowsOf[c] = zr \o pr
  BY <1>0 DEF RowsOf
<1>3. PICK z \in Nat, p \in Nat : z = Len(Z) /\ p = Len(P) /\ DOMAIN Z = 1 .. z /\ DOMAIN P = 1 .. p
  BY <1>1
<1>4. ASSUME NEW n \in 1 .. z
      PROVE  zr[n] = [code |-> Z[n].code] /\ zr[n] \in ZoneRow
  <2>1. Z[n] \in ZoneLine
    BY <1>1, <1>3
  <2>2. Z[n].code \in ZoneCodes
    BY <2>1 DEF ZoneLine
  <2> QED
    BY <1>3, <2>2 DEF ZoneRow
<1>5. ASSUME NEW n \in 1 .. p
      PROVE  pr[n] = Imported(P[n]) /\ pr[n] \in PlaceRow
  <2>1. P[n] \in PlaceLine
    BY <1>1, <1>3
  <2>2. Imported(P[n]) \in PlaceRow
    BY <2>1 DEF PlaceLine, PlaceRow, Imported
  <2> QED
    BY <1>3, <2>2
<1>6. zr = [n \in 1 .. z |-> zr[n]] /\ pr = [n \in 1 .. p |-> pr[n]]
  BY <1>3
<1> HIDE DEF zr, pr
<1>7. zr \in Seq(ZoneRow \cup PlaceRow) /\ Len(zr) = z
  BY <1>4, <1>6
<1>8. pr \in Seq(ZoneRow \cup PlaceRow) /\ Len(pr) = p
  BY <1>5, <1>6
<1>9. PICK rows : rows = RowsOf[c]
  OBVIOUS
<1>10. /\ rows \in Seq(ZoneRow \cup PlaceRow)
       /\ DOMAIN rows = 1 .. z + p
       /\ \A n \in 1 .. z : rows[n] = zr[n]
       /\ \A n \in 1 .. p : rows[n + z] = pr[n]
  <2>1. PICK S, s, t : S = ZoneRow \cup PlaceRow /\ s = zr /\ t = pr
    OBVIOUS
  <2>2. s \in Seq(S) /\ t \in Seq(S) /\ z = Len(s) /\ p = Len(t) /\ rows = s \o t
    BY <1>2, <1>7, <1>8, <1>9, <2>1
  <2>3. /\ rows \in Seq(S) /\ DOMAIN rows = 1 .. z + p
        /\ \A n \in 1 .. z : rows[n] = s[n]
        /\ \A n \in 1 .. p : rows[n + z] = t[n]
    <3>1. /\ s \o t \in Seq(S) /\ DOMAIN (s \o t) = 1 .. z + p
          /\ \A n \in 1 .. z : (s \o t)[n] = s[n]
          /\ \A n \in 1 .. p : (s \o t)[n + z] = t[n]
      <4>1. s \o t \in Seq(S) /\ Len(s \o t) = z + p
        BY <2>2
      <4>2. DOMAIN (s \o t) = 1 .. z + p
        BY <4>1
      <4>3. \A n \in 1 .. z : (s \o t)[n] = s[n]
        BY <2>2
      <4>4. \A n \in 1 .. p : (s \o t)[n + z] = t[n]
        BY <2>2
      <4> QED
        BY <4>1, <4>2, <4>3, <4>4
    <3> QED
      BY <2>2, <3>1
  <2> QED
    BY <2>1, <2>3
<1>11. ASSUME NEW n \in 1 .. z + p, n \notin 1 .. z
       PROVE  /\ n - z \in 1 .. p /\ rows[n] = pr[n - z]
              /\ \A k \in 1 .. z : k \in 1 .. n - 1
  <2>1. n - z \in 1 .. p /\ (n - z) + z = n /\ \A k \in 1 .. z : k \in 1 .. n - 1
    BY <1>11
  <2> QED
    BY <1>10, <2>1
<1>12. \A n \in 1 .. p : n + z \in 1 .. z + p
  OBVIOUS
<1>13. \A n \in DOMAIN rows :
         \/ \E k \in DOMAIN Z : rows[n] = [code |-> Z[k].code]
         \/ /\ \A k \in DOMAIN Z : k \in 1 .. n - 1 /\ rows[k] = [code |-> Z[k].code]
            /\ \E k \in DOMAIN P : rows[n] = Imported(P[k])
  <2>1. ASSUME NEW n \in 1 .. z + p, n \in 1 .. z
        PROVE  \E k \in DOMAIN Z : rows[n] = [code |-> Z[k].code]
    BY <1>3, <1>4, <1>10, <2>1
  <2>2. ASSUME NEW n \in 1 .. z + p, n \notin 1 .. z
        PROVE  /\ \A k \in DOMAIN Z : k \in 1 .. n - 1 /\ rows[k] = [code |-> Z[k].code]
               /\ \E k \in DOMAIN P : rows[n] = Imported(P[k])
    <3>1. \E k \in DOMAIN P : rows[n] = Imported(P[k])
      <4>1. n - z \in DOMAIN P /\ rows[n] = pr[n - z] /\ pr[n - z] = Imported(P[n - z])
        BY <1>3, <1>5, <1>11, <2>2
      <4> QED
        BY <4>1
    <3>2. ASSUME NEW k \in 1 .. z
          PROVE  k \in 1 .. n - 1 /\ rows[k] = [code |-> Z[k].code]
      BY <1>4, <1>10, <1>11, <2>2
    <3> QED
      BY <1>3, <3>1, <3>2
  <2> QED
    BY <1>10, <2>1, <2>2
<1>14. ASSUME NEW k \in DOMAIN P
       PROVE  \E n \in DOMAIN rows : rows[n] = Imported(P[k])
  <2>1. k \in 1 .. p /\ rows[k + z] = pr[k] /\ k + z \in DOMAIN rows
    BY <1>3, <1>10, <1>12
  <2> QED
    BY <1>5, <2>1
<1>15. \A k \in DOMAIN P : \E n \in DOMAIN rows : rows[n] = Imported(P[k])
  BY <1>14
<1>16. rows \in Seq(ZoneRow \cup PlaceRow)
  BY <1>10
<1>17. RowsOf[c] \in Seq(ZoneRow \cup PlaceRow)
  BY <1>9, <1>16
<1> DEFINE Shape(all, zs, ps) ==
             \A n \in DOMAIN all :
               \/ \E k \in DOMAIN zs : all[n] = [code |-> zs[k].code]
               \/ /\ \A k \in DOMAIN zs : k \in 1 .. n - 1 /\ all[k] = [code |-> zs[k].code]
                  /\ \E k \in DOMAIN ps : all[n] = Imported(ps[k])
<1>18. Shape(RowsOf[c], FileOf[c].zones, FileOf[c].places)
  <2>1. Shape(rows, Z, P)
    BY <1>13
  <2> HIDE DEF Shape
  <2> QED
    BY <1>0, <1>9, <2>1
<1>19. \A k \in DOMAIN FileOf[c].places :
         \E n \in DOMAIN RowsOf[c] : RowsOf[c][n] = Imported(FileOf[c].places[k])
  BY <1>0, <1>9, <1>15
<1>20. \A k \in DOMAIN Z : \E n \in DOMAIN rows : rows[n] = [code |-> Z[k].code]
  <2>1. ASSUME NEW k \in 1 .. z
        PROVE  k \in DOMAIN rows /\ rows[k] = [code |-> Z[k].code]
    BY <1>4, <1>10
  <2> QED
    BY <1>3, <2>1
<1>21. \A k \in DOMAIN FileOf[c].zones :
         \E n \in DOMAIN RowsOf[c] : RowsOf[c][n] = [code |-> FileOf[c].zones[k].code]
  BY <1>0, <1>9, <1>20
<1> QED
  BY <1>17, <1>18, <1>19, <1>21

\* What a command brings is of its file: a valid location in the zone the file names,
\* after every zone of the file, or one of these zones; and every location of the file
\* is among the rows.
LEMMA RowsAreOfTheFile ==
  ASSUME NEW c \in Commands, Parsed(c)
  PROVE  /\ RowsOf[c] \in Seq(ZoneRow \cup PlaceRow)
         /\ \A n \in DOMAIN RowsOf[c] :
              IF RowsOf[c][n].code \in PlaceCodes
              THEN /\ Valid(RowsOf[c][n])
                   /\ \E k \in DOMAIN Brings(c) : /\ Brings(c)[k].code = RowsOf[c][n].code
                                                  /\ Brings(c)[k].zone = RowsOf[c][n].zone
                   /\ \A z \in BringsZones(c) : \E m \in 1 .. n - 1 : RowsOf[c][m].code = z
              ELSE RowsOf[c][n].code \in BringsZones(c) \cap ZoneCodes
         /\ CodesOf(Brings(c)) \subseteq CodesOf(RowsOf[c]) \cap PlaceCodes
<1>0. PICK rows : rows = RowsOf[c]
  OBVIOUS
<1>1. CASE c \in Seeds
  <2>1. Brings(c) = DemoPlaces /\ BringsZones(c) = {DemoZone}
    BY <1>1 DEF Brings, BringsZones
  <2>2. ASSUME NEW k \in DOMAIN DemoPlaces
        PROVE  Valid(DemoPlaces[k]) /\ DemoPlaces[k].code \in PlaceCodes
    <3>1. DemoPlaces[k] \in PlaceRow
      BY CampusAssumptions DEF CampusAssumptions
    <3>2. DemoPlaces[k].code \in DemoCodes
      BY DEF DemoCodes, CodesOf
    <3> QED
      BY <3>1, <3>2, CampusAssumptions DEF CampusAssumptions, Valid, PlaceRow
  <2>3. DemoZone \in ZoneCodes \ PlaceCodes
    BY CampusAssumptions DEF CampusAssumptions
  <2>4. /\ rows \in Seq(ZoneRow \cup PlaceRow)
        /\ \A n \in DOMAIN rows :
             \/ n = 1 /\ rows[n] = [code |-> DemoZone]
             \/ /\ 1 \in 1 .. n - 1 /\ rows[1] = [code |-> DemoZone]
                /\ \E k \in DOMAIN DemoPlaces : rows[n] = DemoPlaces[k]
        /\ \A k \in DOMAIN DemoPlaces : \E n \in DOMAIN rows : rows[n] = DemoPlaces[k]
    BY <1>0, <1>1, RowsOfSeed
  <2>5. ASSUME NEW n \in DOMAIN rows
        PROVE  IF rows[n].code \in PlaceCodes
               THEN /\ Valid(rows[n])
                    /\ \E k \in DOMAIN DemoPlaces : /\ DemoPlaces[k].code = rows[n].code
                                                    /\ DemoPlaces[k].zone = rows[n].zone
                    /\ \E m \in 1 .. n - 1 : rows[m].code = DemoZone
               ELSE rows[n].code = DemoZone
    <3>1. CASE rows[n] = [code |-> DemoZone]
      <4>1. rows[n].code = DemoZone
        BY <3>1
      <4> QED
        BY <2>3, <4>1
    <3>2. ASSUME NEW k \in DOMAIN DemoPlaces, rows[n] = DemoPlaces[k], 1 \in 1 .. n - 1,
                 rows[1] = [code |-> DemoZone]
          PROVE  <2>5!2
      <4>1. rows[1].code = DemoZone
        BY <3>2
      <4> QED
        BY <2>2, <3>2, <4>1
    <3> QED
      BY <2>4, <3>1, <3>2
  <2>6. CodesOf(DemoPlaces) \subseteq CodesOf(rows) \cap PlaceCodes
    BY <2>2, <2>4 DEF CodesOf
  <2> QED
    BY <1>0, <2>1, <2>3, <2>4, <2>5, <2>6
<1>2. CASE c \notin Seeds
  <2>1. PICK Z, P : Z = FileOf[c].zones /\ P = FileOf[c].places
    OBVIOUS
  <2>2. Brings(c) = P /\ BringsZones(c) = CodesOf(Z) /\ parse_locations(P)
    BY <1>2, <2>1 DEF Brings, BringsZones, Parsed
  <2>3. Z \in Seq(ZoneLine) /\ P \in Seq(PlaceLine) /\ CodesOf(P) \cap DemoCodes = {}
    BY <1>2, <2>1, CampusAssumptions DEF CampusAssumptions
  <2>4. ASSUME NEW k \in DOMAIN P
        PROVE  /\ Valid(Imported(P[k])) /\ Imported(P[k]).code = P[k].code
               /\ Imported(P[k]).zone = P[k].zone /\ P[k].code \in PlaceCodes
    <3>1. P[k] \in PlaceLine /\ P[k].code \notin DemoCodes
      BY <2>3 DEF CodesOf
    <3>2. Imported(P[k]) \in PlaceRow
      BY <3>1 DEF PlaceLine, PlaceRow, Imported
    <3>3. LocationChecks(Imported(P[k]))
      BY <2>2 DEF parse_locations, LocationChecks, Imported
    <3> QED
      BY <3>1, <3>2, <3>3 DEF Valid, Imported, PlaceLine
  <2>5. ASSUME NEW k \in DOMAIN Z
        PROVE  Z[k].code \in CodesOf(Z) \cap ZoneCodes /\ Z[k].code \notin PlaceCodes
    <3>1. Z[k] \in ZoneLine
      BY <2>3
    <3> QED
      BY <3>1, CampusAssumptions DEF CampusAssumptions, CodesOf, ZoneLine
  <2>6. /\ rows \in Seq(ZoneRow \cup PlaceRow)
        /\ \A n \in DOMAIN rows :
             \/ \E k \in DOMAIN Z : rows[n] = [code |-> Z[k].code]
             \/ /\ \A k \in DOMAIN Z : k \in 1 .. n - 1 /\ rows[k] = [code |-> Z[k].code]
                /\ \E k \in DOMAIN P : rows[n] = Imported(P[k])
        /\ \A k \in DOMAIN P : \E n \in DOMAIN rows : rows[n] = Imported(P[k])
    <3>1. /\ RowsOf[c] \in Seq(ZoneRow \cup PlaceRow)
          /\ \A n \in DOMAIN RowsOf[c] :
               \/ \E k \in DOMAIN Z : RowsOf[c][n] = [code |-> Z[k].code]
               \/ /\ \A k \in DOMAIN Z : k \in 1 .. n - 1 /\ RowsOf[c][k] = [code |-> Z[k].code]
                  /\ \E k \in DOMAIN P : RowsOf[c][n] = Imported(P[k])
          /\ \A k \in DOMAIN P : \E n \in DOMAIN RowsOf[c] : RowsOf[c][n] = Imported(P[k])
      BY <1>2, <2>1, RowsOfFile
    <3> QED
      BY <1>0, <3>1, Zenon
  <2>7. ASSUME NEW n \in DOMAIN rows
        PROVE  IF rows[n].code \in PlaceCodes
               THEN /\ Valid(rows[n])
                    /\ \E k \in DOMAIN P : P[k].code = rows[n].code /\ P[k].zone = rows[n].zone
                    /\ \A z \in CodesOf(Z) : \E m \in 1 .. n - 1 : rows[m].code = z
               ELSE rows[n].code \in CodesOf(Z) \cap ZoneCodes
    <3>1. ASSUME NEW k \in DOMAIN Z, rows[n] = [code |-> Z[k].code]
          PROVE  <2>7!2
      <4>1. rows[n].code = Z[k].code
        BY <3>1
      <4> QED
        BY <2>5, <4>1
    <3>2. ASSUME NEW k \in DOMAIN P, rows[n] = Imported(P[k]),
                 \A i \in DOMAIN Z : i \in 1 .. n - 1 /\ rows[i] = [code |-> Z[i].code]
          PROVE  <2>7!2
      <4>1. ASSUME NEW z \in CodesOf(Z)
            PROVE  \E m \in 1 .. n - 1 : rows[m].code = z
        <5>1. PICK i \in DOMAIN Z : z = Z[i].code
          BY DEF CodesOf
        <5>2. i \in 1 .. n - 1 /\ rows[i].code = z
          <6>1. i \in 1 .. n - 1 /\ rows[i] = [code |-> Z[i].code]
            BY <3>2
          <6> QED
            BY <5>1, <6>1
        <5> QED
          BY <5>2
      <4> QED
        BY <2>4, <3>2, <4>1
    <3> QED
      BY <2>6, <3>1, <3>2
  <2>8. CodesOf(P) \subseteq CodesOf(rows) \cap PlaceCodes
    <3>1. ASSUME NEW k \in DOMAIN P
          PROVE  P[k].code \in CodesOf(rows) \cap PlaceCodes
      BY <2>4, <2>6 DEF CodesOf
    <3> QED
      BY <3>1 DEF CodesOf
  <2> QED
    BY <1>0, <2>2, <2>6, <2>7, <2>8
<1> QED
  BY <1>1, <1>2

\* Every zone of the file is among the rows.
LEMMA ZonesAreOfTheFile ==
  ASSUME NEW c \in Commands
  PROVE  BringsZones(c) \subseteq CodesOf(RowsOf[c]) \cap ZoneCodes
<1>0. PICK rows : rows = RowsOf[c]
  OBVIOUS
<1>1. CASE c \in Seeds
  <2>1. BringsZones(c) = {DemoZone} /\ DemoZone \in ZoneCodes
    BY <1>1, CampusAssumptions DEF CampusAssumptions, BringsZones
  <2>2. 1 \in DOMAIN rows /\ rows[1] = [code |-> DemoZone]
    BY <1>0, <1>1 DEF RowsOf
  <2>3. rows[1].code = DemoZone
    BY <2>2
  <2> QED
    BY <1>0, <2>1, <2>2, <2>3 DEF CodesOf
<1>2. CASE c \notin Seeds
  <2>1. PICK Z : Z = FileOf[c].zones
    OBVIOUS
  <2>2. BringsZones(c) = CodesOf(Z) /\ Z \in Seq(ZoneLine)
    BY <1>2, <2>1, CampusAssumptions DEF CampusAssumptions, BringsZones
  <2>3. \A k \in DOMAIN Z : \E n \in DOMAIN rows : rows[n] = [code |-> Z[k].code]
    BY <1>0, <1>2, <2>1, RowsOfFile
  <2>4. ASSUME NEW k \in DOMAIN Z
        PROVE  Z[k].code \in CodesOf(rows) \cap ZoneCodes
    <3>1. PICK n \in DOMAIN rows : rows[n] = [code |-> Z[k].code]
      BY <2>3
    <3>2. rows[n].code = Z[k].code /\ Z[k] \in ZoneLine
      BY <2>2, <3>1
    <3> QED
      BY <3>2 DEF CodesOf, ZoneLine
  <2> QED
    BY <1>0, <2>2, <2>4 DEF CodesOf
<1> QED
  BY <1>1, <1>2

-----------------------------------------------------------------------------
(* The commands                                                            *)

LEMMA Grows ==
  ASSUME NEW c, NEW j, NEW zs, NEW codes, Sane(c, j, zs, codes),
         NEW zs2, zs \subseteq zs2, NEW codes2, codes \subseteq codes2
  PROVE  Sane(c, j, zs2, codes2)
<1>1. ZoneComesFirst(RowsOf[c], zs) => ZoneComesFirst(RowsOf[c], zs2)
  BY DEF ZoneComesFirst
<1>2. j.pc = "zones" => j.have \subseteq zs2
  BY DEF Sane
<1>3. j.pc = "writing" => j.have \subseteq zs2 \cup codes2 \cup CodesOf(j.wrote)
  BY DEF Sane
<1> QED
  BY <1>1, <1>2, <1>3 DEF Sane

LEMMA SetPc ==
  ASSUME NEW j \in Job, NEW pc \in Stages, NEW k, k = [j EXCEPT !.pc = pc]
  PROVE  k \in Job /\ k.pc = pc /\ k.have = j.have /\ k.looked = j.looked /\ k.wrote = j.wrote
BY DEF Job

LEMMA SetHave ==
  ASSUME NEW j \in Job, NEW have \in SUBSET (ZoneCodes \cup PlaceCodes), NEW k, k = [j EXCEPT !.have = have]
  PROVE  k \in Job /\ k.pc = j.pc /\ k.have = have /\ k.looked = j.looked /\ k.wrote = j.wrote
BY DEF Job

LEMMA SetLooked ==
  ASSUME NEW j \in Job, NEW k, k = [j EXCEPT !.looked = TRUE]
  PROVE  k \in Job /\ k.pc = j.pc /\ k.have = j.have /\ k.looked = TRUE /\ k.wrote = j.wrote
BY DEF Job

LEMMA JobSteps ==
  ASSUME Commanded, NEW c \in Commands, NEW j \in Job, job' = [job EXCEPT ![c] = j],
         zones \subseteq zones', DOMAIN places \subseteq DOMAIN places',
         applied' \subseteq Commands, Sane(c, j, zones', DOMAIN places')
  PROVE  Commanded'
<1>1. job' \in [Commands -> Job] /\ job'[c] = j /\ \A d \in Commands \ {c} : job'[d] = job[d]
  BY DEF Commanded
<1>2. ASSUME NEW d \in Commands
      PROVE  Sane(d, job'[d], zones', DOMAIN places')
  <2>1. CASE d = c
    BY <1>1, <2>1
  <2>2. CASE d # c
    <3>1. Sane(d, job[d], zones, DOMAIN places)
      BY DEF Commanded
    <3>2. Sane(d, job[d], zones', DOMAIN places')
      BY <3>1, Grows
    <3> QED
      BY <1>1, <2>2, <3>2
  <2> QED
    BY <2>1, <2>2
<1> QED
  BY <1>1, <1>2 DEF Commanded

LEMMA EndedIsSane ==
  ASSUME NEW c, NEW zs, NEW codes
  PROVE  Ended \in Job /\ Sane(c, Ended, zs, codes)
<1>1. Ended.pc = "done" /\ Ended.have = {} /\ Ended.looked = FALSE /\ Ended.wrote = <<>>
  BY DEF Ended, NotStarted
<1>2. Ended \in Job
  <2>1. NotStarted \in Job
    BY DEF NotStarted, Job, Stages
  <2> QED
    BY <2>1, SetPc DEF Ended, Stages
<1> QED
  BY <1>1, <1>2 DEF Sane

LEMMA StoresNothing ==
  ASSUME Vocabulary, NEW c, Stores(LeftBehind(c))
  PROVE  zones' = zones /\ places' = places
BY DEF Vocabulary, Stores, LeftBehind, CodesOf

\* A command that ends without a commit leaves everything as it was.
LEMMA EndsKeeps ==
  ASSUME Vocabulary, Commanded, NEW c \in Commands, Ends(c) \/ Aborts(c)
  PROVE  Commanded' /\ UNCHANGED <<zones, places, applied, filing>>
<1>1. job' = [job EXCEPT ![c] = Ended] /\ UNCHANGED <<zones, places, applied, filing>>
  BY StoresNothing DEF Ends, Aborts
<1>2. applied' \subseteq Commands
  BY <1>1 DEF Commanded
<1>3. Ended \in Job /\ Sane(c, Ended, zones', DOMAIN places')
  BY EndedIsSane
<1>4. PICK j \in Job : j = Ended
  BY <1>3
<1> QED
  BY <1>1, <1>2, <1>3, <1>4, JobSteps

\* A command that goes on to `pc' with the fields of `changes'.
LEMMA MovesKeeps ==
  ASSUME Commanded, NEW c \in Commands, NEW pc \in Stages, NEW changes \in Job,
         Moves(c, pc, changes),
         ASSUME NEW j \in Job, j.pc = pc, j.have = changes.have, j.looked = changes.looked,
                j.wrote = changes.wrote
         PROVE  Sane(c, j, zones, DOMAIN places)
  PROVE  Commanded' /\ UNCHANGED <<zones, places, applied, filing>>
<1>1. PICK j : j = [changes EXCEPT !.pc = pc]
  OBVIOUS
<1>2. /\ j \in Job /\ j.pc = pc /\ j.have = changes.have /\ j.looked = changes.looked
      /\ j.wrote = changes.wrote
  BY <1>1, SetPc
<1>3. job' = [job EXCEPT ![c] = j] /\ UNCHANGED <<zones, places, applied, filing>>
  BY <1>1 DEF Moves
<1>4. Sane(c, j, zones, DOMAIN places)
  BY <1>2
<1>5. Sane(c, j, zones', DOMAIN places')
  BY <1>3, <1>4
<1>6. applied' \subseteq Commands
  BY <1>3 DEF Commanded
<1> QED
  BY <1>2, <1>3, <1>5, <1>6, JobSteps

LEMMA RowIsLeft ==
  ASSUME Commanded, NEW c \in Commands, Parsed(c), Left(c) # {}
  PROVE  \E n \in DOMAIN RowsOf[c] :
           /\ Row(c) = RowsOf[c][n]
           /\ Row(c).code \notin job[c].have
           /\ \A m \in 1 .. n - 1 : RowsOf[c][m].code \in job[c].have
<1>1. PICK l \in Nat : DOMAIN RowsOf[c] = 1 .. l
  <2>1. RowsOf[c] \in Seq(ZoneRow \cup PlaceRow)
    BY RowsAreOfTheFile
  <2> QED
    BY <2>1
<1>2. Left(c) \in SUBSET Nat
  BY <1>1 DEF Left
<1>3. PICK n \in Left(c) : n = CHOOSE k \in Left(c) : \A m \in Left(c) : k <= m
  <2>1. \E k \in Left(c) : \A m \in Left(c) : k <= m
    BY <1>2, Least
  <2> QED
    BY <2>1
<1>4. \A m \in Left(c) : n <= m
  BY <1>2, <1>3, Least
<1>5. n \in 1 .. l /\ Row(c) = RowsOf[c][n] /\ RowsOf[c][n].code \notin job[c].have
  BY <1>1, <1>3 DEF Row, Left
<1>6. ASSUME NEW m \in 1 .. n - 1
      PROVE  RowsOf[c][m].code \in job[c].have
  <2>1. m \in 1 .. l /\ ~(n <= m)
    BY <1>5
  <2> QED
    BY <1>1, <1>4, <2>1 DEF Left
<1> QED
  BY <1>1, <1>5, <1>6

\* The row about to be written: one of the command's, whose zone is there to be named.
LEMMA RowIsSeen ==
  ASSUME Vocabulary, Commanded, NEW c \in Commands, job[c].pc = "writing", Left(c) # {}
  PROVE  /\ \E n \in DOMAIN RowsOf[c] : Row(c) = RowsOf[c][n]
         /\ Row(c) \in ZoneRow \cup PlaceRow
         /\ Row(c).code \in ZoneCodes \cup PlaceCodes
         /\ Row(c).code \in PlaceCodes =>
              Row(c) \in PlaceRow /\ ZoneSeen(c, Row(c).zone) = Row(c).zone
<1>1. /\ Parsed(c) /\ job[c].have \subseteq zones \cup DOMAIN places \cup Holds(c)
      /\ ZoneComesFirst(RowsOf[c], zones)
  BY DEF Commanded, Sane, Holds
<1>2. PICK n \in DOMAIN RowsOf[c] :
        Row(c) = RowsOf[c][n] /\ \A m \in 1 .. n - 1 : RowsOf[c][m].code \in job[c].have
  BY <1>1, RowIsLeft
<1>3. RowsOf[c] \in Seq(ZoneRow \cup PlaceRow)
  BY <1>1, RowsAreOfTheFile
<1>4. Row(c) \in ZoneRow \cup PlaceRow /\ Row(c).code \in ZoneCodes \cup PlaceCodes
  <2>1. Row(c) \in ZoneRow \cup PlaceRow
    BY <1>2, <1>3
  <2> QED
    BY <2>1 DEF ZoneRow, PlaceRow
<1>5. ASSUME Row(c).code \in PlaceCodes
      PROVE  Row(c) \in PlaceRow /\ ZoneSeen(c, Row(c).zone) = Row(c).zone
  <2>1. Row(c) \in PlaceRow
    BY <1>1, <1>2, <1>5, RowsAreOfTheFile DEF Valid
  <2>2. Row(c).zone \in ZoneCodes \cup {NoZone}
    BY <2>1 DEF PlaceRow
  <2>3. Row(c).zone \in {NoZone} \cup zones \cup {RowsOf[c][m].code : m \in 1 .. n - 1}
    BY <1>1, <1>2, <1>5 DEF ZoneComesFirst
  <2>4. Row(c).zone \in {NoZone} \cup zones \cup job[c].have
    BY <1>2, <2>3
  <2>5. Row(c).zone \in {NoZone} \cup zones \cup Holds(c)
    BY <1>1, <2>2, <2>4, CampusAssumptions DEF CampusAssumptions, Vocabulary
  <2> QED
    BY <2>1, <2>5 DEF ZoneSeen
<1> QED
  BY <1>2, <1>4, <1>5

LEMMA SkipsRowKeeps ==
  ASSUME Vocabulary, Commanded, NEW c \in Commands, job[c].pc = "writing", Left(c) # {}
  PROVE  /\ SkipsRow(c) \in Job
         /\ SkipsRow(c).have = job[c].have \cup {Row(c).code} /\ SkipsRow(c).wrote = job[c].wrote
<1>1. job[c] \in Job /\ Row(c).code \in ZoneCodes \cup PlaceCodes
  BY RowIsSeen DEF Commanded
<1>2. PICK have : have = job[c].have \cup {Row(c).code}
  OBVIOUS
<1>3. have \in SUBSET (ZoneCodes \cup PlaceCodes)
  BY <1>1, <1>2 DEF Job
<1>4. SkipsRow(c) = [job[c] EXCEPT !.have = have]
  BY <1>2 DEF SkipsRow
<1> QED
  BY <1>1, <1>2, <1>3, <1>4, SetHave

LEMMA LookKeeps ==
  ASSUME Vocabulary, Commanded, NEW c \in Commands, Look(c)
  PROVE  Commanded' /\ UNCHANGED <<zones, places, applied, filing>>
<1>1. job[c] \in Job /\ job[c].pc = "writing" /\ Left(c) # {} /\ Sane(c, job[c], zones, DOMAIN places)
  BY DEF Look, Writing, Commanded
<1>2. CASE Row(c).code \in DOMAIN places
  <2>1. PICK k : k = SkipsRow(c)
    OBVIOUS
  <2>2. k \in Job /\ k.have = job[c].have \cup {Row(c).code} /\ k.wrote = job[c].wrote
    BY <1>1, <2>1, SkipsRowKeeps
  <2>3. Moves(c, "writing", k)
    BY <1>2, <2>1 DEF Look
  <2>4. ASSUME NEW j \in Job, j.pc = "writing", j.have = k.have, j.looked = k.looked, j.wrote = k.wrote
        PROVE  Sane(c, j, zones, DOMAIN places)
    BY <1>1, <1>2, <2>2, <2>4 DEF Sane
  <2> QED
    BY <2>2, <2>3, <2>4, MovesKeeps DEF Stages
<1>3. CASE Row(c).code \notin DOMAIN places
  <2>1. PICK k : k = [job[c] EXCEPT !.looked = TRUE]
    OBVIOUS
  <2>2. k \in Job /\ k.have = job[c].have /\ k.wrote = job[c].wrote
    BY <1>1, <2>1, SetLooked
  <2>3. Moves(c, "writing", k)
    BY <1>3, <2>1 DEF Look
  <2>4. ASSUME NEW j \in Job, j.pc = "writing", j.have = k.have, j.looked = k.looked, j.wrote = k.wrote
        PROVE  Sane(c, j, zones, DOMAIN places)
    BY <1>1, <2>2, <2>4 DEF Sane
  <2> QED
    BY <2>2, <2>3, <2>4, MovesKeeps DEF Stages
<1> QED
  BY <1>2, <1>3

LEMMA ConflictKeeps ==
  ASSUME Vocabulary, Commanded, NEW c \in Commands, ConflictIgnored(c)
  PROVE  Commanded' /\ UNCHANGED <<zones, places, applied, filing>>
<1>1. /\ job[c].pc = "writing" /\ Left(c) # {} /\ Sane(c, job[c], zones, DOMAIN places)
      /\ Row(c).code \in zones /\ Moves(c, "writing", SkipsRow(c))
  BY DEF ConflictIgnored, Inserts, Writing, Commanded
<1>2. PICK k : k = SkipsRow(c)
  OBVIOUS
<1>3. k \in Job /\ k.have = job[c].have \cup {Row(c).code} /\ k.wrote = job[c].wrote
  BY <1>1, <1>2, SkipsRowKeeps
<1>4. ASSUME NEW j \in Job, j.pc = "writing", j.have = k.have, j.looked = k.looked, j.wrote = k.wrote
      PROVE  Sane(c, j, zones, DOMAIN places)
  BY <1>1, <1>3, <1>4 DEF Sane
<1>5. Moves(c, "writing", k)
  BY <1>1, <1>2
<1> QED
  BY <1>3, <1>4, <1>5, MovesKeeps DEF Stages

LEMMA CodesOfAppend ==
  ASSUME NEW S, NEW rows \in Seq(S), NEW row \in S
  PROVE  /\ Append(rows, row) \in Seq(S)
         /\ CodesOf(Append(rows, row)) = CodesOf(rows) \cup {row.code}
         /\ \A n \in DOMAIN Append(rows, row) :
              (\E m \in DOMAIN rows : Append(rows, row)[n] = rows[m]) \/ Append(rows, row)[n] = row
<1>1. PICK l \in Nat : l = Len(rows) /\ DOMAIN rows = 1 .. l
  OBVIOUS
<1>2. PICK more : more = Append(rows, row)
  OBVIOUS
<1>3. /\ more \in Seq(S) /\ DOMAIN more = 1 .. l + 1
      /\ \A n \in 1 .. l : more[n] = rows[n]
      /\ more[l + 1] = row
  BY <1>1, <1>2
<1>4. \A n \in 1 .. l + 1 : n \in 1 .. l \/ n = l + 1
  OBVIOUS
<1>5. (\A n \in 1 .. l : n \in 1 .. l + 1) /\ l + 1 \in 1 .. l + 1
  OBVIOUS
<1>6. CodesOf(more) = CodesOf(rows) \cup {row.code}
  BY <1>1, <1>3, <1>4, <1>5 DEF CodesOf
<1>7. \A n \in DOMAIN more : (\E m \in DOMAIN rows : more[n] = rows[m]) \/ more[n] = row
  BY <1>1, <1>3, <1>4
<1> QED
  BY <1>2, <1>3, <1>6, <1>7

LEMMA InsertKeeps ==
  ASSUME Vocabulary, Commanded, NEW c \in Commands, InsertRow(c)
  PROVE  Commanded' /\ UNCHANGED <<zones, places, applied, filing>>
<1>1. job[c].pc = "writing" /\ Left(c) # {} /\ Sane(c, job[c], zones, DOMAIN places) /\ job[c] \in Job
  BY DEF InsertRow, Inserts, Writing, Commanded
<1>2. PICK row : row = Row(c)
  OBVIOUS
<1>3. /\ row \in ZoneRow \cup PlaceRow /\ \E n \in DOMAIN RowsOf[c] : row = RowsOf[c][n]
      /\ row.code \in PlaceCodes => row \in PlaceRow /\ ZoneSeen(c, row.zone) = row.zone
  BY <1>1, <1>2, RowIsSeen
<1>4. (IF row.code \in PlaceCodes THEN [row EXCEPT !.zone = ZoneSeen(c, @)] ELSE row) = row
  BY <1>3 DEF PlaceRow
<1>5. PICK wrote : wrote = Append(job[c].wrote, row)
  OBVIOUS
<1>6. job[c].wrote \in Seq(ZoneRow \cup PlaceRow)
  BY <1>1 DEF Job
<1>7. /\ wrote \in Seq(ZoneRow \cup PlaceRow) /\ CodesOf(wrote) = CodesOf(job[c].wrote) \cup {row.code}
      /\ \A n \in DOMAIN wrote : (\E m \in DOMAIN job[c].wrote : wrote[n] = job[c].wrote[m]) \/ wrote[n] = row
  BY <1>3, <1>5, <1>6, CodesOfAppend
<1>8. PICK k0, k : k0 = SkipsRow(c) /\ k = [k0 EXCEPT !.wrote = wrote, !.looked = FALSE]
  OBVIOUS
<1>9. k \in Job /\ k.have = job[c].have \cup {row.code} /\ k.wrote = wrote
  <2>1. k0 \in Job /\ k0.have = job[c].have \cup {row.code} /\ k0.wrote = job[c].wrote
    BY <1>1, <1>2, <1>8, SkipsRowKeeps
  <2>2. wrote \in Seq(ZoneRow \cup PlaceRow)
    BY <1>7
  <2>3. k \in Job /\ k.have = k0.have /\ k.wrote = wrote
    BY <1>8, <2>1, <2>2 DEF Job
  <2> QED
    BY <2>1, <2>3
<1>10. Moves(c, "writing", k)
  <2>1. k = [SkipsRow(c) EXCEPT !.wrote = Append(@, row), !.looked = FALSE]
    BY <1>1, <1>5, <1>8, SkipsRowKeeps
  <2> QED
    BY <1>2, <1>4, <2>1 DEF InsertRow
<1>11. ASSUME NEW j \in Job, j.pc = "writing", j.have = k.have, j.looked = k.looked, j.wrote = k.wrote
       PROVE  Sane(c, j, zones, DOMAIN places)
  <2>1. j.have \subseteq zones \cup DOMAIN places \cup CodesOf(j.wrote)
    BY <1>1, <1>7, <1>9, <1>11 DEF Sane
  <2>2. \A n \in DOMAIN j.wrote : \E m \in DOMAIN RowsOf[c] : j.wrote[n] = RowsOf[c][m]
    BY <1>1, <1>3, <1>7, <1>9, <1>11 DEF Sane
  <2> QED
    BY <1>1, <1>11, <2>1, <2>2 DEF Sane
<1> QED
  BY <1>9, <1>10, <1>11, MovesKeeps DEF Stages

LEMMA ValidateKeeps ==
  ASSUME Vocabulary, Commanded, NEW c \in Commands, Validate(c)
  PROVE  Commanded' /\ UNCHANGED <<zones, places, applied, filing>>
<1>1. PICK k \in Job : k = job[c]
  BY DEF Commanded
<1>2. /\ c \notin Seeds /\ k = NotStarted /\ parse_locations(FileOf[c].places)
      /\ Moves(c, "validated", k)
  BY <1>1 DEF Validate, Starts, Commanded, Sane
<1>3. k.wrote = <<>>
  BY <1>2 DEF NotStarted
<1>4. ASSUME NEW j \in Job, j.pc = "validated", j.have = k.have, j.looked = k.looked, j.wrote = k.wrote
      PROVE  Sane(c, j, zones, DOMAIN places)
  BY <1>2, <1>3, <1>4 DEF Sane, Parsed
<1>5. "validated" \in Stages
  BY DEF Stages
<1> QED
  BY <1>2, <1>4, <1>5, MovesKeeps

LEMMA ReadZonesKeeps ==
  ASSUME Vocabulary, Commanded, NEW c \in Commands, ReadZones(c)
  PROVE  Commanded' /\ UNCHANGED <<zones, places, applied, filing>>
<1>1. job[c] \in Job /\ job[c].pc = "validated" /\ Sane(c, job[c], zones, DOMAIN places)
  BY DEF ReadZones, Commanded
<1>2. PICK k : k = [job[c] EXCEPT !.have = zones]
  OBVIOUS
<1>3. k \in Job /\ k.have = zones /\ k.wrote = job[c].wrote
  <2>1. zones \in SUBSET (ZoneCodes \cup PlaceCodes)
    BY DEF Vocabulary
  <2> QED
    BY <1>1, <1>2, <2>1, SetHave
<1>4. Moves(c, "zones", k)
  BY <1>2 DEF ReadZones
<1>5. ASSUME NEW j \in Job, j.pc = "zones", j.have = k.have, j.looked = k.looked, j.wrote = k.wrote
      PROVE  Sane(c, j, zones, DOMAIN places)
  BY <1>1, <1>3, <1>5 DEF Sane
<1> QED
  BY <1>3, <1>4, <1>5, MovesKeeps DEF Stages

\* Every zone that is named is one of the command's own or was read.
LEMMA ZonesAreResolved ==
  ASSUME Vocabulary, NEW c \in Commands, Parsed(c), c \in Seeds \/ Unresolved(c) = {},
         c \in Seeds \/ job[c].have \subseteq zones
  PROVE  ZoneComesFirst(RowsOf[c], zones)
<1>1. ASSUME NEW n \in DOMAIN RowsOf[c], RowsOf[c][n].code \in PlaceCodes
      PROVE  RowsOf[c][n].zone \in {NoZone} \cup zones \cup {RowsOf[c][m].code : m \in 1 .. n - 1}
  <2>1. PICK k \in DOMAIN Brings(c) : Brings(c)[k].zone = RowsOf[c][n].zone
    BY <1>1, RowsAreOfTheFile
  <2>2. PICK zone : zone = RowsOf[c][n].zone
    OBVIOUS
  <2>3. zone \in BringsZones(c) \cup {NoZone} \cup zones
    <3>1. CASE c \in Seeds
      <4>1. DemoPlaces[k].zone = DemoZone
        BY <2>1, <3>1, CampusAssumptions DEF CampusAssumptions, Brings
      <4> QED
        BY <2>1, <2>2, <3>1, <4>1 DEF Brings, BringsZones
    <3>2. CASE c \notin Seeds
      <4>1. zone \in NamedZones(c) \cup {NoZone}
        BY <2>1, <2>2, <3>2 DEF Brings, NamedZones
      <4> QED
        BY <3>2, <4>1 DEF Unresolved, BringsZones
    <3> QED
      BY <3>1, <3>2
  <2>4. ASSUME zone \in BringsZones(c)
        PROVE  zone \in {RowsOf[c][m].code : m \in 1 .. n - 1}
    <3>1. \E m \in 1 .. n - 1 : RowsOf[c][m].code = zone
      BY <1>1, <2>4, RowsAreOfTheFile
    <3> QED
      BY <3>1
  <2> QED
    BY <2>2, <2>3, <2>4
<1> QED
  BY <1>1 DEF ZoneComesFirst

LEMMA ReadPlacesKeeps ==
  ASSUME Vocabulary, Commanded, NEW c \in Commands, ReadPlaces(c)
  PROVE  Commanded' /\ UNCHANGED <<zones, places, applied, filing>>
<1>1. /\ job[c] \in Job /\ job[c].pc = "zones" /\ Sane(c, job[c], zones, DOMAIN places)
      /\ Unresolved(c) = {}
  BY DEF ReadPlaces, Commanded
<1>2. /\ Parsed(c) /\ c \notin Seeds /\ job[c].wrote = <<>> /\ job[c].have \subseteq zones
      /\ ZoneComesFirst(RowsOf[c], zones)
  BY <1>1, ZonesAreResolved DEF Sane
<1>3. PICK have : have = (job[c].have \cup DOMAIN places) \cap CodesOf(RowsOf[c])
  OBVIOUS
<1>4. have \in SUBSET (ZoneCodes \cup PlaceCodes) /\ have \subseteq zones \cup DOMAIN places
  BY <1>2, <1>3 DEF Vocabulary
<1>5. PICK k : k = [job[c] EXCEPT !.have = have]
  OBVIOUS
<1>6. k \in Job /\ k.have = have /\ k.wrote = job[c].wrote
  BY <1>1, <1>4, <1>5, SetHave
<1>7. Moves(c, "writing", k)
  BY <1>3, <1>5 DEF ReadPlaces
<1>8. ASSUME NEW j \in Job, j.pc = "writing", j.have = k.have, j.looked = k.looked, j.wrote = k.wrote
      PROVE  Sane(c, j, zones, DOMAIN places)
  BY <1>2, <1>4, <1>6, <1>8 DEF Sane
<1> QED
  BY <1>6, <1>7, <1>8, MovesKeeps DEF Stages

LEMMA BeginSeedKeeps ==
  ASSUME Vocabulary, Commanded, NEW c \in Commands, BeginSeed(c)
  PROVE  Commanded' /\ UNCHANGED <<zones, places, applied, filing>>
<1>1. PICK k \in Job : k = job[c]
  BY DEF Commanded
<1>2. c \in Seeds /\ k = NotStarted /\ Moves(c, "writing", k)
  BY <1>1 DEF BeginSeed, Starts, Commanded, Sane
<1>3. k.wrote = <<>> /\ k.have = {}
  BY <1>2 DEF NotStarted
<1>4. Parsed(c) /\ ZoneComesFirst(RowsOf[c], zones)
  BY <1>2, ZonesAreResolved DEF Parsed
<1>5. ASSUME NEW j \in Job, j.pc = "writing", j.have = k.have, j.looked = k.looked, j.wrote = k.wrote
      PROVE  Sane(c, j, zones, DOMAIN places)
  BY <1>3, <1>4, <1>5 DEF Sane
<1>6. "writing" \in Stages
  BY DEF Stages
<1> QED
  BY <1>2, <1>5, <1>6, MovesKeeps

\* What a commit does to the vocabulary.
LEMMA StoresRows ==
  ASSUME Vocabulary, NEW rows, Stores(rows),
         \A n \in DOMAIN rows : IF rows[n].code \in PlaceCodes THEN Valid(rows[n])
                                ELSE rows[n].code \in ZoneCodes
  PROVE  /\ Vocabulary'
         /\ zones' = zones \cup (CodesOf(rows) \ PlaceCodes)
         /\ DOMAIN places' = DOMAIN places \cup (CodesOf(rows) \cap PlaceCodes)
         /\ \A code \in DOMAIN places' :
              \/ code \in DOMAIN places /\ places'[code] = places[code]
              \/ \E n \in DOMAIN rows : /\ rows[n].code = code /\ code \in PlaceCodes
                                        /\ places'[code] = rows[n]
<1> DEFINE new == {n \in DOMAIN rows : rows[n].code \in PlaceCodes}
           chosen(code) == CHOOSE n \in new : rows[n].code = code
           row == [code \in {rows[n].code : n \in new} |-> rows[chosen(code)]]
<1>1. ASSUME NEW code \in CodesOf(rows) \cap PlaceCodes
      PROVE  chosen(code) \in new /\ rows[chosen(code)].code = code
  <2>1. \E n \in new : rows[n].code = code
    BY DEF CodesOf
  <2> QED
    BY <2>1
<1> HIDE DEF chosen
<1>2. DOMAIN row = CodesOf(rows) \cap PlaceCodes
  BY DEF CodesOf
<1>3. ASSUME NEW code \in CodesOf(rows) \cap PlaceCodes
      PROVE  row[code] = rows[chosen(code)]
  BY <1>2
<1>4. /\ places' = [code \in DOMAIN places \cup DOMAIN row |->
                      IF code \in DOMAIN row THEN row[code] ELSE places[code]]
      /\ zones' = zones \cup (CodesOf(rows) \ PlaceCodes)
  BY DEF Stores, chosen
<1> HIDE DEF row
<1>5. DOMAIN places' = DOMAIN places \cup (CodesOf(rows) \cap PlaceCodes)
  BY <1>2, <1>4
<1>6. ASSUME NEW code \in DOMAIN places'
      PROVE  \/ code \in DOMAIN places /\ places'[code] = places[code]
             \/ \E n \in DOMAIN rows : /\ rows[n].code = code /\ code \in PlaceCodes
                                       /\ places'[code] = rows[n]
  <2>1. CASE code \in CodesOf(rows) \cap PlaceCodes
    <3>1. places'[code] = rows[chosen(code)] /\ chosen(code) \in DOMAIN rows
      BY <1>1, <1>2, <1>3, <1>4, <1>5, <2>1
    <3> QED
      BY <1>1, <2>1, <3>1
  <2>2. CASE code \notin CodesOf(rows) \cap PlaceCodes
    BY <1>2, <1>4, <1>5, <2>2
  <2> QED
    BY <2>1, <2>2
<1>7. \A code \in DOMAIN places' : places'[code].code = code /\ Valid(places'[code])
  BY <1>6 DEF Vocabulary
<1>8. zones' \subseteq ZoneCodes /\ DOMAIN places \subseteq DOMAIN places' /\ DOMAIN places' \subseteq PlaceCodes
  BY <1>4, <1>5 DEF Vocabulary, CodesOf
<1>9. places' \in [DOMAIN places' -> PlaceRow]
  <2>1. places' = [code \in DOMAIN places' |-> places'[code]]
    BY <1>4
  <2> QED
    BY <1>7, <2>1 DEF Valid
<1> QED
  BY <1>4, <1>5, <1>6, <1>7, <1>8, <1>9 DEF Vocabulary

LEMMA CommitKeeps ==
  ASSUME Vocabulary, Commanded, ImportIsWhole, NEW c \in Commands, CommitRows(c)
  PROVE  /\ Vocabulary' /\ Commanded' /\ ImportIsWhole' /\ UNCHANGED filing
         /\ DOMAIN places \subseteq DOMAIN places'
<1>1. PICK rows, wrote : rows = RowsOf[c] /\ wrote = job[c].wrote
  OBVIOUS
<1>2. /\ Parsed(c) /\ job[c].have \subseteq zones \cup DOMAIN places \cup CodesOf(wrote)
      /\ \A n \in DOMAIN wrote : \E m \in DOMAIN rows : wrote[n] = rows[m]
  BY <1>1 DEF CommitRows, Commanded, Sane
<1>3. /\ \A n \in DOMAIN rows :
           IF rows[n].code \in PlaceCodes
           THEN /\ Valid(rows[n])
                /\ \E k \in DOMAIN Brings(c) : /\ Brings(c)[k].code = rows[n].code
                                               /\ Brings(c)[k].zone = rows[n].zone
           ELSE rows[n].code \in BringsZones(c) \cap ZoneCodes
      /\ CodesOf(Brings(c)) \subseteq CodesOf(rows) \cap PlaceCodes
  BY <1>1, <1>2, RowsAreOfTheFile
<1>4. \A n \in DOMAIN wrote :
        IF wrote[n].code \in PlaceCodes
        THEN /\ Valid(wrote[n])
             /\ \E k \in DOMAIN Brings(c) : /\ Brings(c)[k].code = wrote[n].code
                                            /\ Brings(c)[k].zone = wrote[n].zone
        ELSE wrote[n].code \in BringsZones(c) \cap ZoneCodes
  BY <1>2, <1>3
<1>5. /\ Vocabulary'
      /\ zones' = zones \cup (CodesOf(wrote) \ PlaceCodes)
      /\ DOMAIN places' = DOMAIN places \cup (CodesOf(wrote) \cap PlaceCodes)
      /\ \A code \in DOMAIN places' :
           \/ code \in DOMAIN places /\ places'[code] = places[code]
           \/ \E n \in DOMAIN wrote : /\ wrote[n].code = code /\ code \in PlaceCodes
                                      /\ places'[code] = wrote[n]
  <2>1. Stores(wrote)
    BY <1>1 DEF CommitRows
  <2>2. \A n \in DOMAIN wrote : IF wrote[n].code \in PlaceCodes THEN Valid(wrote[n])
                                ELSE wrote[n].code \in ZoneCodes
    BY <1>4
  <2> QED
    BY <2>1, <2>2, StoresRows
<1>6. /\ applied' = applied \cup {c} /\ UNCHANGED filing /\ job' = [job EXCEPT ![c] = Ended]
      /\ Left(c) = {}
  BY DEF CommitRows
<1>7. Commanded'
  <2>1. applied' \subseteq Commands
    BY <1>6 DEF Commanded
  <2>2. PICK j \in Job : j = Ended
    BY EndedIsSane
  <2>3. Sane(c, j, zones', DOMAIN places')
    BY <2>2, EndedIsSane
  <2> QED
    BY <1>5, <1>6, <2>1, <2>2, <2>3, JobSteps
<1>8. ASSUME NEW code \in DOMAIN places' \ DOMAIN FirstPlaces
      PROVE  \E d \in applied' : \E n \in DOMAIN Brings(d) :
               Brings(d)[n].code = code /\ Brings(d)[n].zone = places'[code].zone
  <2>1. CASE code \in DOMAIN places /\ places'[code] = places[code]
    <3>1. \E d \in applied : \E n \in DOMAIN Brings(d) :
            Brings(d)[n].code = code /\ Brings(d)[n].zone = places[code].zone
      BY <1>8, <2>1 DEF ImportIsWhole
    <3> QED
      BY <1>6, <2>1, <3>1
  <2>2. ASSUME NEW n \in DOMAIN wrote, wrote[n].code = code, code \in PlaceCodes,
               places'[code] = wrote[n]
        PROVE  \E d \in applied' : \E i \in DOMAIN Brings(d) :
                 Brings(d)[i].code = code /\ Brings(d)[i].zone = places'[code].zone
    <3>1. \E k \in DOMAIN Brings(c) : Brings(c)[k].code = code /\ Brings(c)[k].zone = wrote[n].zone
      BY <1>4, <2>2
    <3> QED
      BY <1>6, <2>2, <3>1
  <2> QED
    BY <1>5, <2>1, <2>2
<1>9. ASSUME NEW d \in applied'
      PROVE  CodesOf(Brings(d)) \subseteq DOMAIN places' /\ BringsZones(d) \subseteq zones'
  <2>1. CASE d \in applied
    BY <1>5, <2>1 DEF ImportIsWhole
  <2>2. CASE d = c
    <3>1. CodesOf(rows) \subseteq job[c].have
      BY <1>1, <1>6 DEF Left, CodesOf
    <3>2. CodesOf(Brings(c)) \subseteq DOMAIN places'
      BY <1>2, <1>3, <1>5, <3>1, CampusAssumptions DEF CampusAssumptions, Vocabulary
    <3>3. BringsZones(c) \subseteq CodesOf(rows) \cap ZoneCodes
      BY <1>1, ZonesAreOfTheFile
    <3>4. BringsZones(c) \subseteq zones'
      BY <1>2, <1>5, <3>1, <3>3, CampusAssumptions DEF CampusAssumptions, Vocabulary
    <3> QED
      BY <2>2, <3>2, <3>4
  <2> QED
    BY <1>6, <2>1, <2>2
<1>10. zones' \subseteq UNION {BringsZones(d) : d \in applied'}
  <2>1. CodesOf(wrote) \ PlaceCodes \subseteq BringsZones(c)
    BY <1>4 DEF CodesOf
  <2>2. zones \subseteq UNION {BringsZones(d) : d \in applied}
    BY DEF ImportIsWhole
  <2> QED
    BY <1>5, <1>6, <2>1, <2>2
<1>11. ImportIsWhole'
  BY <1>8, <1>9, <1>10 DEF ImportIsWhole
<1> QED
  BY <1>5, <1>6, <1>7, <1>11

\* A step of a command, its failures included.
LEMMA CommandSteps ==
  ASSUME Vocabulary, Commanded, ImportIsWhole, NEW c \in Commands, Step(c) \/ Crash(c)
  PROVE  /\ Vocabulary' /\ Commanded' /\ ImportIsWhole' /\ UNCHANGED filing
         /\ DOMAIN places \subseteq DOMAIN places'
<1>1. CASE CommitRows(c)
  BY <1>1, CommitKeeps
<1>2. ASSUME Commanded', UNCHANGED <<zones, places, applied, filing>>
      PROVE  /\ Vocabulary' /\ Commanded' /\ ImportIsWhole' /\ UNCHANGED filing
             /\ DOMAIN places \subseteq DOMAIN places'
  <2>1. Vocabulary' /\ DOMAIN places \subseteq DOMAIN places'
    BY <1>2 DEF Vocabulary
  <2>2. ImportIsWhole'
    BY <1>2 DEF ImportIsWhole
  <2> QED
    BY <1>2, <2>1, <2>2
<1>3. CASE Ends(c) \/ Aborts(c)
  BY <1>2, <1>3, EndsKeeps
<1>4. CASE RejectFile(c) \/ NothingToWrite(c) \/ RefuseSeed(c)
  BY <1>3, <1>4 DEF RejectFile, NothingToWrite, RefuseSeed
<1>5. CASE UniqueViolation(c) \/ DeadlockVictim(c) \/ Crash(c)
  BY <1>3, <1>5 DEF UniqueViolation, DeadlockVictim, Crash
<1>6. CASE Validate(c) \/ ReadZones(c) \/ ReadPlaces(c) \/ BeginSeed(c)
  BY <1>2, <1>6, ValidateKeeps, ReadZonesKeeps, ReadPlacesKeeps, BeginSeedKeeps
<1>7. CASE Look(c) \/ InsertRow(c) \/ ConflictIgnored(c)
  BY <1>2, <1>7, LookKeeps, InsertKeeps, ConflictKeeps
<1> QED
  BY <1>1, <1>4, <1>5, <1>6, <1>7 DEF Step

-----------------------------------------------------------------------------
(* Filing                                                                  *)

\* The location a filing may be anchored to: the one a reporter chose, and the
\* sentinel for an SOS whose device gave no position.
RightPlace(sent, place) ==
  place = IF sent.kind = "report" THEN sent.place
          ELSE IF sent.device = NoPoint THEN Sentinel ELSE place

Drafted ==
  draft # <<>> =>
    /\ draft[1].sent \in Filings /\ draft[1].row \in PlaceRow
    /\ draft[1].row.code \in DOMAIN places
    /\ RightPlace(draft[1].sent, draft[1].row.code)

Detail ==
  [resolution: {"unresolved", "approximate", "corroborated", "conflicting"},
   source: {"device_gps", "photo_exif", "location_default"}, at: Points \cup {NoPoint}]

\* A verdict no CHECK refuses, which holds the device's position exactly if there is one.
RightDetail(sent, detail) ==
  /\ detail \in Detail /\ DetailChecks(detail)
  /\ IF sent.kind = "sos" /\ sent.device # NoPoint
     THEN detail.source = "device_gps" /\ detail.at = sent.device
     ELSE detail.source # "device_gps"

Filed ==
  /\ reports \in Seq([sent: Filings, place: PlaceCodes, detail: Detail])
  /\ \A n \in DOMAIN reports :
       /\ reports[n].place \in DOMAIN places
       /\ RightPlace(reports[n].sent, reports[n].place)
       /\ RightDetail(reports[n].sent, reports[n].detail)

LEMMA FilingFields ==
  ASSUME NEW f \in Filings
  PROVE  /\ f.kind \in {"report", "sos"} /\ f.place \in PlaceCodes
         /\ f.device \in Points \cup {NoPoint} /\ f.photo.at \in Points \cup {NoPoint}
BY CampusAssumptions DEF CampusAssumptions

LEMMA Resolves ==
  ASSUME NEW row \in PlaceRow, NEW f \in Filings
  PROVE  RightDetail(f, resolve(row, SignalOf(f)))
<1>1. /\ f.kind \in {"report", "sos"} /\ f.device \in Points \cup {NoPoint}
      /\ f.photo.at \in Points \cup {NoPoint}
  BY FilingFields
<1>2. PICK signal : signal = SignalOf(f)
  OBVIOUS
<1>3. /\ signal \in [source: {"device_gps", "photo_exif", "location_default"}, at: Points \cup {NoPoint}]
      /\ signal.at = NoPoint <=> signal = NoSignal
      /\ signal.source = "location_default" <=> signal = NoSignal
  BY <1>1, <1>2 DEF SignalOf, Signal, NoSignal, extract_photo_location
<1>4. IF f.kind = "sos" /\ f.device # NoPoint
      THEN signal.source = "device_gps" /\ signal.at = f.device
      ELSE signal.source # "device_gps"
  BY <1>1, <1>2 DEF SignalOf, Signal, NoSignal
<1>5. NoSignal.source = "location_default" /\ NoSignal.at = NoPoint
  BY DEF NoSignal
<1>6. PICK d : d = resolve(row, signal)
  OBVIOUS
<1>7. ASSUME NEW s, NEW r, d = Verdict(r, s), s.source \in {"device_gps", "photo_exif", "location_default"},
             s.at \in Points \cup {NoPoint}, r \in {"unresolved", "approximate", "corroborated", "conflicting"}
      PROVE  d \in Detail /\ d.source = s.source /\ d.at = s.at /\ d.resolution = r
  BY <1>7 DEF Verdict, Detail
<1>8. CASE d = Verdict("unresolved", signal) /\ signal.source = "device_gps"
  <2>1. d \in Detail /\ d.source = signal.source /\ d.at = signal.at /\ d.resolution = "unresolved"
    BY <1>3, <1>7, <1>8
  <2> QED
    BY <1>2, <1>3, <1>4, <1>6, <1>8, <2>1 DEF RightDetail, DetailChecks
<1>9. CASE d \in {Verdict("unresolved", NoSignal), Verdict("approximate", NoSignal)}
           /\ signal.source # "device_gps"
  <2>1. d \in Detail /\ d.source = "location_default" /\ d.at = NoPoint
        /\ d.resolution \in {"unresolved", "approximate"}
    BY <1>5, <1>7, <1>9
  <2> QED
    BY <1>2, <1>4, <1>6, <1>9, <2>1 DEF RightDetail, DetailChecks
<1>10. CASE d \in {Verdict("corroborated", signal), Verdict("conflicting", signal)} /\ signal # NoSignal
  <2>1. d \in Detail /\ d.source = signal.source /\ d.at = signal.at
        /\ d.resolution \in {"corroborated", "conflicting"}
    BY <1>3, <1>7, <1>10
  <2> QED
    BY <1>2, <1>3, <1>4, <1>6, <1>10, <2>1 DEF RightDetail, DetailChecks
<1>11. signal = NoSignal => signal.source # "device_gps"
  BY <1>5
<1> QED
  BY <1>6, <1>8, <1>9, <1>10, <1>11 DEF resolve

LEMMA LoadKeeps ==
  ASSUME Vocabulary, NEW f \in Filings, Load(f)
  PROVE  Drafted'
<1>1. PICK code \in Anchors(f) : draft' = <<[sent |-> f, row |-> places[code]]>>
  BY DEF Load
<1>2. list_active \subseteq DOMAIN places /\ Sentinel \in DOMAIN places
  BY CampusAssumptions DEF CampusAssumptions, list_active, Vocabulary
<1>3. code \in DOMAIN places /\ RightPlace(f, code)
  <2>1. nearest_verified_location(f.device) \subseteq list_active
    BY DEF nearest_verified_location, Near
  <2> QED
    BY <1>1, <1>2, <2>1 DEF Anchors, RightPlace
<1>4. places[code] \in PlaceRow /\ places[code].code = code
  BY <1>3 DEF Vocabulary
<1>5. draft'[1].sent = f /\ draft'[1].row = places[code] /\ UNCHANGED places
  BY <1>1 DEF Load
<1> QED
  BY <1>3, <1>4, <1>5 DEF Drafted

LEMMA FileKeeps ==
  ASSUME Vocabulary, Drafted, Filed, File
  PROVE  Filed' /\ Drafted'
<1>1. draft # <<>> /\ draft' = <<>> /\ UNCHANGED places
  BY DEF File
<1>2. PICK f \in Filings, row \in PlaceRow : draft[1].sent = f /\ draft[1].row = row
  BY <1>1 DEF Drafted
<1>3. row.code \in DOMAIN places /\ row.code \in PlaceCodes /\ RightPlace(f, row.code)
  BY <1>1, <1>2 DEF Drafted, Vocabulary
<1>4. PICK detail : detail = resolve(row, SignalOf(f)) /\ RightDetail(f, detail)
  BY Resolves
<1>5. PICK r : r = [sent |-> f, place |-> row.code, detail |-> detail]
  OBVIOUS
<1> DEFINE R == [sent: Filings, place: PlaceCodes, detail: Detail]
<1>6. r \in R /\ r.sent = f /\ r.place = row.code /\ r.detail = detail
  BY <1>3, <1>4, <1>5 DEF RightDetail
<1>7. reports \in Seq(R) /\ reports' = Append(reports, r)
  BY <1>1, <1>2, <1>4, <1>5 DEF File, Filed
<1> HIDE DEF R
<1>8. /\ reports' \in Seq(R)
      /\ \A n \in DOMAIN reports' : (n \in DOMAIN reports /\ reports'[n] = reports[n]) \/ reports'[n] = r
  BY <1>6, <1>7
<1>9. ASSUME NEW n \in DOMAIN reports'
      PROVE  /\ reports'[n].place \in DOMAIN places'
             /\ RightPlace(reports'[n].sent, reports'[n].place)
             /\ RightDetail(reports'[n].sent, reports'[n].detail)
  <2>1. CASE n \in DOMAIN reports /\ reports'[n] = reports[n]
    BY <1>1, <2>1 DEF Filed
  <2>2. CASE reports'[n] = r
    BY <1>1, <1>3, <1>4, <1>6, <2>2
  <2> QED
    BY <1>8, <2>1, <2>2
<1> QED
  BY <1>1, <1>8, <1>9 DEF Filed, Drafted, R

LEMMA CorrectKeeps ==
  ASSUME Vocabulary, NEW code \in PlaceCodes, NEW at \in Points \cup {NoPoint}, Correct(code, at)
  PROVE  /\ Vocabulary' /\ DOMAIN places' = DOMAIN places
         /\ \A other \in DOMAIN places : places'[other].zone = places[other].zone
<1>1. PICK row : row = places[code]
  OBVIOUS
<1>2. code \in DOMAIN places /\ row \in PlaceRow /\ row.code = code /\ Valid(row) /\ UNCHANGED zones
  BY <1>1 DEF Correct, Vocabulary
<1>3. PICK status : status = IF at = NoPoint THEN "required" ELSE "verified"
  OBVIOUS
<1>4. PICK new : new = [row EXCEPT !.at = at, !.sourced = TRUE, !.active = at # NoPoint, !.status = status]
  OBVIOUS
<1>5. /\ new \in PlaceRow /\ new.code = code /\ new.zone = row.zone /\ new.synthetic = row.synthetic
      /\ new.at = at /\ new.sourced /\ new.status = status /\ (new.active <=> at # NoPoint)
  BY <1>2, <1>3, <1>4 DEF PlaceRow, CoordinateStatus
<1>6. Valid(new)
  BY <1>2, <1>3, <1>5 DEF Valid, LocationChecks
<1>7. places' = [places EXCEPT ![code] = new]
  BY <1>1, <1>3, <1>4 DEF Correct
<1>8. /\ DOMAIN places' = DOMAIN places /\ places'[code] = new
      /\ \A other \in DOMAIN places \ {code} : places'[other] = places[other]
  BY <1>2, <1>7
<1>9. places' \in [DOMAIN places' -> PlaceRow]
  BY <1>5, <1>7, <1>8 DEF Vocabulary
<1> QED
  BY <1>1, <1>2, <1>5, <1>6, <1>8, <1>9 DEF Vocabulary

-----------------------------------------------------------------------------
(* The theorems                                                            *)

MapInv == Vocabulary /\ Commanded /\ ImportIsWhole /\ Drafted /\ Filed

LEMMA MapInit ==
  ASSUME Init
  PROVE  MapInv
<1>1. Vocabulary
  <2>1. ASSUME NEW code \in DOMAIN places
        PROVE  places[code].code = code /\ Valid(places[code])
    BY CampusAssumptions DEF CampusAssumptions, Init, Valid
  <2> QED
    BY <2>1, CampusAssumptions DEF CampusAssumptions, Init, Vocabulary
<1>2. Commanded
  <2>1. NotStarted \in Job /\ NotStarted.pc = "start"
    BY DEF NotStarted, Job, Stages
  <2>2. \A c \in Commands : Sane(c, NotStarted, zones, DOMAIN places)
    BY <2>1 DEF Sane
  <2> QED
    BY <2>1, <2>2 DEF Init, Commanded
<1>3. ImportIsWhole
  BY DEF Init, ImportIsWhole
<1>4. Drafted /\ Filed
  BY DEF Init, Drafted, Filed
<1> QED
  BY <1>1, <1>2, <1>3, <1>4 DEF MapInv

LEMMA MapSteps ==
  ASSUME MapInv, [Next]_vars
  PROVE  MapInv'
<1>1. Vocabulary /\ Commanded /\ ImportIsWhole /\ Drafted /\ Filed
  BY DEF MapInv
<1>2. ASSUME DOMAIN places \subseteq DOMAIN places', UNCHANGED <<draft, reports>>
      PROVE  Drafted' /\ Filed'
  <2>1. Drafted'
    BY <1>1, <1>2 DEF Drafted
  <2>2. Filed'
    BY <1>1, <1>2 DEF Filed
  <2> QED
    BY <2>1, <2>2
<1>3. ASSUME UNCHANGED <<zones, places, job, applied>>
      PROVE  Vocabulary' /\ Commanded' /\ ImportIsWhole'
  <2>1. Vocabulary'
    BY <1>1, <1>3 DEF Vocabulary
  <2>2. Commanded'
    BY <1>1, <1>3 DEF Commanded
  <2>3. ImportIsWhole'
    BY <1>1, <1>3 DEF ImportIsWhole
  <2> QED
    BY <2>1, <2>2, <2>3
<1>4. ASSUME NEW c \in Commands, Step(c) \/ Crash(c)
      PROVE  MapInv'
  <2>1. /\ Vocabulary' /\ Commanded' /\ ImportIsWhole' /\ UNCHANGED filing
        /\ DOMAIN places \subseteq DOMAIN places'
    BY <1>1, <1>4, CommandSteps
  <2>2. Drafted' /\ Filed'
    BY <1>2, <2>1 DEF filing
  <2> QED
    BY <2>1, <2>2 DEF MapInv
<1>5. ASSUME NEW f \in Filings, Load(f)
      PROVE  MapInv'
  <2>1. UNCHANGED <<zones, places, job, applied, reports>>
    BY <1>5 DEF Load
  <2>2. Filed'
    BY <1>1, <2>1 DEF Filed
  <2>3. Drafted'
    BY <1>1, <1>5, LoadKeeps
  <2> QED
    BY <1>3, <2>1, <2>2, <2>3 DEF MapInv
<1>6. CASE File
  <2>1. UNCHANGED <<zones, places, job, applied>>
    BY <1>6 DEF File
  <2>2. Drafted' /\ Filed'
    BY <1>1, <1>6, FileKeeps
  <2> QED
    BY <1>3, <2>1, <2>2 DEF MapInv
<1>7. ASSUME NEW code \in PlaceCodes, NEW at \in Points \cup {NoPoint}, Correct(code, at)
      PROVE  MapInv'
  <2>1. /\ Vocabulary' /\ DOMAIN places' = DOMAIN places
        /\ \A other \in DOMAIN places : places'[other].zone = places[other].zone
    BY <1>1, <1>7, CorrectKeeps
  <2>2. UNCHANGED <<zones, job, applied, draft, reports>>
    BY <1>7 DEF Correct
  <2>3. Commanded'
    BY <1>1, <2>1, <2>2 DEF Commanded
  <2>4. ImportIsWhole'
    BY <1>1, <2>1, <2>2 DEF ImportIsWhole
  <2>5. Drafted' /\ Filed'
    BY <1>2, <2>1, <2>2
  <2> QED
    BY <2>1, <2>3, <2>4, <2>5 DEF MapInv
<1>8. CASE UNCHANGED vars
  <2>1. UNCHANGED <<zones, places, job, applied, draft, reports>>
    BY <1>8 DEF vars
  <2> QED
    BY <1>2, <1>3, <2>1 DEF MapInv
<1>10. ASSUME NEW f \in Filings, Repeat(f)
       PROVE  MapInv'
  <2>1. UNCHANGED <<zones, places, job, applied, draft, reports>>
    BY <1>10 DEF Repeat
  <2> QED
    BY <1>2, <1>3, <2>1 DEF MapInv
<1>9. \A x \in Corrections : x[1] \in PlaceCodes /\ x[2] \in Points \cup {NoPoint}
  BY CampusAssumptions DEF CampusAssumptions
<1> QED
  BY <1>4, <1>5, <1>6, <1>7, <1>8, <1>9, <1>10 DEF Next, Rest

LEMMA MapAlways == Spec => []MapInv
<1>1. Init => MapInv
  BY MapInit
<1>2. MapInv /\ [Next]_vars => MapInv'
  BY MapSteps
<1> QED
  BY <1>1, <1>2, PTL DEF Spec

\* Neither a row an import is about to insert nor a verdict about to be stored is ever
\* refused by a CHECK, whatever the files, the filings and the corrections are.
THEOREM MapTypeCorrect == Spec => []TypeOK
<1>1. MapInv => TypeOK
  <2> SUFFICES ASSUME MapInv
               PROVE  TypeOK
    OBVIOUS
  <2>1. Vocabulary /\ Commanded /\ Filed
    BY DEF MapInv
  <2>2. ASSUME NEW c \in Commands, job[c].pc = "writing",
               NEW n \in DOMAIN RowsOf[c], RowsOf[c][n].code \in PlaceCodes
        PROVE  LocationChecks(RowsOf[c][n])
    <3>1. Parsed(c)
      BY <2>1, <2>2 DEF Commanded, Sane
    <3> QED
      BY <2>2, <3>1, RowsAreOfTheFile DEF Valid
  <2>3. \A n \in DOMAIN reports : DetailChecks(reports[n].detail)
    BY <2>1 DEF Filed, RightDetail
  <2>4. \A code \in DOMAIN places : /\ code \in PlaceCodes /\ places[code] \in PlaceRow
                                    /\ places[code].code = code /\ LocationChecks(places[code])
    BY <2>1 DEF Vocabulary, Valid
  <2> QED
    BY <2>1, <2>2, <2>3, <2>4 DEF TypeOK, Vocabulary
<1> QED
  BY <1>1, MapAlways, PTL

\* An import or a seed is applied whole or not at all, for any number of commands over
\* any files, whatever collided, locked or crashed.
THEOREM ImportsAreWhole == Spec => []ImportIsWhole
<1>1. MapInv => ImportIsWhole
  BY DEF MapInv
<1> QED
  BY <1>1, MapAlways, PTL

\* A responder is sent to the device's position when the SOS gave one and otherwise to
\* the surveyed point, as it stands now, of the location the reporter chose.
THEOREM ResponderIsSentWhereAsked == Spec => []SentWhereAsked
<1>1. MapInv => SentWhereAsked
  <2> SUFFICES ASSUME MapInv, NEW n \in DOMAIN reports
               PROVE  LET r == reports[n]
                          d == destination_for(r)
                      IN IF r.sent.kind = "sos" /\ r.sent.device # NoPoint
                         THEN d.gps /\ d.at = r.sent.device
                         ELSE /\ ~d.gps
                              /\ r.place = IF r.sent.kind = "sos" THEN Sentinel ELSE r.sent.place
                              /\ d.at # NoPoint =>
                                   places[r.place].status = "verified" /\ d.at = places[r.place].at
                              /\ d.synthetic <=> r.place \in DemoCodes
    BY DEF SentWhereAsked
  <2>1. PICK r, d : r = reports[n] /\ d = destination_for(r)
    OBVIOUS
  <2>2. /\ r.place \in DOMAIN places /\ RightPlace(r.sent, r.place) /\ RightDetail(r.sent, r.detail)
        /\ r.sent \in Filings
    <3>1. Filed
      BY DEF MapInv
    <3>2. reports[n] \in [sent: Filings, place: PlaceCodes, detail: Detail]
      <4>1. PICK R : R = [sent: Filings, place: PlaceCodes, detail: Detail]
        OBVIOUS
      <4>2. reports \in Seq(R)
        BY <3>1, <4>1 DEF Filed
      <4>3. reports[n] \in R
        BY <4>2
      <4> QED
        BY <4>1, <4>3
    <3>3. r.sent \in Filings
      BY <2>1, <3>2
    <3> QED
      BY <2>1, <3>1, <3>3 DEF Filed
  <2>3. r.sent.kind \in {"report", "sos"}
    BY <2>2, FilingFields
  <2>4. places[r.place].code = r.place /\ (places[r.place].synthetic <=> places[r.place].code \in DemoCodes)
    BY <2>2 DEF MapInv, Vocabulary, Valid
  <2>5. CASE r.sent.kind = "sos" /\ r.sent.device # NoPoint
    <3>1. r.detail.source = "device_gps" /\ r.detail.at = r.sent.device
      BY <2>2, <2>5 DEF RightDetail
    <3>2. d = [at |-> r.detail.at, gps |-> TRUE, synthetic |-> FALSE]
      BY <2>1, <2>5, <3>1 DEF destination_for
    <3> QED
      BY <2>1, <2>5, <3>1, <3>2
  <2>6. CASE ~(r.sent.kind = "sos" /\ r.sent.device # NoPoint)
    <3>1. r.detail.source # "device_gps"
      BY <2>2, <2>6 DEF RightDetail
    <3>2. PICK at : at = IF Surveyed(places[r.place]) THEN places[r.place].at ELSE NoPoint
      OBVIOUS
    <3>3. d = [at |-> at, gps |-> FALSE, synthetic |-> places[r.place].synthetic]
      BY <2>1, <3>1, <3>2 DEF destination_for
    <3>4. d.at = at /\ ~d.gps /\ d.synthetic = places[r.place].synthetic
      BY <3>3
    <3>5. r.place = IF r.sent.kind = "sos" THEN Sentinel ELSE r.sent.place
      BY <2>2, <2>3, <2>6 DEF RightPlace
    <3>6. at # NoPoint => places[r.place].status = "verified" /\ at = places[r.place].at
      BY <3>2 DEF Surveyed
    <3> QED
      BY <2>1, <2>4, <2>6, <3>4, <3>5, <3>6
  <2> QED
    BY <2>5, <2>6
<1> QED
  BY <1>1, MapAlways, PTL
===============================================================================

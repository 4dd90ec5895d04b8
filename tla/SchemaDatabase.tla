---------------------------- MODULE SchemaDatabase ----------------------------
(***************************************************************************)
(* The database as a whole: rows that refer to each other under the        *)
(* foreign keys and triggers of SchemaCatalog, and the migrations that     *)
(* take the schema up and down under them.                                 *)
(*                                                                         *)
(* A row is a member of Rows; db.refs maps a row that exists to the row    *)
(* each of its referring columns holds.  Statements are atomic: one that   *)
(* violates a key, a CHECK or a trigger changes nothing and is no step     *)
(* here.  An alembic command runs all its migrations in one transaction    *)
(* (env.py), on a copy nobody else sees until it commits; an error or a    *)
(* crash drops the copy.  The DDL holds its locks until then, so no other  *)
(* statement is served meanwhile.                                          *)
(***************************************************************************)
EXTENDS SchemaCatalog, FiniteSets

CONSTANTS
    Rows,       \* every row that may ever exist, the two sentinels included
    TableOf,    \* [Rows -> TableNames]
    Null,       \* SQL's null in a referring column
    Students,   \* rows of app_user whose role is student
    Anonymous,  \* rows of report submitted anonymously
    Closing,    \* rows of case_status_history whose to_status is terminal
    Demo,       \* rows of campus_location written by the demo seed
    Erasable,   \* tables an operator deletes single rows of
    Revisions   \* versions an alembic command goes to

ASSUME RowsAssumption ==
    /\ TableOf \in [Rows -> TableNames]
    /\ Null \notin Rows
    /\ Revisions \subseteq 0..8
    /\ Sentinels \subseteq Rows
    /\ \A s \in Sentinels : TableOf[s] = SentinelTable[s]
    /\ \E r \in Rows : TableOf[r] = "report"
    /\ \A r \in Closing : TableOf[r] = "case_status_history"
    \* Nobody deletes a location or a category: they are retired by is_active.
    /\ \A s \in Sentinels : SentinelTable[s] \notin Erasable

VARIABLES
    db,     \* the committed database
    work,   \* what the running alembic command has made of it
    goal    \* the version that command is going to, or NoCommand

schemaVars == <<db, work, goal>>

NoCommand == -1
RowsIn(table) == {r \in Rows : TableOf[r] = table}

\* The referring columns of a row whose target some row of Rows could be.
ColumnsOf == [r \in Rows |-> {c \in RefsOf[TableOf[r]] : RowsIn(c.target) # {}}]
ColumnNames == [r \in Rows |-> {c.column : c \in ColumnsOf[r]}]
Exists(d, r) == r \in DOMAIN d.refs

EmptyDatabase == [version |-> 0, objects |-> {}, refs |-> <<>>,
                  contactable |-> {}, reasons |-> {}, flagged |-> {}]

SchemaInit ==
    /\ db = EmptyDatabase
    /\ work = EmptyDatabase
    /\ goal = NoCommand

-----------------------------------------------------------------------------
(* INSERT and UPDATE. *)

Targets(c) == {x \in DOMAIN db.refs : TableOf[x] = c.target}

\* The references a new row may come with: every NOT NULL column, and at most
\* one nullable one (Refer fills the others).
NewRefs(r) ==
    LET must == {c.column : c \in {k \in ColumnsOf[r] : ~k.nullable}}
        pointed == UNION {Targets(c) : c \in ColumnsOf[r]}
        filled == {f \in [ColumnNames[r] -> pointed \cup {Null}] :
                     /\ \A c \in ColumnsOf[r] : f[c.column] \in Targets(c) \cup {Null}
                     /\ \A col \in must : f[col] # Null
                     /\ Cardinality({col \in ColumnNames[r] \ must : f[col] # Null}) <= 1}
    IN  filled

fn_attribution_requires_identified(r, f) ==
    TableOf[r] = "report_attribution" => f["report_id"] \notin Anonymous

fn_assignment_target_role(r, f) ==
    TableOf[r] = "case_assignment" => f["assigned_to"] \notin Students

fn_authority_profile_role(r, f) ==
    TableOf[r] = "authority_profile" => f["user_id"] \notin Students

UniqueKeys(r, f) ==
    \A key \in OnePer : TableOf[r] = key[1] =>
        \A x \in DOMAIN db.refs : TableOf[x] = key[1] => db.refs[x][key[2]] # f[key[2]]

\* The trigger keeps report.reporter_contactable equal to the consent given.
fn_sync_reporter_contactable(contactable, report, consent) ==
    IF consent THEN contactable \cup {report} ELSE contactable \ {report}

Insert(r) ==
    /\ goal = NoCommand
    /\ TableOf[r] \in db.objects
    /\ r \notin DOMAIN db.refs \cup Sentinels
    /\ r \in Demo => "campus_location.is_synthetic" \in db.objects
    /\ \E f \in NewRefs(r), consent \in BOOLEAN :
        /\ fn_attribution_requires_identified(r, f)
        /\ fn_assignment_target_role(r, f)
        /\ fn_authority_profile_role(r, f)
        /\ UniqueKeys(r, f)
        /\ consent => TableOf[r] = "report_attribution"
        /\ db' = [db EXCEPT
            !.refs = [x \in DOMAIN db.refs \cup {r} |-> IF x = r THEN f ELSE db.refs[x]],
            !.contactable = IF TableOf[r] = "report_attribution"
                            THEN fn_sync_reporter_contactable(@, f["report_id"], consent)
                            ELSE @,
            !.reasons = IF /\ r \in Closing
                           /\ "case_status_history.resolution_reason" \in db.objects
                        THEN @ \cup {r} ELSE @,
            !.flagged = IF r \in Demo THEN @ \cup {r} ELSE @]
    /\ UNCHANGED <<work, goal>>

\* An UPDATE that fills a nullable column: an acknowledgement, a review, an
\* override, an approval.  The history refuses every UPDATE.
Refer(r, c, x) ==
    /\ goal = NoCommand
    /\ Exists(db, r)
    /\ c \in ColumnsOf[r]
    /\ c.nullable
    /\ TableOf[r] \notin AppendOnly \cup {"case_status_history"}
    /\ x \in Targets(c)
    /\ db.refs[r][c.column] = Null
    /\ db' = [db EXCEPT !.refs[r][c.column] = x]
    /\ UNCHANGED <<work, goal>>

\* The reporter gives or withdraws the consent to be contacted.
Consent(r) ==
    /\ goal = NoCommand
    /\ Exists(db, r)
    /\ TableOf[r] = "report_attribution"
    /\ \E consent \in BOOLEAN :
        db' = [db EXCEPT !.contactable =
                fn_sync_reporter_contactable(@, db.refs[r]["report_id"], consent)]
    /\ UNCHANGED <<work, goal>>

-----------------------------------------------------------------------------
(* DELETE. *)

\* x refers to the row y by a column with the given rule.
Refers(x, y, rule) ==
    \E c \in ColumnsOf[x] : c.onDelete = rule /\ db.refs[x][c.column] = y

\* What DELETE of r removes.
Doomed(r) == {r} \cup {x \in DOMAIN db.refs : Refers(x, r, "cascade")}

Restricted(D) == \E x \in DOMAIN db.refs, y \in D : Refers(x, y, "restrict")

fn_append_only(D) == \E x \in D : TableOf[x] \in AppendOnly

\* A line of the history goes only when its report is gone.
Tampers(D) ==
    \E x \in D : TableOf[x] = "case_status_history" /\ db.refs[x]["report_id"] \notin D

\* Mutant: the append-only trigger and the pairing CHECKs look at DELETE only.
NullIsAdmitted(D) == Tampers(D)
\* ON DELETE SET NULL is an UPDATE of a surviving row, and the row may refuse it.
RefusesNull(d, D) ==
    \E x \in DOMAIN d.refs \ D, p \in Pinned :
        /\ TableOf[x] = p[1]
        /\ p[2] \in ColumnNames[x]
        /\ d.refs[x][p[2]] \in D
fn_case_status_history_append_only(D) == Tampers(D) \/ RefusesNull(db, D)

Survivor(d, x, D) ==
    [col \in DOMAIN d.refs[x] |-> IF d.refs[x][col] \in D THEN Null ELSE d.refs[x][col]]

\* Mutant: no DELETE branch.
StillContactable(D) == {}
\* The trigger fires on the deletion of an attribution too.
Uncontactable(D) == {db.refs[x]["report_id"] : x \in {y \in D : TableOf[y] = "report_attribution"}}

Delete(r) ==
    LET D == Doomed(r)
    IN  /\ goal = NoCommand
        /\ Exists(db, r)
        /\ TableOf[r] \in Erasable
        /\ ~Restricted(D)
        /\ ~fn_append_only(D)
        /\ ~fn_case_status_history_append_only(D)
        /\ db' = [db EXCEPT
            !.refs = [x \in DOMAIN db.refs \ D |-> Survivor(db, x, D)],
            !.contactable = @ \ (D \cup Uncontactable(D)),
            !.reasons = @ \ D,
            !.flagged = @ \ D]
        /\ UNCHANGED <<work, goal>>

-----------------------------------------------------------------------------
(* alembic upgrade and downgrade. *)

\* upgrade head, downgrade <revision>, downgrade base.
Command(target) ==
    /\ goal = NoCommand
    /\ target # db.version
    /\ work' = db
    /\ goal' = target
    /\ UNCHANGED db

EmptyRow(r) == [col \in ColumnNames[r] |-> Null]

\* Mutant: the CHECK is added NOT VALID.
UncheckedUpgrade(v, d) ==
    /\ Creatable
    /\ Adds(v) \cap d.objects = {}
    /\ v = 7 => Sentinels \cap DOMAIN d.refs = {}
\* CREATE fails on what exists; 0004 adds a CHECK that the closing rows
\* already there, whose new column is null, do not satisfy; 0007 inserts the
\* sentinel rows, whose codes are unique.
Upgradable(v, d) ==
    /\ Creatable
    /\ Adds(v) \cap d.objects = {}
    /\ v = 4 => Closing \cap DOMAIN d.refs = {}
    /\ v = 7 => Sentinels \cap DOMAIN d.refs = {}

StepUp ==
    /\ goal # NoCommand
    /\ work.version < goal
    /\ LET v == work.version + 1
       IN  /\ Upgradable(v, work)
           /\ work' = [work EXCEPT
                !.version = v,
                !.objects = @ \cup Adds(v),
                !.refs = IF v = 7
                         THEN [r \in DOMAIN @ \cup Sentinels |->
                                IF r \in Sentinels THEN EmptyRow(r) ELSE @[r]]
                         ELSE @]
    /\ UNCHANGED <<db, goal>>

\* Mutant: the sentinel rows go whoever refers to them.
AlwaysDowngradable(v, d) == TRUE
\* The downgrade of 0007 deletes the sentinel rows.  A report that was sent as an
\* SOS refers to both by columns that are ON DELETE RESTRICT; a cluster or an
\* alert refers to one by a column that turns to null.
Downgradable(v, d) ==
    v = 7 =>
        /\ \A r \in DOMAIN d.refs : \A c \in ColumnsOf[r] :
            d.refs[r][c.column] \in Sentinels => c.onDelete = "null"
        /\ ~RefusesNull(d, Sentinels)

\* Mutant: rows outlive their tables.
KeptWithoutTable(v, d) == DOMAIN d.refs
Kept(v, d) == {r \in DOMAIN d.refs : /\ TableOf[r] \notin Drops(v, d.objects)
                                     /\ v = 7 => r \notin Sentinels}
Remnant(v, d, r) == IF v = 7 THEN Survivor(d, r, Sentinels) ELSE d.refs[r]

StepDown ==
    /\ goal # NoCommand
    /\ work.version > goal
    /\ LET v == work.version
           kept == Kept(v, work)
       IN  /\ Downgradable(v, work)
           /\ work' = [work EXCEPT
                !.version = v - 1,
                !.objects = @ \ Drops(v, @),
                !.refs = [r \in kept |-> Remnant(v, work, r)],
                !.contactable = @ \cap kept,
                !.reasons = IF v = 4 THEN {} ELSE @ \cap kept,
                !.flagged = IF v = 5 THEN {} ELSE @ \cap kept]
    /\ UNCHANGED <<db, goal>>

Commit ==
    /\ goal # NoCommand
    /\ work.version = goal
    /\ db' = work
    /\ work' = EmptyDatabase
    /\ goal' = NoCommand

\* A statement that fails, or a crash: PostgreSQL rolls the DDL back.
RollBack ==
    /\ goal # NoCommand
    /\ work' = EmptyDatabase
    /\ goal' = NoCommand
    /\ UNCHANGED db

SchemaNext ==
    \/ \E r \in Rows : Insert(r)
    \/ \E r \in Rows : \E c \in ColumnsOf[r], x \in Rows : Refer(r, c, x)
    \/ \E r \in Rows : Consent(r)
    \/ \E r \in Rows : Delete(r)
    \/ \E target \in Revisions : Command(target)
    \/ StepUp
    \/ StepDown
    \/ Commit
    \/ RollBack

SchemaSpec == SchemaInit /\ [][SchemaNext]_schemaVars

-----------------------------------------------------------------------------
(* Properties. *)

SchemaTypeOK ==
    /\ db.version \in 0..8
    /\ db.objects \subseteq UNION {Adds(v) : v \in Versions}
    /\ DOMAIN db.refs \subseteq {r \in Rows : TableOf[r] \in db.objects}
    /\ \A r \in DOMAIN db.refs : db.refs[r] \in [ColumnNames[r] -> Rows \cup {Null}]
    /\ db.contactable \cup db.reasons \cup db.flagged \subseteq DOMAIN db.refs
    /\ goal \in 0..8 \cup {NoCommand}

\* The committed schema is the one its version number names, whatever was
\* upgraded, downgraded, refused or interrupted before: no type, column or
\* policy of a later migration is left behind, and none of its own is missing
\* (the "zero residue" that scripts/test_migration.sh looks for).
WholeSchema == db.objects = ObjectsAt(db.version)

\* No row refers to a row that is gone, through any order of inserts, deletes
\* with their cascades, and migrations that drop tables or rows.
ReferencesResolve ==
    \A r \in DOMAIN db.refs : \A c \in ColumnsOf[r] :
        \/ db.refs[r][c.column] \in Targets(c)
        \/ c.nullable /\ db.refs[r][c.column] = Null

\* A responder is told a reporter can be reached only while there is an
\* attribution row to reach them by: deleting it, with or without its report,
\* takes the flag along (fn_sync_reporter_contactable).
ContactableIsAttributed ==
    \A report \in db.contactable :
        /\ report \notin Anonymous
        /\ \E r \in DOMAIN db.refs : /\ TableOf[r] = "report_attribution"
                                     /\ db.refs[r]["report_id"] = report

\* From version 4 on every row that closes a case carries the reason, and an
\* SOS finds the two rows it refers to from version 7 on.
MigratedDataIsValid ==
    /\ db.version >= 4 => Closing \cap DOMAIN db.refs \subseteq db.reasons
    /\ db.version >= 7 => Sentinels \subseteq DOMAIN db.refs

\* What was done stays on record with who did it: a history row goes only with
\* its report, a log row only with the whole schema, and the column that names
\* who moved a case, overrode a category, reviewed a link or approved an
\* intervention never turns to null under a row that stays, which would make
\* the act read as the system's own.
RecordsKeepTheirAuthors ==
    [][db'.version > 0 =>
        /\ \A r \in DOMAIN db.refs \ DOMAIN db'.refs :
            /\ TableOf[r] \notin AppendOnly
            /\ TableOf[r] = "case_status_history" =>
                 db.refs[r]["report_id"] \notin DOMAIN db'.refs
        /\ \A r \in DOMAIN db.refs \cap DOMAIN db'.refs, p \in Pinned :
            (TableOf[r] = p[1] /\ p[2] \in ColumnNames[r] /\ db.refs[r][p[2]] # Null)
                => db'.refs[r][p[2]] = db.refs[r][p[2]]]_schemaVars

\* What scripts/test_migration.sh:10 says of the chain: "upgrade -> downgrade
\* -> upgrade is repeatable".  It is, on an empty database.
UpgradeIsRepeatable ==
    (goal # NoCommand /\ work.version < goal) => Upgradable(work.version + 1, work)
=============================================================================

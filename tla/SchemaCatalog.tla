---------------------------- MODULE SchemaCatalog ----------------------------
(***************************************************************************)
(* What the migrations 0001 to 0008 declare: the tables in the order they  *)
(* are created, the foreign key of every column and what the deletion of   *)
(* its target does to the row, the rules of the triggers and CHECKs that   *)
(* relate a row to another one, and the objects each migration adds and    *)
(* takes away.  A column that refers to nothing is data and is left out;   *)
(* an index, a constraint or a comment goes with its table unless a        *)
(* migration names it by itself.                                           *)
(***************************************************************************)
EXTENDS Integers, Sequences

\* A column that refers to the row of another table; Must is NOT NULL.
\* onDelete is what the deletion of the target does to this row.
Must(column, target, onDelete) ==
    [column |-> column, target |-> target, onDelete |-> onDelete, nullable |-> FALSE]
May(column, target, onDelete) ==
    [column |-> column, target |-> target, onDelete |-> onDelete, nullable |-> TRUE]

Table(name, refs) == [name |-> name, refs |-> refs]
OfReport == Must("report_id", "report", "cascade")

-----------------------------------------------------------------------------
(* 0001, section 3, in creation order. *)

PeopleAndPlaces ==
    << Table("app_user", {}),
       Table("system_policy", {May("updated_by", "app_user", "null")}),
       Table("campus_zone", {}),
       Table("campus_location", {May("zone_id", "campus_zone", "restrict")}),
       Table("authority_profile", {Must("user_id", "app_user", "cascade"),
                                   May("zone_id", "campus_zone", "null")}) >>

CategoriesAndClusters ==
    << Table("report_category", {}),
       Table("model_version", {}),
       Table("report_cluster",
             {May("primary_location_id", "campus_location", "restrict"),
              May("zone_id", "campus_zone", "null"),
              May("dominant_category_id", "report_category", "null")}) >>

ReportTable ==
    << Table("report", {May("declared_category_id", "report_category", "restrict"),
                        Must("location_id", "campus_location", "restrict"),
                        May("current_cluster_id", "report_cluster", "null")}) >>

ReportFragments ==
    << Table("report_narrative", {OfReport, Must("retention_policy_key", "system_policy", "restrict")}),
       Table("report_attribution", {OfReport, Must("user_id", "app_user", "restrict")}),
       Table("submission_quota", {Must("user_id", "app_user", "cascade")}),
       Table("report_access_token", {OfReport}),
       Table("emergency_dispatch", {OfReport, May("acknowledged_by", "app_user", "null")}) >>

LinksAndScores ==
    << Table("cluster_member", {Must("cluster_id", "report_cluster", "cascade"), OfReport}),
       Table("report_link", {Must("report_id_a", "report", "cascade"),
                             Must("report_id_b", "report", "cascade"),
                             May("model_id", "model_version", "null"),
                             May("reviewed_by", "app_user", "null")}),
       Table("risk_assessment", {OfReport, May("model_id", "model_version", "null")}) >>

CaseTables ==
    << Table("case_assignment", {OfReport, Must("assigned_to", "app_user", "restrict"),
                                 May("assigned_by", "app_user", "null")}),
       Table("case_status_history", {OfReport, May("changed_by", "app_user", "null")}) >>

EvidenceTable ==
    << Table("evidence_object", {OfReport, Must("retention_policy_key", "system_policy", "restrict")}) >>

MlTables ==
    << Table("report_classification",
             {OfReport, Must("model_id", "model_version", "restrict"),
              May("predicted_category_id", "report_category", "restrict"),
              May("overridden_by", "app_user", "null"),
              May("overridden_category_id", "report_category", "restrict")}),
       Table("report_embedding", {OfReport, Must("model_id", "model_version", "cascade")}),
       Table("annotation", {May("report_id", "report", "cascade"),
                            May("gold_category_id", "report_category", "restrict"),
                            May("annotated_by", "app_user", "null")}),
       Table("evaluation_run", {Must("model_id", "model_version", "cascade")}) >>

HotspotsAndInterventions ==
    << Table("hotspot", {Must("location_id", "campus_location", "restrict"),
                         May("zone_id", "campus_zone", "null"),
                         May("cluster_id", "report_cluster", "null")}),
       Table("intervention", {May("location_id", "campus_location", "restrict"),
                              May("zone_id", "campus_zone", "restrict"),
                              May("cluster_id", "report_cluster", "restrict"),
                              May("hotspot_id", "hotspot", "restrict"),
                              May("report_id", "report", "restrict"),
                              May("proposed_by", "app_user", "null"),
                              May("approved_by", "app_user", "null")}),
       Table("intervention_report_link",
             {Must("intervention_id", "intervention", "cascade"), OfReport}) >>

ImpactTables ==
    << Table("impact_measurement",
             {Must("intervention_id", "intervention", "cascade"),
              May("location_id", "campus_location", "restrict"),
              May("zone_id", "campus_zone", "null"),
              May("cluster_id", "report_cluster", "null"),
              May("category_filter_id", "report_category", "restrict")}),
       Table("intervention_outcome",
             {Must("intervention_id", "intervention", "cascade"),
              May("measurement_id", "impact_measurement", "null"),
              May("assessed_by", "app_user", "null"),
              May("follow_up_intervention_id", "intervention", "null")}) >>

NotifyTables ==
    << Table("broadcast_alert", {May("zone_id", "campus_zone", "null"),
                                 May("location_id", "campus_location", "null"),
                                 May("related_hotspot_id", "hotspot", "null"),
                                 May("issued_by", "app_user", "null")}),
       Table("notification", {May("recipient_user_id", "app_user", "cascade"),
                              May("recipient_zone_id", "campus_zone", "cascade"),
                              May("related_report_id", "report", "cascade"),
                              May("related_hotspot_id", "hotspot", "null"),
                              May("related_alert_id", "broadcast_alert", "cascade")}),
       Table("device_token", {Must("user_id", "app_user", "cascade")}) >>

\* No foreign keys: a log row outlives what it speaks of.
AuditTables == << Table("access_log", {}), Table("identity_disclosure_log", {}) >>

TABLES ==
    PeopleAndPlaces \o CategoriesAndClusters \o ReportTable \o ReportFragments
        \o LinksAndScores \o CaseTables \o EvidenceTable \o MlTables
        \o HotspotsAndInterventions \o ImpactTables \o NotifyTables \o AuditTables

\* 0003 adds one table that refers to another.
LocationDetail == Table("report_location_detail", {OfReport})
AllTables == {TABLES[i] : i \in DOMAIN TABLES} \cup {LocationDetail}
TableNames == {t.name : t \in AllTables}
RefsOf == [name \in TableNames |-> (CHOOSE t \in AllTables : t.name = name).refs]

\* "Ordered so that every foreign key references an already-created table":
\* an order in which CREATE TABLE fails makes the whole migration fail.
Creatable ==
    \A i \in DOMAIN TABLES : \A ref \in TABLES[i].refs :
        \E j \in 1..i : TABLES[j].name = ref.target
ASSUME CatalogIsCreatable == Creatable

\* No table is both deleted by a cascade and the target of one: a DELETE
\* removes a row and the rows that refer to it by a cascading column, no more.
Cascades == UNION {{[table |-> t.name, target |-> ref.target] :
                        ref \in {c \in t.refs : c.onDelete = "cascade"}} : t \in AllTables}
CascadesAreFlat == \A c, d \in Cascades : c.table # d.target
ASSUME NoCascadeOfCascades == CascadesAreFlat

-----------------------------------------------------------------------------
(* Rules of rows. *)

\* Nullable columns whose row forbids the null that ON DELETE SET NULL would
\* write: the append-only trigger of the history, and CHECKs that pair the
\* column with another one.
Pinned == {<<"case_status_history", "changed_by">>,
           <<"report_classification", "overridden_by">>,
           <<"report_link", "reviewed_by">>,
           <<"intervention", "approved_by">>}

\* Unique or primary keys made of one reference.
OnePer == {<<"report_narrative", "report_id">>, <<"report_attribution", "report_id">>,
           <<"report_access_token", "report_id">>, <<"emergency_dispatch", "report_id">>,
           <<"authority_profile", "user_id">>, <<"report_location_detail", "report_id">>}

AppendOnly == {"access_log", "identity_disclosure_log"}

-----------------------------------------------------------------------------
(* What each migration adds, and what its downgrade takes away. *)

TypesOf1 == {"user_role", "report_kind", "submission_mode", "reporter_relationship",
             "report_status", "risk_band", "dispatch_state", "link_type", "link_review",
             "cluster_status", "hotspot_status", "ml_task", "model_family",
             "intervention_type", "intervention_scope", "intervention_status",
             "outcome_status", "notification_audience", "notification_category",
             "delivery_state", "storage_backend", "audit_outcome", "policy_origin",
             "coordinate_status"}

PolicySeed == {"evidence_retention_days", "evidence_retention_open_case_days",
               "narrative_retention_days", "narrative_redacted_retention_days",
               "narrative_retention_open_case_days", "map_min_aggregation_k",
               "map_time_bucket", "anonymous_token_ttl_days", "emergency_callback_ttl_hours",
               "related_similarity_threshold", "duplicate_similarity_threshold",
               "impact_window_days", "daily_report_quota"}

Upgrade0001 == {TABLES[i].name : i \in DOMAIN TABLES} \cup TypesOf1 \cup PolicySeed

Upgrade0002 ==
    {"pending_upload", "evidence_object.original_sha256",
     "evidence_object.metadata_stripped_at", "evidence_object.image_width",
     "evidence_object.image_height", "ck_evidence_original_sha256",
     "ck_evidence_dimensions", "pending_upload_ttl_hours"}
Downgrade0002 ==
    {"pending_upload_ttl_hours", "ck_evidence_dimensions", "ck_evidence_original_sha256",
     "evidence_object.image_height", "evidence_object.image_width",
     "evidence_object.metadata_stripped_at", "evidence_object.original_sha256",
     "pending_upload"}

Upgrade0003 ==
    {"location_resolution", "location_signal_source", "report_location_detail",
     "pending_upload.exif_latitude", "pending_upload.exif_longitude",
     "pending_upload.exif_captured_at", "ck_pending_upload_exif_coords_paired",
     "ck_pending_upload_exif_range", "location_corroboration_radius_m"}
Downgrade0003 ==
    {"location_corroboration_radius_m", "ck_pending_upload_exif_range",
     "ck_pending_upload_exif_coords_paired", "pending_upload.exif_captured_at",
     "pending_upload.exif_longitude", "pending_upload.exif_latitude",
     "report_location_detail", "location_signal_source", "location_resolution"}

Upgrade0004 == {"report_resolution_reason", "case_status_history.resolution_reason",
                "ck_case_status_resolution_reason_terminal"}
\* Mutant: the type is left in public.
ForgetsTheType == {"ck_case_status_resolution_reason_terminal",
                   "case_status_history.resolution_reason"}
Downgrade0004 == {"ck_case_status_resolution_reason_terminal",
                  "case_status_history.resolution_reason", "report_resolution_reason"}

Upgrade0005 == {"campus_location.is_synthetic", "ck_campus_location_synthetic_is_labelled",
                "ix_campus_location_synthetic"}
Downgrade0005 == {"ix_campus_location_synthetic", "ck_campus_location_synthetic_is_labelled",
                  "campus_location.is_synthetic"}

\* 0006 replaces the body of a trigger function; its downgrade puts the old one back.
Upgrade0006 == {"retention_stamp_sets_expiry"}
Downgrade0006 == {"retention_stamp_sets_expiry"}

\* 0007 inserts two rows and no object; see Sentinels.
Sentinels == {"SYS-UNSPECIFIED", "SOS_EMERGENCY"}
SentinelTable == [s \in Sentinels |->
                    IF s = "SYS-UNSPECIFIED" THEN "campus_location" ELSE "report_category"]

Upgrade0008 == {"report_location_detail.signal_accuracy_m",
                "ck_location_detail_accuracy_non_negative"}
Downgrade0008 == {"ck_location_detail_accuracy_non_negative",
                  "report_location_detail.signal_accuracy_m"}

\* DROP SCHEMA ... CASCADE takes what lives in the eight schemas; the types
\* live in `public`, and the downgrade of 0001 names only its own.
PublicTypes == TypesOf1 \cup {"location_resolution", "location_signal_source",
                              "report_resolution_reason"}
Downgrade0001(objects) == (objects \ PublicTypes) \cup TypesOf1

Versions == 1..8
Adds(v) == CASE v = 1 -> Upgrade0001 [] v = 2 -> Upgrade0002 [] v = 3 -> Upgrade0003
             [] v = 4 -> Upgrade0004 [] v = 5 -> Upgrade0005 [] v = 6 -> Upgrade0006
             [] v = 7 -> {}          [] v = 8 -> Upgrade0008
Drops(v, objects) ==
           CASE v = 1 -> Downgrade0001(objects)
             [] v = 2 -> Downgrade0002 [] v = 3 -> Downgrade0003
             [] v = 4 -> Downgrade0004 [] v = 5 -> Downgrade0005 [] v = 6 -> Downgrade0006
             [] v = 7 -> {}            [] v = 8 -> Downgrade0008

\* The objects of a database at version v.
ObjectsAt(v) == UNION {Adds(i) : i \in 1..v}
=============================================================================

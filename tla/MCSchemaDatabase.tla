--------------------------- MODULE MCSchemaDatabase ---------------------------
\* One row of each table that the rules tell apart, an account, and the two rows
\* of 0007.
EXTENDS SchemaDatabase, TLC

MCTableOf ==
    [officer |-> "app_user", place |-> "campus_location",
     report |-> "report", named |-> "report_attribution",
     closed |-> "case_status_history", label |-> "report_classification",
     log |-> "access_log", alert |-> "broadcast_alert"]
    @@ SentinelTable
=============================================================================

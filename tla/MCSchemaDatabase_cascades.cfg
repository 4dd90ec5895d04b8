SPECIFICATION SchemaSpec
CONSTANTS
  Rows = {"officer", "place", "report", "named", "closed", "label", "log", "alert", "SYS-UNSPECIFIED", "SOS_EMERGENCY"}
  TableOf <- MCTableOf
  Null = Null
  Students = {}
  Anonymous = {}
  Closing = {"closed"}
  Demo = {"place"}
  Erasable = {"app_user", "report", "report_attribution", "case_status_history", "access_log"}
  Revisions = {0, 3, 6, 8}
CHECK_DEADLOCK FALSE
INVARIANTS WholeSchema ReferencesResolve ContactableIsAttributed MigratedDataIsValid
PROPERTIES RecordsKeepTheirAuthors

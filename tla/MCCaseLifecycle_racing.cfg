SPECIFICATION Spec
CONSTANTS
  w1 = w1
  w2 = w2
  NoUser = NoUser
  Workers = {w1, w2}
  Users <- Cast
  Role <- CastRole
  RoutesTo = "security"
  IsEmergency = TRUE
  Reporter = "stu"
  Requests <- RacingRequests
  MayLeave = {"off2"}
  MaxRequests = 3
CHECK_DEADLOCK FALSE
SYMMETRY WorkerSymmetry
INVARIANTS OneOwner ReportFollowsTrail WritesAreAudited ReporterToldWhatIsVisible TimelineEndsInStatus
PROPERTIES KeepsContract

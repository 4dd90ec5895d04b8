SPECIFICATION Spec
CONSTANTS
  sec = sec
  icc = icc
  adm = adm
  w1 = w1
  w2 = w2
  Users = {sec, icc, adm}
  Nobody = Nobody
  Workers = {w1, w2}
  Reports = {1, 2, 3}
  RoleOf <- OfficerRoles
  Categories = {"theft", "harassment"}
  Severity <- CategorySeverity
  RoutesTo <- CategoryRoute
  Facts <- ThreeFacts
  MaxModels = 2
  Similarity <- TwoModels
  Labels = {"harassment"}
  MayClose = {1}
  EmbeddingLimit = 2
  TopK = 1
  Requests <- RacingRequests
  MaxRequests = 3
CHECK_DEADLOCK FALSE
SYMMETRY Symmetry
INVARIANTS LinksNeverWidenAccess SimilarIsProposed LastWordStands

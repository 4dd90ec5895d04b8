SPECIFICATION Spec
CONSTANTS
  w1 = w1
  w2 = w2
  NoUser = NoUser
  Workers = {w1}
  Users <- Cast
  Role <- CastRole
  RoutesTo = "security"
  IsEmergency = FALSE
  Reporter = NoUser
  Requests <- SerialRequests
  MayLeave = {}
  MaxRequests = 6
CHECK_DEADLOCK FALSE
PROPERTIES KeepsContract

SPECIFICATION Spec
CONSTANTS
  w1 = w1
  w2 = w2
  Workers = {w1, w2}
  Callers = {"off1", "off2", "stu"}
  Entitled = {"off1", "off2"}
  IsEmergency = TRUE
  Requests <- Journey
  MaxRequests = 5
CHECK_DEADLOCK FALSE
SYMMETRY WorkerSymmetry
INVARIANTS OneJourneyInOrder AnswererIsOnRecord

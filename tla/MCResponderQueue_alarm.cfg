SPECIFICATION QueueSpec
CONSTANTS
  e1 = e1
  e2 = e2
  Reports = {e1, e2}
  Emergencies = {e1, e2}
  Working = {"submitted", "under_review"}
  MaxRestarts = 1
  MaxInFlight = 2
CHECK_DEADLOCK FALSE
INVARIANTS OneToneAtATime ArrivalsAlarmOnce
PROPERTIES EveryArrivalIsHeard

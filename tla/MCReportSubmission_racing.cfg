SPECIFICATION Spec
CONSTANTS
  w1 = w1
  w2 = w2
  u1 = u1
  u2 = u2
  off1 = off1
  Workers = {w1, w2}
  Users = {u1, u2}
  Responders = {off1}
  Limit = 1
  Window = 2
  Margin = 1
  DayLength = 2
  MaxTime = 2
  MaxRequests = 3
CHECK_DEADLOCK FALSE
SYMMETRY Symmetry
INVARIANTS CompleteOrAbsent NeverOvercharged CountedExactly SosOncePerWindow

SPECIFICATION Spec
CONSTANTS
  c1 = c1
  r1 = r1
  u1 = u1
  u2 = u2
  w1 = w1
  w2 = w2
  Workers = {w1, w2}
  Cleaners = {c1}
  Uploads = {u1, u2}
  Reports = {r1}
  Claims <- ShortClaims
  MaxPerReport = 2
  BatchLimit = 2
  Faults = {"crash", "put", "row", "delete"}
  MaxFaults = 1
CHECK_DEADLOCK FALSE
SYMMETRY Symmetry
INVARIANTS NothingUngoverned ToldIsGoverned PurgedIsGone

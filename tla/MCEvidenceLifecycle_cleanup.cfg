SPECIFICATION FairSpec
CONSTANTS
  c1 = c1
  r1 = r1
  u1 = u1
  u2 = u2
  w1 = w1
  Workers = {w1}
  Cleaners = {c1}
  Uploads = {u1, u2}
  Reports = {r1}
  Claims <- SingleClaims
  MaxPerReport = 2
  BatchLimit = 1
  Faults = {"crash"}
  MaxFaults = 1
CHECK_DEADLOCK FALSE
PROPERTIES AbandonedIsReaped LapsedIsPurged

\* Two imports that meet, one that must be refused, and the seed; two reports.
SPECIFICATION Spec
CONSTANTS
  survey = survey
  again = again
  bad = bad
  seed = seed
  prod = prod
  rerun = rerun
  z1 = z1
  z2 = z2
  zd = zd
  lib = lib
  gate = gate
  hall = hall
  demo = demo
  sos = sos
  Commands = {survey, again, bad, seed, rerun, prod}
  Seeds = {seed, rerun, prod}
  FileOf <- Files
  DryRuns = {}
  DemoZone = zd
  DemoPlaces <- DemoRows
  ProductionNamed = {prod}
  ZoneCodes = {z1, z2, zd}
  NoZone = NoZone
  PlaceCodes = {lib, gate, hall, demo, sos}
  Sentinel = sos
  Points = {0, 20, 100, 200, 400, 700, 900}
  NoPoint = NoPoint
  FirstPlaces <- Migrated
  Filings <- Filed
  Corrections <- Surveyed2
  MaxRunning = 2
  MaxReports = 1
  MaxCorrections = 1
INVARIANTS ImportIsWhole SentWhereAsked
SYMMETRY Symmetry

SPECIFICATION SpecRelease
CONSTANTS
  Texts <- Narratives
  Labels = {"stalking", "ragging", "lighting"}
  LabelOf <- Gold
  Thresholds = {"0.95", "1.0"}
  Default = "0.95"
  Whole = {"1.0"}
  Near <- Alike
  Corpora <- Datasets
  TestSize = 20
  ValSize = 10
  MinTest = 1
  Names = {"n1", "n2"}
  NoName = "-"
  ExportCorpora <- Exported
  Processes = {p1}
  MaxExports = 2
CHECK_DEADLOCK FALSE
INVARIANTS NothingStraddles ScoredUnseen RefusedForSizeOnly OneActive SuggestsAsRegistered

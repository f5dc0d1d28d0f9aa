CONSTANTS
  RawIds = {4, 5, 40}
  SignalIds = {1, 6}
  Tracked <- MCTracked
  Talkers = {"GPS", "GNSS"}
  PerGsv = 1
  PerGsa = 1
SPECIFICATION Spec
INVARIANTS
  TypeOK
  CycleReplaces
  UsedMarksAreCurrent

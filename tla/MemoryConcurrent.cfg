SPECIFICATION Spec
CONSTANTS
  r1 = r1
  r2 = r2
  r3 = r3
  r4 = r4
  Absent = Absent
  Requests <- MCThreeRequests
  Sizes <- MCSizes
  MaxTokens = 40
  SummariseAt = 32
  HistoryLimits = {0, 2}
  MayFail = FALSE
  MaxInFlight = 2
  MaxLapses = 1
  MaxCrashes = 0
SYMMETRY MCSymmetry
INVARIANTS
  TypeOK
  PromptAsksOnce
  TurnsInOrder
  WindowFollowsLog

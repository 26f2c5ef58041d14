SPECIFICATION Spec
CONSTANTS
  r1 = r1
  r2 = r2
  r3 = r3
  r4 = r4
  Absent = Absent
  Requests <- MCFourRequests
  Sizes <- MCSizes
  MaxTokens = 40
  SummariseAt = 32
  HistoryLimits = {0, 2}
  MayFail = TRUE
  MaxInFlight = 1
  MaxLapses = 2
  MaxCrashes = 1
SYMMETRY MCSymmetry
INVARIANTS
  WindowIsNewest
  SummaryIsOlder
  WindowStaysBounded
PROPERTY
  KeepsPromise

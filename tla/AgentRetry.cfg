SPECIFICATION Spec
CONSTANTS
  r1 = r1
  r2 = r2
  r3 = r3
  t1 = t1
  t2 = t2
  a = a
  b = b
  NoTurn = NoTurn
  Requests <- MCThreeRequests
  Threads <- MCOneThread
  Tools <- MCTools
  ToolCalls <- MCOneCall
  MaxRetries = 2
  Kinds <- ChatKinds
  FailurePoints <- MCNoFailures
  MaxInFlight = 1
  MaxUnstored = 1
  MaxCrashes = 0
PROPERTY
  FailedVerdictRetries

SPECIFICATION FairSpec
CONSTANTS
  r1 = r1
  r2 = r2
  r3 = r3
  t1 = t1
  t2 = t2
  a = a
  b = b
  NoTurn = NoTurn
  Requests <- MCTwoRequests
  Threads <- MCOneThread
  Tools <- MCTools
  ToolCalls <- MCSingleCall
  MaxRetries = 2
  Kinds <- MCLivenessKinds
  FailurePoints <- MCFewFailures
  MaxInFlight = 2
  MaxUnstored = 1
  MaxCrashes = 0
PROPERTY
  EveryRequestIsAnswered

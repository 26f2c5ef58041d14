SPECIFICATION Spec
CONSTANTS
  r1 = r1
  r2 = r2
  r3 = r3
  t1 = t1
  t2 = t2
  a = a
  b = b
  NoTurn = NoTurn
  Requests <- MCThreeRequests
  Threads <- MCOneThread
  Tools <- MCTools
  ToolCalls <- MCSomeCalls
  MaxRetries = 2
  Kinds <- AllKinds
  FailurePoints <- MCAllFailures
  MaxInFlight = 1
  MaxUnstored = 2
  MaxCrashes = 1
SYMMETRY MCSymmetry
INVARIANTS
  ShownIsExecuted
  
PROPERTY
  RepeatsFollowFailures
  StatusMatchesOutcome
  KeepsApproval
  SettledIsFinal

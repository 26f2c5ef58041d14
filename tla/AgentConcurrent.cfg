SPECIFICATION Spec
CONSTANTS
  r1 = r1
  r2 = r2
  r3 = r3
  t1 = t1
  t2 = t2
  a = a
  b = b
  NoTurn = NoTurn
  Requests <- MCTwoRequests
  Threads <- MCTwoThreads
  Tools <- MCTools
  ToolCalls <- MCAnyCalls
  MaxRetries = 2
  Kinds <- AllKinds
  FailurePoints <- MCAllFailures
  MaxInFlight = 2
  MaxUnstored = 2
  MaxCrashes = 1
SYMMETRY MCSymmetry
INVARIANTS
  TypeOK
  GatedExecution
  BoundedSelfCorrection
  GroundedGrading
  ReplyIsOneTurn
PROPERTY
  EveryStepCounts

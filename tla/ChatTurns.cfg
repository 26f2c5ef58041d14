SPECIFICATION FairSpec
CONSTANTS
  r1 = r1
  r2 = r2
  s1 = s1
  s2 = s2
  t1 = t1
  Requests <- MCRequests
  Sockets <- MCSockets
  Threads <- MCThreads
  Messages <- MCMessages
  BlankAsked <- MCBlankAsked
  BlankAnswered <- MCBlankAnswered
  Calls <- MCCalls
  Retries = 2
  TopK = 1
  MaxFailures = 2
  MaxSteps = 1
  MaxFaults = 1
INVARIANTS
  TypeOK
  SenderMissesNothing
  RoomHearsTheSame
  DoneIsRemembered
  RecallIsOfThePast
  LossIsReported
  CopiesAreRetries
PROPERTY
  SenderHearsTheEnd

SPECIFICATION FairSpec
CONSTANTS
  t1 = t1
  t2 = t2
  lab = lab
  gateway = gateway
  Calls <- MCCalls
  Devices <- MCDevices
  TlsDevices <- MCTlsDevices
  NRows = 2
INVARIANTS
  TypeOK
  ReleasedAtReturn
  OneConnection
  AnswerIsOneReply
  ClosedOnceOnSuccess
  PinOfThisAttempt
  LabelTellsStage
PROPERTIES
  QueryEnds
  KeepsContract

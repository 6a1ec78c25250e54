SPECIFICATION Spec
CONSTANTS
  t1 = t1
  t2 = t2
  lab = lab
  gateway = gateway
  routeros = routeros
  gatewayAccount = gatewayAccount
  Calls <- MCCalls
  Devices <- MCDevices
  TlsDevices <- MCTlsDevices
  NRows = 1
  Refs <- MCRefs
  CacheSize = 1
  MaxSaves = 1
  NotCached = NotCached
  Failed = Failed
  NoAnswer = NoAnswer
  CredentialRef <- MCCredentialRef
  Asked <- MCAsked
INVARIANTS
  TypeOK
  FreshLoginAccepted
  LogsInWhole
PROPERTIES
  KeepsQuery

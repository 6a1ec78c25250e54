SPECIFICATION Spec
CONSTANTS
  t1 = t1
  t2 = t2
  Threads <- MCThreads
  Requests <- MCRequests
  Audits <- MCAudits
  AuditReads <- MCAuditReads
  Inventory <- MCInventory
  Allowed <- MCAllowed
  Transport <- MCTransport
  LibrouterosInstalled = TRUE
  MaxFanout = 4
  ErrorLabels = {"unreachable"}
  MaxRequests = 2
  MaxCrashes = 1
CHECK_DEADLOCK FALSE
INVARIANTS
  EveryAuditRunLogged

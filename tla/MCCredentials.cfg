SPECIFICATION FairSpec
CONSTANTS
  t1 = t1
  t2 = t2
  router = router
  switch = switch
  backup = backup
  Threads <- MCThreads
  Refs <- MCRefs
  CacheSize = 2
  MaxSaves = 2
  NotCached = NotCached
  Failed = Failed
  NoAnswer = NoAnswer
INVARIANTS
  TypeOK
  MissIsOneSave
  CacheIsUsable
PROPERTIES
  StableUntilEvicted
  ResolveEnds

SPECIFICATION FairSpec
CONSTANTS
  s1 = s1
  s2 = s2
  r1 = r1
  none = none
  Scripts <- MCScripts
  RunDirs <- MCRunDirs
  COMMANDS <- MCCOMMANDS
  BuildOrder <- MCCOMMANDS
  Finds <- MCFinds
  NoArtifact = none
  Captured = "edge"
  Files <- MCFiles
  Contents <- MCContents
  Scenarios <- MCScenarios
CHECK_DEADLOCK FALSE
INVARIANTS
  TypeOK
  LiveBuildIsOneCapture
  UnreadableHasCause
  AllOrNothing
  VerdictsFromWholeFiles
  GreenMeansClean
  SeparateSecretsGo
PROPERTY
  CliEnds

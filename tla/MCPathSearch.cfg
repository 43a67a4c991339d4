SPECIFICATION Spec
CONSTANTS
  Char <- MCChar
  Envs <- MCEnvs
  PRELOAD <- MCPreload
  LIBRARY_PATH <- MCLibPath
  Before <- MCBefore
  After <- MCAfter
  Libs <- MCLibs
  Existing <- MCExisting
  Garbage <- MCGarbage
  USABLE = 3
  Heads <- MCHeads
  HEAD = 2
  Null = Null
INVARIANTS
  Terminated
  PreloadIsFields
  FirstHitWins
  EnvironmentKept
PROPERTIES
  SearchEnds
\* The search stops when every library is found or one is not.
CHECK_DEADLOCK FALSE

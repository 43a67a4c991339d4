\* The whole search over a few hundred small systems.
CONSTANTS
  Name     <- MCName
  Dir      <- MCDir
  Entry    <- MCEntry
  Concat   <- MCConcat
  Absolute <- MCAbsolute
  Exe      = "exe"
  Systems  <- MCSystems
  NotFound = NotFound
  MAX_DEP  = 10

SPECIFICATION Spec

INVARIANTS
  TypeOK
  ClosedWhenDone
  BreadthFirst
  TableFits
  InterpreterOnce
PROPERTIES
  ImplementsClosure

\* The search stops when it is done or has exited.
CHECK_DEADLOCK FALSE

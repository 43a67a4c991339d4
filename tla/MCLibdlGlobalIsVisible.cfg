\* libdl.h: RTLD_GLOBAL, in an ordinary program.
CONSTANTS
  Symbol   <- MCSymbol
  File     <- MCFile
  Info     <- MCInfo
  Startups <- MCStartupsUsual
  Requests <- MCRequests
  MaxOpen  = 2

SPECIFICATION Spec

INVARIANT GlobalIsVisible

CHECK_DEADLOCK FALSE

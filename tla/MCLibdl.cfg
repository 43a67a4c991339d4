\* Three libraries opened and closed in any order.
CONSTANTS
  Symbol   <- MCSymbol
  File     <- MCFile
  Info     <- MCInfo
  Startups <- MCStartups
  Requests <- MCRequests
  MaxOpen  = 3

SPECIFICATION Spec

INVARIANTS
  StartupPrefix
  WalksEnd
  ClosedUnreachable
  StartupIntact
  NoDanglingBinding
  CrashHasCause

\* The process may end, or have nothing left to do.
CHECK_DEADLOCK FALSE

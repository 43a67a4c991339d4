\* Loading of programs of three to five objects.
CONSTANTS
  PAGE_SIZE = 4
  INT_MOD   = 36
  Programs  <- MCPrograms
  BASE      = 1000
  VDSO      = 2001
  Uninit    = Uninit

SPECIFICATION Spec

INVARIANTS
  ImagesIntact
  SegmentPermissions
  ListMirrorsTable
  ExitsOnlyOnMisfit
PROPERTIES
  Terminates

\* The loader stops when it is done or has exited.
CHECK_DEADLOCK FALSE

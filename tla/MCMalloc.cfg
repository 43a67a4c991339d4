SPECIFICATION Spec
CONSTANTS
  SIZE_T = 1024
  MIN_LARGE = 6
  PAGE = 16
  NPAGES = 4
  MAX_RELEASE_CHECK_RATE = 2
  Requests <- MCHuge
  Callocs <- MCCallocs
  Batches <- MCBatches
  Aligned <- MCAligned
  Limits <- MCLimits
  Options <- MCOptions
  Pads <- MCPads
  CALLOC_SAFE = 32
  DefaultParams <- MCParams
  MaxLive = 2
  MoveAligned = FALSE
INVARIANTS
  HeapSound
  InuseIsOwned
  FootprintIsMapped
PROPERTIES
  GrowsOnlyWhenFull
  LimitHolds
  KeepsPromise
\* The client may own all it can, and stop.
CHECK_DEADLOCK FALSE

SPECIFICATION Spec
CONSTANTS
  SIZE_T = 1024
  MIN_LARGE = 6
  PAGE = 16
  NPAGES = 4
  MAX_RELEASE_CHECK_RATE = 2
  Requests <- MCRequests
  Callocs <- MCNone
  Batches <- MCNone
  Aligned <- MCAligned
  Limits <- MCNone
  Options <- MCNone
  Pads <- MCPads
  CALLOC_SAFE = 32
  DefaultParams <- MCParams
  MaxLive = 2
  MoveAligned = TRUE
INVARIANTS
  HasRoom
\* As in MCMalloc.cfg.
CHECK_DEADLOCK FALSE

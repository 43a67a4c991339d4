SPECIFICATION Spec
CONSTANTS
  Chunk = {a, b, c, d, e}
  Null = Null
  Sizes <- MCSizes
  Requests <- MCRequests
  Taken <- MCTaken
  SIZE_T_BITSIZE = 6
  TREEBIN_SHIFT = 2
  NTREEBINS = 6
SYMMETRY Symmetry
INVARIANTS
  TreesSound
  PicksBestFit

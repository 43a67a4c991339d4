\* One search of each name in each file.
CONSTANTS
  ARCH = 4
  Symbol <- MCSymbol
  GnuHash <- MCGnuHash
  GabiHash <- MCGabiHash
  Files <- MCFiles

SPECIFICATION Spec

INVARIANTS
  ReadsInTable
  ImplementsProbe
PROPERTIES
  SearchEnds

\* A search is over when it is done.
CHECK_DEADLOCK FALSE

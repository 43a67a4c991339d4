SPECIFICATION Spec
CONSTANTS
  LONG = 9
  INT = 6
  SHORT = 3
  Specs <- MCSpecs
  Tails <- MCTails
  Longs <- MCLongs
  Ints <- MCInts
  Strs <- MCStrs
  Chars <- MCChars
  Stars <- MCStars
INVARIANTS
  TypeOK
  TextAsInC
\* A format ends.
CHECK_DEADLOCK FALSE

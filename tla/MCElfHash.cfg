\* elf_hash() of names of up to four bytes, with words of 16 bits.
CONSTANTS
  WIDTH = 16
  Names <- MCNames

SPECIFICATION Spec

INVARIANTS
  AsciiForgets

\* The last character ends the loop.
CHECK_DEADLOCK FALSE

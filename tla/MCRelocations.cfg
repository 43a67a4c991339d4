\* Objects with DT_GNU_HASH, COPY and RELATIVE relocations, lazy and eager;
\* and odd ones: DT_HASH, no .got.plt, no vdso.
CONSTANTS
  Symbol   <- MCSymbol
  Programs <- MCPrograms

SPECIFICATION Spec

INVARIANTS
  RelocatedBeforeUse
  StopHasCause
PROPERTIES
  StartupEnds
  ImplementsBinding

\* A program may stop calling, or be stopped.
CHECK_DEADLOCK FALSE

------------------------------- MODULE Closure -------------------------------
(***************************************************************************)
(* What the dependency search of ld.so promises, whatever its strategy:    *)
(* starting from the objects it is given, it discovers objects one at a    *)
(* time, each because one already discovered needs it; it may only stop    *)
(* with success when nothing is left to discover, and may only give up     *)
(* when some discovered object needs something that is missing.            *)
(***************************************************************************)

CONSTANTS
  Object,   \* the objects there may be
  Missing   \* stands for a needed object that cannot be had

VARIABLES
  succ,     \* what every object needs; never changes
  found,    \* the objects discovered so far
  phase     \* "grow", then "closed" or "aborted"

vars == <<succ, found, phase>>

Init ==
  /\ succ \in [Object -> SUBSET (Object \union {Missing})]
  /\ found \in SUBSET Object
  /\ phase = "grow"

Discover ==
  /\ phase = "grow"
  /\ \E o \in found : \E s \in succ[o] \ (found \union {Missing}) :
        found' = found \union {s}
  /\ UNCHANGED <<succ, phase>>

Finish ==
  /\ phase = "grow"
  /\ \A o \in found : succ[o] \subseteq found
  /\ phase' = "closed"
  /\ UNCHANGED <<succ, found>>

Abort ==
  /\ phase = "grow"
  /\ \E o \in found : Missing \in succ[o]
  /\ phase' = "aborted"
  /\ UNCHANGED <<succ, found>>

Next == Discover \/ Finish \/ Abort

Spec == Init /\ [][Next]_vars /\ WF_vars(Next)

=============================================================================

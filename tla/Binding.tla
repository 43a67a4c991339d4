-------------------------------- MODULE Binding --------------------------------
(***************************************************************************)
(* What relocation promises, lazy or not: each place that refers to a      *)
(* symbol is given, at most once, the definition it is meant to have; a    *)
(* place whose symbol has no definition stops the program when it is       *)
(* needed.  With eager binding every called place is bound before the      *)
(* program starts, and nothing can fail after that.                        *)
(***************************************************************************)
EXTENDS Naturals

VARIABLES
  want,    \* the definition each place is meant to have, 0 for none
  calls,   \* the places that are called through
  eager,   \* LD_BIND_NOW
  bound,   \* the definition each place has been given, 0 for none yet
  phase    \* "start", "run" or "failed"

vars == <<want, calls, eager, bound, phase>>

Init ==
  /\ bound = [s \in DOMAIN want |-> 0]
  /\ phase = "start"

Bind ==
  /\ phase # "failed"
  /\ \E s \in DOMAIN want :
       /\ bound[s] = 0
       /\ want[s] # 0
       /\ phase = "run" => s \in calls /\ ~eager
       /\ bound' = [bound EXCEPT ![s] = want[s]]
  /\ UNCHANGED <<want, calls, eager, phase>>

Run ==
  /\ phase = "start"
  /\ eager => \A s \in calls : bound[s] # 0
  /\ phase' = "run"
  /\ UNCHANGED <<want, calls, eager, bound>>

Fail ==
  /\ phase # "failed"
  /\ \E s \in DOMAIN want :
       /\ bound[s] = 0
       /\ want[s] = 0
       /\ phase = "run" => s \in calls
       /\ phase = "start" /\ s \in calls => eager
  /\ phase' = "failed"
  /\ UNCHANGED <<want, calls, eager, bound>>

Next == Bind \/ Run \/ Fail

(* The program is started or refused.  *)
Spec == Init /\ [][Next]_vars /\ WF_vars(Run)

=============================================================================

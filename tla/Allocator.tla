------------------------------- MODULE Allocator -------------------------------
(***************************************************************************)
(* What malloc(), free() and their relatives promise to a client: blocks   *)
(* that are aligned, in mapped memory and apart from each other, that stay *)
(* as they are until the client gives them back.                           *)
(***************************************************************************)
EXTENDS Naturals, FiniteSets

CONSTANT PAGE

VARIABLES
  live,      \* the blocks of the client: address -> size and alignment
  mapped     \* the pages of memory that are mapped

Words(a, b) == a .. a + b.size - 1

InMapped(a, b, pages) ==
  \A w \in {a, a + b.size - 1} \cup {w \in Words(a, b) : w % PAGE = 0} :
    b.size > 0 => w - (w % PAGE) \in pages

Apart(a, b) == a + live[a].size <= b \/ b + live[b].size <= a

(* Two blocks share no word, and the first words of empty ones differ.  *)
Sound ==
  \A a \in DOMAIN live :
    /\ a % live[a].align = 0
    /\ InMapped(a, live[a], mapped)
    /\ \A b \in DOMAIN live : a = b \/ Apart(a, b)

Same(S) == \A a \in S : live'[a] = live[a]

(* Blocks come, go, or one takes the place of another; the rest stay.  *)
Obtain  == DOMAIN live \subseteq DOMAIN live' /\ Same(DOMAIN live)

Release == DOMAIN live' \subseteq DOMAIN live /\ Same(DOMAIN live')

Resize ==
  \E a \in DOMAIN live, b \in DOMAIN live' :
    /\ DOMAIN live' = (DOMAIN live \ {a}) \cup {b}
    /\ b \notin DOMAIN live \ {a}
    /\ Same(DOMAIN live \ {a})

Init == live = <<>> /\ mapped = {} /\ Sound

Next == (Obtain \/ Release \/ Resize) /\ Sound'

Spec == Init /\ [][Next]_<<live, mapped>>
=============================================================================

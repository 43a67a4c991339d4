----------------------------- MODULE MCHashTables -----------------------------
(***************************************************************************)
(* Files with up to one undefined and three defined symbols.  Of the names *)
(* two have one hash ("a" and "d"), two differ in the lowest bit only ("a" *)
(* and "b"), and "e" shares bits of the bloom filter with others.          *)
(***************************************************************************)
EXTENDS HashTables, SequencesExt

MCSymbol == {"", "a", "b", "c", "d", "e"}

MCGnuHash == [s \in MCSymbol |->
  CASE s = "a" -> 10 [] s = "b" -> 11 [] s = "c" -> 29
    [] s = "d" -> 10 [] s = "e" -> 14 [] OTHER -> 5]

MCGabiHash == [s \in MCSymbol |->
  CASE s = "a" -> 1 [] s = "b" -> 2 [] s = "c" -> 4 [] s = "d" -> 6 [] OTHER -> 0]

Injective(s) == \A i, j \in DOMAIN s : s[i] = s[j] => i = j

Orders(k) == {s \in BoundedSeq(MCSymbol \ {""}, k) : Injective(s)}

MCFiles == {f \in
  [opens : {TRUE}, zero : BOOLEAN, gnu : BOOLEAN, sysv : BOOLEAN,
   undefs : Orders(1), defs : Orders(3),
   nbucket : {1, 3}, words : {1, 2}, shift : {2}, chains : {1, 2}] :
     /\ Injective(DynSym(f))
     /\ Sorted(f)
     /\ f.gnu \/ (f.nbucket = 1 /\ f.words = 1)
     /\ f.sysv \/ f.chains = 1}
  \cup
  {[opens |-> FALSE, zero |-> FALSE, gnu |-> TRUE, sysv |-> TRUE,
    undefs |-> <<>>, defs |-> <<"a">>,
    nbucket |-> 1, words |-> 1, shift |-> 1, chains |-> 1]}

=============================================================================

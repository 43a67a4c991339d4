------------------------------- MODULE MCTreeBin -------------------------------
(* An instance of TreeBin for TLC: six bins, the last one for sizes from    *)
(* 24 on, and sizes on both sides of the bounds of the bins.                *)
EXTENDS TreeBin, TLC

MCSizes    == {4, 16, 18, 20, 23, 24, 31, 33, 48}
MCRequests == 4 .. 63
MCTaken    == {20}
Symmetry   == Permutations(Chunk)
=============================================================================

------------------------------- MODULE MCMalloc -------------------------------
(* Instances of Malloc for TLC.  Pages have 16 words; 7 words, asked of     *)
(* calloc(), get a mapping of one page, and 23 words a mapping of two; the  *)
(* 1007 words wrap around when they are padded.                            *)
EXTENDS Malloc

MCRequests == {1, 23}
MCHuge     == MCRequests \cup {1007}
MCCallocs  == {<<1, 7>>, <<40, 40>>}
MCBatches  == {<<1, 7>>, <<1>>, <<>>}
MCAligned  == {<<8, 1>>}
MCLimits   == {20}
MCOptions  == [param : {"granularity"}, val : {12, 16}]
MCPads     == {0}
MCNone     == {}
MCParams   == [granularity |-> 32, mmap_threshold |-> 8, trim_threshold |-> 20]
=============================================================================

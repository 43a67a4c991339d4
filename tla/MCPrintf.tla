------------------------------- MODULE MCPrintf -------------------------------
(* An instance of Printf for TLC: longs of 9, ints of 6, shorts of 3 bits.  *)
EXTENDS Printf

MCSpecs ==
  [flags : {<<>>, <<"-">>, <<"+">>, <<" ">>, <<"#">>, <<"0">>, <<"-", "0">>, <<"0", "#">>,
            <<"+", "0">>, <<" ", "+">>, <<"#", "-">>},
   width : {<<>>, <<"4">>, <<"1", "0">>, <<"*">>},
   prec  : {<<>>, <<".">>, <<".", "3">>, <<".", "*">>},
   qual  : {<<>>, <<"h">>, <<"l">>},
   conv  : {<<"d">>, <<"i">>, <<"u">>, <<"x">>, <<"X">>, <<"o">>, <<"c">>, <<"s">>, <<"p">>, <<"n">>,
            <<"%">>, <<"z">>, <<>>}]
MCTails == {<<>>, <<"a">>}
MCLongs == {-256, -1, 0, 255}
MCInts  == {-32, -3, 0, 5, 31}
MCStrs  == {<<>>, <<"a", "b", "c", "d", "e">>}
MCChars == {"c"}
MCStars == {-5, 0, 2}
=============================================================================

----------------------------- MODULE MCPathSearch -----------------------------
(* An instance of PathSearch for TLC: variables P and L, names of one       *)
(* character, two libraries.                                               *)
EXTENDS PathSearch

MCChar == {"P", "L", "Q", "X", "=", ":", ";", " ", "/", "a", "b", "c", "d", "e", "l", "m", "x"}

Entries ==
  {<<"P", "=", "a", ":", "b">>, <<"P", "=">>, <<"P", "=", "a", ";", ":", "b", " ">>, <<"P", "X", "=", "a">>,
   <<"L", "=", "a", ":", "b">>, <<"L", "=">>, <<"L", "=", "a", "/", ":", ";", "b", ":">>,
   <<"L", "=", "b", " ", "a", "a">>, <<"L", "X", "=", "a">>, <<"L">>, <<"Q", "=", "L">>}

MCEnvs     == BoundedSeq(Entries, 2) \cup {<<<<"Q", "=", "L">>, p, l>> : p, l \in Entries}
MCPreload  == <<"P">>
MCLibPath  == <<"L">>
MCBefore   == <<<<"d", ":", "e", "/">>>>
MCAfter    == <<<<"c", "/">>>>
MCLibs     == <<<<"l">>, <<"m">>>>
MCExisting ==
  {{}, {<<"/", "l">>, <<"/", "m">>}, {<<"a", "/", "l">>, <<"b", "/", "l">>, <<"b", "/", "m">>},
   {<<"d", "/", "l">>, <<"c", "/", "m">>, <<"e", "/", "m">>},
   {<<"b", "/", "l">>, <<"a", "a", "/", "m">>}, {<<"c", "/", "l">>, <<"c", "/", "m">>}}
MCGarbage  == {<<>>, <<"b">>, <<"x", ":">>, <<"x", "b", "x">>}   \* the last has no NUL
MCHeads    == {<<"x", NUL>>, <<":", NUL>>}
=============================================================================

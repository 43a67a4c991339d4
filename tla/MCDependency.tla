----------------------------- MODULE MCDependency -----------------------------
(* Small file systems for Dependency: three libraries, in the current      *)
(* directory, in an RPATH directory, in /lib/ or nowhere.                  *)
EXTENDS Dependency

Library == {"ld.so", "a", "b", "c"}
MCAbsolute == {"/lib/c"}
MCName == Library \union MCAbsolute
MCDir == {"r/", "/lib/", "/usr/lib/"}
MCConcat == [p \in MCDir \X MCName |-> p[1] \o p[2]]
MCEntry == {"exe"} \union MCName \union {MCConcat[p] : p \in MCDir \X MCName}

(* Chains, diamonds, cycles, a library that needs itself, and one that is    *)
(* needed by its path and by its name.                                       *)
Graphs ==
  {[exe |-> <<"a", "ld.so">>, a |-> <<"b", "c">>, b |-> <<"c">>, c |-> <<>>],
   [exe |-> <<"a">>,          a |-> <<"b">>,      b |-> <<"c">>, c |-> <<"a">>],
   [exe |-> <<"b", "a">>,     a |-> <<"c", "a">>, b |-> <<"a">>, c |-> <<"ld.so">>],
   [exe |-> <<"a", "b">>,     a |-> <<"c">>,      b |-> <<"c">>, c |-> <<"b", "a">>],
   [exe |-> <<"ld.so">>,      a |-> <<"b">>,      b |-> <<>>,    c |-> <<>>],
   [exe |-> <<"/lib/c", "a">>, a |-> <<"c">>,     b |-> <<>>,    c |-> <<"/lib/c">>]}

Placements ==
  {{"ld.so", "a", "b", "c"}, {"ld.so", "a", "r/b", "/lib/c"},
   {"ld.so", "/lib/a", "/usr/lib/a", "r/a", "b", "r/c", "/usr/lib/c"},
   {"ld.so", "r/a", "/lib/b", "c"}, {"ld.so", "a", "/usr/lib/b"},
   {"/lib/ld.so", "a", "b", "c"}, {"ld.so", "/lib/ld.so", "/lib/a", "b", "r/b", "c"}}

(* What a path names: the same library whatever the directory.  *)
Paths == {MCConcat[p] : p \in MCDir \X Library}
BaseName(e) ==
  IF e \in Library THEN e ELSE (CHOOSE p \in MCDir \X Library : MCConcat[p] = e)[2]

Needed(g, e) ==
  IF e = "exe" THEN g.exe
  ELSE IF e \in Library \union Paths /\ BaseName(e) # "ld.so" THEN g[BaseName(e)]
  ELSE <<>>

MCSystems ==
  {[exists  |-> {"exe"} \union x,
    needed  |-> [e \in MCEntry |-> Needed(g, e)],
    rpath   |-> [e \in MCEntry |-> IF e = "exe" /\ r THEN <<"r/">> ELSE <<>>],
    runpath |-> [e \in MCEntry |-> IF e = "a" THEN <<"r/">> ELSE <<>>],
    libpath |-> l,
    preload |-> p,
    vdso    |-> v] :
      x \in Placements, g \in Graphs, r \in BOOLEAN, l \in {<<>>, <<"r/">>},
      p \in {<<>>, <<"c">>, <<"a", "a">>}, v \in BOOLEAN}

=============================================================================

---------------------------- MODULE MCRelocations ----------------------------
(* Programs of an executable, ld.so, two libraries and the vdso.           *)
EXTENDS Relocations

MCSymbol == {"", "f", "g"}

R(t, s) == [type |-> t, sym |-> s]
Plt(names) == [r \in DOMAIN names |-> R("JUMP_SLOT", names[r])]

GnuTable(z, d) ==
  [opens |-> TRUE, zero |-> z, gnu |-> TRUE, sysv |-> FALSE, defs |-> d, bucket0 |-> {}]

Obj(t, plt, dyn) == [table |-> t, plt |-> Plt(plt), dyn |-> dyn, gotplt |-> TRUE]

Vdso ==
  [table |-> [opens |-> FALSE, zero |-> FALSE, gnu |-> FALSE, sysv |-> FALSE, defs |-> {}, bucket0 |-> {}],
   plt |-> <<>>, dyn |-> <<>>, gotplt |-> FALSE]

LdSo == Obj(GnuTable(FALSE, {}), <<>>, <<R("OTHER", "")>>)

Dyns ==
  {<<>>, <<R("GLOB_DAT", "g")>>, <<R("COPY", "f"), R("GLOB_DAT", "g")>>,
   <<R("OTHER", "f"), R("JUMP_SLOT", "f"), R("COPY", "g")>>}

(* Objects with DT_GNU_HASH only, as linkers make them, and the vdso.  *)
GnuPrograms ==
  {<<Obj(GnuTable(TRUE, e), p, x), LdSo, Obj(GnuTable(FALSE, a), <<"g">>, y),
     Obj(GnuTable(FALSE, b), q, <<>>), Vdso>> :
     e \in {{}, {"g"}}, p \in {<<>>, <<"f", "g">>}, x \in Dyns \union {<<R("RELATIVE", "")>>},
     a \in SUBSET {"f", "g"}, y \in Dyns, b \in SUBSET {"f", "g"}, q \in {<<>>, <<"f">>}}

(* Every kind of table, with or without .got.plt and the vdso; no COPY.  *)
AnyTable(z) ==
  {[opens |-> TRUE, zero |-> z, gnu |-> gs \in {1, 3}, sysv |-> gs \in {2, 3}, defs |-> d, bucket0 |-> c] :
     gs \in {1, 2, 3}, d \in {{}, {"f"}, {"f", "g"}}, c \in {{}, {"f"}}}

OddPrograms ==
  {<<[table |-> e, plt |-> Plt(<<"f", "g">>), dyn |-> x, gotplt |-> h],
     [table |-> a, plt |-> Plt(<<"g">>), dyn |-> <<>>, gotplt |-> l]>> \o v :
     e \in AnyTable(TRUE), a \in AnyTable(FALSE),
     x \in {<<>>, <<R("GLOB_DAT", "g")>>}, h \in BOOLEAN, l \in BOOLEAN, v \in {<<>>, <<Vdso>>}}

(* A .rela.plt with IRELATIVE relocations in it.  *)
IfuncPrograms ==
  {<<[Obj(GnuTable(TRUE, {}), <<>>, <<>>) EXCEPT !.plt = p],
     Obj(GnuTable(FALSE, {"f"}), <<>>, <<>>), Vdso>> :
     p \in [1 .. 2 -> {R("JUMP_SLOT", "f"), R("JUMP_SLOT", "g"), R("OTHER", "")}]}

MCPrograms == GnuPrograms \union OddPrograms \union IfuncPrograms

=============================================================================

------------------------------- MODULE MCLoader -------------------------------
(* Programs of an executable, ld.so, one to three libraries and the vdso,    *)
(* with pages of 4 bytes.                                                    *)
EXTENDS Loader

LOADS(v, f, m, w) == [type |-> "LOAD", vaddr |-> v, filesz |-> f, memsz |-> m, w |-> w]
DYN(v, f) == [type |-> "DYNAMIC", vaddr |-> v, filesz |-> f, memsz |-> f, w |-> TRUE]
HDR(v) == [type |-> "OTHER", vaddr |-> v, filesz |-> 1, memsz |-> 1, w |-> FALSE]

(* Headers at an address: text and data with .bss, three segments, data that *)
(* goes far beyond the dynamic section, headers out of order, a .bss of      *)
(* several pages, segments that share a page.                                *)
Headers(v) ==
  {<<HDR(v), LOADS(v, 6, 6, FALSE), LOADS(v + 9, 4, mem, TRUE), DYN(v + 10, d), HDR(v)>> :
     mem \in {4, 7, 14}, d \in {2, 3}}
  \union
  {<<LOADS(v, 3, 3, FALSE), LOADS(v + 5, 2, 2, FALSE), LOADS(v + 8, 3, 3, TRUE),
     DYN(v + 8, 2), HDR(v + 8)>>,
   <<LOADS(v, 4, 4, FALSE), LOADS(v + 7, 3, 3, FALSE), LOADS(v + 13, 3, 5, TRUE), DYN(v + 13, 3)>>,
   <<LOADS(v, 4, 4, FALSE), LOADS(v + 4, 9, 9, TRUE), DYN(v + 5, 2)>>,
   <<LOADS(v, 4, 4, FALSE), HDR(v), LOADS(v + 4, 4, 4, TRUE), DYN(v + 5, 2)>>,
   <<LOADS(v, 6, 6, FALSE), LOADS(v + 7, 3, 4, TRUE), DYN(v + 8, 2)>>,
   <<HDR(v), LOADS(v, 4, 5, TRUE), DYN(v + 1, 3), HDR(v), LOADS(v + 8, 2, 2, FALSE)>>}

Exes == {[kind |-> "exe", ph |-> p] : p \in Headers(8)}
Libs == {[kind |-> "lib", ph |-> p] : p \in Headers(0) \union Headers(4)}
LdSo == [kind |-> "ld.so", ph |-> <<>>]
Vdso == [kind |-> "vdso", ph |-> <<>>]

FewLibs ==
  {l \in Libs : l.ph \in Headers(0)} \ {l \in Libs : Len(l.ph) = 4}

MCPrograms ==
  {<<e, LdSo, l>> : e \in Exes, l \in Libs} \union
  {<<e, LdSo, l, Vdso>> : e \in Exes, l \in FewLibs} \union
  {<<e, LdSo, l, m, Vdso>> : e \in {x \in Exes : Fits(x)}, l \in FewLibs, m \in FewLibs} \union
  {<<e, LdSo, l, m, l>> : e \in {x \in Exes : Fits(x)}, l \in FewLibs, m \in {o \in FewLibs : Len(o.ph) = 3}} \union
  {<<e, LdSo, LdSo, l>> : e \in {x \in Exes : Fits(x)}, l \in FewLibs}

=============================================================================

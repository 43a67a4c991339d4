----------------------------- MODULE Loader_proofs -----------------------------
(***************************************************************************)
(* Proofs about Loader: for every table of objects, every size of a page   *)
(* and of an int, the list of link_maps mirrors the table, and no object   *)
(* is loaded over what another one needs.                                  *)
(***************************************************************************)
EXTENDS Loader, LeastElement, TLAPS

-----------------------------------------------------------------------------
(* Pages and addresses.  *)

(* Multiplication by the size of a page.                                     *)
LEMMA TimesPage ==
  ASSUME NEW a \in Nat, NEW b \in Nat, a <= b
  PROVE  PAGE_SIZE * a \in Nat /\ PAGE_SIZE * b \in Nat /\ PAGE_SIZE * a <= PAGE_SIZE * b
BY LoaderAssumption

(* An address lies in the page its quotient numbers.                         *)
LEMMA PageOf ==
  ASSUME NEW x \in Nat
  PROVE  /\ x \div PAGE_SIZE \in Nat /\ ALIGN(x) \in Nat
         /\ ALIGN(x) = PAGE_SIZE * (x \div PAGE_SIZE)
         /\ ALIGN(x) <= x /\ x < ALIGN(x) + PAGE_SIZE
BY LoaderAssumption DEF ALIGN

(* And in no other one.                                                      *)
LEMMA PageUnique ==
  ASSUME NEW x \in Nat, NEW q \in Nat, PAGE_SIZE * q <= x, x < PAGE_SIZE * q + PAGE_SIZE
  PROVE  x \div PAGE_SIZE = q
BY LoaderAssumption

LEMMA PageMonotone ==
  ASSUME NEW x \in Nat, NEW y \in Nat, x <= y
  PROVE  x \div PAGE_SIZE <= y \div PAGE_SIZE
BY LoaderAssumption

(* Displacement by a whole number of pages.                                  *)
LEMMA PageShift ==
  ASSUME NEW base \in Nat, base = ALIGN(base), NEW x \in Nat
  PROVE  /\ (base + x) \div PAGE_SIZE = base \div PAGE_SIZE + x \div PAGE_SIZE
         /\ ALIGN(base + x) = base + ALIGN(x)
<1> DEFINE b == base \div PAGE_SIZE
           q == x \div PAGE_SIZE
<1>1. b \in Nat /\ q \in Nat /\ base = PAGE_SIZE * b
  BY PageOf DEF ALIGN
<1>2. PAGE_SIZE * q <= x /\ x < PAGE_SIZE * q + PAGE_SIZE /\ PAGE_SIZE * q \in Nat
  BY PageOf
<1> HIDE DEF b, q
<1>3. PAGE_SIZE * (b + q) = base + PAGE_SIZE * q
  BY <1>1, LoaderAssumption
<1>4. (base + x) \div PAGE_SIZE = b + q
  <2>1. PAGE_SIZE * (b + q) <= base + x /\ base + x < PAGE_SIZE * (b + q) + PAGE_SIZE
    BY <1>2, <1>3, LoaderAssumption
  <2> QED BY <1>1, <2>1, PageUnique
<1>5. ALIGN(base + x) = base + PAGE_SIZE * q
  BY <1>3, <1>4 DEF ALIGN
<1> QED BY <1>4, <1>5 DEF b, q, ALIGN

LEMMA RoundUpFacts ==
  ASSUME NEW x \in Nat
  PROVE  /\ RoundUp(x) \in Nat /\ x <= RoundUp(x)
         /\ x > 0 => RoundUp(x) = PAGE_SIZE * ((x - 1) \div PAGE_SIZE) + PAGE_SIZE
         /\ x = 0 => RoundUp(x) = 0
<1>1. x + PAGE_SIZE - 1 \in Nat
  BY LoaderAssumption
<1>2. RoundUp(x) \in Nat /\ RoundUp(x) <= x + PAGE_SIZE - 1 /\ x + PAGE_SIZE - 1 < RoundUp(x) + PAGE_SIZE
  BY <1>1, PageOf DEF RoundUp
<1>3. CASE x > 0
  <2> DEFINE q == (x - 1) \div PAGE_SIZE
  <2>1. q \in Nat /\ PAGE_SIZE * q <= x - 1 /\ x - 1 < PAGE_SIZE * q + PAGE_SIZE /\ PAGE_SIZE * q \in Nat
    BY <1>3, PageOf
  <2> HIDE DEF q
  <2>2. PAGE_SIZE * (q + 1) = PAGE_SIZE * q + PAGE_SIZE
    BY <2>1, LoaderAssumption
  <2>3. (x + PAGE_SIZE - 1) \div PAGE_SIZE = q + 1
    BY <1>1, <2>1, <2>2, LoaderAssumption, PageUnique
  <2> QED BY <1>2, <1>3, <2>2, <2>3, LoaderAssumption DEF q, RoundUp, ALIGN
<1>4. CASE x = 0
  <2>1. (x + PAGE_SIZE - 1) \div PAGE_SIZE = 0
    BY <1>1, <1>4, LoaderAssumption, PageUnique
  <2> QED BY <1>2, <1>4, <2>1, LoaderAssumption DEF RoundUp, ALIGN
<1> QED BY <1>2, <1>3, <1>4

(* What is rounded up does not reach the page of an address behind it.        *)
LEMMA PageBefore ==
  ASSUME NEW x \in Nat, x > 0, NEW y \in Nat, RoundUp(x) <= ALIGN(y)
  PROVE  (x - 1) \div PAGE_SIZE < y \div PAGE_SIZE
<1> DEFINE q == (x - 1) \div PAGE_SIZE
           r == y \div PAGE_SIZE
<1>1. q \in Nat /\ r \in Nat
  BY PageOf
<1>2. PAGE_SIZE * q + PAGE_SIZE <= PAGE_SIZE * r
  BY RoundUpFacts, PageOf
<1> HIDE DEF q, r
<1>3. q < r
  <2>1. CASE r <= q
    BY <2>1, <1>1, <1>2, TimesPage, LoaderAssumption
  <2> QED BY <2>1, <1>1
<1> QED BY <1>3 DEF q, r

(* The last page of a mapping holds all that ends before it is rounded up.    *)
LEMMA PageCovers ==
  ASSUME NEW e \in Nat, e > 0, NEW g \in Nat, e <= RoundUp(g)
  PROVE  g > 0 /\ (e - 1) \div PAGE_SIZE <= (g - 1) \div PAGE_SIZE
<1>1. g > 0
  BY RoundUpFacts
<1> DEFINE q == (e - 1) \div PAGE_SIZE
           r == (g - 1) \div PAGE_SIZE
<1>2. q \in Nat /\ r \in Nat /\ PAGE_SIZE * q <= e - 1
  BY <1>1, PageOf
<1>3. e <= PAGE_SIZE * r + PAGE_SIZE
  BY <1>1, RoundUpFacts
<1> HIDE DEF q, r
<1>4. q <= r
  <2>1. CASE r + 1 <= q
    <3>1. PAGE_SIZE * (r + 1) = PAGE_SIZE * r + PAGE_SIZE
      BY <1>2, LoaderAssumption
    <3> QED BY <2>1, <3>1, <1>2, <1>3, TimesPage, LoaderAssumption
  <2> QED BY <2>1, <1>2
<1> QED BY <1>1, <1>4 DEF q, r

LEMMA PagesOfFacts ==
  ASSUME NEW lo \in Nat, NEW hi \in Nat
  PROVE  /\ PagesOf(lo, hi) \subseteq Nat
         /\ \A p \in PagesOf(lo, hi) :
              /\ lo < hi
              /\ lo \div PAGE_SIZE <= p /\ p <= (hi - 1) \div PAGE_SIZE
         /\ \A p \in Nat : lo < hi /\ lo \div PAGE_SIZE <= p /\ p <= (hi - 1) \div PAGE_SIZE =>
              p \in PagesOf(lo, hi)
<1>1. CASE hi <= lo
  BY <1>1 DEF PagesOf
<1>2. CASE lo < hi
  <2> DEFINE a == lo \div PAGE_SIZE
             z == (hi - 1) \div PAGE_SIZE
  <2>1. a \in Nat /\ z \in Nat
    BY <1>2, PageOf
  <2>2. PagesOf(lo, hi) = a .. z
    BY <1>2 DEF PagesOf
  <2> HIDE DEF a, z
  <2>3. /\ PagesOf(lo, hi) \subseteq Nat
        /\ \A p \in PagesOf(lo, hi) : a <= p /\ p <= z
        /\ \A p \in Nat : a <= p /\ p <= z => p \in PagesOf(lo, hi)
    BY <2>1, <2>2
  <2> QED BY <2>3, <1>2 DEF a, z
<1> QED BY <1>1, <1>2

(* A page with every page before it is one more page.                        *)
LEMMA OneMoreByte ==
  ASSUME NEW addr \in Nat, NEW d \in Nat, NEW p \in PagesOf(addr, addr + d + 1),
         p # (addr + d) \div PAGE_SIZE
  PROVE  p \in PagesOf(addr, addr + d)
<1>1. p \in Nat /\ addr \div PAGE_SIZE <= p /\ p <= (addr + d) \div PAGE_SIZE
  <2>1. addr + d + 1 \in Nat /\ (addr + d + 1) - 1 = addr + d
    OBVIOUS
  <2> QED BY <2>1, PagesOfFacts
<1>2. addr \div PAGE_SIZE \in Nat /\ (addr + d) \div PAGE_SIZE \in Nat
  BY PageOf
<1>3. p < (addr + d) \div PAGE_SIZE
  BY <1>1, <1>2
<1>4. d > 0
  <2>1. CASE d = 0
    <3>1. addr + d = addr
      BY <2>1
    <3>2. addr \div PAGE_SIZE <= p /\ p < addr \div PAGE_SIZE
      BY <3>1, <1>1, <1>3
    <3> QED BY <3>2, <1>1, <1>2
  <2> QED BY <2>1
<1>5. p <= (addr + d - 1) \div PAGE_SIZE
  <2> DEFINE q == (addr + d) \div PAGE_SIZE
             r == (addr + d - 1) \div PAGE_SIZE
  <2>1. /\ PAGE_SIZE * q <= addr + d
        /\ r \in Nat /\ q \in Nat /\ addr + d - 1 < PAGE_SIZE * r + PAGE_SIZE
    BY <1>4, PageOf
  <2> HIDE DEF q, r
  <2>2. q <= r + 1
    <3>1. PAGE_SIZE * (r + 1) = PAGE_SIZE * r + PAGE_SIZE
      BY <2>1, LoaderAssumption
    <3>2. CASE r + 2 <= q
      <4>1. PAGE_SIZE * (r + 2) = PAGE_SIZE * r + PAGE_SIZE + PAGE_SIZE
        BY <2>1, LoaderAssumption
      <4>2. PAGE_SIZE * (r + 2) <= PAGE_SIZE * q
        BY <3>2, <2>1, TimesPage
      <4> QED BY <4>1, <4>2, <2>1, LoaderAssumption
    <3> QED BY <3>2, <2>1
  <2> QED BY <2>1, <2>2, <1>1, <1>3 DEF q, r
<1> QED BY <1>1, <1>4, <1>5, PagesOfFacts

(* Where read() stops: at the end or before the first page it cannot write.   *)
LEMMA ReadLenFacts ==
  ASSUME NEW addr \in Nat, NEW size \in Nat
  PROVE  LET r == ReadLen(addr, size)
         IN  /\ r \in 0 .. size
             /\ \A p \in PagesOf(addr, addr + r) : p \in DOMAIN page /\ page[p].w
             /\ r < size => \/ (addr + r) \div PAGE_SIZE \notin DOMAIN page
                            \/ ~page[(addr + r) \div PAGE_SIZE].w
<1> DEFINE Readable(r) == \A p \in PagesOf(addr, addr + r) : p \in DOMAIN page /\ page[p].w
           Stop(r) == r < size => \/ (addr + r) \div PAGE_SIZE \notin DOMAIN page
                                 \/ ~page[(addr + r) \div PAGE_SIZE].w
           H == {r \in 0 .. size : Readable(r)}
<1>1. ReadLen(addr, size) = CHOOSE r \in 0 .. size : Readable(r) /\ Stop(r)
  BY DEF ReadLen
<1>2. 0 \in H
  BY DEF PagesOf
<1>3. \E d \in H : \A e \in H : e <= d
  <2>1. H \subseteq 0 .. size /\ H # {}
    BY <1>2
  <2> HIDE DEF H
  <2> QED BY <2>1, GreatestExists
<1>4. PICK d \in H : \A e \in H : e <= d
  BY <1>3
<1>5. Stop(d)
  <2> SUFFICES ASSUME d < size, ~Stop(d) PROVE FALSE
    OBVIOUS
  <2>1. d \in Nat /\ d + 1 \in 0 .. size
    OBVIOUS
  <2>2. Readable(d + 1)
    <3> SUFFICES ASSUME NEW p \in PagesOf(addr, addr + (d + 1))
                 PROVE  p \in DOMAIN page /\ page[p].w
      OBVIOUS
    <3>1. p \in PagesOf(addr, addr + d + 1)
      <4>1. addr + (d + 1) = addr + d + 1
        BY <2>1
      <4> QED BY <4>1
    <3>2. CASE p = (addr + d) \div PAGE_SIZE
      BY <3>2
    <3>3. CASE p # (addr + d) \div PAGE_SIZE
      BY <2>1, <3>1, <3>3, OneMoreByte
    <3> QED BY <3>2, <3>3
  <2>3. d + 1 \in H
    BY <2>1, <2>2
  <2> QED BY <2>1, <2>3, <1>4
<1>6. \E r \in 0 .. size : Readable(r) /\ Stop(r)
  BY <1>4, <1>5
<1> HIDE DEF Readable, Stop, H
<1>7. ReadLen(addr, size) \in 0 .. size /\ Readable(ReadLen(addr, size)) /\ Stop(ReadLen(addr, size))
  BY <1>1, <1>6
<1> QED BY <1>7 DEF Readable, Stop

-----------------------------------------------------------------------------
(* The table and its headers.  *)

LEMMA ProgFacts ==
  ASSUME prog \in Programs
  PROVE  /\ prog \in Seq(Object) /\ Len(prog) \in Nat /\ Len(prog) >= 2
         /\ DOMAIN prog = 1 .. Len(prog)
         /\ prog[1].kind = "exe" /\ prog[2].kind = "ld.so"
         /\ \A m \in 1 .. Len(prog) :
              /\ prog[m] \in Object /\ prog[m].ph \in Seq(Phdr)
              /\ prog[m].kind = "exe" => m = 1
<1>1. prog \in Seq(Object) /\ Len(prog) \in Nat /\ Len(prog) >= 2 /\ DOMAIN prog = 1 .. Len(prog)
  BY ProgramsAssumption
<1>2. /\ prog[1].kind = "exe" /\ prog[2].kind = "ld.so"
      /\ \A m \in 3 .. Len(prog) : prog[m].kind \in {"lib", "ld.so", "vdso"}
  BY ProgramsAssumption
<1>3. ASSUME NEW m \in 1 .. Len(prog)
      PROVE  prog[m] \in Object /\ prog[m].ph \in Seq(Phdr) /\ (prog[m].kind = "exe" => m = 1)
  <2>1. prog[m] \in Object
    BY <1>1
  <2>2. prog[m].ph \in Seq(Phdr)
    BY <2>1 DEF Object
  <2>3. m = 1 \/ m = 2 \/ m \in 3 .. Len(prog)
    BY <1>1
  <2> QED BY <2>1, <2>2, <2>3, <1>2
<1> QED BY <1>1, <1>2, <1>3

(* A header, as its fields are used.                                         *)
LEMMA PhdrFacts ==
  ASSUME NEW ph \in Seq(Phdr)
  PROVE  /\ Len(ph) \in Nat /\ DOMAIN ph = 1 .. Len(ph)
         /\ \A h \in DOMAIN ph :
              /\ ph[h].vaddr \in Nat /\ ph[h].filesz \in Nat /\ ph[h].memsz \in Nat
              /\ ph[h].w \in BOOLEAN
              /\ ph[h].type \in {"LOAD", "DYNAMIC", "OTHER"}
<1>1. Len(ph) \in Nat /\ DOMAIN ph = 1 .. Len(ph) /\ \A h \in DOMAIN ph : ph[h] \in Phdr
  OBVIOUS
<1> QED BY <1>1 DEF Phdr

(* The first PT_LOAD, and the first header behind it that is not one.         *)
LEMMA LoadsFacts ==
  ASSUME prog \in Programs, NEW m \in 1 .. Len(prog), prog[m].kind \in {"exe", "lib"}
  PROVE  LET ph == prog[m].ph
             f == FirstLoad(ph)
             g == AfterLoads(ph)
         IN  /\ f \in DOMAIN ph /\ g \in DOMAIN ph /\ f < g
             /\ ph[f].type = "LOAD" /\ ph[g].type # "LOAD"
             /\ \A e \in 1 .. (f - 1) : ph[e].type # "LOAD"
             /\ \A e \in f .. (g - 1) : ph[e].type = "LOAD"
<1> DEFINE ph == prog[m].ph
           f == FirstLoad(ph)
           g == AfterLoads(ph)
           F == {e \in DOMAIN ph : ph[e].type = "LOAD"}
           G == {e \in DOMAIN ph : e > f /\ ph[e].type # "LOAD"}
<1>1. Len(ph) \in Nat /\ DOMAIN ph = 1 .. Len(ph)
  <2>1. ph \in Seq(Phdr)
    BY ProgFacts
  <2> HIDE DEF ph
  <2> QED BY <2>1, PhdrFacts
<1>2. PICK a \in 1 .. Len(ph), b \in 1 .. Len(ph) : a < b /\ ph[a].type = "LOAD" /\ ph[b].type # "LOAD"
  BY ProgramsAssumption
<1> HIDE DEF ph
<1>3. f \in DOMAIN ph /\ ph[f].type = "LOAD" /\ (\A e \in 1 .. (f - 1) : ph[e].type # "LOAD") /\ f <= a
  <2>1. F \subseteq Nat /\ a \in F
    BY <1>1, <1>2
  <2>2. PICK d \in F : \A e \in F : d <= e
    <3> HIDE DEF F
    <3> QED BY <2>1, SmallestExists
  <2>3. d \in DOMAIN ph /\ ph[d].type = "LOAD" /\ \A e \in 1 .. (d - 1) : ph[e].type # "LOAD"
    BY <2>2, <1>1
  <2>4. f \in DOMAIN ph /\ ph[f].type = "LOAD" /\ \A e \in 1 .. (f - 1) : ph[e].type # "LOAD"
    BY <2>3 DEF FirstLoad
  <2> HIDE DEF f
  <2>5. f <= a
    BY <2>4, <1>1, <1>2
  <2> QED BY <2>4, <2>5
<1> HIDE DEF f
<1>4. g \in DOMAIN ph /\ g > f /\ ph[g].type # "LOAD" /\ (\A e \in f .. (g - 1) : ph[e].type = "LOAD")
  <2>1. G \subseteq Nat /\ b \in G
    BY <1>1, <1>2, <1>3
  <2>2. PICK d \in G : \A e \in G : d <= e
    <3> HIDE DEF G
    <3> QED BY <2>1, SmallestExists
  <2>3. d \in DOMAIN ph /\ d > f /\ ph[d].type # "LOAD" /\ \A e \in f .. (d - 1) : ph[e].type = "LOAD"
    <3>1. ASSUME NEW e \in f .. (d - 1) PROVE ph[e].type = "LOAD"
      <4>1. e \in DOMAIN ph /\ (e = f \/ e > f) /\ ~(d <= e)
        BY <2>2, <1>1, <1>3
      <4> QED BY <4>1, <2>2, <1>3
    <3> QED BY <2>2, <3>1
  <2> QED BY <2>3 DEF AfterLoads, f
<1> QED BY <1>3, <1>4 DEF ph, f

-----------------------------------------------------------------------------
(* The list of link_maps.  *)

NewRecord(addr) ==
  [entry |-> n, l_addr |-> addr,
   l_ld |-> IF offset # 0 THEN Uninit ELSE node[map].l_ld,
   l_prev |-> IF offset # 0 THEN map ELSE 0, l_next |-> 0]

Linked(nodes, m, id) == [nodes EXCEPT ![m].l_next = id]

(* The link_map of the entry is behind the others, or replaces the last one.  *)
LEMMA WithNewFacts ==
  ASSUME node \in Seq(LinkMap), map \in DOMAIN node, NEW addr, NewRecord(addr) \in LinkMap
  PROVE  /\ WithNew(addr) \in Seq(LinkMap)
         /\ Len(WithNew(addr)) = IF offset # 0 THEN Len(node) + 1 ELSE Len(node)
         /\ NewId \in 1 .. Len(WithNew(addr))
         /\ WithNew(addr)[NewId] = NewRecord(addr)
         /\ \A i \in 1 .. Len(node) : i # NewId => WithNew(addr)[i] = node[i]
<1> DEFINE rec == NewRecord(addr)
<1>1. WithNew(addr) = IF offset # 0 THEN Append(node, rec) ELSE [node EXCEPT ![map] = rec]
  BY DEF WithNew, NewRecord
<1>2. rec \in LinkMap
  OBVIOUS
<1> HIDE DEF rec
<1>3. Len(node) \in Nat /\ DOMAIN node = 1 .. Len(node)
  OBVIOUS
<1>4. CASE offset # 0
  <2>1. NewId = Len(node) + 1
    BY <1>4 DEF NewId
  <2> QED BY <1>1, <1>2, <1>3, <1>4, <2>1 DEF rec
<1>5. CASE offset = 0
  <2>1. NewId = map
    BY <1>5 DEF NewId
  <2> QED BY <1>1, <1>2, <1>3, <1>5, <2>1 DEF rec
<1> QED BY <1>4, <1>5

LEMMA NewRecordFacts ==
  ASSUME NEW addr \in Nat, n \in 0 .. Len(prog), map \in DOMAIN node \cap 0 .. Len(prog),
         Len(prog) \in Nat, node \in Seq(LinkMap)
  PROVE  NewRecord(addr) \in LinkMap
<1>1. (IF offset # 0 THEN map ELSE 0) \in 0 .. Len(prog) /\ 0 \in 0 .. Len(prog)
  OBVIOUS
<1>2. node[map] \in LinkMap
  OBVIOUS
<1>3. (IF offset # 0 THEN Uninit ELSE node[map].l_ld) \in Nat \union {Uninit}
  BY <1>2 DEF LinkMap
<1> QED BY <1>1, <1>3 DEF NewRecord, LinkMap

LEMMA LinkedFacts ==
  ASSUME NEW nodes \in Seq(LinkMap), NEW m \in 1 .. Len(nodes), NEW id \in 0 .. Len(prog)
  PROVE  /\ Linked(nodes, m, id) \in Seq(LinkMap)
         /\ Len(Linked(nodes, m, id)) = Len(nodes)
         /\ Linked(nodes, m, id)[m] = [nodes[m] EXCEPT !.l_next = id]
         /\ \A i \in 1 .. Len(nodes) : i # m => Linked(nodes, m, id)[i] = nodes[i]
<1>1. nodes[m] \in LinkMap /\ DOMAIN nodes = 1 .. Len(nodes)
  OBVIOUS
<1>2. [nodes[m] EXCEPT !.l_next = id] \in LinkMap
  BY <1>1 DEF LinkMap
<1> QED BY <1>1, <1>2 DEF Linked

(* The mapping of an entry has begun.                                        *)
Loading == pc \in {"load", "exit"}

Mirrors(m) ==
  /\ node[m].entry = m
  /\ node[m].l_prev = m - 1
  /\ node[m].l_next = IF m < n - 1 THEN m + 1 ELSE 0

(* The state before the executable is loaded, and how many link_maps there    *)
(* can be: one less than entries when one of them took another's.             *)
Counts ==
  /\ n = 1 => offset = 0 /\ map = 1 /\ new = 1 /\ ret = 0 /\ Len(node) = 1
  /\ Loading => n <= Len(prog) /\ prog[n].kind \in {"exe", "lib"}
  /\ n > 1 => Len(node) <= IF Loading /\ offset # 0 THEN n ELSE n - 1

(* The link_map of an entry being loaded is the last, and not yet linked to.  *)
ListInv ==
  /\ prog \in Programs
  /\ TypeOK
  /\ Counts
  /\ NoWrap /\ n > 1 => ret = 1 /\ map = n - 1
  /\ NoWrap /\ Loading => /\ new = n
                         /\ node[n].entry = n
                         /\ node[n].l_prev = n - 1
                         /\ node[n].l_next = 0
  /\ NoWrap => \A m \in 1 .. (n - 1) : Mirrors(m)

(* What the type invariant says, in the proofs' terms.                       *)
LEMMA TypeFacts ==
  ASSUME TypeOK
  PROVE  /\ node \in Seq(LinkMap) /\ Len(node) \in Nat /\ DOMAIN node = 1 .. Len(node)
         /\ map \in 1 .. Len(node) /\ new \in 1 .. Len(node)
         /\ n \in 1 .. (Len(prog) + 1) /\ n \in Nat /\ j \in Nat \ {0}
         /\ offset \in Nat /\ position \in Nat /\ ret \in 0 .. Len(node)
BY DEF TypeOK

LEMMA KernelFacts ==
  ASSUME prog \in Programs
  PROVE  /\ \A p \in DOMAIN KernelPages(prog[1]) :
              KernelPages(prog[1])[p] \in Page
         /\ \A b \in DOMAIN KernelBytes(prog[1]) : KernelBytes(prog[1])[b] \in DOMAIN prog
<1>1. 1 \in DOMAIN prog
  BY ProgFacts
<1>2. \A p \in DOMAIN KernelPages(prog[1]) :
        KernelPages(prog[1])[p].own = 1 /\ KernelPages(prog[1])[p] \in [own : {1}, w : BOOLEAN]
  BY DEF KernelPages
<1>3. \A b \in DOMAIN KernelBytes(prog[1]) : KernelBytes(prog[1])[b] = 1
  BY DEF KernelBytes
<1> QED BY <1>1, <1>2, <1>3 DEF Page

LEMMA ListInit ==
  ASSUME Init
  PROVE  ListInv
<1>1. prog \in Programs /\ prog \in Seq(Object) /\ Len(prog) \in Nat /\ Len(prog) >= 2
  BY ProgFacts DEF Init
<1>2. Fresh \in LinkMap
  BY <1>1 DEF Fresh, LinkMap
<1>3. node \in Seq(LinkMap) /\ Len(node) = 1
  BY <1>2 DEF Init
<1>4. TypeOK
  <2>1. \A p \in DOMAIN page : page[p] \in Page
    BY <1>1, KernelFacts DEF Init
  <2>2. \A b \in DOMAIN byte : byte[b] \in DOMAIN prog
    BY <1>1, KernelFacts DEF Init
  <2>3. map \in DOMAIN node /\ new \in DOMAIN node /\ ret \in 0 .. Len(node)
    BY <1>3 DEF Init
  <2>4. load \in BOOLEAN
    BY DEF Init
  <2> QED BY <1>1, <1>3, <2>1, <2>2, <2>3, <2>4 DEF Init, TypeOK
<1>5. Counts
  BY <1>1, <1>3 DEF Init, Counts, Loading
<1> QED BY <1>1, <1>3, <1>4, <1>5 DEF Init, ListInv, Loading, Mirrors

(* ld.so and the vdso.                                                       *)
LEMMA LinkKernelFacts ==
  ASSUME ListInv, LinkKernelObject
  PROVE  LET addr == IF prog[n].kind = "ld.so" THEN BASE ELSE VDSO
             s == WithNew(addr)
         IN  /\ prog \in Programs /\ prog' = prog /\ pc = "entry" /\ pc' = pc
             /\ prog \in Seq(Object) /\ Len(prog) \in Nat /\ n <= Len(prog) /\ TypeOK
             /\ n > 1 /\ n \in Nat /\ Len(node) <= n - 1 /\ Len(node) \in Nat
             /\ s \in Seq(LinkMap) /\ NewId \in 1 .. Len(s) /\ s[NewId] = NewRecord(addr)
             /\ Len(s) = IF offset # 0 THEN Len(node) + 1 ELSE Len(node)
             /\ \A i \in 1 .. Len(node) : i # NewId => s[i] = node[i]
             /\ node' = Linked(s, map, NewId) /\ map' = NewId /\ new' = NewId /\ n' = n + 1
             /\ ret' = ret /\ offset' = offset
             /\ Len(s) \in Nat /\ Len(s) <= n /\ map \in 1 .. Len(s) /\ NewId \in 0 .. Len(prog)
             /\ node' \in Seq(LinkMap) /\ Len(node') = Len(s)
             /\ node'[map] = [s[map] EXCEPT !.l_next = NewId]
             /\ \A i \in 1 .. Len(s) : i # map => node'[i] = s[i]
<1> DEFINE addr == IF prog[n].kind = "ld.so" THEN BASE ELSE VDSO
           s == WithNew(addr)
<1>1. /\ prog \in Programs /\ prog' = prog /\ pc = "entry" /\ pc' = pc
      /\ prog \in Seq(Object) /\ Len(prog) \in Nat /\ n <= Len(prog) /\ TypeOK
  BY ProgFacts DEF ListInv, LinkKernelObject
<1>2. n > 1 /\ n \in Nat
  BY <1>1, ProgFacts, TypeFacts DEF LinkKernelObject
<1>3. Len(node) <= n - 1 /\ Len(node) \in Nat
  BY <1>1, <1>2, TypeFacts DEF ListInv, Counts, Loading
<1>4. NewRecord(addr) \in LinkMap
  <2>1. addr \in Nat
    BY LoaderAssumption
  <2>2. map \in 1 .. Len(node)
    BY <1>1, TypeFacts
  <2>3. n \in 0 .. Len(prog) /\ map \in 0 .. Len(prog)
    BY <1>1, <1>2, <1>3, <2>2
  <2> QED BY <1>1, <2>1, <2>2, <2>3, TypeFacts, NewRecordFacts
<1>5. /\ s \in Seq(LinkMap) /\ NewId \in 1 .. Len(s) /\ s[NewId] = NewRecord(addr)
      /\ Len(s) = IF offset # 0 THEN Len(node) + 1 ELSE Len(node)
      /\ \A i \in 1 .. Len(node) : i # NewId => s[i] = node[i]
  BY <1>1, <1>4, WithNewFacts, TypeFacts
<1>6. node' = Linked(s, map, NewId) /\ map' = NewId /\ new' = NewId /\ n' = n + 1
      /\ ret' = ret /\ offset' = offset
  BY DEF LinkKernelObject, Link, Linked
<1> HIDE DEF s, addr
<1>7. Len(s) \in Nat /\ Len(s) <= n /\ map \in 1 .. Len(s) /\ NewId \in 0 .. Len(prog)
  BY <1>1, <1>2, <1>3, <1>5, TypeFacts
<1>8. /\ node' \in Seq(LinkMap) /\ Len(node') = Len(s)
      /\ node'[map] = [s[map] EXCEPT !.l_next = NewId]
      /\ \A i \in 1 .. Len(s) : i # map => node'[i] = s[i]
  BY <1>5, <1>6, <1>7, LinkedFacts
<1> QED BY <1>1, <1>2, <1>3, <1>5, <1>6, <1>7, <1>8 DEF s, addr

LEMMA ListLinkKernelObject ==
  ASSUME ListInv, LinkKernelObject
  PROVE  ListInv'
<1> DEFINE addr == IF prog[n].kind = "ld.so" THEN BASE ELSE VDSO
           s == WithNew(addr)
<1>1. /\ prog \in Programs /\ prog' = prog /\ pc = "entry" /\ pc' = pc
      /\ prog \in Seq(Object) /\ Len(prog) \in Nat /\ n <= Len(prog) /\ TypeOK
  BY LinkKernelFacts
<1>2. n > 1 /\ n \in Nat
  BY LinkKernelFacts
<1>3. Len(node) <= n - 1 /\ Len(node) \in Nat
  BY LinkKernelFacts
<1>5. /\ s \in Seq(LinkMap) /\ NewId \in 1 .. Len(s) /\ s[NewId] = NewRecord(addr)
      /\ Len(s) = IF offset # 0 THEN Len(node) + 1 ELSE Len(node)
      /\ \A i \in 1 .. Len(node) : i # NewId => s[i] = node[i]
  BY LinkKernelFacts
<1>6. /\ map' = NewId /\ new' = NewId /\ n' = n + 1
      /\ ret' = ret /\ offset' = offset
  BY LinkKernelFacts
<1>7. Len(s) \in Nat /\ Len(s) <= n /\ map \in 1 .. Len(s) /\ NewId \in 0 .. Len(prog)
  BY LinkKernelFacts
<1>8. /\ node' \in Seq(LinkMap) /\ Len(node') = Len(s)
      /\ node'[map] = [s[map] EXCEPT !.l_next = NewId]
      /\ \A i \in 1 .. Len(s) : i # map => node'[i] = s[i]
  BY LinkKernelFacts
<1> HIDE DEF s, addr
<1>9. TypeOK'
  <2>1. /\ prog' \in Seq(Object) /\ pc' \in {"entry", "load", "done", "exit"}
        /\ n' \in 1 .. (Len(prog') + 1)
    BY <1>1, <1>2, <1>6
  <2>2. /\ node' \in Seq(LinkMap)'
        /\ map' \in DOMAIN node' /\ new' \in DOMAIN node' /\ ret' \in 0 .. Len(node')
    <3>1. LinkMap' = LinkMap
      BY <1>1 DEF LinkMap
    <3>2. ret \in 0 .. Len(node) /\ Len(node) <= Len(s) /\ DOMAIN node' = 1 .. Len(node')
      <4>1. ret \in 0 .. Len(node)
        BY <1>1, TypeFacts
      <4>2. Len(node) <= Len(s)
        BY <1>3, <1>5
      <4>3. DOMAIN node' = 1 .. Len(node')
        BY <1>8
      <4> QED BY <4>1, <4>2, <4>3
    <3>3. ret' \in 0 .. Len(node')
      BY <3>2, <1>3, <1>6, <1>7, <1>8
    <3> QED BY <3>1, <3>2, <3>3, <1>5, <1>6, <1>8
  <2>3. /\ j' \in Nat \ {0} /\ load' \in BOOLEAN /\ offset' \in Nat /\ position' \in Nat
        /\ \A p \in DOMAIN page' : page'[p] \in Page'
        /\ \A b \in DOMAIN byte' : byte'[b] \in DOMAIN prog'
    BY <1>1 DEF TypeOK, LinkKernelObject, Page
  <2> QED BY <2>1, <2>2, <2>3 DEF TypeOK
<1>10. Counts'
  BY <1>1, <1>2, <1>3, <1>5, <1>6, <1>8 DEF Counts, Loading
<1>11. ASSUME NoWrap'
       PROVE  /\ NoWrap /\ offset # 0 /\ Len(node) = n - 1 /\ NewId = n
              /\ map = n - 1 /\ ret = 1 /\ Len(s) = n
  <2>1. offset # 0 /\ Len(node') >= n
    BY <1>11, <1>1, <1>2, <1>6 DEF NoWrap
  <2>2. Len(node) = n - 1
    BY <2>1, <1>2, <1>3, <1>5, <1>8
  <2>3. NoWrap
    BY <2>1, <2>2, <1>1, <1>2 DEF NoWrap
  <2>4. map = n - 1 /\ ret = 1
    BY <2>3, <1>2 DEF ListInv
  <2> QED BY <2>1, <2>2, <2>3, <2>4, <1>2, <1>5 DEF NewId
<1>12. ASSUME NoWrap', NEW m \in 1 .. n
       PROVE  Mirrors(m)'
  <2>1. CASE m = n
    <3>1. node'[n] = NewRecord(addr)
      BY <1>11, <1>12, <1>5, <1>8, <1>2
    <3> QED BY <2>1, <3>1, <1>2, <1>6, <1>11, <1>12 DEF Mirrors, NewRecord
  <2>2. CASE m = n - 1
    <3>1. node'[m] = [node[m] EXCEPT !.l_next = n] /\ node[m] \in LinkMap /\ m \in 1 .. (n - 1)
      <4>1. m \in 1 .. (n - 1) /\ m = map /\ m # NewId /\ m \in 1 .. Len(node)
        BY <2>2, <1>11, <1>12, <1>2
      <4>2. s[m] = node[m]
        BY <4>1, <1>5
      <4>3. node[m] \in LinkMap
        BY <4>1, <1>1, TypeFacts
      <4> QED BY <4>1, <4>2, <4>3, <1>8, <1>11, <1>12
    <3>2. Mirrors(m)
      BY <3>1, <1>11, <1>12 DEF ListInv
    <3>3. /\ node'[m].entry = node[m].entry /\ node'[m].l_prev = node[m].l_prev
          /\ node'[m].l_next = n
      BY <3>1 DEF LinkMap
    <3> QED BY <2>2, <3>1, <3>2, <3>3, <1>2, <1>6 DEF Mirrors
  <2>3. CASE m < n - 1
    <3>1. node'[m] = node[m] /\ m \in 1 .. (n - 1)
      BY <2>3, <1>11, <1>12, <1>5, <1>8, <1>2
    <3>2. Mirrors(m)
      BY <3>1, <1>11, <1>12 DEF ListInv
    <3> QED BY <2>3, <3>1, <3>2, <1>2, <1>6 DEF Mirrors
  <2> QED BY <2>1, <2>2, <2>3, <1>2
<1>13. NoWrap' => \A m \in 1 .. (n' - 1) : Mirrors(m)'
  BY <1>12, <1>2, <1>6
<1>14. NoWrap' => ret' = 1 /\ map' = n' - 1
  BY <1>11, <1>2, <1>6
<1> QED BY <1>1, <1>9, <1>10, <1>13, <1>14 DEF ListInv, Loading

(* The executable and the libraries: the new link_map has the load address.   *)
LEMMA MapObjectFacts ==
  ASSUME ListInv, MapObject
  PROVE  LET addr == IF offset # 0 THEN NextAddr ELSE 0
             pages == MapPages(prog[n].ph, addr)
         IN  /\ prog \in Programs /\ prog' = prog /\ pc = "entry" /\ pc' \in {"load", "exit"}
             /\ prog \in Seq(Object) /\ Len(prog) \in Nat /\ n \in 1 .. Len(prog) /\ TypeOK
             /\ prog[n].kind \in {"exe", "lib"} /\ addr \in Nat
             /\ map' = map /\ new' = NewId /\ n' = n /\ position' = position
             /\ ret' = ret /\ offset' = offset /\ j' = 1 /\ load' = FALSE
             /\ \/ /\ MapSize(prog[n].ph, addr) <= 0
                   /\ pc' = "exit" /\ page' = page /\ byte' = byte
                \/ /\ ~(MapSize(prog[n].ph, addr) <= 0)
                   /\ pc' = "load"
                   /\ page' = Override(page, [p \in pages |-> [own |-> n, w |-> TRUE]])
                   /\ byte' = Discard(byte, BytesOf(pages))
             /\ Len(node) \in Nat /\ (n > 1 => Len(node) <= n - 1)
             /\ n = 1 => Len(node) = 1 /\ offset = 0
             /\ node' \in Seq(LinkMap) /\ NewId \in 1 .. Len(node') /\ node'[NewId] = NewRecord(addr)
             /\ Len(node') = IF offset # 0 THEN Len(node) + 1 ELSE Len(node)
             /\ \A i \in 1 .. Len(node) : i # NewId => node'[i] = node[i]
<1> DEFINE addr == IF offset # 0 THEN NextAddr ELSE 0
           pages == MapPages(prog[n].ph, addr)
<1>1. /\ prog \in Programs /\ prog' = prog /\ pc = "entry" /\ pc' \in {"load", "exit"}
      /\ prog \in Seq(Object) /\ Len(prog) \in Nat /\ n \in 1 .. Len(prog) /\ TypeOK
      /\ prog[n].kind \in {"exe", "lib"}
  BY ProgFacts, TypeFacts DEF ListInv, MapObject
<1>2. addr \in Nat
  <2>1. ALIGN(position) \in Nat
    BY <1>1, TypeFacts, PageOf
  <2>2. NextAddr \in Nat
    BY <2>1, LoaderAssumption DEF NextAddr
  <2> QED BY <2>2
<1>3. /\ node' = WithNew(addr) /\ map' = map /\ new' = NewId /\ n' = n
      /\ ret' = ret /\ offset' = offset /\ j' = 1 /\ load' = FALSE /\ position' = position
  BY DEF MapObject
<1>4. \/ /\ MapSize(prog[n].ph, addr) <= 0
         /\ pc' = "exit" /\ page' = page /\ byte' = byte
      \/ /\ ~(MapSize(prog[n].ph, addr) <= 0)
         /\ pc' = "load"
         /\ page' = Override(page, [p \in pages |-> [own |-> n, w |-> TRUE]])
         /\ byte' = Discard(byte, BytesOf(pages))
  BY DEF MapObject
<1> HIDE DEF addr, pages
<1>5. Len(node) \in Nat /\ (n > 1 => Len(node) <= n - 1) /\ (n = 1 => Len(node) = 1 /\ offset = 0)
  BY <1>1, TypeFacts DEF ListInv, Counts, Loading
<1>6. NewRecord(addr) \in LinkMap
  <2>1. map \in 1 .. Len(node)
    BY <1>1, TypeFacts
  <2>2. n \in 0 .. Len(prog) /\ map \in 0 .. Len(prog)
    <3>1. Len(node) <= n
      <4>1. n \in Nat /\ (n = 1 \/ n > 1)
        BY <1>1
      <4>2. CASE n = 1
        <5>1. Len(node) = 1
          BY <4>2, <1>5
        <5> QED BY <5>1, <4>2
      <4>3. CASE n > 1
        BY <4>1, <4>3, <1>5
      <4> QED BY <4>1, <4>2, <4>3
    <3> QED BY <3>1, <1>1, <1>5, <2>1
  <2> QED BY <1>1, <1>2, <2>1, <2>2, TypeFacts, NewRecordFacts
<1>7. /\ node' \in Seq(LinkMap) /\ NewId \in 1 .. Len(node') /\ node'[NewId] = NewRecord(addr)
      /\ Len(node') = IF offset # 0 THEN Len(node) + 1 ELSE Len(node)
      /\ \A i \in 1 .. Len(node) : i # NewId => node'[i] = node[i]
  BY <1>1, <1>3, <1>6, WithNewFacts, TypeFacts
<1> QED BY <1>1, <1>2, <1>3, <1>4, <1>5, <1>7 DEF addr, pages

LEMMA ListMapObject ==
  ASSUME ListInv, MapObject
  PROVE  ListInv'
<1> DEFINE addr == IF offset # 0 THEN NextAddr ELSE 0
           pages == MapPages(prog[n].ph, addr)
<1>1. /\ prog \in Programs /\ prog' = prog /\ pc = "entry" /\ pc' \in {"load", "exit"}
      /\ prog \in Seq(Object) /\ Len(prog) \in Nat /\ n \in 1 .. Len(prog) /\ TypeOK
      /\ prog[n].kind \in {"exe", "lib"}
  BY MapObjectFacts
<1>3. /\ map' = map /\ new' = NewId /\ n' = n
      /\ ret' = ret /\ offset' = offset /\ j' = 1 /\ load' = FALSE /\ position' = position
  BY MapObjectFacts
<1>4. \/ page' = page /\ byte' = byte
      \/ /\ page' = Override(page, [p \in pages |-> [own |-> n, w |-> TRUE]])
         /\ byte' = Discard(byte, BytesOf(pages))
  BY MapObjectFacts
<1>5. Len(node) \in Nat /\ (n > 1 => Len(node) <= n - 1) /\ (n = 1 => Len(node) = 1 /\ offset = 0)
  BY MapObjectFacts
<1>7. /\ node' \in Seq(LinkMap) /\ NewId \in 1 .. Len(node') /\ node'[NewId] = NewRecord(addr)
      /\ Len(node') = IF offset # 0 THEN Len(node) + 1 ELSE Len(node)
      /\ \A i \in 1 .. Len(node) : i # NewId => node'[i] = node[i]
  BY MapObjectFacts
<1> HIDE DEF addr, pages
<1>8. TypeOK'
  <2>1. \A p \in DOMAIN page' : page'[p] \in Page'
    <3>1. [own |-> n, w |-> TRUE] \in Page /\ Page' = Page
      BY <1>1 DEF Page
    <3> QED BY <1>1, <1>4, <3>1 DEF TypeOK, Override
  <2>2. \A b \in DOMAIN byte' : byte'[b] \in DOMAIN prog
    BY <1>1, <1>4 DEF TypeOK, Discard
  <2>3. /\ node' \in Seq(LinkMap)'
        /\ map' \in DOMAIN node' /\ new' \in DOMAIN node' /\ ret' \in 0 .. Len(node')
    <3>1. LinkMap' = LinkMap
      BY <1>1 DEF LinkMap
    <3>2. /\ ret \in 0 .. Len(node) /\ map \in 1 .. Len(node)
          /\ Len(node) <= Len(node') /\ DOMAIN node' = 1 .. Len(node') /\ Len(node') \in Nat
      BY <1>1, <1>5, <1>7, TypeFacts
    <3>3. ret' \in 0 .. Len(node') /\ map' \in 1 .. Len(node')
      BY <3>2, <1>3, <1>5
    <3> QED BY <3>1, <3>2, <3>3, <1>3, <1>7
  <2>4. /\ prog' \in Seq(Object) /\ n' \in 1 .. (Len(prog') + 1) /\ j' \in Nat \ {0}
        /\ load' \in BOOLEAN /\ offset' \in Nat /\ position' \in Nat
    <3>1. offset \in Nat /\ position \in Nat /\ n \in 1 .. (Len(prog) + 1)
      BY <1>1, TypeFacts
    <3>2. load' \in BOOLEAN
      BY <1>3
    <3>3. n' \in 1 .. (Len(prog') + 1)
      BY <1>1, <1>3, <3>1
    <3> QED BY <1>1, <1>3, <3>1, <3>2, <3>3
  <2> QED BY <1>1, <2>1, <2>2, <2>3, <2>4 DEF TypeOK
<1>9. Counts'
  <2>1. n = 1 => map = 1 /\ ret = 0
    BY DEF ListInv, Counts
  <2> QED BY <1>1, <1>3, <1>5, <1>7, <2>1 DEF Counts, Loading, NewId
<1>10. ASSUME NoWrap', n > 1
       PROVE  NoWrap /\ offset # 0 /\ NewId = n /\ map = n - 1 /\ ret = 1
  <2>1. offset # 0 /\ Len(node') >= n
    BY <1>10, <1>1, <1>3 DEF NoWrap
  <2>2. Len(node) = n - 1
    BY <2>1, <1>10, <1>1, <1>5, <1>7
  <2>3. NoWrap
    BY <2>1, <2>2, <1>1 DEF NoWrap
  <2> QED BY <2>1, <2>2, <2>3, <1>1, <1>10 DEF ListInv, NewId
<1>11. NoWrap' => /\ new' = n'
                  /\ node'[n'].entry = n'
                  /\ node'[n'].l_prev = n' - 1
                  /\ node'[n'].l_next = 0
  <2>1. CASE n = 1
    <3>1. NewId = 1 /\ offset = 0
      BY <2>1, <1>5 DEF ListInv, Counts, NewId
    <3> QED BY <2>1, <3>1, <1>3, <1>7 DEF NewRecord
  <2>2. CASE n > 1
    BY <2>2, <1>3, <1>7, <1>10 DEF NewRecord
  <2> QED BY <2>1, <2>2, <1>1
<1>12. ASSUME NoWrap', NEW m \in 1 .. (n - 1)
       PROVE  Mirrors(m)'
  <2>1. n > 1 /\ m # n
    BY <1>1
  <2>2. Len(node) >= n - 1
    BY <2>1, <1>1, <1>10, <1>12 DEF NoWrap
  <2>3. node'[m] = node[m]
    BY <2>1, <2>2, <1>1, <1>5, <1>7, <1>10, <1>12
  <2>4. Mirrors(m)
    BY <2>1, <1>10, <1>12 DEF ListInv
  <2> QED BY <2>3, <2>4, <1>3 DEF Mirrors
<1> QED BY <1>1, <1>3, <1>8, <1>9, <1>10, <1>11, <1>12 DEF ListInv

(* A segment, read as far as the pages allow.                                *)
LEMMA LoadSegmentFacts ==
  ASSUME ListInv, LoadSegment
  PROVE  LET h == prog[n].ph[j]
             addr == h.vaddr + node[new].l_addr
             r == ReadLen(addr, h.filesz)
             pages == ProtectPages(addr, r)
         IN  /\ prog \in Programs /\ prog' = prog /\ pc = "load" /\ pc' \in {"load", "exit"}
             /\ n \in 1 .. Len(prog) /\ prog \in Seq(Object) /\ Len(prog) \in Nat /\ TypeOK
             /\ prog[n].kind \in {"exe", "lib"} /\ j \in DOMAIN prog[n].ph /\ DOMAIN prog = 1 .. Len(prog)
             /\ h.vaddr \in Nat /\ h.filesz \in Nat /\ h.w \in BOOLEAN /\ node[new].l_addr \in Nat
             /\ n' = n /\ offset' = offset /\ node' = node /\ map' = map /\ new' = new /\ ret' = ret
             /\ \/ /\ (r = 0 /\ h.filesz > 0) \/ ~(pages \subseteq DOMAIN page)
                   /\ pc' = "exit" /\ page' = page /\ byte' = byte
                   /\ position' = position /\ j' = j /\ load' = load
                \/ /\ pc' = pc
                   /\ pages \subseteq DOMAIN page
                   /\ byte' = Override(byte, [b \in addr .. (addr + r - 1) |-> n])
                   /\ page' = Override(page, [p \in pages |-> [own |-> page[p].own, w |-> h.w]])
                   /\ position' = addr + r
                   /\ load' = TRUE
                   /\ j' = j + 1
             /\ addr \in Nat /\ r \in Nat
<1> DEFINE h == prog[n].ph[j]
           addr == h.vaddr + node[new].l_addr
           r == ReadLen(addr, h.filesz)
           pages == ProtectPages(addr, r)
<1>1. /\ prog \in Programs /\ prog' = prog /\ pc = "load" /\ pc' \in {"load", "exit"}
      /\ n \in 1 .. Len(prog) /\ prog \in Seq(Object) /\ Len(prog) \in Nat /\ TypeOK
      /\ prog[n].kind \in {"exe", "lib"} /\ j \in DOMAIN prog[n].ph /\ DOMAIN prog = 1 .. Len(prog)
  <2>1. prog \in Programs /\ TypeOK /\ pc = "load" /\ pc' \in {"load", "exit"} /\ prog' = prog
    BY DEF ListInv, LoadSegment
  <2>2. n <= Len(prog) /\ prog[n].kind \in {"exe", "lib"}
    BY <2>1 DEF ListInv, Counts, Loading
  <2>3. n \in 1 .. Len(prog) /\ prog \in Seq(Object) /\ Len(prog) \in Nat /\ DOMAIN prog = 1 .. Len(prog)
    BY <2>1, <2>2, ProgFacts, TypeFacts
  <2>4. j \in DOMAIN prog[n].ph
    <3>1. prog[n].ph \in Seq(Phdr) /\ j \in Nat \ {0} /\ j <= Len(prog[n].ph)
      BY <2>1, <2>3, ProgFacts, TypeFacts DEF LoadSegment
    <3> QED BY <3>1
  <2> QED BY <2>1, <2>2, <2>3, <2>4
<1>2. /\ h.vaddr \in Nat /\ h.filesz \in Nat /\ h.w \in BOOLEAN
  BY <1>1, ProgFacts, PhdrFacts
<1>3. /\ node[new].l_addr \in Nat
  <2>1. node[new] \in LinkMap
    BY <1>1, TypeFacts
  <2> QED BY <2>1 DEF LinkMap
<1>4. /\ n' = n /\ offset' = offset /\ node' = node /\ map' = map /\ new' = new /\ ret' = ret
  BY DEF LoadSegment
<1>5. \/ /\ (r = 0 /\ h.filesz > 0) \/ ~(pages \subseteq DOMAIN page)
         /\ pc' = "exit" /\ page' = page /\ byte' = byte
         /\ position' = position /\ j' = j /\ load' = load
      \/ /\ pc' = pc
         /\ pages \subseteq DOMAIN page
         /\ byte' = Override(byte, [b \in addr .. (addr + r - 1) |-> n])
         /\ page' = Override(page, [p \in pages |-> [own |-> page[p].own, w |-> h.w]])
         /\ position' = addr + r
         /\ load' = TRUE
         /\ j' = j + 1
  BY DEF LoadSegment
<1> HIDE DEF h
<1>6. addr \in Nat /\ r \in Nat
  <2>1. addr \in Nat
    BY <1>2, <1>3
  <2> HIDE DEF addr
  <2>2. r \in 0 .. h.filesz
    BY <2>1, <1>2, ReadLenFacts
  <2> HIDE DEF r
  <2> QED BY <2>1, <2>2, <1>2
<1> QED BY <1>1, <1>2, <1>3, <1>4, <1>5, <1>6 DEF h

(* No link_map changes.                                                      *)
LEMMA ListLoadSegment ==
  ASSUME ListInv, LoadSegment
  PROVE  ListInv'
<1> DEFINE h == prog[n].ph[j]
           addr == h.vaddr + node[new].l_addr
           r == ReadLen(addr, h.filesz)
           pages == ProtectPages(addr, r)
<1>1. /\ prog \in Programs /\ prog' = prog /\ pc = "load" /\ pc' \in {"load", "exit"}
      /\ n \in 1 .. Len(prog) /\ prog \in Seq(Object) /\ Len(prog) \in Nat /\ TypeOK
      /\ prog[n].kind \in {"exe", "lib"} /\ j \in DOMAIN prog[n].ph /\ DOMAIN prog = 1 .. Len(prog)
  BY LoadSegmentFacts
<1>2. h.w \in BOOLEAN
  BY LoadSegmentFacts
<1>4. /\ n' = n /\ offset' = offset /\ node' = node /\ map' = map /\ new' = new /\ ret' = ret
  BY LoadSegmentFacts
<1>5. \/ page' = page /\ byte' = byte /\ position' = position /\ j' = j /\ load' = load
      \/ /\ pages \subseteq DOMAIN page
         /\ byte' = Override(byte, [b \in addr .. (addr + r - 1) |-> n])
         /\ page' = Override(page, [p \in pages |-> [own |-> page[p].own, w |-> h.w]])
         /\ position' = addr + r
         /\ load' = TRUE
         /\ j' = j + 1
  BY LoadSegmentFacts
<1>6. addr \in Nat /\ r \in Nat
  BY LoadSegmentFacts
<1> HIDE DEF h, addr, r, pages
<1>7. TypeOK'
  <2>1. Page' = Page /\ LinkMap' = LinkMap
    BY <1>1 DEF Page, LinkMap
  <2>2. \A p \in DOMAIN page' : page'[p] \in Page
    <3>1. \A p \in pages : p \in DOMAIN page => [own |-> page[p].own, w |-> h.w] \in Page
      BY <1>1, <1>2 DEF Page, TypeOK
    <3> QED BY <1>1, <1>5, <3>1 DEF Override, TypeOK
  <2>3. \A b \in DOMAIN byte' : byte'[b] \in DOMAIN prog
    BY <1>1, <1>5 DEF Override, TypeOK
  <2>4. j' \in Nat \ {0} /\ position' \in Nat
    <3>1. j \in Nat \ {0} /\ position \in Nat
      BY <1>1, TypeFacts
    <3> QED BY <3>1, <1>5, <1>6
  <2>5. load' \in BOOLEAN
    <3>1. load \in BOOLEAN
      BY <1>1 DEF TypeOK
    <3> QED BY <3>1, <1>5
  <2> QED BY <1>1, <1>4, <2>1, <2>2, <2>3, <2>4, <2>5 DEF TypeOK
<1>8. (Counts <=> Counts') /\ (NoWrap <=> NoWrap') /\ Loading /\ Loading'
  BY <1>1, <1>4 DEF Counts, Loading, NoWrap
<1>9. \A m \in 1 .. (n - 1) : Mirrors(m) <=> Mirrors(m)'
  BY <1>4 DEF Mirrors
<1> QED BY <1>1, <1>4, <1>7, <1>8, <1>9 DEF ListInv

(* Another header: at most l_ld of the link_map being loaded changes.         *)
LEMMA PassHeaderFacts ==
  ASSUME ListInv, PassHeader
  PROVE  /\ prog \in Programs /\ prog' = prog /\ pc = "load" /\ pc' = "load"
         /\ prog \in Seq(Object) /\ Len(prog) \in Nat /\ TypeOK /\ n \in 1 .. Len(prog)
         /\ j \in DOMAIN prog[n].ph
         /\ n' = n /\ offset' = offset /\ map' = map /\ new' = new /\ ret' = ret /\ j' = j + 1
         /\ load' = load /\ position' = position /\ page' = page /\ byte' = byte
         /\ node' \in Seq(LinkMap) /\ Len(node') = Len(node)
         /\ \A m \in 1 .. Len(node) : /\ node'[m].entry = node[m].entry
                                      /\ node'[m].l_prev = node[m].l_prev
                                      /\ node'[m].l_next = node[m].l_next
                                      /\ node'[m].l_addr = node[m].l_addr
<1>1. /\ prog \in Programs /\ prog' = prog /\ pc = "load" /\ pc' = "load"
      /\ prog \in Seq(Object) /\ Len(prog) \in Nat /\ TypeOK /\ n \in 1 .. Len(prog)
      /\ j \in DOMAIN prog[n].ph
  <2>1. prog \in Programs /\ TypeOK /\ pc = "load" /\ pc' = "load" /\ prog' = prog /\ n <= Len(prog)
    BY DEF ListInv, Counts, Loading, PassHeader
  <2>2. n \in 1 .. Len(prog) /\ prog \in Seq(Object) /\ Len(prog) \in Nat
    BY <2>1, ProgFacts, TypeFacts
  <2>3. j \in DOMAIN prog[n].ph
    <3>1. prog[n].ph \in Seq(Phdr) /\ j \in Nat \ {0} /\ j <= Len(prog[n].ph)
      BY <2>1, <2>2, ProgFacts, TypeFacts DEF PassHeader
    <3> QED BY <3>1
  <2> QED BY <2>1, <2>2, <2>3
<1>2. /\ n' = n /\ offset' = offset /\ map' = map /\ new' = new /\ ret' = ret /\ j' = j + 1
      /\ load' = load /\ position' = position /\ page' = page /\ byte' = byte
  BY DEF PassHeader
<1>3. node' = [node EXCEPT ![new].l_ld = prog[n].ph[j].vaddr + node[new].l_addr] \/ node' = node
  BY DEF PassHeader
<1>4. /\ node' \in Seq(LinkMap) /\ Len(node') = Len(node)
      /\ \A m \in 1 .. Len(node) : /\ node'[m].entry = node[m].entry
                                   /\ node'[m].l_prev = node[m].l_prev
                                   /\ node'[m].l_next = node[m].l_next
                                   /\ node'[m].l_addr = node[m].l_addr
  <2>1. node[new] \in LinkMap /\ new \in 1 .. Len(node) /\ node \in Seq(LinkMap)
    BY <1>1, TypeFacts
  <2>2. prog[n].ph[j].vaddr \in Nat
    BY <1>1, ProgFacts, PhdrFacts
  <2>3. node[new].l_addr \in Nat
    BY <2>1 DEF LinkMap
  <2> DEFINE v == prog[n].ph[j].vaddr + node[new].l_addr
  <2>4. v \in Nat
    BY <2>2, <2>3
  <2> HIDE DEF v
  <2>5. [node[new] EXCEPT !.l_ld = v] \in LinkMap
    BY <2>1, <2>4 DEF LinkMap
  <2>6. node' = node \/ node' = [node EXCEPT ![new] = [node[new] EXCEPT !.l_ld = v]]
    BY <1>3 DEF v
  <2>7. CASE node' = node
    BY <2>1, <2>7
  <2>8. CASE node' = [node EXCEPT ![new] = [node[new] EXCEPT !.l_ld = v]]
    <3>1. node' \in Seq(LinkMap) /\ Len(node') = Len(node)
      BY <2>1, <2>5, <2>8
    <3>2. ASSUME NEW m \in 1 .. Len(node), m # new
          PROVE  node'[m] = node[m]
      BY <2>1, <2>8, <3>2
    <3>3. node'[new] = [node[new] EXCEPT !.l_ld = v]
      BY <2>1, <2>8
    <3>4. /\ node'[new].entry = node[new].entry /\ node'[new].l_prev = node[new].l_prev
          /\ node'[new].l_next = node[new].l_next /\ node'[new].l_addr = node[new].l_addr
      BY <2>1, <3>3 DEF LinkMap
    <3> QED BY <3>1, <3>2, <3>4
  <2> QED BY <2>6, <2>7, <2>8
<1> QED BY <1>1, <1>2, <1>4

LEMMA ListPassHeader ==
  ASSUME ListInv, PassHeader
  PROVE  ListInv'
<1>1. /\ prog \in Programs /\ prog' = prog /\ pc = "load" /\ pc' = "load"
      /\ prog \in Seq(Object) /\ Len(prog) \in Nat /\ TypeOK /\ n \in 1 .. Len(prog)
  BY PassHeaderFacts
<1>2. /\ n' = n /\ offset' = offset /\ map' = map /\ new' = new /\ ret' = ret /\ j' = j + 1
      /\ load' = load /\ position' = position /\ page' = page /\ byte' = byte
  BY PassHeaderFacts
<1>4. /\ node' \in Seq(LinkMap) /\ Len(node') = Len(node)
      /\ \A m \in 1 .. Len(node) : /\ node'[m].entry = node[m].entry
                                   /\ node'[m].l_prev = node[m].l_prev
                                   /\ node'[m].l_next = node[m].l_next
                                   /\ node'[m].l_addr = node[m].l_addr
  BY PassHeaderFacts
<1>5. TypeOK'
  <2>1. Page' = Page /\ LinkMap' = LinkMap
    BY <1>1 DEF Page, LinkMap
  <2>2. j' \in Nat \ {0}
    BY <1>1, <1>2, TypeFacts
  <2>3. map' \in DOMAIN node' /\ new' \in DOMAIN node' /\ ret' \in 0 .. Len(node')
    <3>1. map \in 1 .. Len(node) /\ new \in 1 .. Len(node) /\ ret \in 0 .. Len(node)
      BY <1>1, TypeFacts
    <3>2. DOMAIN node' = 1 .. Len(node')
      BY <1>4
    <3> QED BY <3>1, <3>2, <1>2, <1>4
  <2> QED BY <1>1, <1>2, <1>4, <2>1, <2>2, <2>3 DEF TypeOK
<1>6. (Counts <=> Counts') /\ (NoWrap <=> NoWrap') /\ Loading /\ Loading'
  BY <1>1, <1>2, <1>4 DEF Counts, Loading, NoWrap
<1>7. NoWrap => Len(node) \in Nat /\ Len(node) >= n /\ n \in Nat
  BY <1>1, <1>6, TypeFacts DEF NoWrap, Loading
<1>8. NoWrap => \A m \in 1 .. (n - 1) : Mirrors(m) <=> Mirrors(m)'
  BY <1>1, <1>2, <1>4, <1>7 DEF Mirrors
<1>9. NoWrap => /\ node'[n].entry = node[n].entry
               /\ node'[n].l_prev = node[n].l_prev
               /\ node'[n].l_next = node[n].l_next
  BY <1>1, <1>4, <1>7
<1> QED BY <1>1, <1>2, <1>5, <1>6, <1>8, <1>9 DEF ListInv

(* An object is loaded: the executable is the head of the list, a library is  *)
(* linked behind the entry before it.                                        *)
LEMMA ListFinishObject ==
  ASSUME ListInv, FinishObject
  PROVE  ListInv'
<1>1. /\ prog \in Programs /\ prog' = prog /\ pc = "load" /\ pc' = "entry"
      /\ prog \in Seq(Object) /\ Len(prog) \in Nat /\ TypeOK /\ n \in 1 .. Len(prog) /\ n' = n + 1
  <2>1. prog \in Programs /\ TypeOK /\ pc = "load" /\ pc' = "entry" /\ prog' = prog /\ n <= Len(prog)
    BY DEF ListInv, Counts, Loading, FinishObject
  <2> QED BY <2>1, ProgFacts, TypeFacts DEF FinishObject, LinkLoaded, Link
<1>2. /\ node \in Seq(LinkMap) /\ Len(node) \in Nat /\ map \in 1 .. Len(node) /\ new \in 1 .. Len(node)
      /\ ret \in 0 .. Len(node) /\ j \in Nat \ {0} /\ offset \in Nat /\ position \in Nat
  BY <1>1, TypeFacts
<1>3. /\ j' = j /\ load' = load /\ position' = position /\ new' = new /\ page' = page /\ byte' = byte
  BY DEF FinishObject
<1>4. LinkMap' = LinkMap /\ Page' = Page
  BY <1>1 DEF LinkMap, Page
<1>5. CASE offset = 0
  <2>1. offset' = 1 /\ ret' = new /\ map' = new /\ node' = node
    BY <1>5 DEF FinishObject
  <2>2. n > 1 => Len(node) <= n - 1
    BY <1>5 DEF ListInv, Counts
  <2>3. TypeOK'
    <3>1. n' \in 1 .. (Len(prog') + 1)
      BY <1>1
    <3>2. new \in DOMAIN node /\ new \in 0 .. Len(node)
      BY <1>2
    <3> QED BY <1>1, <1>2, <1>3, <1>4, <2>1, <3>1, <3>2 DEF TypeOK
  <2>4. Counts'
    <3>1. n = 1 => Len(node) = 1
      BY DEF ListInv, Counts
    <3>2. n' > 1 /\ Len(node') <= n' - 1
      <4>1. CASE n = 1
        <5>1. Len(node') = 1
          BY <4>1, <3>1, <2>1
        <5>2. n' = 2
          BY <4>1, <1>1
        <5> QED BY <5>1, <5>2
      <4>2. CASE n > 1
        BY <4>2, <2>2, <1>1, <1>2, <2>1
      <4> QED BY <4>1, <4>2, <1>1
    <3> QED BY <3>2, <1>1 DEF Counts, Loading
  <2>5. ASSUME NoWrap'
        PROVE  n = 1
    <3>1. Len(node) >= n
      BY <2>1, <2>5, <1>1 DEF NoWrap
    <3> QED BY <3>1, <2>2, <1>1, <1>2
  <2>6. NoWrap' => ret' = 1 /\ map' = n' - 1 /\ Mirrors(1)'
    <3>1. n = 1 => Len(node) = 1 /\ map = 1 /\ new = 1
      BY DEF ListInv, Counts
    <3>2. n = 1 => NoWrap
      BY <3>1, <1>1 DEF NoWrap
    <3>3. n = 1 => node[1].entry = 1 /\ node[1].l_prev = 0 /\ node[1].l_next = 0
      BY <3>2, <1>1 DEF ListInv, Loading
    <3> QED BY <2>1, <2>5, <3>1, <3>3, <1>1 DEF Mirrors
  <2>7. NoWrap' => \A m \in 1 .. (n' - 1) : Mirrors(m)'
    BY <1>1, <2>5, <2>6
  <2> QED BY <1>1, <2>3, <2>4, <2>6, <2>7 DEF ListInv, Loading
<1>6. CASE offset # 0
  <2>1. /\ node' = Linked(node, map, new) /\ map' = new /\ ret' = ret
        /\ offset' = node[new].l_addr % INT_MOD
    BY <1>6 DEF FinishObject, LinkLoaded, Link, Linked
  <2>2. n > 1 /\ Len(node) <= n
    <3>1. n # 1
      BY <1>6 DEF ListInv, Counts
    <3>2. n > 1
      BY <3>1, <1>1
    <3> QED BY <3>2, <1>1, <1>6 DEF ListInv, Counts, Loading
  <2>3. /\ node' \in Seq(LinkMap) /\ Len(node') = Len(node)
        /\ node'[map] = [node[map] EXCEPT !.l_next = new]
        /\ \A i \in 1 .. Len(node) : i # map => node'[i] = node[i]
    <3>1. new \in 0 .. Len(prog)
      BY <1>1, <1>2, <2>2
    <3> QED BY <3>1, <1>2, <2>1, LinkedFacts
  <2>4. offset' \in Nat
    <3>1. node[new] \in LinkMap
      BY <1>2
    <3>2. node[new].l_addr \in Nat
      BY <3>1 DEF LinkMap
    <3> QED BY <2>1, <3>2, LoaderAssumption
  <2>5. TypeOK'
    <3>1. n' \in 1 .. (Len(prog') + 1)
      BY <1>1
    <3>2. new \in DOMAIN node' /\ ret \in 0 .. Len(node')
      BY <1>2, <2>3
    <3> QED BY <1>1, <1>2, <1>3, <1>4, <2>1, <2>3, <2>4, <3>1, <3>2 DEF TypeOK
  <2>6. Counts'
    BY <1>1, <2>2, <2>3 DEF Counts, Loading
  <2>7. ASSUME NoWrap'
        PROVE  NoWrap /\ new = n /\ map = n - 1 /\ ret = 1 /\ Len(node) = n
    <3>1. Len(node) >= n
      BY <2>7, <1>1, <2>3 DEF NoWrap
    <3>2. NoWrap
      BY <3>1, <1>6, <1>1 DEF NoWrap
    <3>3. new = n /\ map = n - 1 /\ ret = 1
      BY <3>2, <2>2, <1>1 DEF ListInv, Loading
    <3> QED BY <3>1, <3>2, <3>3, <2>2, <1>1, <1>2
  <2>8. ASSUME NoWrap', NEW m \in 1 .. n
        PROVE  Mirrors(m)'
    <3>1. CASE m = n
      <4>1. node'[n] = node[n]
        BY <2>3, <2>7, <2>8, <1>1, <2>2
      <4>2. node[n].entry = n /\ node[n].l_prev = n - 1 /\ node[n].l_next = 0
        BY <2>7, <2>8, <1>1 DEF ListInv, Loading
      <4> QED BY <3>1, <4>1, <4>2, <1>1 DEF Mirrors
    <3>2. CASE m = n - 1
      <4>1. Mirrors(m) /\ m \in 1 .. (n - 1) /\ m = map
        BY <3>2, <2>7, <2>8, <2>2, <1>1 DEF ListInv
      <4>2. node[m] \in LinkMap
        BY <4>1, <1>2
      <4>3. node'[m] = [node[m] EXCEPT !.l_next = n]
        BY <4>1, <2>3, <2>7, <2>8
      <4>4. /\ node'[m].entry = node[m].entry /\ node'[m].l_prev = node[m].l_prev
            /\ node'[m].l_next = n
        BY <4>2, <4>3 DEF LinkMap
      <4> QED BY <3>2, <4>1, <4>4, <1>1 DEF Mirrors
    <3>3. CASE m < n - 1
      <4>1. Mirrors(m) /\ m # map /\ m \in 1 .. Len(node)
        BY <3>3, <2>7, <2>8, <2>2, <1>1 DEF ListInv
      <4>2. node'[m] = node[m]
        BY <4>1, <2>3
      <4> QED BY <3>3, <4>1, <4>2, <1>1 DEF Mirrors
    <3> QED BY <3>1, <3>2, <3>3, <1>1
  <2>9. NoWrap' => ret' = 1 /\ map' = n' - 1
    BY <2>1, <2>7, <1>1
  <2> QED BY <1>1, <2>5, <2>6, <2>8, <2>9 DEF ListInv, Loading
<1> QED BY <1>5, <1>6

LEMMA ListFinish ==
  ASSUME ListInv, Finish
  PROVE  ListInv'
<1>1. prog \in Programs /\ TypeOK /\ pc = "entry" /\ pc' = "done"
  BY DEF ListInv, Finish
<1>2. UNCHANGED <<prog, n, j, load, offset, position, node, map, new, ret, page, byte>>
  BY DEF Finish
<1>3. TypeOK' /\ prog' \in Programs
  BY <1>1, <1>2 DEF TypeOK, LinkMap, Page
<1>4. Counts /\ Counts' /\ (NoWrap <=> NoWrap') /\ ~Loading'
  BY <1>1, <1>2 DEF ListInv, Counts, Loading, NoWrap
<1>5. \A m \in 1 .. (n - 1) : Mirrors(m) <=> Mirrors(m)'
  BY <1>2 DEF Mirrors
<1> QED BY <1>2, <1>3, <1>4, <1>5 DEF ListInv

LEMMA ListStep ==
  ASSUME ListInv, [Next]_vars
  PROVE  ListInv'
<1>1. CASE LinkKernelObject
  BY <1>1, ListLinkKernelObject
<1>2. CASE MapObject
  BY <1>2, ListMapObject
<1>3. CASE LoadSegment
  BY <1>3, ListLoadSegment
<1>4. CASE PassHeader
  BY <1>4, ListPassHeader
<1>5. CASE FinishObject
  BY <1>5, ListFinishObject
<1>6. CASE Finish
  BY <1>6, ListFinish
<1>7. CASE UNCHANGED vars
  <2>1. (TypeOK <=> TypeOK') /\ (Counts <=> Counts') /\ (NoWrap <=> NoWrap') /\ (Loading <=> Loading')
    BY <1>7 DEF vars, TypeOK, LinkMap, Page, Counts, NoWrap, Loading
  <2>2. \A m \in 1 .. (n - 1) : Mirrors(m) <=> Mirrors(m)'
    BY <1>7 DEF vars, Mirrors
  <2> QED BY <1>7, <2>1, <2>2 DEF vars, ListInv
<1> QED BY <1>1, <1>2, <1>3, <1>4, <1>5, <1>6, <1>7 DEF Next

LEMMA ListIsInvariant == Spec => []ListInv
BY ListInit, ListStep, PTL DEF Spec

(* Whatever the sizes of the objects: the list of link_maps is the table, as  *)
(* long as no library took the link_map of another.                          *)
THEOREM ListIsTable == Spec => []ListMirrorsTable
<1>1. ListInv => ListMirrorsTable
  BY DEF ListInv, ListMirrorsTable, Mirrors
<1> QED BY <1>1, ListIsInvariant, PTL

-----------------------------------------------------------------------------
(* What is loaded stays loaded.  *)

Segments(ph) == FirstLoad(ph) .. (AfterLoads(ph) - 1)

FilePages(a, s) == PagesOf(a + s.vaddr, a + s.vaddr + s.filesz)

MemPages(a, s) == PagesOf(a + s.vaddr, a + s.vaddr + s.memsz)

Contents(a, s) == a + s.vaddr .. (a + s.vaddr + s.filesz - 1)

(* With pages pg and bytes bt: the pages of segment s of object m, loaded at   *)
(* a, are there and its own.                                                 *)
OwnPages(pg, m, a, s) ==
  \A p \in MemPages(a, s) : p \in DOMAIN pg /\ pg[p].own = m /\ (s.w => pg[p].w)

(* They are ready to be read into.                                           *)
MappedAt(pg, m, a, s) ==
  OwnPages(pg, m, a, s) /\ \A p \in FilePages(a, s) : pg[p].w = TRUE

(* They hold the contents of the file, with its permissions.                 *)
LoadedAt(pg, bt, m, a, s) ==
  /\ OwnPages(pg, m, a, s)
  /\ \A p \in FilePages(a, s) : pg[p].w = s.w
  /\ \A b \in Contents(a, s) : b \in DOMAIN bt /\ bt[b] = m

(* The object being loaded: its segments before the header being handled are  *)
(* loaded, the others mapped, and "position" is where the last one read ends. *)
LoadingInv ==
  LET ph == prog[n].ph
      f == FirstLoad(ph)
      g == AfterLoads(ph)
      a == node[new].l_addr
  IN  /\ a = ALIGN(a)
      /\ load <=> j > f
      /\ \A h \in Segments(ph) : h < j => LoadedAt(page, byte, n, a, ph[h])
      /\ \A h \in Segments(ph) : j <= h => MappedAt(page, n, a, ph[h])
      /\ \A h \in Segments(ph) :
           h < j /\ (h + 1 < j => h = g - 1) => position = a + ph[h].vaddr + ph[h].filesz

LoadInv ==
  /\ pc = "entry" /\ n = 1 => page = KernelPages(prog[1])
  /\ pc = "load" /\ Fits(prog[n]) => LoadingInv
  /\ pc = "exit" => ~Fits(prog[n])

(* No address of an object loaded before is as high as the object being       *)
(* loaded, or as the next one to load.                                       *)
Limit == IF pc = "load" THEN node[new].l_addr ELSE NextAddr

ImageAt(ph, m, a, lim, pg, bt) ==
  \A h \in Segments(ph) :
    LoadedAt(pg, bt, m, a, ph[h]) /\ a + ph[h].vaddr + ph[h].memsz <= lim

ImagesInv ==
  Sound /\ pc # "exit" =>
    /\ n > 1 => Limit = ALIGN(Limit)
    /\ \A m \in 1 .. (n - 1) : prog[m].kind \in {"exe", "lib"} =>
        ImageAt(prog[m].ph, m, node[m].l_addr, Limit, page, byte)

(* The pages of what lies at x .. e - 1 of an object loaded at base.          *)
LEMMA PagesShift ==
  ASSUME NEW base \in Nat, base = ALIGN(base), NEW x \in Nat, NEW e \in Nat, x < e
  PROVE  /\ PagesOf(base + x, base + e) \subseteq Nat
         /\ \A p \in Nat : p \in PagesOf(base + x, base + e) <=>
              /\ base \div PAGE_SIZE + x \div PAGE_SIZE <= p
              /\ p <= base \div PAGE_SIZE + (e - 1) \div PAGE_SIZE
<1>1. base + x \in Nat /\ base + e \in Nat /\ base + x < base + e /\ e - 1 \in Nat
  OBVIOUS
<1>2. (base + x) \div PAGE_SIZE = base \div PAGE_SIZE + x \div PAGE_SIZE
  BY PageShift
<1>3. (base + e - 1) \div PAGE_SIZE = base \div PAGE_SIZE + (e - 1) \div PAGE_SIZE
  <2>1. base + e - 1 = base + (e - 1)
    OBVIOUS
  <2> QED BY <2>1, <1>1, PageShift
<1> QED BY <1>1, <1>2, <1>3, PagesOfFacts

(* The end of a segment, behind its contents and behind its .bss.             *)
LEMMA EndFacts ==
  ASSUME NEW v \in Nat, NEW fs \in Nat, NEW ms \in Nat, 0 < fs, fs <= ms
  PROVE  /\ v + fs \in Nat /\ v + ms \in Nat /\ v < v + fs /\ v + fs <= v + ms
         /\ v + fs > 0 /\ v + ms > 0 /\ ms > 0 /\ v < v + ms
         /\ (v + fs) - 1 \in Nat /\ (v + ms) - 1 \in Nat
         /\ v <= (v + fs) - 1 /\ (v + fs) - 1 <= (v + ms) - 1
OBVIOUS

(* The segments of an object of the expected layout are its LOAD headers.     *)
LEMMA SegmentShape ==
  ASSUME prog \in Programs, NEW m \in 1 .. Len(prog), prog[m].kind \in {"exe", "lib"}, Fits(prog[m])
  PROVE  LET ph == prog[m].ph
             f == FirstLoad(ph)
             g == AfterLoads(ph)
         IN  /\ f \in Nat /\ g \in Nat /\ f \in Segments(ph) /\ (g - 1) \in Segments(ph)
             /\ \A h \in Segments(ph) : h \in DOMAIN ph /\ h \in Nat /\ f <= h /\ h < g
             /\ \A h \in DOMAIN ph : ph[h].type = "LOAD" <=> h \in Segments(ph)
             /\ \A h \in Segments(ph) :
                  /\ ph[h].vaddr \in Nat /\ ph[h].filesz \in Nat /\ ph[h].memsz \in Nat
                  /\ 0 < ph[h].filesz /\ ph[h].filesz <= ph[h].memsz /\ ph[h].w \in BOOLEAN
<1> DEFINE ph == prog[m].ph
           f == FirstLoad(ph)
           g == AfterLoads(ph)
<1>1. ph \in Seq(Phdr) /\ f \in DOMAIN ph /\ g \in DOMAIN ph /\ f < g
  BY ProgFacts, LoadsFacts
<1>2. /\ {h \in DOMAIN ph : ph[h].type = "LOAD"} = f .. (g - 1)
      /\ \A h \in f .. (g - 1) : 0 < ph[h].filesz /\ ph[h].filesz <= ph[h].memsz
  BY DEF Fits
<1>3. Segments(ph) = f .. (g - 1)
  BY DEF Segments
<1> HIDE DEF ph, f, g
<1>4. /\ Len(ph) \in Nat /\ DOMAIN ph = 1 .. Len(ph)
      /\ \A h \in DOMAIN ph : /\ ph[h].vaddr \in Nat /\ ph[h].filesz \in Nat
                              /\ ph[h].memsz \in Nat /\ ph[h].w \in BOOLEAN
  <2>1. Len(ph) \in Nat /\ DOMAIN ph = 1 .. Len(ph)
    BY <1>1
  <2> QED BY <1>1, <2>1, PhdrFacts
<1>5. f \in Nat /\ g \in Nat
  BY <1>1, <1>4
<1>6. f \in Segments(ph) /\ (g - 1) \in Segments(ph)
  BY <1>1, <1>3, <1>5
<1>7. \A h \in Segments(ph) : h \in DOMAIN ph /\ h \in Nat /\ f <= h /\ h < g
  BY <1>1, <1>3, <1>4, <1>5
<1>8. \A h \in DOMAIN ph : ph[h].type = "LOAD" <=> h \in Segments(ph)
  BY <1>2, <1>3
<1>9. \A h \in Segments(ph) :
        /\ ph[h].vaddr \in Nat /\ ph[h].filesz \in Nat /\ ph[h].memsz \in Nat
        /\ 0 < ph[h].filesz /\ ph[h].filesz <= ph[h].memsz /\ ph[h].w \in BOOLEAN
  BY <1>2, <1>3, <1>4, <1>7
<1> QED BY <1>5, <1>6, <1>7, <1>8, <1>9 DEF ph, f, g

(* The segments of an object of the expected layout, from the first one on    *)
(* each behind the pages of those before it, and the mapping made for them.   *)
LEMMA FitsFacts ==
  ASSUME prog \in Programs, NEW m \in 1 .. Len(prog), prog[m].kind \in {"exe", "lib"}, Fits(prog[m])
  PROVE  LET ph == prog[m].ph
             f == FirstLoad(ph)
             g == AfterLoads(ph)
             first(h) == ph[h].vaddr \div PAGE_SIZE
             lastFile(h) == ((ph[h].vaddr + ph[h].filesz) - 1) \div PAGE_SIZE
             lastMem(h) == ((ph[h].vaddr + ph[h].memsz) - 1) \div PAGE_SIZE
         IN  /\ f \in Segments(ph) /\ (g - 1) \in Segments(ph) /\ f \in Nat /\ g \in Nat
             /\ \A h \in DOMAIN ph : ph[h].type = "LOAD" <=> h \in Segments(ph)
             /\ \A h \in Segments(ph) : h \in DOMAIN ph
             /\ \A h \in Segments(ph) : 0 < ph[h].filesz /\ ph[h].filesz <= ph[h].memsz
             /\ \A h, k \in Segments(ph) : h < k => lastMem(h) < first(k)
             /\ \A h \in Segments(ph) : first(f) <= first(h) /\ lastFile(h) <= lastFile(g)
             /\ \A h \in Segments(ph) : prog[m].kind = "lib" => lastMem(h) <= lastFile(g)
             /\ ph[g].vaddr + ph[g].filesz > 0
             /\ \A h \in Segments(ph) : ph[h].vaddr + ph[h].memsz
                  <= ALIGN(ph[g - 1].vaddr + ph[g - 1].filesz) + 3 * PAGE_SIZE
<1> DEFINE ph == prog[m].ph
           f == FirstLoad(ph)
           g == AfterLoads(ph)
           first(h) == ph[h].vaddr \div PAGE_SIZE
           lastFile(h) == ((ph[h].vaddr + ph[h].filesz) - 1) \div PAGE_SIZE
           lastMem(h) == ((ph[h].vaddr + ph[h].memsz) - 1) \div PAGE_SIZE
           last == g - 1
<1>1. ph \in Seq(Phdr) /\ f \in DOMAIN ph /\ g \in DOMAIN ph /\ f < g
  BY ProgFacts, LoadsFacts
<1>2. /\ {h \in DOMAIN ph : ph[h].type = "LOAD"} = f .. (g - 1)
      /\ \A h \in f .. (g - 1) : 0 < ph[h].filesz /\ ph[h].filesz <= ph[h].memsz
      /\ \A h \in f .. (g - 2) : RoundUp(ph[h].vaddr + ph[h].memsz) <= ALIGN(ph[h + 1].vaddr)
      /\ RoundUp(ph[g].vaddr + ph[g].filesz) >=
           IF prog[m].kind = "lib" THEN ph[last].vaddr + ph[last].memsz
                                   ELSE ph[last].vaddr + ph[last].filesz
      /\ ph[last].vaddr + ph[last].memsz <= ALIGN(ph[last].vaddr + ph[last].filesz) + 3 * PAGE_SIZE
  BY DEF Fits
<1>3. Segments(ph) = f .. (g - 1)
  BY DEF Segments
<1> HIDE DEF ph, f, g
<1>4. /\ Len(ph) \in Nat /\ DOMAIN ph = 1 .. Len(ph) /\ f \in Nat /\ g \in Nat /\ last \in Nat
      /\ \A h \in DOMAIN ph : ph[h].vaddr \in Nat /\ ph[h].filesz \in Nat /\ ph[h].memsz \in Nat
  <2>1. Len(ph) \in Nat /\ DOMAIN ph = 1 .. Len(ph)
    BY <1>1
  <2>2. \A h \in DOMAIN ph : ph[h].vaddr \in Nat /\ ph[h].filesz \in Nat /\ ph[h].memsz \in Nat
    BY <1>1, PhdrFacts
  <2>3. f \in Nat /\ g \in Nat /\ last \in Nat
    BY <1>1, <2>1
  <2> QED BY <2>1, <2>2, <2>3
<1>5. \A h \in f .. (g - 1) : h \in DOMAIN ph
  BY <1>1, <1>4
<1> HIDE DEF last
<1>6. last = g - 1 /\ last \in f .. (g - 1) /\ f \in f .. (g - 1)
  BY <1>1, <1>4 DEF last
<1>7. ASSUME NEW h \in f .. (g - 1)
      PROVE  /\ first(h) \in Nat /\ lastFile(h) \in Nat /\ lastMem(h) \in Nat
             /\ first(h) <= lastFile(h) /\ lastFile(h) <= lastMem(h)
  <2>1. /\ ph[h].vaddr \in Nat /\ ph[h].filesz \in Nat /\ ph[h].memsz \in Nat
        /\ 0 < ph[h].filesz /\ ph[h].filesz <= ph[h].memsz
    BY <1>2, <1>4, <1>5
  <2> DEFINE a == ph[h].vaddr
             b == (ph[h].vaddr + ph[h].filesz) - 1
             c == (ph[h].vaddr + ph[h].memsz) - 1
  <2>2. a \in Nat /\ b \in Nat /\ c \in Nat /\ a <= b /\ b <= c
    BY <2>1, EndFacts
  <2> HIDE DEF a, b, c
  <2>3. /\ a \div PAGE_SIZE \in Nat /\ b \div PAGE_SIZE \in Nat /\ c \div PAGE_SIZE \in Nat
        /\ a \div PAGE_SIZE <= b \div PAGE_SIZE /\ b \div PAGE_SIZE <= c \div PAGE_SIZE
    BY <2>2, PageOf, PageMonotone
  <2> QED BY <2>3 DEF a, b, c
<1>8. ASSUME NEW h \in f .. (g - 2)
      PROVE  lastMem(h) < first(h + 1)
  <2>1. h \in f .. (g - 1) /\ h + 1 \in f .. (g - 1)
    BY <1>4
  <2> DEFINE x == ph[h].vaddr + ph[h].memsz
             y == ph[h + 1].vaddr
  <2>2. x \in Nat /\ x > 0 /\ y \in Nat
    <3>1. /\ ph[h].vaddr \in Nat /\ ph[h].filesz \in Nat /\ ph[h].memsz \in Nat
          /\ 0 < ph[h].filesz /\ ph[h].filesz <= ph[h].memsz
      BY <2>1, <1>2, <1>4, <1>5
    <3>2. y \in Nat
      BY <2>1, <1>4, <1>5
    <3> QED BY <3>1, <3>2, EndFacts
  <2>3. RoundUp(x) <= ALIGN(y)
    BY <1>2
  <2> HIDE DEF x, y
  <2>4. (x - 1) \div PAGE_SIZE < y \div PAGE_SIZE
    BY <2>2, <2>3, PageBefore
  <2> QED BY <2>4 DEF x, y
<1> HIDE DEF first, lastFile, lastMem
<1>9. ASSUME NEW h \in f .. (g - 1), NEW k \in f .. (g - 1), h < k
      PROVE  lastMem(h) < first(k)
  <2> DEFINE H == {e \in f .. (g - 1) : h < e /\ ~(lastMem(h) < first(e))}
  <2>1. SUFFICES ASSUME k \in H PROVE FALSE
    BY <1>9
  <2>2. H \subseteq Nat
    BY <1>4
  <2>3. PICK d \in H : \A e \in H : d <= e
    <3> HIDE DEF H
    <3> QED BY <2>1, <2>2, SmallestExists
  <2>4. d \in f .. (g - 1) /\ h < d /\ ~(lastMem(h) < first(d)) /\ d - 1 \in f .. (g - 2) /\ (d - 1) + 1 = d
    BY <2>3, <1>4
  <2>5. lastMem(d - 1) < first(d)
    <3> DEFINE c == d - 1
    <3>1. c \in f .. (g - 2) /\ c + 1 = d
      BY <2>4
    <3> HIDE DEF c
    <3>2. lastMem(c) < first(c + 1)
      BY <3>1, <1>8
    <3> QED BY <3>1, <3>2 DEF c
  <2>6. d - 1 # h
    BY <2>4, <2>5
  <2>7. d - 1 \in f .. (g - 1) /\ h < d - 1 /\ d - 1 \notin H
    BY <2>3, <2>4, <2>6, <1>4
  <2>8. lastMem(h) < first(d - 1)
    BY <2>7
  <2>9. first(d - 1) <= lastMem(d - 1) /\ first(d - 1) \in Nat /\ lastMem(d - 1) \in Nat
    <3> DEFINE c == d - 1
    <3>1. c \in f .. (g - 1)
      BY <2>7
    <3> HIDE DEF c, H
    <3>2. first(c) <= lastFile(c) /\ lastFile(c) <= lastMem(c)
          /\ first(c) \in Nat /\ lastFile(c) \in Nat /\ lastMem(c) \in Nat
      BY <3>1, <1>7
    <3> QED BY <3>2 DEF c
  <2>10. lastMem(h) \in Nat /\ first(d) \in Nat
    BY <2>4, <1>7
  <2> QED BY <2>4, <2>5, <2>8, <2>9, <2>10
<1>10. ASSUME NEW h \in f .. (g - 1)
       PROVE  first(f) <= first(h) /\ lastFile(h) <= lastFile(last) /\ lastMem(h) <= lastMem(last)
  <2>1. h = f \/ f < h
    BY <1>4
  <2>2. h = last \/ h < last
    BY <1>4, <1>6
  <2>3. /\ first(f) \in Nat /\ lastMem(f) \in Nat /\ first(f) <= lastMem(f)
        /\ first(h) \in Nat /\ lastMem(h) \in Nat /\ lastFile(h) \in Nat /\ lastFile(h) <= lastMem(h)
        /\ first(last) \in Nat /\ lastFile(last) \in Nat /\ lastMem(last) \in Nat
        /\ first(last) <= lastFile(last) /\ first(last) <= lastMem(last)
    <3>1. \A e \in f .. (g - 1) :
            /\ first(e) \in Nat /\ lastFile(e) \in Nat /\ lastMem(e) \in Nat
            /\ first(e) <= lastFile(e) /\ lastFile(e) <= lastMem(e)
      BY <1>7
    <3>2. \A e \in f .. (g - 1) : first(e) <= lastMem(e)
      BY <3>1
    <3> QED BY <3>1, <3>2, <1>6
  <2>4. f < h => lastMem(f) < first(h)
    BY <1>6, <1>9
  <2>5. h < last => lastMem(h) < first(last)
    BY <1>6, <1>9
  <2> QED BY <2>1, <2>2, <2>3, <2>4, <2>5
<1>11. /\ ph[g].vaddr + ph[g].filesz > 0
       /\ lastFile(last) <= lastFile(g)
       /\ prog[m].kind = "lib" => lastMem(last) <= lastFile(g)
  <2> DEFINE top == ph[g].vaddr + ph[g].filesz
             ef == ph[last].vaddr + ph[last].filesz
             em == ph[last].vaddr + ph[last].memsz
  <2>1. /\ ph[last].vaddr \in Nat /\ ph[last].filesz \in Nat /\ ph[last].memsz \in Nat
        /\ 0 < ph[last].filesz /\ ph[last].filesz <= ph[last].memsz
        /\ ph[g].vaddr \in Nat /\ ph[g].filesz \in Nat
    BY <1>1, <1>2, <1>4, <1>5, <1>6
  <2>2. top \in Nat /\ ef \in Nat /\ em \in Nat /\ ef > 0 /\ em > 0 /\ ef <= em
    <3>1. top \in Nat
      BY <2>1
    <3> QED BY <3>1, <2>1, EndFacts
  <2>3. RoundUp(top) >= IF prog[m].kind = "lib" THEN em ELSE ef
    BY <1>2
  <2> HIDE DEF top, ef, em
  <2>4. ef <= RoundUp(top) /\ (prog[m].kind = "lib" => em <= RoundUp(top))
    <3>1. RoundUp(top) \in Nat
      BY <2>2, RoundUpFacts
    <3>2. CASE prog[m].kind = "lib"
      <4>1. em <= RoundUp(top)
        BY <2>3, <3>2, <3>1, <2>2
      <4> QED BY <4>1, <3>1, <2>2
    <3>3. CASE prog[m].kind # "lib"
      <4>1. ef <= RoundUp(top)
        BY <2>3, <3>3, <3>1, <2>2
      <4> QED BY <4>1, <3>3
    <3> QED BY <3>2, <3>3
  <2>5. top > 0 /\ (ef - 1) \div PAGE_SIZE <= (top - 1) \div PAGE_SIZE
    BY <2>2, <2>4, PageCovers
  <2>6. prog[m].kind = "lib" => (em - 1) \div PAGE_SIZE <= (top - 1) \div PAGE_SIZE
    BY <2>2, <2>4, PageCovers
  <2>7. lastFile(last) = (ef - 1) \div PAGE_SIZE
    BY DEF ef, lastFile
  <2>8. lastMem(last) = (em - 1) \div PAGE_SIZE
    BY DEF em, lastMem
  <2>9. lastFile(g) = (top - 1) \div PAGE_SIZE
    BY DEF top, lastFile
  <2>10. ph[g].vaddr + ph[g].filesz > 0
    BY <2>5 DEF top
  <2> QED BY <2>5, <2>6, <2>7, <2>8, <2>9, <2>10
<1>12. ASSUME NEW h \in f .. (g - 1)
       PROVE  lastFile(h) <= lastFile(g) /\ (prog[m].kind = "lib" => lastMem(h) <= lastFile(g))
  <2>1. lastFile(g) \in Nat
    <3> DEFINE t == (ph[g].vaddr + ph[g].filesz) - 1
    <3>1. ph[g].vaddr \in Nat /\ ph[g].filesz \in Nat
      BY <1>1, <1>4
    <3>2. t \in Nat
      BY <3>1, <1>11
    <3> HIDE DEF t
    <3>3. t \div PAGE_SIZE \in Nat
      BY <3>2, PageOf
    <3> QED BY <3>3 DEF t, lastFile
  <2>2. /\ lastFile(h) \in Nat /\ lastMem(h) \in Nat
        /\ lastFile(last) \in Nat /\ lastMem(last) \in Nat
    BY <1>6, <1>7
  <2> QED BY <2>1, <2>2, <1>10, <1>11
<1>13. ASSUME NEW h \in f .. (g - 1)
       PROVE  ph[h].vaddr + ph[h].memsz <= ph[last].vaddr + ph[last].memsz
  <2>1. /\ ph[h].vaddr \in Nat /\ ph[h].memsz \in Nat /\ ph[h].memsz > 0
        /\ ph[last].vaddr \in Nat /\ ph[last].memsz \in Nat
    <3>1. /\ ph[h].vaddr \in Nat /\ ph[h].filesz \in Nat /\ ph[h].memsz \in Nat
          /\ 0 < ph[h].filesz /\ ph[h].filesz <= ph[h].memsz
      BY <1>2, <1>4, <1>5
    <3>2. ph[last].vaddr \in Nat /\ ph[last].memsz \in Nat
      BY <1>4, <1>5, <1>6
    <3> QED BY <3>1, <3>2, EndFacts
  <2>2. CASE h = last
    BY <2>1, <2>2
  <2>3. CASE h < last
    <3> DEFINE x == (ph[h].vaddr + ph[h].memsz) - 1
               y == ph[last].vaddr
    <3>1. x \in Nat /\ y \in Nat
      BY <2>1
    <3>2. x \div PAGE_SIZE < y \div PAGE_SIZE
      BY <2>3, <1>6, <1>9 DEF lastMem, first
    <3> HIDE DEF x, y
    <3>3. x < y
      <4>1. CASE y <= x
        BY <4>1, <3>1, <3>2, PageMonotone, PageOf
      <4> QED BY <4>1, <3>1
    <3> DEFINE hs == ph[h].vaddr + ph[h].memsz
               ms == ph[last].memsz
    <3>4. hs \in Nat /\ ms \in Nat /\ x = hs - 1 /\ y \in Nat
      BY <2>1 DEF x, y
    <3> HIDE DEF hs, ms
    <3>5. hs <= y + ms
      BY <3>3, <3>4
    <3> QED BY <3>5 DEF y, hs, ms
  <2> QED BY <2>2, <2>3, <1>4, <1>6
<1>14. ASSUME NEW h \in f .. (g - 1)
       PROVE  ph[h].vaddr + ph[h].memsz <= ALIGN(ph[last].vaddr + ph[last].filesz) + 3 * PAGE_SIZE
  <2>1. /\ ph[h].vaddr \in Nat /\ ph[h].memsz \in Nat
        /\ ph[last].vaddr \in Nat /\ ph[last].memsz \in Nat /\ ph[last].filesz \in Nat
    BY <1>4, <1>5, <1>6
  <2>5. \A a, b \in Nat : a + b \in Nat
    OBVIOUS
  <2> DEFINE z == ALIGN(ph[last].vaddr + ph[last].filesz)
  <2>2. z \in Nat
    <3>1. ph[last].vaddr + ph[last].filesz \in Nat
      BY <2>1, <2>5
    <3> QED BY <3>1, PageOf
  <2>3. ph[last].vaddr + ph[last].memsz <= z + 3 * PAGE_SIZE
    BY <1>2
  <2> HIDE DEF z
  <2>4. ph[h].vaddr + ph[h].memsz <= z + 3 * PAGE_SIZE
    <3>1. ph[h].vaddr + ph[h].memsz <= ph[last].vaddr + ph[last].memsz
      BY <1>13
    <3> DEFINE x == ph[h].vaddr + ph[h].memsz
               y == ph[last].vaddr + ph[last].memsz
               t == z + 3 * PAGE_SIZE
    <3>2. x \in Nat /\ y \in Nat /\ t \in Nat /\ x <= y /\ y <= t
      <4>1. x \in Nat /\ y \in Nat
        BY <2>1, <2>5
      <4>2. t \in Nat
        BY <2>2, LoaderAssumption
      <4>3. x <= y
        BY <3>1
      <4>4. y <= t
        BY <2>3
      <4> HIDE DEF x, y, t
      <4> QED BY <4>1, <4>2, <4>3, <4>4
    <3> HIDE DEF x, y, t
    <3>3. x <= t
      BY <3>2
    <3> QED BY <3>3 DEF x, t
  <2> QED BY <2>4 DEF z
<1>15. \A h \in DOMAIN ph : ph[h].type = "LOAD" <=> h \in f .. (g - 1)
  BY <1>2
<1> QED BY <1>2, <1>3, <1>4, <1>5, <1>6, <1>9, <1>10, <1>11, <1>12, <1>14, <1>15
        DEF ph, f, g, first, lastFile, lastMem

(* The pages of the segments of an object loaded at base: each has its own,   *)
(* and mprotect() changes those of the contents.                             *)
LEMMA SegmentFacts ==
  ASSUME prog \in Programs, NEW m \in 1 .. Len(prog), prog[m].kind \in {"exe", "lib"}, Fits(prog[m]),
         NEW base \in Nat, base = ALIGN(base), NEW h \in Segments(prog[m].ph)
  PROVE  LET ph == prog[m].ph
             addr == base + ph[h].vaddr
             b == base \div PAGE_SIZE
         IN  /\ FilePages(base, ph[h]) \subseteq MemPages(base, ph[h])
             /\ MemPages(base, ph[h]) \subseteq Nat
             /\ ProtectPages(addr, ph[h].filesz) = FilePages(base, ph[h])
             /\ \A p \in MemPages(base, ph[h]) :
                  /\ b + ph[h].vaddr \div PAGE_SIZE <= p
                  /\ p <= b + ((ph[h].vaddr + ph[h].memsz) - 1) \div PAGE_SIZE
             /\ \A p \in FilePages(base, ph[h]) :
                  p <= b + ((ph[h].vaddr + ph[h].filesz) - 1) \div PAGE_SIZE
             /\ b \in Nat /\ ph[h].vaddr \div PAGE_SIZE \in Nat
             /\ ((ph[h].vaddr + ph[h].memsz) - 1) \div PAGE_SIZE \in Nat
             /\ ((ph[h].vaddr + ph[h].filesz) - 1) \div PAGE_SIZE \in Nat
             /\ ph[h].vaddr \in Nat /\ ph[h].filesz \in Nat /\ ph[h].memsz \in Nat
             /\ 0 < ph[h].filesz /\ ph[h].filesz <= ph[h].memsz /\ ph[h].w \in BOOLEAN
<1> DEFINE ph == prog[m].ph
           v == ph[h].vaddr
           fs == ph[h].filesz
           ms == ph[h].memsz
           b == base \div PAGE_SIZE
<1>1. v \in Nat /\ fs \in Nat /\ ms \in Nat /\ 0 < fs /\ fs <= ms /\ ph[h].w \in BOOLEAN
  <2>1. ph \in Seq(Phdr)
    BY ProgFacts
  <2>2. h \in DOMAIN ph /\ 0 < ph[h].filesz /\ ph[h].filesz <= ph[h].memsz
    BY SegmentShape
  <2> HIDE DEF ph
  <2> QED BY <2>1, <2>2, PhdrFacts
<1>2. /\ FilePages(base, ph[h]) = PagesOf(base + v, base + v + fs)
      /\ MemPages(base, ph[h]) = PagesOf(base + v, base + v + ms)
  BY DEF FilePages, MemPages
<1> HIDE DEF ph, v, fs, ms
<1>3. /\ v + fs \in Nat /\ v + ms \in Nat /\ v < v + fs /\ v < v + ms
      /\ (v + fs) - 1 \in Nat /\ (v + ms) - 1 \in Nat /\ (v + fs) - 1 <= (v + ms) - 1
  BY <1>1, EndFacts
<1>4. base + v + fs = base + (v + fs) /\ base + v + ms = base + (v + ms)
  BY <1>1
<1> DEFINE q == v \div PAGE_SIZE
           rf == ((v + fs) - 1) \div PAGE_SIZE
           rm == ((v + ms) - 1) \div PAGE_SIZE
<1>5. b \in Nat /\ q \in Nat /\ rf \in Nat /\ rm \in Nat /\ rf <= rm
  BY <1>1, <1>3, PageOf, PageMonotone
<1>6. /\ FilePages(base, ph[h]) \subseteq Nat
      /\ \A p \in Nat : p \in FilePages(base, ph[h]) <=> b + q <= p /\ p <= b + rf
  <2> DEFINE e == v + fs
  <2>1. e \in Nat /\ v < e /\ FilePages(base, ph[h]) = PagesOf(base + v, base + e)
    BY <1>2, <1>3, <1>4
  <2>2. rf = (e - 1) \div PAGE_SIZE /\ b = base \div PAGE_SIZE /\ q = v \div PAGE_SIZE
    OBVIOUS
  <2> HIDE DEF e, rf, b, q
  <2> QED BY <2>1, <2>2, <1>1, PagesShift
<1>7. /\ MemPages(base, ph[h]) \subseteq Nat
      /\ \A p \in Nat : p \in MemPages(base, ph[h]) <=> b + q <= p /\ p <= b + rm
  <2> DEFINE e == v + ms
  <2>1. e \in Nat /\ v < e /\ MemPages(base, ph[h]) = PagesOf(base + v, base + e)
    BY <1>2, <1>3, <1>4
  <2>2. rm = (e - 1) \div PAGE_SIZE /\ b = base \div PAGE_SIZE /\ q = v \div PAGE_SIZE
    OBVIOUS
  <2> HIDE DEF e, rm, b, q
  <2> QED BY <2>1, <2>2, <1>1, PagesShift
<1>8. ProtectPages(base + v, fs) = FilePages(base, ph[h])
  <2> DEFINE s == ALIGN(v)
  <2>1. s \in Nat /\ s <= v /\ s = PAGE_SIZE * q
    BY <1>1, PageOf
  <2>2. s \div PAGE_SIZE = q
    <3> HIDE DEF s
    <3>1. PAGE_SIZE * q <= s /\ s < PAGE_SIZE * q + PAGE_SIZE
      BY <2>1, LoaderAssumption
    <3> HIDE DEF q
    <3> QED BY <3>1, <2>1, <1>5, PageUnique
  <2>3. ALIGN(base + v) = base + s
    BY <1>1, PageShift
  <2>4. ProtectPages(base + v, fs) = PagesOf(base + s, base + (v + fs))
    BY <2>3, <1>4 DEF ProtectPages
  <2> HIDE DEF s
  <2>5. s < v + fs
    BY <2>1, <1>1
  <2>6. /\ PagesOf(base + s, base + (v + fs)) \subseteq Nat
        /\ \A p \in Nat : p \in PagesOf(base + s, base + (v + fs)) <=> b + q <= p /\ p <= b + rf
    <3> DEFINE e == v + fs
    <3>1. e \in Nat /\ s < e /\ s \in Nat
      BY <2>1, <2>5, <1>3
    <3>2. rf = (e - 1) \div PAGE_SIZE /\ b = base \div PAGE_SIZE /\ q = s \div PAGE_SIZE
      BY <2>2
    <3> HIDE DEF e, rf, b, q
    <3>3. /\ PagesOf(base + s, base + e) \subseteq Nat
          /\ \A p \in Nat : p \in PagesOf(base + s, base + e) <=> b + q <= p /\ p <= b + rf
      BY <3>1, <3>2, PagesShift
    <3> QED BY <3>3 DEF e
  <2> HIDE DEF b, q, rf
  <2> QED BY <2>4, <2>6, <1>6
<1> HIDE DEF b, q, rf, rm
<1>9. FilePages(base, ph[h]) \subseteq MemPages(base, ph[h])
  BY <1>5, <1>6, <1>7
<1> QED BY <1>1, <1>5, <1>6, <1>7, <1>8, <1>9 DEF ph, v, fs, ms, b, q, rf, rm

(* Different segments share no page.                                         *)
LEMMA SegmentsApart ==
  ASSUME prog \in Programs, NEW m \in 1 .. Len(prog), prog[m].kind \in {"exe", "lib"}, Fits(prog[m]),
         NEW base \in Nat, base = ALIGN(base),
         NEW h \in Segments(prog[m].ph), NEW k \in Segments(prog[m].ph), h # k,
         NEW p \in MemPages(base, prog[m].ph[h])
  PROVE  p \notin MemPages(base, prog[m].ph[k])
<1> DEFINE ph == prog[m].ph
           b == base \div PAGE_SIZE
           first(e) == ph[e].vaddr \div PAGE_SIZE
           last(e) == ((ph[e].vaddr + ph[e].memsz) - 1) \div PAGE_SIZE
<1>1. SUFFICES ASSUME p \in MemPages(base, ph[k]) PROVE FALSE
  OBVIOUS
<1>2. /\ b + first(h) <= p /\ p <= b + last(h) /\ p \in Nat /\ b \in Nat
      /\ first(h) \in Nat /\ last(h) \in Nat
  BY SegmentFacts
<1>3. /\ b + first(k) <= p /\ p <= b + last(k) /\ first(k) \in Nat /\ last(k) \in Nat
  BY <1>1, SegmentFacts
<1>4. /\ h < k => last(h) < first(k)
      /\ k < h => last(k) < first(h)
  BY FitsFacts
<1>5. h \in Int /\ k \in Int
  BY SegmentShape
<1> HIDE DEF first, last, b
<1>6. CASE h < k
  BY <1>2, <1>3, <1>4, <1>6
<1>7. CASE k < h
  BY <1>2, <1>3, <1>4, <1>7
<1> QED BY <1>5, <1>6, <1>7

(* allocate_map() maps the contents of every segment, and all of a library;   *)
(* no page below the load address.                                           *)
LEMMA MappingFacts ==
  ASSUME prog \in Programs, NEW m \in 1 .. Len(prog), prog[m].kind \in {"exe", "lib"}, Fits(prog[m]),
         NEW base \in Nat, base = ALIGN(base)
  PROVE  LET ph == prog[m].ph
         IN  /\ MapSize(ph, base) > 0
             /\ MapPages(ph, base) \subseteq Nat
             /\ \A p \in MapPages(ph, base) : base \div PAGE_SIZE <= p
             /\ \A h \in Segments(ph) :
                  /\ FilePages(base, ph[h]) \subseteq MapPages(ph, base)
                  /\ prog[m].kind = "lib" => MemPages(base, ph[h]) \subseteq MapPages(ph, base)
<1> DEFINE ph == prog[m].ph
           f == FirstLoad(ph)
           g == AfterLoads(ph)
           v == ph[f].vaddr
           gv == ph[g].vaddr
           gs == ph[g].filesz
           b == base \div PAGE_SIZE
           q == v \div PAGE_SIZE
           r == ((gv + gs) - 1) \div PAGE_SIZE
<1>1. v \in Nat /\ gv \in Nat /\ gs \in Nat
  <2>1. ph \in Seq(Phdr) /\ f \in DOMAIN ph /\ g \in DOMAIN ph
    BY ProgFacts, LoadsFacts
  <2> HIDE DEF ph
  <2> QED BY <2>1, PhdrFacts
<1>2. gv + gs > 0
  BY FitsFacts
<1>3. ASSUME NEW h \in Segments(ph)
      PROVE  /\ q <= ph[h].vaddr \div PAGE_SIZE
             /\ ((ph[h].vaddr + ph[h].filesz) - 1) \div PAGE_SIZE <= r
             /\ prog[m].kind = "lib" => ((ph[h].vaddr + ph[h].memsz) - 1) \div PAGE_SIZE <= r
  BY FitsFacts
<1>4. b \in Nat /\ q \in Nat /\ r \in Nat /\ ALIGN(v) \in Nat /\ ALIGN(v) = PAGE_SIZE * q
  <2>1. (gv + gs) - 1 \in Nat
    BY <1>1, <1>2
  <2> HIDE DEF v, gv, gs
  <2> QED BY <2>1, <1>1, PageOf
<1>5. q <= r
  <2>1. f \in Segments(ph)
    BY SegmentShape
  <2> DEFINE x == ((ph[f].vaddr + ph[f].filesz) - 1) \div PAGE_SIZE
             e == (ph[f].vaddr + ph[f].filesz) - 1
  <2>2. x <= r
    BY <2>1, <1>3
  <2>3. e \in Nat /\ v <= e
    <3> DEFINE w == ph[f].vaddr
               fs == ph[f].filesz
               ms == ph[f].memsz
    <3>1. w \in Nat /\ fs \in Nat /\ ms \in Nat /\ 0 < fs /\ fs <= ms
      BY <2>1, SegmentShape
    <3> HIDE DEF w, fs, ms
    <3>2. (w + fs) - 1 \in Nat /\ w <= (w + fs) - 1
      BY <3>1, EndFacts
    <3> QED BY <3>2 DEF w, fs
  <2>4. q <= x /\ x \in Nat
    <3> HIDE DEF e, v
    <3>1. v \div PAGE_SIZE <= e \div PAGE_SIZE /\ e \div PAGE_SIZE \in Nat
      BY <2>3, <1>1, PageMonotone, PageOf
    <3> QED BY <3>1 DEF v, e
  <2> HIDE DEF q, r, x
  <2> QED BY <2>2, <2>4, <1>4
<1>6. ALIGN(v) < gv + gs
  <2> DEFINE t == (gv + gs) - 1
  <2>1. t \in Nat
    BY <1>1, <1>2
  <2>2. PAGE_SIZE * r <= t
    <3> HIDE DEF t
    <3>1. ALIGN(t) <= t /\ ALIGN(t) = PAGE_SIZE * (t \div PAGE_SIZE)
      BY <2>1, PageOf
    <3> QED BY <3>1 DEF t
  <2>3. PAGE_SIZE * q <= PAGE_SIZE * r /\ PAGE_SIZE * r \in Nat
    BY <1>4, <1>5, TimesPage
  <2> HIDE DEF gv, gs, q, r, v
  <2> QED BY <2>2, <2>3, <1>1, <1>4
<1>7. ALIGN(v + base) = base + ALIGN(v)
  <2>1. v + base = base + v
    BY <1>1
  <2> QED BY <2>1, <1>1, PageShift
<1>8. /\ MapSize(ph, base) = gv + (gs - v) + ((v + base) - ALIGN(v + base))
      /\ MapPages(ph, base) = PagesOf(ALIGN(v + base), ALIGN(v + base) + MapSize(ph, base))
  BY DEF MapSize, MapPages
<1> HIDE DEF v, gv, gs, q, r, b, ph
<1> DEFINE s == ALIGN(v)
<1>9. s \in Nat /\ s < gv + gs
  BY <1>4, <1>6
<1> HIDE DEF s
<1>10. MapSize(ph, base) = (gv + gs) - s
  BY <1>1, <1>7, <1>8, <1>9 DEF s
<1>11. MapSize(ph, base) > 0 /\ ALIGN(v + base) + MapSize(ph, base) = base + (gv + gs)
  BY <1>1, <1>7, <1>9, <1>10 DEF s
<1>12. MapPages(ph, base) = PagesOf(base + s, base + (gv + gs))
  BY <1>7, <1>8, <1>11 DEF s
<1>13. s \div PAGE_SIZE = q
  <2>1. PAGE_SIZE * q <= s /\ s < PAGE_SIZE * q + PAGE_SIZE
    BY <1>4, <1>9, LoaderAssumption DEF s
  <2> QED BY <2>1, <1>4, <1>9, PageUnique
<1>14. /\ MapPages(ph, base) \subseteq Nat
       /\ \A p \in Nat : p \in MapPages(ph, base) <=> b + q <= p /\ p <= b + r
  <2> DEFINE e == gv + gs
  <2>1. e \in Nat /\ s < e /\ MapPages(ph, base) = PagesOf(base + s, base + e)
    BY <1>1, <1>9, <1>12
  <2>2. r = (e - 1) \div PAGE_SIZE /\ b = base \div PAGE_SIZE
    BY DEF r, b
  <2> HIDE DEF e
  <2> QED BY <2>1, <2>2, <1>9, <1>13, PagesShift
<1>15. ASSUME NEW h \in Segments(ph)
       PROVE  /\ FilePages(base, ph[h]) \subseteq MapPages(ph, base)
              /\ prog[m].kind = "lib" => MemPages(base, ph[h]) \subseteq MapPages(ph, base)
  <2> DEFINE x == ph[h].vaddr \div PAGE_SIZE
             y == ((ph[h].vaddr + ph[h].filesz) - 1) \div PAGE_SIZE
             z == ((ph[h].vaddr + ph[h].memsz) - 1) \div PAGE_SIZE
  <2>1. x \in Nat /\ y \in Nat /\ z \in Nat /\ q <= x /\ y <= r /\ (prog[m].kind = "lib" => z <= r)
    BY <1>3, SegmentFacts DEF ph
  <2>2. /\ \A p \in MemPages(base, ph[h]) : p \in Nat /\ b + x <= p /\ p <= b + z
        /\ \A p \in FilePages(base, ph[h]) : p \in MemPages(base, ph[h]) /\ p <= b + y
    BY SegmentFacts DEF ph, b
  <2> HIDE DEF x, y, z
  <2> QED BY <2>1, <2>2, <1>4, <1>14
<1>16. \A p \in MapPages(ph, base) : b <= p
  BY <1>4, <1>14
<1> QED BY <1>11, <1>14, <1>15, <1>16 DEF ph, b

(* The kernel has mapped what the executable needs in memory.                *)
LEMMA KernelOwns ==
  ASSUME prog \in Programs, Fits(prog[1]), NEW h \in Segments(prog[1].ph)
  PROVE  OwnPages(KernelPages(prog[1]), 1, 0, prog[1].ph[h])
<1> DEFINE ph == prog[1].ph
           pages(k) == PagesOf(ph[k].vaddr, ph[k].vaddr + ph[k].memsz)
           loads == {k \in DOMAIN ph : ph[k].type = "LOAD"}
<1>1. 1 \in 1 .. Len(prog) /\ prog[1].kind \in {"exe", "lib"}
  BY ProgFacts
<1>2. h \in loads /\ ph[h].vaddr \in Nat
  <2>1. h \in DOMAIN ph /\ ph[h].type = "LOAD"
    BY <1>1, SegmentShape
  <2>2. ph \in Seq(Phdr)
    BY <1>1, ProgFacts
  <2> HIDE DEF ph
  <2> QED BY <2>1, <2>2, PhdrFacts
<1>3. MemPages(0, ph[h]) = pages(h)
  <2>1. 0 + ph[h].vaddr = ph[h].vaddr
    BY <1>2
  <2> QED BY <2>1 DEF MemPages
<1>4. KernelPages(prog[1]) = [p \in UNION {pages(k) : k \in loads} |->
                                [own |-> 1, w |-> \E k \in loads : p \in pages(k) /\ ph[k].w]]
  BY DEF KernelPages
<1> HIDE DEF pages, loads
<1>5. ASSUME NEW p \in pages(h)
      PROVE  /\ p \in DOMAIN KernelPages(prog[1])
             /\ KernelPages(prog[1])[p].own = 1
             /\ ph[h].w => KernelPages(prog[1])[p].w
  <2>1. p \in UNION {pages(k) : k \in loads}
    BY <1>2
  <2>2. KernelPages(prog[1])[p] = [own |-> 1, w |-> \E k \in loads : p \in pages(k) /\ ph[k].w]
    BY <1>4, <2>1
  <2>3. KernelPages(prog[1])[p].w = \E k \in loads : p \in pages(k) /\ ph[k].w
    BY <2>2
  <2>4. ph[h].w => \E k \in loads : p \in pages(k) /\ ph[k].w
    BY <1>2
  <2> QED BY <1>4, <2>1, <2>2, <2>3, <2>4
<1> QED BY <1>3, <1>5 DEF OwnPages

(* Load addresses are multiples of the size of a page.                       *)
LEMMA NextAddrFacts ==
  ASSUME position \in Nat
  PROVE  NextAddr \in Nat /\ NextAddr = ALIGN(NextAddr) /\ ALIGN(0) = 0
<1> DEFINE q == position \div PAGE_SIZE
<1>1. q \in Nat /\ ALIGN(position) = PAGE_SIZE * q
  BY PageOf
<1>2. NextAddr = ALIGN(position) + 3 * PAGE_SIZE
  BY DEF NextAddr
<1> HIDE DEF q
<1>3. NextAddr = PAGE_SIZE * (q + 3)
  BY <1>1, <1>2, LoaderAssumption
<1>4. q + 3 \in Nat /\ PAGE_SIZE * (q + 3) \in Nat
  BY <1>1, LoaderAssumption
<1>5. (PAGE_SIZE * (q + 3)) \div PAGE_SIZE = q + 3
  <2> DEFINE x == PAGE_SIZE * (q + 3)
             k == q + 3
  <2>1. x \in Nat /\ k \in Nat /\ x = PAGE_SIZE * k
    BY <1>4
  <2> HIDE DEF x, k
  <2>2. PAGE_SIZE * k <= x /\ x < PAGE_SIZE * k + PAGE_SIZE
    BY <2>1, LoaderAssumption
  <2>3. x \div PAGE_SIZE = k
    BY <2>1, <2>2, PageUnique
  <2> QED BY <2>3 DEF x, k
<1>6. ALIGN(0) = 0
  BY LoaderAssumption DEF ALIGN
<1> QED BY <1>3, <1>4, <1>5, <1>6 DEF ALIGN

(* A mapping made over others.                                               *)
LEMMA OverrideFacts ==
  ASSUME NEW f, NEW g
  PROVE  /\ DOMAIN Override(f, g) = DOMAIN f \union DOMAIN g
         /\ \A x \in DOMAIN g : Override(f, g)[x] = g[x]
         /\ \A x \in DOMAIN f \ DOMAIN g : Override(f, g)[x] = f[x]
BY DEF Override

(* allocate_map() makes room for the contents of every segment; the .bss of   *)
(* the executable is where the kernel put it.                                *)
LEMMA LoadMapObject ==
  ASSUME ListInv, LoadInv, MapObject
  PROVE  LoadInv'
<1> DEFINE ph == prog[n].ph
           a == IF offset # 0 THEN NextAddr ELSE 0
           S == MapPages(ph, a)
<1>1. /\ prog \in Programs /\ n \in 1 .. Len(prog) /\ prog[n].kind \in {"exe", "lib"}
      /\ prog' = prog /\ n' = n /\ pc = "entry" /\ pc' \in {"load", "exit"} /\ a \in Nat /\ position \in Nat
  <2>1. TypeOK
    BY MapObjectFacts
  <2> QED BY <2>1, MapObjectFacts, TypeFacts
<1>2. a = ALIGN(a)
  BY <1>1, NextAddrFacts
<1>3. node'[new'].l_addr = a /\ j' = 1 /\ load' = FALSE
  BY MapObjectFacts DEF NewRecord
<1>4. CASE ~Fits(prog[n])
  BY <1>1, <1>4 DEF LoadInv
<1>5. CASE Fits(prog[n])
  <2>1. /\ MapSize(ph, a) > 0
        /\ \A h \in Segments(ph) :
             /\ FilePages(a, ph[h]) \subseteq S
             /\ prog[n].kind = "lib" => MemPages(a, ph[h]) \subseteq S
    BY <1>1, <1>2, <1>5, MappingFacts
  <2>2. ~(MapSize(ph, a) <= 0)
    <3> DEFINE x == MapSize(ph, a)
    <3>1. x \in Int
      <4>1. /\ FirstLoad(ph) \in DOMAIN ph /\ AfterLoads(ph) \in DOMAIN ph /\ ph \in Seq(Phdr)
        BY <1>1, LoadsFacts, ProgFacts
      <4> HIDE DEF ph, a
      <4>2. /\ ph[FirstLoad(ph)].vaddr \in Nat /\ ph[AfterLoads(ph)].vaddr \in Nat
            /\ ph[AfterLoads(ph)].filesz \in Nat
        BY <4>1, PhdrFacts
      <4>3. ph[FirstLoad(ph)].vaddr + a \in Nat
        BY <1>1, <4>2
      <4>4. ALIGN(ph[FirstLoad(ph)].vaddr + a) \in Nat
        BY <4>3, PageOf
      <4>5. ASSUME NEW w \in Nat, NEW z \in Nat, NEW v \in Nat, NEW t \in Nat, NEW u \in Nat
            PROVE  w + z - v + t - u \in Int
        OBVIOUS
      <4> QED BY <4>2, <4>3, <4>4, <4>5 DEF MapSize
    <3>2. x > 0
      BY <2>1
    <3> HIDE DEF x
    <3>3. ~(x <= 0)
      BY <3>1, <3>2
    <3> QED BY <3>3 DEF x
  <2>3. pc' = "load" /\ page' = Override(page, [p \in S |-> [own |-> n, w |-> TRUE]])
    BY <2>2, MapObjectFacts
  <2> HIDE DEF a, S
  <2>4. /\ DOMAIN page' = DOMAIN page \union S
        /\ \A p \in S : page'[p] = [own |-> n, w |-> TRUE]
        /\ \A p \in DOMAIN page \ S : page'[p] = page[p]
    BY <2>3 DEF Override
  <2>5. ASSUME NEW h \in Segments(ph)
        PROVE  MappedAt(page', n, a, ph[h])
    <3>1. CASE prog[n].kind = "lib"
      BY <2>1, <2>4, <3>1 DEF MappedAt, OwnPages
    <3>2. CASE prog[n].kind = "exe"
      <4>1. n = 1
        BY <1>1, <3>2, ProgFacts
      <4>2. a = 0
        BY <4>1, MapObjectFacts DEF a
      <4>3. page = KernelPages(prog[1])
        BY <4>1, <1>1 DEF LoadInv
      <4>4. OwnPages(page, n, a, ph[h])
        BY <4>1, <4>2, <4>3, <1>5, <1>1, KernelOwns
      <4> QED BY <4>4, <2>1, <2>4 DEF MappedAt, OwnPages
    <3> QED BY <1>1, <3>1, <3>2
  <2>6. \A h \in Segments(ph) : ~(h < 1)
    <3>1. ph \in Seq(Phdr) /\ FirstLoad(ph) \in DOMAIN ph /\ FirstLoad(ph) \in Nat /\ AfterLoads(ph) \in Nat
      BY <1>1, <1>5, LoadsFacts, ProgFacts, SegmentShape
    <3>2. FirstLoad(ph) >= 1
      <4> HIDE DEF ph
      <4> QED BY <3>1, PhdrFacts
    <3> QED BY <3>1, <3>2 DEF Segments
  <2>7. ~(1 > FirstLoad(ph))
    <3>1. FirstLoad(ph) \in Segments(ph) /\ FirstLoad(ph) \in Nat
      BY <1>1, <1>5, SegmentShape
    <3> QED BY <3>1, <2>6
  <2>8. LoadingInv'
    BY <1>1, <1>2, <1>3, <2>5, <2>6, <2>7 DEF LoadingInv
  <2> QED BY <1>1, <2>3, <2>8 DEF LoadInv
<1> QED BY <1>4, <1>5

LEMMA InPages ==
  ASSUME NEW lo \in Nat, NEW hi \in Nat, NEW x \in Nat, lo <= x, x < hi
  PROVE  x \div PAGE_SIZE \in PagesOf(lo, hi)
<1>1. hi - 1 \in Nat /\ x <= hi - 1 /\ lo < hi
  OBVIOUS
<1>2. /\ lo \div PAGE_SIZE <= x \div PAGE_SIZE /\ x \div PAGE_SIZE <= (hi - 1) \div PAGE_SIZE
      /\ x \div PAGE_SIZE \in Nat
  BY <1>1, PageMonotone, PageOf
<1> QED BY <1>1, <1>2, PagesOfFacts

(* A read into pages that are all there and writable is not cut short.        *)
LEMMA ReadAll ==
  ASSUME NEW addr \in Nat, NEW size \in Nat,
         \A p \in PagesOf(addr, addr + size) : p \in DOMAIN page /\ page[p].w = TRUE
  PROVE  ReadLen(addr, size) = size
<1> DEFINE r == ReadLen(addr, size)
<1>1. /\ r \in 0 .. size
      /\ r < size => \/ (addr + r) \div PAGE_SIZE \notin DOMAIN page
                     \/ ~page[(addr + r) \div PAGE_SIZE].w
  BY ReadLenFacts
<1> HIDE DEF r
<1>2. CASE r < size
  <2> DEFINE x == addr + r
             e == addr + size
  <2>1. x \in Nat /\ e \in Nat /\ addr <= x /\ x < e
    BY <1>1, <1>2
  <2> HIDE DEF x, e
  <2>2. x \div PAGE_SIZE \in PagesOf(addr, e)
    BY <2>1, InPages
  <2>3. x \div PAGE_SIZE \in DOMAIN page /\ page[x \div PAGE_SIZE].w = TRUE
    BY <2>2 DEF e
  <2> QED BY <1>1, <1>2, <2>3 DEF x
<1> QED BY <1>1, <1>2 DEF r

(* A segment of an object of the expected layout is read as a whole, and      *)
(* mprotect() touches no page of another segment.                            *)
LEMMA LoadLoadSegment ==
  ASSUME ListInv, LoadInv, LoadSegment
  PROVE  LoadInv'
<1> DEFINE ph == prog[n].ph
           a == node[new].l_addr
           s == ph[j]
           addr == s.vaddr + a
           r == ReadLen(addr, s.filesz)
           pages == ProtectPages(addr, r)
<1>1. /\ prog \in Programs /\ n \in 1 .. Len(prog) /\ prog[n].kind \in {"exe", "lib"}
      /\ prog' = prog /\ n' = n /\ node' = node /\ new' = new /\ pc = "load" /\ pc' \in {"load", "exit"}
      /\ a \in Nat /\ j \in DOMAIN ph /\ s.type = "LOAD" /\ s.vaddr \in Nat /\ s.filesz \in Nat
  BY LoadSegmentFacts DEF LoadSegment
<1>2. CASE ~Fits(prog[n])
  BY <1>1, <1>2 DEF LoadInv
<1>3. CASE Fits(prog[n])
  <2>1. LoadingInv
    BY <1>1, <1>3 DEF LoadInv
  <2>2. /\ a = ALIGN(a)
        /\ \A h \in Segments(ph) : h < j => LoadedAt(page, byte, n, a, ph[h])
        /\ \A h \in Segments(ph) : j <= h => MappedAt(page, n, a, ph[h])
    BY <2>1 DEF LoadingInv
  <2>3. j \in Segments(ph)
    BY <1>1, <1>3, SegmentShape
  <2>4. j \in Nat /\ FirstLoad(ph) \in Nat /\ AfterLoads(ph) \in Nat
    BY <1>1, <1>3, <2>3, SegmentShape
  <2>5. /\ FilePages(a, s) \subseteq MemPages(a, s) /\ 0 < s.filesz
        /\ ProtectPages(a + s.vaddr, s.filesz) = FilePages(a, s)
    BY <1>1, <1>3, <2>2, <2>3, SegmentFacts
  <2>6. MappedAt(page, n, a, s)
    BY <2>2, <2>3, <2>4
  <2>7. addr = a + s.vaddr /\ addr \in Nat
    BY <1>1
  <2>8. \A p \in FilePages(a, s) : p \in DOMAIN page /\ page[p].w = TRUE
    BY <2>5, <2>6 DEF MappedAt, OwnPages
  <2> HIDE DEF addr, a
  <2>9. r = s.filesz
    <3>1. FilePages(a, s) = PagesOf(addr, addr + s.filesz)
      BY <2>7 DEF FilePages
    <3> QED BY <3>1, <2>7, <2>8, <1>1, ReadAll
  <2>10. pages = FilePages(a, s)
    BY <2>5, <2>7, <2>9
  <2>11. pages \subseteq DOMAIN page /\ ~(r = 0 /\ s.filesz > 0)
    BY <2>5, <2>8, <2>9, <2>10, <1>1
  <2>12. /\ pc' = "load" /\ position' = addr + s.filesz /\ load' = TRUE /\ j' = j + 1
         /\ byte' = Override(byte, [b \in addr .. (addr + s.filesz - 1) |-> n])
         /\ page' = Override(page, [p \in pages |-> [own |-> page[p].own, w |-> s.w]])
    BY <1>1, <2>9, <2>11, LoadSegmentFacts DEF a, addr
  <2> HIDE DEF r, pages, s
  <2>13. /\ DOMAIN page' = DOMAIN page
         /\ \A p \in pages : page'[p] = [own |-> page[p].own, w |-> s.w]
         /\ \A p \in DOMAIN page \ pages : page'[p] = page[p]
    BY <2>11, <2>12 DEF Override
  <2>14. /\ \A b \in DOMAIN byte : b \in DOMAIN byte' /\ (byte[b] = n => byte'[b] = n)
         /\ \A b \in Contents(a, s) : b \in DOMAIN byte' /\ byte'[b] = n
    <3> DEFINE C == addr .. (addr + s.filesz - 1)
    <3>1. C = Contents(a, s)
      BY <2>7 DEF Contents
    <3> HIDE DEF C
    <3>2. /\ DOMAIN byte' = DOMAIN byte \union C
          /\ \A b \in C : byte'[b] = n
          /\ \A b \in DOMAIN byte \ C : byte'[b] = byte[b]
      BY <2>12 DEF Override, C
    <3> QED BY <3>1, <3>2
  <2>15. LoadedAt(page', byte', n, a, s)
    <3> DEFINE rec(p) == [own |-> page[p].own, w |-> s.w]
    <3>1. \A p \in pages : rec(p).own = page[p].own /\ rec(p).w = s.w
      OBVIOUS
    <3>2. \A p \in pages : page'[p] = rec(p)
      BY <2>13
    <3> HIDE DEF rec
    <3>3. \A p \in pages : page'[p].own = page[p].own /\ page'[p].w = s.w
      BY <3>1, <3>2
    <3>4. OwnPages(page', n, a, s)
      <4> SUFFICES ASSUME NEW p \in MemPages(a, s)
                   PROVE  p \in DOMAIN page' /\ page'[p].own = n /\ (s.w => page'[p].w)
        BY DEF OwnPages
      <4>1. p \in DOMAIN page /\ page[p].own = n /\ (s.w => page[p].w)
        BY <2>6 DEF MappedAt, OwnPages
      <4>2. CASE p \in pages
        BY <4>1, <4>2, <3>3, <2>13
      <4>3. CASE p \notin pages
        BY <4>1, <4>3, <2>13
      <4> QED BY <4>2, <4>3
    <3>5. \A p \in FilePages(a, s) : page'[p].w = s.w
      BY <2>10, <3>3
    <3> QED BY <3>4, <3>5, <2>14 DEF LoadedAt
  <2>16. ASSUME NEW h \in Segments(ph), h # j
         PROVE  /\ \A p \in MemPages(a, ph[h]) : p \in DOMAIN page => p \in DOMAIN page' /\ page'[p] = page[p]
                /\ FilePages(a, ph[h]) \subseteq MemPages(a, ph[h])
    <3>1. \A p \in MemPages(a, ph[h]) : p \notin MemPages(a, s)
      BY <1>1, <1>3, <2>2, <2>3, <2>16, SegmentsApart DEF a, s
    <3>2. \A p \in MemPages(a, ph[h]) : p \notin pages
      BY <2>5, <2>10, <3>1
    <3>3. FilePages(a, ph[h]) \subseteq MemPages(a, ph[h])
      BY <1>1, <1>3, <2>2, <2>16, SegmentFacts DEF a
    <3> QED BY <2>13, <3>2, <3>3
  <2>17. ASSUME NEW h \in Segments(ph), h < j + 1
         PROVE  LoadedAt(page', byte', n, a, ph[h])
    <3>1. CASE h = j
      BY <3>1, <2>15 DEF s
    <3>2. CASE h # j
      <4>1. h < j
        BY <2>4, <2>17, <3>2 DEF Segments
      <4>2. LoadedAt(page, byte, n, a, ph[h])
        BY <2>2, <4>1
      <4> QED BY <3>2, <4>2, <2>14, <2>16 DEF LoadedAt, OwnPages
    <3> QED BY <3>1, <3>2
  <2>18. ASSUME NEW h \in Segments(ph), j + 1 <= h
         PROVE  MappedAt(page', n, a, ph[h])
    <3>1. h # j /\ j <= h
      BY <2>4, <2>18 DEF Segments
    <3>2. MappedAt(page, n, a, ph[h])
      BY <2>2, <3>1
    <3> QED BY <3>1, <3>2, <2>16 DEF MappedAt, OwnPages
  <2>19. ASSUME NEW h \in Segments(ph), h < j + 1, h + 1 < j + 1 => h = AfterLoads(ph) - 1
         PROVE  position' = a + ph[h].vaddr + ph[h].filesz
    <3>1. h = j
      BY <2>3, <2>4, <2>19 DEF Segments
    <3> QED BY <3>1, <2>7, <2>12 DEF s
  <2>20. load' <=> j + 1 > FirstLoad(ph)
    BY <2>3, <2>4, <2>12 DEF Segments
  <2>21. LoadingInv'
    <3>1. prog'[n'].ph = ph /\ node'[new'].l_addr = a /\ j' = j + 1 /\ n' = n
      BY <1>1, <2>12 DEF a
    <3> HIDE DEF ph
    <3> QED BY <3>1, <2>2, <2>17, <2>18, <2>19, <2>20 DEF LoadingInv
  <2> QED BY <1>1, <2>12, <2>21 DEF LoadInv
<1> QED BY <1>2, <1>3

LEMMA LoadPassHeader ==
  ASSUME ListInv, LoadInv, PassHeader
  PROVE  LoadInv'
<1> DEFINE ph == prog[n].ph
           a == node[new].l_addr
<1>1. /\ prog \in Programs /\ n \in 1 .. Len(prog) /\ prog[n].kind \in {"exe", "lib"}
      /\ prog' = prog /\ n' = n /\ new' = new /\ pc = "load" /\ pc' = "load" /\ j' = j + 1
      /\ load' = load /\ page' = page /\ byte' = byte /\ position' = position
      /\ j \in DOMAIN ph /\ ph[j].type # "LOAD" /\ node'[new'].l_addr = a
  <2>1. TypeOK /\ prog[n].kind \in {"exe", "lib"} /\ ph[j].type # "LOAD"
    BY PassHeaderFacts DEF ListInv, Counts, Loading, PassHeader
  <2>2. new \in 1 .. Len(node)
    BY <2>1, TypeFacts
  <2> QED BY <2>1, <2>2, PassHeaderFacts
<1>2. CASE ~Fits(prog[n])
  BY <1>1, <1>2 DEF LoadInv
<1>3. CASE Fits(prog[n])
  <2>1. LoadingInv
    BY <1>1, <1>3 DEF LoadInv
  <2>2. /\ j \notin Segments(ph) /\ FirstLoad(ph) \in Segments(ph)
        /\ FirstLoad(ph) \in Nat /\ AfterLoads(ph) \in Nat
    BY <1>1, <1>3, SegmentShape
  <2>3. j \in Nat
    BY <1>1, TypeFacts DEF ListInv
  <2>4. /\ \A h \in Segments(ph) : h \in Nat /\ (h < j + 1 <=> h < j) /\ (j + 1 <= h <=> j <= h)
        /\ j + 1 > FirstLoad(ph) <=> j > FirstLoad(ph)
    BY <2>2, <2>3 DEF Segments
  <2>5. ASSUME NEW h \in Segments(ph), h < j + 1, h + 1 < j + 1 => h = AfterLoads(ph) - 1
        PROVE  position = a + ph[h].vaddr + ph[h].filesz
    <3>1. h < j /\ h = AfterLoads(ph) - 1
      BY <2>3, <2>4, <2>5
    <3> QED BY <3>1, <2>1 DEF LoadingInv
  <2> HIDE DEF a
  <2>6. /\ a = ALIGN(a)
        /\ load <=> j > FirstLoad(ph)
        /\ \A h \in Segments(ph) : h < j => LoadedAt(page, byte, n, a, ph[h])
        /\ \A h \in Segments(ph) : j <= h => MappedAt(page, n, a, ph[h])
    BY <2>1 DEF LoadingInv, a
  <2>7. LoadingInv'
    <3>1. prog'[n'].ph = ph /\ node'[new'].l_addr = a /\ j' = j + 1 /\ n' = n
      BY <1>1 DEF a
    <3> HIDE DEF ph
    <3> QED BY <3>1, <1>1, <2>4, <2>5, <2>6 DEF LoadingInv
  <2> QED BY <1>1, <2>7 DEF LoadInv
<1> QED BY <1>2, <1>3

LEMMA LoadStep ==
  ASSUME ListInv, LoadInv, [Next]_vars
  PROVE  LoadInv'
<1>1. CASE LinkKernelObject
  <2>1. n' = n + 1 /\ pc' = "entry" /\ n \in 1 .. (Len(prog) + 1) /\ Len(prog) \in Nat
    BY <1>1, ProgFacts, TypeFacts DEF ListInv, LinkKernelObject, Link
  <2> QED BY <2>1 DEF LoadInv
<1>2. CASE MapObject
  BY <1>2, LoadMapObject
<1>3. CASE LoadSegment
  BY <1>3, LoadLoadSegment
<1>4. CASE PassHeader
  BY <1>4, LoadPassHeader
<1>5. CASE FinishObject
  <2>1. n' = n + 1 /\ pc' = "entry" /\ n \in 1 .. (Len(prog) + 1) /\ Len(prog) \in Nat
    BY <1>5, ProgFacts, TypeFacts DEF ListInv, FinishObject, LinkLoaded, Link
  <2> QED BY <2>1 DEF LoadInv
<1>6. CASE Finish
  BY <1>6 DEF Finish, LoadInv
<1>7. CASE UNCHANGED vars
  <2>1. LoadingInv <=> LoadingInv'
    BY <1>7 DEF vars, LoadingInv
  <2> QED BY <1>7, <2>1 DEF vars, LoadInv
<1> QED BY <1>1, <1>2, <1>3, <1>4, <1>5, <1>6, <1>7 DEF Next

LEMMA LoadIsInvariant == Spec => []LoadInv
<1>1. Init => LoadInv
  BY DEF Init, LoadInv
<1> QED BY <1>1, ListIsInvariant, LoadStep, PTL DEF Spec

(* Whatever is mapped already and wherever an object is loaded, mmap(),       *)
(* read() and mprotect() succeed for it when its headers are as expected.     *)
THEOREM GoodObjectsLoad == Spec => []ExitsOnlyOnMisfit
<1>1. LoadInv => ExitsOnlyOnMisfit
  BY DEF LoadInv, ExitsOnlyOnMisfit
<1> QED BY <1>1, LoadIsInvariant, PTL

(* A list with a link_map for each entry had one for each before, and the     *)
(* link_maps of those entries keep their load address.                       *)
LEMMA NoWrapBefore ==
  ASSUME ListInv, Next, NoWrap'
  PROVE  /\ NoWrap /\ prog' = prog
         /\ \A m \in 1 .. (n - 1) : node'[m].l_addr = node[m].l_addr
<1>1. CASE LinkKernelObject
  <2> DEFINE s == WithNew(IF prog[n].kind = "ld.so" THEN BASE ELSE VDSO)
  <2>1. /\ prog' = prog /\ pc = "entry" /\ pc' = pc /\ n > 1 /\ n \in Nat /\ n' = n + 1
        /\ Len(node) <= n - 1 /\ Len(node) \in Nat /\ offset' = offset /\ Len(node') = Len(s)
        /\ Len(s) = IF offset # 0 THEN Len(node) + 1 ELSE Len(node)
        /\ s \in Seq(LinkMap) /\ map \in 1 .. Len(s)
        /\ node'[map] = [s[map] EXCEPT !.l_next = NewId]
    BY <1>1, LinkKernelFacts
  <2>2. /\ \A i \in 1 .. Len(node) : i # NewId => s[i] = node[i]
        /\ \A i \in 1 .. Len(s) : i # map => node'[i] = s[i]
    BY <1>1, LinkKernelFacts
  <2> HIDE DEF s
  <2>3. offset # 0 /\ Len(node) = n - 1
    BY <2>1 DEF NoWrap
  <2>4. NoWrap
    BY <2>1, <2>3 DEF NoWrap
  <2>5. ASSUME NEW m \in 1 .. (n - 1)
        PROVE  node'[m].l_addr = node[m].l_addr
    <3>1. s[m] = node[m] /\ m \in 1 .. Len(s)
      BY <2>1, <2>2, <2>3 DEF NewId
    <3>2. CASE m = map
      <4>1. s[m] \in LinkMap
        BY <2>1, <3>1
      <4>2. node'[m] = [s[m] EXCEPT !.l_next = NewId]
        BY <2>1, <3>2
      <4> QED BY <3>1, <4>1, <4>2 DEF LinkMap
    <3>3. CASE m # map
      BY <2>2, <3>1, <3>3
    <3> QED BY <3>2, <3>3
  <2> QED BY <2>1, <2>4, <2>5
<1>2. CASE MapObject
  <2>1. /\ prog' = prog /\ pc = "entry" /\ pc' \in {"load", "exit"} /\ n' = n /\ n \in 1 .. Len(prog)
        /\ Len(prog) \in Nat /\ offset' = offset /\ Len(node) \in Nat
        /\ Len(node') = IF offset # 0 THEN Len(node) + 1 ELSE Len(node)
        /\ n = 1 => Len(node) = 1
    BY <1>2, MapObjectFacts
  <2>2. \A i \in 1 .. Len(node) : i # NewId => node'[i] = node[i]
    BY <1>2, MapObjectFacts
  <2>3. n > 1 => offset # 0 /\ Len(node') >= n
    BY <2>1 DEF NoWrap
  <2>4. n > 1 => Len(node) >= n - 1
    BY <2>1, <2>3
  <2>5. NoWrap
    BY <2>1, <2>3, <2>4 DEF NoWrap
  <2>6. ASSUME NEW m \in 1 .. (n - 1)
        PROVE  node'[m] = node[m]
    <3>1. n > 1
      BY <2>1
    <3>2. offset # 0 /\ m \in 1 .. Len(node) /\ m # NewId
      <4>1. Len(node) >= n - 1 /\ offset # 0
        BY <2>3, <2>4, <3>1
      <4>2. m \in 1 .. Len(node)
        BY <4>1, <2>1
      <4> QED BY <4>1, <4>2, <2>1 DEF NewId
    <3> QED BY <2>2, <3>2
  <2> QED BY <2>1, <2>5, <2>6
<1>3. CASE LoadSegment
  <2>1. /\ prog' = prog /\ pc = "load" /\ pc' \in {"load", "exit"} /\ n' = n
        /\ node' = node /\ offset' = offset
    BY <1>3, LoadSegmentFacts
  <2> QED BY <2>1 DEF NoWrap
<1>4. CASE PassHeader
  <2>1. /\ prog' = prog /\ pc = "load" /\ pc' = "load" /\ n' = n
        /\ offset' = offset /\ Len(node') = Len(node)
    BY <1>4, PassHeaderFacts
  <2>2. NoWrap /\ Len(node) >= n
    BY <2>1 DEF NoWrap
  <2>3. n \in Nat /\ Len(node) \in Nat
    BY TypeFacts DEF ListInv
  <2>4. \A m \in 1 .. Len(node) : node'[m].l_addr = node[m].l_addr
    BY <1>4, PassHeaderFacts
  <2> QED BY <2>1, <2>2, <2>3, <2>4
<1>5. CASE FinishObject
  <2>1. /\ prog' = prog /\ pc = "load" /\ pc' = "entry" /\ n' = n + 1 /\ TypeOK
    BY <1>5 DEF FinishObject, LinkLoaded, Link, ListInv
  <2>2. /\ n \in Nat /\ Len(node) \in Nat /\ node \in Seq(LinkMap) /\ map \in 1 .. Len(node)
        /\ new \in 1 .. Len(node) /\ n \in 1 .. (Len(prog) + 1)
    BY <2>1, TypeFacts
  <2>3. Len(node') = Len(node) /\ \A m \in 1 .. Len(node) : node'[m].l_addr = node[m].l_addr
    <3>1. CASE node' = node
      BY <3>1
    <3>2. CASE node' = Linked(node, map, new)
      <4>1. new \in 0 .. Len(prog)
        <5>1. prog \in Programs /\ n <= Len(prog) /\ Len(node) <= n /\ Len(prog) \in Nat
          <6>1. prog \in Programs /\ n <= Len(prog)
            BY <2>1 DEF ListInv, Counts, Loading
          <6>2. n = 1 => Len(node) = 1
            BY DEF ListInv, Counts
          <6>3. n > 1 => Len(node) <= n
            BY <2>2 DEF ListInv, Counts
          <6>4. n = 1 \/ n > 1
            BY <2>2
          <6>5. Len(node) <= n
            <7>1. CASE n = 1
              <8>1. Len(node) = 1
                BY <7>1, <6>2
              <8> QED BY <8>1, <7>1
            <7> QED BY <7>1, <6>3, <6>4
          <6> QED BY <6>1, <6>5, ProgFacts
        <5> QED BY <5>1, <2>2
      <4>2. /\ Len(node') = Len(node) /\ node'[map] = [node[map] EXCEPT !.l_next = new]
            /\ \A i \in 1 .. Len(node) : i # map => node'[i] = node[i]
        BY <2>2, <3>2, <4>1, LinkedFacts
      <4>3. node[map] \in LinkMap
        BY <2>2
      <4>4. node'[map].l_addr = node[map].l_addr
        BY <4>2, <4>3 DEF LinkMap
      <4> QED BY <4>2, <4>4
    <3> QED BY <1>5, <3>1, <3>2 DEF FinishObject, LinkLoaded, Link, Linked
  <2>4. Len(node) >= n
    BY <2>1, <2>2, <2>3 DEF NoWrap
  <2>5. n > 1 => offset # 0
    <3>1. CASE offset = 0
      BY <2>2, <2>4, <3>1 DEF ListInv, Counts
    <3> QED BY <3>1
  <2>6. NoWrap
    BY <2>1, <2>4, <2>5 DEF NoWrap
  <2> QED BY <2>1, <2>2, <2>3, <2>4, <2>6
<1>6. CASE Finish
  BY <1>6 DEF Finish, NoWrap
<1> QED BY <1>1, <1>2, <1>3, <1>4, <1>5, <1>6 DEF Next

(* What ends below an address that begins a page is in pages before it.       *)
LEMMA BelowFacts ==
  ASSUME NEW a \in Nat, NEW v \in Nat, NEW fs \in Nat, NEW ms \in Nat, 0 < fs, fs <= ms,
         NEW lim \in Nat, lim = ALIGN(lim), a + v + ms <= lim
  PROVE  /\ \A p \in PagesOf(a + v, a + v + ms) : p \in Nat /\ p < lim \div PAGE_SIZE
         /\ PagesOf(a + v, a + v + fs) \subseteq PagesOf(a + v, a + v + ms)
         /\ \A b \in a + v .. (a + v + fs - 1) :
              b \in Nat /\ b < lim /\ b \div PAGE_SIZE < lim \div PAGE_SIZE
<1> DEFINE lo == a + v
           mid == a + v + fs
           hi == a + v + ms
           k == lim \div PAGE_SIZE
<1>1. /\ lo \in Nat /\ mid \in Nat /\ hi \in Nat /\ lo < mid /\ mid <= hi /\ hi <= lim
      /\ a + v + fs - 1 = mid - 1
  OBVIOUS
<1>2. k \in Nat /\ lim = PAGE_SIZE * k
  BY PageOf
<1> HIDE DEF lo, mid, hi, k
<1>3. ASSUME NEW x \in Nat, x < lim
      PROVE  x \div PAGE_SIZE \in Nat /\ x \div PAGE_SIZE < k
  <2> DEFINE q == x \div PAGE_SIZE
  <2>1. q \in Nat /\ PAGE_SIZE * q <= x /\ PAGE_SIZE * q \in Nat
    BY PageOf
  <2> HIDE DEF q
  <2>2. ASSUME k <= q PROVE FALSE
    <3>1. PAGE_SIZE * k <= PAGE_SIZE * q
      BY <2>1, <2>2, <1>2, TimesPage
    <3> QED BY <3>1, <2>1, <1>2, <1>3
  <2>3. q < k
    BY <2>1, <2>2, <1>2
  <2> QED BY <2>1, <2>3 DEF q
<1>4. ASSUME NEW p \in PagesOf(lo, hi)
      PROVE  p \in Nat /\ p < k
  <2>1. p \in Nat /\ p <= (hi - 1) \div PAGE_SIZE
    BY <1>1, PagesOfFacts
  <2>2. hi - 1 \in Nat /\ hi - 1 < lim
    BY <1>1
  <2>3. (hi - 1) \div PAGE_SIZE < k /\ (hi - 1) \div PAGE_SIZE \in Nat
    BY <2>2, <1>3
  <2> QED BY <2>1, <2>3, <1>2
<1>5. ASSUME NEW p \in PagesOf(lo, mid)
      PROVE  p \in PagesOf(lo, hi)
  <2>1. p \in Nat /\ lo \div PAGE_SIZE <= p /\ p <= (mid - 1) \div PAGE_SIZE
    BY <1>1, PagesOfFacts
  <2>2. mid - 1 \in Nat /\ hi - 1 \in Nat /\ mid - 1 <= hi - 1
    BY <1>1
  <2>3. /\ (mid - 1) \div PAGE_SIZE <= (hi - 1) \div PAGE_SIZE
        /\ (mid - 1) \div PAGE_SIZE \in Nat /\ (hi - 1) \div PAGE_SIZE \in Nat
    BY <2>2, PageMonotone, PageOf
  <2>4. p <= (hi - 1) \div PAGE_SIZE
    BY <2>1, <2>3
  <2> QED BY <2>1, <2>4, <1>1, PagesOfFacts
<1>6. ASSUME NEW b \in lo .. (mid - 1)
      PROVE  b \in Nat /\ b < lim /\ b \div PAGE_SIZE < k
  <2>1. b \in Nat /\ b < lim
    BY <1>1
  <2> QED BY <2>1, <1>3
<1> QED BY <1>1, <1>4, <1>5, <1>6 DEF lo, mid, hi, k

(* Changes behind an image leave it as it is.                                *)
LEMMA ImageStays ==
  ASSUME prog \in Programs, NEW m \in 1 .. Len(prog), prog[m].kind \in {"exe", "lib"}, Fits(prog[m]),
         NEW a \in Nat, NEW lim \in Nat, lim = ALIGN(lim),
         NEW pg, NEW bt, NEW pg2, NEW bt2,
         ImageAt(prog[m].ph, m, a, lim, pg, bt),
         \A p \in DOMAIN pg : p \in Nat /\ p < lim \div PAGE_SIZE => p \in DOMAIN pg2 /\ pg2[p] = pg[p],
         \A b \in DOMAIN bt : b \in Nat /\ b < lim /\ b \div PAGE_SIZE < lim \div PAGE_SIZE =>
           b \in DOMAIN bt2 /\ bt2[b] = bt[b]
  PROVE  ImageAt(prog[m].ph, m, a, lim, pg2, bt2)
<1> DEFINE ph == prog[m].ph
<1>1. SUFFICES ASSUME NEW h \in Segments(ph)
               PROVE  LoadedAt(pg2, bt2, m, a, ph[h]) /\ a + ph[h].vaddr + ph[h].memsz <= lim
  BY DEF ImageAt
<1>2. LoadedAt(pg, bt, m, a, ph[h]) /\ a + ph[h].vaddr + ph[h].memsz <= lim
  BY DEF ImageAt
<1>3. /\ ph[h].vaddr \in Nat /\ ph[h].filesz \in Nat /\ ph[h].memsz \in Nat
      /\ 0 < ph[h].filesz /\ ph[h].filesz <= ph[h].memsz
  <2>1. 0 \in Nat /\ 0 = ALIGN(0)
    BY LoaderAssumption DEF ALIGN
  <2> QED BY <2>1, SegmentShape
<1> HIDE DEF ph
<1>4. /\ \A p \in MemPages(a, ph[h]) : p \in Nat /\ p < lim \div PAGE_SIZE
      /\ FilePages(a, ph[h]) \subseteq MemPages(a, ph[h])
      /\ \A b \in Contents(a, ph[h]) : b \in Nat /\ b < lim /\ b \div PAGE_SIZE < lim \div PAGE_SIZE
  <2> DEFINE v == ph[h].vaddr
             fs == ph[h].filesz
             ms == ph[h].memsz
  <2>1. v \in Nat /\ fs \in Nat /\ ms \in Nat /\ 0 < fs /\ fs <= ms /\ a + v + ms <= lim
    BY <1>2, <1>3
  <2>2. /\ MemPages(a, ph[h]) = PagesOf(a + v, a + v + ms)
        /\ FilePages(a, ph[h]) = PagesOf(a + v, a + v + fs)
        /\ Contents(a, ph[h]) = a + v .. (a + v + fs - 1)
    BY DEF MemPages, FilePages, Contents
  <2> HIDE DEF v, fs, ms
  <2>3. /\ \A p \in PagesOf(a + v, a + v + ms) : p \in Nat /\ p < lim \div PAGE_SIZE
        /\ PagesOf(a + v, a + v + fs) \subseteq PagesOf(a + v, a + v + ms)
        /\ \A b \in a + v .. (a + v + fs - 1) :
             b \in Nat /\ b < lim /\ b \div PAGE_SIZE < lim \div PAGE_SIZE
    BY <2>1, BelowFacts
  <2> QED BY <2>2, <2>3
<1>5. \A p \in MemPages(a, ph[h]) : p \in DOMAIN pg2 /\ pg2[p] = pg[p]
  BY <1>2, <1>4 DEF LoadedAt, OwnPages
<1>6. \A b \in Contents(a, ph[h]) : b \in DOMAIN bt2 /\ bt2[b] = bt[b]
  BY <1>2, <1>4 DEF LoadedAt
<1> QED BY <1>2, <1>4, <1>5, <1>6 DEF LoadedAt, OwnPages

(* What ImagesInv says of the entries before n, as a step finds it.           *)
LEMMA ImagesBefore ==
  ASSUME ListInv, ImagesInv, Next, Sound', pc # "exit"
  PROVE  /\ prog \in Programs /\ prog' = prog /\ Sound /\ NoWrap
         /\ n > 1 => Limit = ALIGN(Limit)
         /\ \A m \in 1 .. (n - 1) : prog[m].kind \in {"exe", "lib"} =>
              /\ m \in 1 .. Len(prog) /\ Fits(prog[m]) /\ node[m].l_addr \in Nat
              /\ node'[m].l_addr = node[m].l_addr
              /\ ImageAt(prog[m].ph, m, node[m].l_addr, Limit, page, byte)
<1>1. NoWrap /\ prog' = prog /\ \A m \in 1 .. (n - 1) : node'[m].l_addr = node[m].l_addr
  BY NoWrapBefore DEF Sound
<1>2. prog \in Programs /\ TypeOK
  BY DEF ListInv
<1>3. /\ n \in 1 .. (Len(prog) + 1) /\ Len(prog) \in Nat /\ DOMAIN prog = 1 .. Len(prog)
      /\ node \in Seq(LinkMap) /\ Len(node) \in Nat
  BY <1>2, ProgFacts, TypeFacts
<1>4. Sound
  BY <1>1 DEF Sound
<1>5. ASSUME NEW m \in 1 .. (n - 1)
      PROVE  m \in 1 .. Len(prog) /\ node[m].l_addr \in Nat
  <2>1. Len(node) >= n - 1
    BY <1>1, <1>3 DEF NoWrap
  <2>2. m \in 1 .. Len(node) /\ m \in 1 .. Len(prog)
    BY <1>3, <2>1
  <2>3. node[m] \in LinkMap
    BY <1>3, <2>2
  <2> QED BY <2>2, <2>3 DEF LinkMap
<1> QED BY <1>1, <1>2, <1>3, <1>4, <1>5 DEF ImagesInv, Sound

(* A library is mapped behind what is loaded.                                *)
LEMMA ImagesMapObject ==
  ASSUME ListInv, LoadInv, ImagesInv, MapObject
  PROVE  ImagesInv'
<1> SUFFICES ASSUME Sound', pc' # "exit"
             PROVE  /\ n' > 1 => (Limit = ALIGN(Limit))'
                    /\ \A m \in 1 .. (n' - 1) : prog'[m].kind \in {"exe", "lib"} =>
                         ImageAt(prog'[m].ph, m, node'[m].l_addr, Limit', page', byte')
  BY DEF ImagesInv
<1> DEFINE a == IF offset # 0 THEN NextAddr ELSE 0
           S == MapPages(prog[n].ph, a)
<1>1. /\ pc = "entry" /\ pc' = "load" /\ n' = n /\ n \in 1 .. Len(prog) /\ Len(prog) \in Nat
      /\ prog[n].kind \in {"exe", "lib"} /\ a \in Nat /\ TypeOK
      /\ page' = Override(page, [p \in S |-> [own |-> n, w |-> TRUE]])
      /\ byte' = Discard(byte, BytesOf(S))
      /\ node'[new'].l_addr = a
  BY MapObjectFacts DEF NewRecord
<1>2. /\ prog \in Programs /\ prog' = prog /\ Sound /\ NoWrap
      /\ \A m \in 1 .. (n - 1) : prog[m].kind \in {"exe", "lib"} =>
           /\ m \in 1 .. Len(prog) /\ Fits(prog[m]) /\ node[m].l_addr \in Nat
           /\ node'[m].l_addr = node[m].l_addr
           /\ ImageAt(prog[m].ph, m, node[m].l_addr, Limit, page, byte)
  <2>1. Next
    BY DEF Next
  <2> QED BY <1>1, <2>1, ImagesBefore
<1>3. Limit' = a /\ a = ALIGN(a) /\ (n > 1 => Limit = a)
  <2>1. n > 1 => offset # 0
    BY <1>2 DEF NoWrap
  <2>2. a = ALIGN(a)
    BY <1>1, TypeFacts, NextAddrFacts
  <2> QED BY <1>1, <2>1, <2>2 DEF Limit
<1>4. S \subseteq Nat /\ \A p \in S : a \div PAGE_SIZE <= p
  <2>1. Fits(prog[n])
    BY <1>1, <1>2, ProgFacts DEF Sound
  <2> QED BY <1>1, <1>2, <1>3, <2>1, MappingFacts
<1> HIDE DEF S
<1>5. a \div PAGE_SIZE \in Nat
  BY <1>1, PageOf
<1>6. ASSUME NEW p \in DOMAIN page, p \in Nat, p < a \div PAGE_SIZE
      PROVE  p \in DOMAIN page' /\ page'[p] = page[p]
  <2>1. p \notin S
    BY <1>4, <1>5, <1>6
  <2> QED BY <1>1, <1>6, <2>1 DEF Override
<1>7. ASSUME NEW b \in DOMAIN byte, b \in Nat, b \div PAGE_SIZE < a \div PAGE_SIZE
      PROVE  b \in DOMAIN byte' /\ byte'[b] = byte[b]
  <2>1. b \div PAGE_SIZE \in Nat
    BY <1>7, PageOf
  <2>2. b \notin BytesOf(S)
    BY <1>4, <1>5, <1>7, <2>1 DEF BytesOf
  <2> QED BY <1>1, <1>7, <2>2 DEF Discard
<1> HIDE DEF a
<1>8. ASSUME NEW m \in 1 .. (n - 1), prog[m].kind \in {"exe", "lib"}
      PROVE  ImageAt(prog[m].ph, m, node[m].l_addr, a, page', byte')
  <2>1. n > 1
    BY <1>1
  <2>2. ImageAt(prog[m].ph, m, node[m].l_addr, a, page, byte)
    BY <1>2, <1>3, <1>8, <2>1
  <2>3. m \in 1 .. Len(prog) /\ Fits(prog[m]) /\ node[m].l_addr \in Nat
    BY <1>2, <1>8
  <2>4. \A p \in DOMAIN page : p \in Nat /\ p < a \div PAGE_SIZE => p \in DOMAIN page' /\ page'[p] = page[p]
    BY <1>6
  <2>5. \A b \in DOMAIN byte : b \in Nat /\ b < a /\ b \div PAGE_SIZE < a \div PAGE_SIZE =>
          b \in DOMAIN byte' /\ byte'[b] = byte[b]
    BY <1>7
  <2>6. a \in Nat /\ a = ALIGN(a)
    BY <1>1, <1>3
  <2> QED BY <1>2, <1>8, <2>2, <2>3, <2>4, <2>5, <2>6, ImageStays
<1> QED BY <1>1, <1>2, <1>3, <1>8

(* What is read, and the permissions that change, are in the object itself.   *)
LEMMA ImagesLoadSegment ==
  ASSUME ListInv, LoadInv, ImagesInv, LoadSegment
  PROVE  ImagesInv'
<1> SUFFICES ASSUME Sound', pc' # "exit"
             PROVE  /\ n' > 1 => (Limit = ALIGN(Limit))'
                    /\ \A m \in 1 .. (n' - 1) : prog'[m].kind \in {"exe", "lib"} =>
                         ImageAt(prog'[m].ph, m, node'[m].l_addr, Limit', page', byte')
  BY DEF ImagesInv
<1> DEFINE s == prog[n].ph[j]
           a == node[new].l_addr
           addr == s.vaddr + a
           r == ReadLen(addr, s.filesz)
           S == ProtectPages(addr, r)
<1>1. /\ pc = "load" /\ pc' = "load" /\ n' = n /\ n \in 1 .. Len(prog) /\ Len(prog) \in Nat
      /\ a \in Nat /\ s.vaddr \in Nat /\ node' = node /\ new' = new /\ r \in Nat
      /\ S \subseteq DOMAIN page
      /\ byte' = Override(byte, [b \in addr .. (addr + r - 1) |-> n])
      /\ page' = Override(page, [p \in S |-> [own |-> page[p].own, w |-> s.w]])
  BY LoadSegmentFacts
<1>2. /\ prog \in Programs /\ prog' = prog /\ Sound /\ NoWrap
      /\ n > 1 => Limit = ALIGN(Limit)
      /\ \A m \in 1 .. (n - 1) : prog[m].kind \in {"exe", "lib"} =>
           /\ m \in 1 .. Len(prog) /\ Fits(prog[m]) /\ node[m].l_addr \in Nat
           /\ ImageAt(prog[m].ph, m, node[m].l_addr, Limit, page, byte)
  <2>1. Next
    BY DEF Next
  <2> QED BY <1>1, <2>1, ImagesBefore
<1>3. Limit' = a /\ Limit = a
  BY <1>1 DEF Limit
<1> HIDE DEF s, r
<1>4. ASSUME n > 1, NEW p \in S
      PROVE  p \in Nat /\ a \div PAGE_SIZE <= p
  <2> DEFINE v == s.vaddr
  <2>1. addr = a + v /\ v \in Nat /\ a = ALIGN(a)
    BY <1>1, <1>2, <1>3, <1>4
  <2> HIDE DEF v, a
  <2>2. ALIGN(addr) = a + ALIGN(v) /\ ALIGN(v) \in Nat
    BY <1>1, <2>1, PageShift, PageOf
  <2>3. ALIGN(addr) \in Nat /\ a <= ALIGN(addr) /\ addr + r \in Nat
    <3>1. addr + r \in Nat
      BY <1>1, <2>1
    <3> DEFINE z == ALIGN(v)
               y == ALIGN(addr)
    <3>2. y = a + z /\ z \in Nat /\ a \in Nat
      BY <1>1, <2>2
    <3> HIDE DEF y, z
    <3>3. y \in Nat /\ a <= y
      BY <3>2
    <3> QED BY <3>1, <3>3 DEF y
  <2>4. S = PagesOf(ALIGN(addr), addr + r)
    BY DEF ProtectPages
  <2> HIDE DEF addr, S
  <2>5. p \in Nat /\ ALIGN(addr) \div PAGE_SIZE <= p
    BY <1>4, <2>3, <2>4, PagesOfFacts
  <2>6. /\ a \div PAGE_SIZE <= ALIGN(addr) \div PAGE_SIZE
        /\ a \div PAGE_SIZE \in Nat /\ ALIGN(addr) \div PAGE_SIZE \in Nat
    BY <1>1, <2>3, PageMonotone, PageOf
  <2> QED BY <2>5, <2>6
<1>5. a \div PAGE_SIZE \in Nat /\ addr \in Nat /\ a <= addr
  <2> DEFINE v == s.vaddr
  <2>1. addr = v + a /\ v \in Nat /\ a \in Nat
    BY <1>1
  <2> HIDE DEF v, a, addr
  <2> QED BY <2>1, PageOf
<1> HIDE DEF S, addr
<1>6. ASSUME n > 1, NEW p \in DOMAIN page, p \in Nat, p < a \div PAGE_SIZE
      PROVE  p \in DOMAIN page' /\ page'[p] = page[p]
  <2>1. p \notin S
    BY <1>4, <1>5, <1>6
  <2> QED BY <1>1, <1>6, <2>1 DEF Override
<1>7. ASSUME NEW b \in DOMAIN byte, b \in Nat, b < a
      PROVE  b \in DOMAIN byte' /\ byte'[b] = byte[b]
  <2> DEFINE C == addr .. (addr + r - 1)
  <2>1. b \notin C
    BY <1>1, <1>5, <1>7
  <2> HIDE DEF C
  <2>2. byte' = Override(byte, [c \in C |-> n])
    BY <1>1 DEF C
  <2> QED BY <1>7, <2>1, <2>2 DEF Override
<1> HIDE DEF a
<1>8. ASSUME NEW m \in 1 .. (n - 1), prog[m].kind \in {"exe", "lib"}
      PROVE  ImageAt(prog[m].ph, m, node[m].l_addr, a, page', byte')
  <2>1. n > 1
    BY <1>1
  <2>2. ImageAt(prog[m].ph, m, node[m].l_addr, a, page, byte) /\ a = ALIGN(a)
    BY <1>2, <1>3, <1>8, <2>1
  <2>3. m \in 1 .. Len(prog) /\ Fits(prog[m]) /\ node[m].l_addr \in Nat
    BY <1>2, <1>8
  <2>4. \A p \in DOMAIN page : p \in Nat /\ p < a \div PAGE_SIZE => p \in DOMAIN page' /\ page'[p] = page[p]
    BY <1>6, <2>1
  <2>5. \A b \in DOMAIN byte : b \in Nat /\ b < a /\ b \div PAGE_SIZE < a \div PAGE_SIZE =>
          b \in DOMAIN byte' /\ byte'[b] = byte[b]
    BY <1>7
  <2>6. prog \in Programs /\ a \in Nat
    BY <1>1, <1>2
  <2> QED BY <1>8, <2>2, <2>3, <2>4, <2>5, <2>6, ImageStays
<1>9. n' > 1 => (Limit = ALIGN(Limit))'
  <2>1. n > 1 => a = ALIGN(a)
    BY <1>2, <1>3
  <2> QED BY <1>1, <1>3, <2>1 DEF ALIGN
<1> QED BY <1>1, <1>2, <1>3, <1>8, <1>9

(* The object has been loaded, and the next one will be behind its .bss.      *)
LEMMA ImagesFinishObject ==
  ASSUME ListInv, LoadInv, ImagesInv, FinishObject
  PROVE  ImagesInv'
<1> SUFFICES ASSUME Sound'
             PROVE  /\ n' > 1 => (Limit = ALIGN(Limit))'
                    /\ \A m \in 1 .. (n' - 1) : prog'[m].kind \in {"exe", "lib"} =>
                         ImageAt(prog'[m].ph, m, node'[m].l_addr, Limit', page', byte')
  BY DEF ImagesInv
<1> DEFINE ph == prog[n].ph
           f == FirstLoad(ph)
           g == AfterLoads(ph)
           a == node[new].l_addr
           e == ph[g - 1].vaddr + ph[g - 1].filesz
<1>1. /\ pc = "load" /\ pc' = "entry" /\ n' = n + 1 /\ page' = page /\ byte' = byte /\ position' = position
      /\ prog \in Programs /\ prog' = prog /\ Sound /\ NoWrap /\ TypeOK
      /\ n > 1 => Limit = ALIGN(Limit)
      /\ \A m \in 1 .. (n - 1) : prog[m].kind \in {"exe", "lib"} =>
           /\ m \in 1 .. Len(prog) /\ Fits(prog[m]) /\ node[m].l_addr \in Nat
           /\ node'[m].l_addr = node[m].l_addr
           /\ ImageAt(prog[m].ph, m, node[m].l_addr, Limit, page, byte)
  <2>1. Next /\ pc = "load"
    BY DEF Next, FinishObject
  <2>2. /\ prog \in Programs /\ prog' = prog /\ Sound /\ NoWrap
        /\ n > 1 => Limit = ALIGN(Limit)
        /\ \A m \in 1 .. (n - 1) : prog[m].kind \in {"exe", "lib"} =>
             /\ m \in 1 .. Len(prog) /\ Fits(prog[m]) /\ node[m].l_addr \in Nat
             /\ node'[m].l_addr = node[m].l_addr
             /\ ImageAt(prog[m].ph, m, node[m].l_addr, Limit, page, byte)
    BY <2>1, ImagesBefore
  <2>3. /\ pc' = "entry" /\ n' = n + 1 /\ page' = page /\ byte' = byte /\ position' = position
    BY DEF FinishObject, LinkLoaded, Link
  <2> QED BY <2>1, <2>2, <2>3 DEF ListInv
<1>2. /\ n \in 1 .. Len(prog) /\ prog[n].kind \in {"exe", "lib"} /\ Len(prog) \in Nat /\ Fits(prog[n])
      /\ new = n
  <2>1. n <= Len(prog) /\ prog[n].kind \in {"exe", "lib"} /\ new = n
    BY <1>1 DEF ListInv, Counts, Loading
  <2>2. n \in 1 .. Len(prog) /\ Len(prog) \in Nat /\ DOMAIN prog = 1 .. Len(prog)
    BY <1>1, <2>1, ProgFacts, TypeFacts
  <2> QED BY <1>1, <2>1, <2>2 DEF Sound
<1>3. /\ node \in Seq(LinkMap) /\ new \in 1 .. Len(node) /\ position \in Nat /\ j \in Nat
  BY <1>1, TypeFacts
<1>4. a \in Nat
  <2>1. node[new] \in LinkMap
    BY <1>3
  <2> QED BY <2>1 DEF LinkMap
<1>5. node'[n].l_addr = a
  <2>1. CASE node' = node
    BY <2>1, <1>2
  <2>2. CASE node' = Linked(node, map, new)
    <3>1. map \in 1 .. Len(node) /\ new \in 0 .. Len(prog) /\ n \in 1 .. Len(node)
      BY <1>1, <1>2, <1>3, TypeFacts
    <3>2. /\ node'[map] = [node[map] EXCEPT !.l_next = new]
          /\ \A i \in 1 .. Len(node) : i # map => node'[i] = node[i]
      <4>1. /\ Linked(node, map, new)[map] = [node[map] EXCEPT !.l_next = new]
            /\ \A i \in 1 .. Len(node) : i # map => Linked(node, map, new)[i] = node[i]
        BY <3>1, <1>3, LinkedFacts
      <4> QED BY <4>1, <2>2
    <3>3. node[map] \in LinkMap
      BY <1>3, <3>1
    <3>4. node'[map].l_addr = node[map].l_addr
      BY <3>2, <3>3 DEF LinkMap
    <3> QED BY <3>1, <3>2, <3>4, <1>2
  <2> QED BY <2>1, <2>2 DEF FinishObject, LinkLoaded, Link, Linked
<1>6. /\ a = ALIGN(a)
      /\ load <=> j > f
      /\ \A h \in Segments(ph) : h < j => LoadedAt(page, byte, n, a, ph[h])
      /\ \A h \in Segments(ph) : h < j /\ (h + 1 < j => h = g - 1) =>
           position = a + ph[h].vaddr + ph[h].filesz
  <2>1. LoadingInv
    BY <1>1, <1>2 DEF LoadInv
  <2> QED BY <2>1 DEF LoadingInv
<1>7. /\ f \in Nat /\ g \in Nat /\ (g - 1) \in Segments(ph) /\ \A h \in Segments(ph) : h \in Nat /\ h < g
      /\ \A h \in Segments(ph) : ph[h].vaddr + ph[h].memsz <= ALIGN(e) + 3 * PAGE_SIZE
      /\ \A h \in DOMAIN ph : ph[h].type = "LOAD" <=> h \in Segments(ph)
  <2>1. \A h \in Segments(ph) : ph[h].vaddr + ph[h].memsz <= ALIGN(e) + 3 * PAGE_SIZE
    BY <1>1, <1>2, FitsFacts
  <2>2. /\ f \in Nat /\ g \in Nat /\ (g - 1) \in Segments(ph)
        /\ \A h \in Segments(ph) : h \in Nat /\ h < g
        /\ \A h \in DOMAIN ph : ph[h].type = "LOAD" <=> h \in Segments(ph)
    BY <1>1, <1>2, SegmentShape
  <2> HIDE DEF e, ph, f, g
  <2> QED BY <2>1, <2>2
<1>8. g <= j
  <2>1. ph \in Seq(Phdr) /\ g \in DOMAIN ph
    BY <1>1, <1>2, ProgFacts, LoadsFacts
  <2>2. Len(ph) \in Nat /\ DOMAIN ph = 1 .. Len(ph)
    BY <2>1, PhdrFacts
  <2>3. CASE j > Len(ph)
    BY <1>3, <2>1, <2>2, <2>3
  <2>4. CASE j <= Len(ph) /\ ph[j].type = "OTHER" /\ load
    <3>1. j \in DOMAIN ph
      <4>1. j # 0
        BY <1>1, TypeFacts
      <4> QED BY <4>1, <1>3, <2>2, <2>4
    <3>2. j \notin Segments(ph) /\ j > f
      BY <3>1, <2>4, <1>6, <1>7
    <3> QED BY <3>2, <1>3, <1>7 DEF Segments
  <2> QED BY <2>3, <2>4 DEF FinishObject
<1>9. \A h \in Segments(ph) : h < j
  BY <1>3, <1>7, <1>8
<1> HIDE DEF ph, f, g, a
<1>10. /\ ph[g - 1].vaddr \in Nat /\ ph[g - 1].filesz \in Nat
  BY <1>1, <1>2, <1>4, <1>6, <1>7, SegmentShape DEF ph
<1>11. e \in Nat /\ position = a + e
  <2>1. position = a + ph[g - 1].vaddr + ph[g - 1].filesz
    BY <1>6, <1>7, <1>9
  <2> DEFINE v == ph[g - 1].vaddr
             z == ph[g - 1].filesz
  <2>2. v \in Nat /\ z \in Nat /\ e = v + z /\ position = a + v + z
    BY <1>10, <2>1
  <2> HIDE DEF v, z, e
  <2> QED BY <2>2, <1>4
<1> HIDE DEF e
<1>12. /\ NextAddr = a + ALIGN(e) + 3 * PAGE_SIZE /\ ALIGN(e) \in Nat
       /\ NextAddr = ALIGN(NextAddr) /\ NextAddr \in Nat
  <2>1. ALIGN(position) = a + ALIGN(e)
    BY <1>4, <1>6, <1>11, PageShift
  <2> QED BY <2>1, <1>3, <1>11, NextAddrFacts, PageOf DEF NextAddr
<1>13. Limit = a /\ Limit' = NextAddr /\ a <= NextAddr
  <2>1. Limit = a /\ Limit' = NextAddr
    BY <1>1 DEF Limit, NextAddr, ALIGN, a
  <2> DEFINE z == ALIGN(e)
  <2>2. NextAddr = a + z + 3 * PAGE_SIZE /\ z \in Nat
    BY <1>12
  <2> HIDE DEF z
  <2> QED BY <2>1, <2>2, <1>4, LoaderAssumption
<1>14. ImageAt(ph, n, a, NextAddr, page, byte)
  <2> SUFFICES ASSUME NEW h \in Segments(ph)
               PROVE  LoadedAt(page, byte, n, a, ph[h]) /\ a + ph[h].vaddr + ph[h].memsz <= NextAddr
    BY DEF ImageAt
  <2>1. LoadedAt(page, byte, n, a, ph[h])
    BY <1>6, <1>9
  <2> DEFINE v == ph[h].vaddr
             ms == ph[h].memsz
             z == ALIGN(e)
  <2>2. v \in Nat /\ ms \in Nat
    BY <1>1, <1>2, <1>4, <1>6, SegmentShape DEF ph
  <2>3. v + ms <= z + 3 * PAGE_SIZE /\ NextAddr = a + z + 3 * PAGE_SIZE /\ z \in Nat
    BY <1>7, <1>12
  <2>4. a + v + ms <= NextAddr
    <3> HIDE DEF v, ms, z
    <3> QED BY <2>2, <2>3, <1>4, LoaderAssumption
  <2> QED BY <2>1, <2>4
<1>15. ASSUME NEW m \in 1 .. (n - 1), prog[m].kind \in {"exe", "lib"}
       PROVE  ImageAt(prog[m].ph, m, node[m].l_addr, NextAddr, page, byte)
  <2>1. /\ m \in 1 .. Len(prog) /\ Fits(prog[m]) /\ node[m].l_addr \in Nat
        /\ ImageAt(prog[m].ph, m, node[m].l_addr, a, page, byte)
    BY <1>1, <1>13, <1>15
  <2> SUFFICES ASSUME NEW h \in Segments(prog[m].ph)
               PROVE  /\ LoadedAt(page, byte, m, node[m].l_addr, prog[m].ph[h])
                      /\ node[m].l_addr + prog[m].ph[h].vaddr + prog[m].ph[h].memsz <= NextAddr
    BY DEF ImageAt
  <2> DEFINE v == prog[m].ph[h].vaddr
             ms == prog[m].ph[h].memsz
             x == node[m].l_addr
  <2>2. v \in Nat /\ ms \in Nat
    <3>1. 0 \in Nat /\ 0 = ALIGN(0)
      BY LoaderAssumption DEF ALIGN
    <3> QED BY <3>1, <2>1, <1>1, <1>15, SegmentShape
  <2>3. LoadedAt(page, byte, m, node[m].l_addr, prog[m].ph[h]) /\ x + v + ms <= a /\ x \in Nat
    BY <2>1 DEF ImageAt
  <2>4. x + v + ms <= NextAddr
    <3> HIDE DEF v, ms, x
    <3> QED BY <2>2, <2>3, <1>4, <1>12, <1>13
  <2> QED BY <2>3, <2>4
<1>16. ASSUME NEW m \in 1 .. n, prog[m].kind \in {"exe", "lib"}
       PROVE  ImageAt(prog[m].ph, m, node'[m].l_addr, NextAddr, page, byte)
  <2>1. CASE m = n
    BY <2>1, <1>5, <1>14 DEF ph
  <2>2. CASE m \in 1 .. (n - 1)
    BY <2>2, <1>1, <1>15, <1>16
  <2> QED BY <2>1, <2>2, <1>2
<1>17. (Limit = ALIGN(Limit))'
  BY <1>12, <1>13 DEF ALIGN
<1>18. n' - 1 = n
  BY <1>1, <1>2
<1> QED BY <1>1, <1>13, <1>16, <1>17, <1>18

LEMMA ImagesStep ==
  ASSUME ListInv, LoadInv, ImagesInv, [Next]_vars
  PROVE  ImagesInv'
<1>1. CASE LinkKernelObject
  <2> SUFFICES ASSUME Sound'
               PROVE  /\ n' > 1 => (Limit = ALIGN(Limit))'
                      /\ \A m \in 1 .. (n' - 1) : prog'[m].kind \in {"exe", "lib"} =>
                           ImageAt(prog'[m].ph, m, node'[m].l_addr, Limit', page', byte')
    BY DEF ImagesInv
  <2>1. /\ pc = "entry" /\ pc' = "entry" /\ n' = n + 1 /\ page' = page /\ byte' = byte /\ position' = position
        /\ prog[n].kind \notin {"exe", "lib"}
    BY <1>1, LinkKernelFacts DEF LinkKernelObject
  <2>2. /\ prog' = prog
        /\ \A m \in 1 .. (n - 1) : prog[m].kind \in {"exe", "lib"} =>
             /\ node'[m].l_addr = node[m].l_addr
             /\ ImageAt(prog[m].ph, m, node[m].l_addr, Limit, page, byte)
    <3>1. Next
      BY <1>1 DEF Next
    <3> QED BY <2>1, <3>1, ImagesBefore
  <2>3. Limit' = NextAddr /\ Limit = NextAddr
    BY <2>1 DEF Limit, NextAddr, ALIGN
  <2>4. NextAddr = ALIGN(NextAddr)
    BY TypeFacts, NextAddrFacts DEF ListInv
  <2>5. n \in Nat
    BY <1>1, LinkKernelFacts
  <2>6. \A m \in 1 .. (n' - 1) : m \in 1 .. (n - 1) \/ m = n
    BY <2>1, <2>5
  <2>7. (Limit = ALIGN(Limit))'
    BY <2>3, <2>4 DEF ALIGN
  <2> QED BY <2>1, <2>2, <2>3, <2>6, <2>7
<1>2. CASE MapObject
  BY <1>2, ImagesMapObject
<1>3. CASE LoadSegment
  BY <1>3, ImagesLoadSegment
<1>4. CASE PassHeader
  <2> SUFFICES ASSUME Sound'
               PROVE  /\ n' > 1 => (Limit = ALIGN(Limit))'
                      /\ \A m \in 1 .. (n' - 1) : prog'[m].kind \in {"exe", "lib"} =>
                           ImageAt(prog'[m].ph, m, node'[m].l_addr, Limit', page', byte')
    BY DEF ImagesInv
  <2>1. /\ pc = "load" /\ pc' = "load" /\ n' = n /\ page' = page /\ byte' = byte /\ new' = new /\ TypeOK
        /\ \A m \in 1 .. Len(node) : node'[m].l_addr = node[m].l_addr
    BY <1>4, PassHeaderFacts
  <2>2. /\ prog' = prog
        /\ n > 1 => Limit = ALIGN(Limit)
        /\ \A m \in 1 .. (n - 1) : prog[m].kind \in {"exe", "lib"} =>
             /\ node'[m].l_addr = node[m].l_addr
             /\ ImageAt(prog[m].ph, m, node[m].l_addr, Limit, page, byte)
    <3>1. Next
      BY <1>4 DEF Next
    <3> QED BY <2>1, <3>1, ImagesBefore
  <2>3. Limit' = Limit
    BY <2>1, TypeFacts DEF Limit
  <2>4. n' > 1 => (Limit = ALIGN(Limit))'
    BY <2>1, <2>2, <2>3 DEF ALIGN
  <2> QED BY <2>1, <2>2, <2>3, <2>4
<1>5. CASE FinishObject
  BY <1>5, ImagesFinishObject
<1>6. CASE Finish
  <2>1. pc = "entry" /\ pc' = "done" /\ UNCHANGED <<prog, n, offset, position, node, page, byte>>
    BY <1>6 DEF Finish
  <2>2. Sound' => Sound
    BY <2>1 DEF Sound, NoWrap
  <2>3. Limit' = Limit
    BY <2>1 DEF Limit, NextAddr, ALIGN
  <2>4. (Limit = ALIGN(Limit)) => (Limit = ALIGN(Limit))'
    BY <2>3 DEF ALIGN
  <2> QED BY <2>1, <2>2, <2>3, <2>4 DEF ImagesInv
<1>7. CASE UNCHANGED vars
  <2>1. (Sound <=> Sound') /\ Limit' = Limit
    BY <1>7 DEF vars, Sound, NoWrap, Limit, NextAddr, ALIGN
  <2>2. (Limit = ALIGN(Limit)) => (Limit = ALIGN(Limit))'
    BY <2>1 DEF ALIGN
  <2> QED BY <1>7, <2>1, <2>2 DEF vars, ImagesInv
<1> QED BY <1>1, <1>2, <1>3, <1>4, <1>5, <1>6, <1>7 DEF Next

LEMMA ImagesAreInvariant == Spec => []ImagesInv
<1>1. Init => ImagesInv
  BY DEF Init, ImagesInv
<1> QED BY <1>1, ListIsInvariant, LoadIsInvariant, ImagesStep, PTL DEF Spec

(* What the invariants say of an object that is loaded.                      *)
LEMMA LoadedImage ==
  ASSUME ListInv, LoadInv, ImagesInv, Sound, NEW m \in 1 .. Len(prog), IsLoaded(m)
  PROVE  /\ \A h \in DOMAIN prog[m].ph : prog[m].ph[h].type = "LOAD" => h \in Segments(prog[m].ph)
         /\ ImageAt(prog[m].ph, m, node[m].l_addr, Limit, page, byte)
<1>1. prog \in Programs /\ TypeOK /\ prog[m].kind \in {"exe", "lib"} /\ m < n
  BY DEF ListInv, IsLoaded
<1>2. n \in Nat /\ DOMAIN prog = 1 .. Len(prog)
  BY <1>1, ProgFacts, TypeFacts
<1>3. m \in 1 .. (n - 1) /\ Fits(prog[m])
  BY <1>1, <1>2 DEF Sound
<1>4. pc # "exit"
  <2>1. ASSUME pc = "exit" PROVE FALSE
    <3>1. n <= Len(prog) /\ prog[n].kind \in {"exe", "lib"} /\ ~Fits(prog[n])
      BY <2>1 DEF ListInv, Counts, Loading, LoadInv
    <3>2. n \in DOMAIN prog
      BY <3>1, <1>1, <1>2, TypeFacts, ProgFacts
    <3> QED BY <3>1, <3>2 DEF Sound
  <2> QED BY <2>1
<1> QED BY <1>1, <1>3, <1>4, FitsFacts DEF ImagesInv

(* For every size of page and every table of objects of the expected layout:  *)
(* no object is loaded over another, its .bss included.                      *)
THEOREM ImagesStayIntact == Spec => []ImagesIntact
<1>1. ListInv /\ LoadInv /\ ImagesInv => ImagesIntact
  <2> SUFFICES ASSUME ListInv, LoadInv, ImagesInv, Sound,
                      NEW m \in 1 .. Len(prog), IsLoaded(m),
                      NEW h \in DOMAIN prog[m].ph, prog[m].ph[h].type = "LOAD"
               PROVE  LET lo == node[m].l_addr + prog[m].ph[h].vaddr IN
                        /\ \A p \in PagesOf(lo, lo + prog[m].ph[h].memsz) :
                             p \in DOMAIN page /\ page[p].own = m
                        /\ \A b \in lo .. (lo + prog[m].ph[h].filesz - 1) :
                             b \in DOMAIN byte /\ byte[b] = m
    BY DEF ImagesIntact
  <2>1. LoadedAt(page, byte, m, node[m].l_addr, prog[m].ph[h])
    BY LoadedImage DEF ImageAt
  <2> QED BY <2>1 DEF LoadedAt, OwnPages, MemPages, Contents
<1> QED BY <1>1, ListIsInvariant, LoadIsInvariant, ImagesAreInvariant, PTL

(* And no permission it was given is changed by what is loaded later.         *)
THEOREM PermissionsStay == Spec => []SegmentPermissions
<1>1. ListInv /\ LoadInv /\ ImagesInv => SegmentPermissions
  <2> SUFFICES ASSUME ListInv, LoadInv, ImagesInv, Sound,
                      NEW m \in 1 .. Len(prog), IsLoaded(m),
                      NEW h \in DOMAIN prog[m].ph, prog[m].ph[h].type = "LOAD"
               PROVE  LET s == prog[m].ph[h]
                          lo == node[m].l_addr + s.vaddr
                      IN  /\ \A p \in PagesOf(lo, lo + s.filesz) : page[p].w = s.w
                          /\ s.w => \A p \in PagesOf(lo, lo + s.memsz) : page[p].w
    BY DEF SegmentPermissions
  <2>1. LoadedAt(page, byte, m, node[m].l_addr, prog[m].ph[h])
    BY LoadedImage DEF ImageAt
  <2> QED BY <2>1 DEF LoadedAt, OwnPages, MemPages, FilePages
<1> QED BY <1>1, ListIsInvariant, LoadIsInvariant, ImagesAreInvariant, PTL

===============================================================================

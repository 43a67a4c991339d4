-------------------------------- MODULE Loader --------------------------------
(***************************************************************************)
(* ldso/loader.c: build_link_map() walks the table of objects, chooses a   *)
(* load address for each, maps it over whatever is there (MAP_FIXED),      *)
(* reads its PT_LOAD segments and links it into the list of link_maps.     *)
(*                                                                         *)
(* Memory is the set of mapped pages, with the object each belongs to and  *)
(* whether it is writable, and the set of bytes that hold file contents.   *)
(* ld.so and the vdso are mapped by the kernel, far from the rest.         *)
(***************************************************************************)
EXTENDS Integers, Sequences

CONSTANTS
  PAGE_SIZE,
  INT_MOD,    \* 2^32: the local variable "offset" is an int
  Programs,   \* the tables of objects to consider
  BASE,       \* AT_BASE, where the kernel put ld.so
  VDSO,       \* the l_addr of the vdso: where its auxv entry is
  Uninit      \* an l_ld nobody assigned

Phdr == [type   : {"LOAD", "DYNAMIC", "OTHER"},
         vaddr  : Nat,
         filesz : Nat,
         memsz  : Nat,
         w      : BOOLEAN]

Object == [kind : {"exe", "ld.so", "vdso", "lib"}, ph : Seq(Phdr)]

ASSUME LoaderAssumption ==
  /\ PAGE_SIZE \in Nat \ {0}
  /\ INT_MOD \in Nat \ {0}
  /\ BASE \in Nat /\ VDSO \in Nat
  /\ Uninit \notin Nat

(* A table starts with the executable; headers end after the loadable ones. *)
ASSUME ProgramsAssumption ==
  /\ Programs \subseteq Seq(Object)
  /\ \A p \in Programs :
       /\ Len(p) >= 2 /\ p[1].kind = "exe" /\ p[2].kind = "ld.so"
       /\ \A m \in 3 .. Len(p) : p[m].kind \in {"lib", "ld.so", "vdso"}
       /\ \A m \in 1 .. Len(p) : p[m].kind \in {"exe", "lib"} =>
            \E f, g \in 1 .. Len(p[m].ph) :
              f < g /\ p[m].ph[f].type = "LOAD" /\ p[m].ph[g].type # "LOAD"

VARIABLES
  prog,      \* the table; read only
  pc,        \* "entry", "load", "done" or "exit"
  n,         \* the entry of the table being handled
  j,         \* its program header being handled
  load,      \* load_program() has met a PT_LOAD
  offset,    \* zero until the executable is loaded
  position,  \* end of the file contents read last
  node,      \* the link_maps
  map,       \* the link_map handled last
  new,       \* the link_map of entry n
  ret,       \* the head of the list, 0 before it is known
  page,      \* the mapped pages: [own, w] of each
  byte       \* the object whose file contents a byte holds

vars == <<prog, pc, n, j, load, offset, position, node, map, new, ret, page, byte>>

-----------------------------------------------------------------------------
(* Addresses and pages.                                                    *)

ALIGN(x) == PAGE_SIZE * (x \div PAGE_SIZE)

(* The pages that hold an address of lo .. hi - 1.  *)
PagesOf(lo, hi) ==
  IF hi <= lo THEN {} ELSE (lo \div PAGE_SIZE) .. ((hi - 1) \div PAGE_SIZE)

Override(f, g) ==
  [x \in DOMAIN f \union DOMAIN g |-> IF x \in DOMAIN g THEN g[x] ELSE f[x]]

Discard(f, S) == [x \in DOMAIN f \ S |-> f[x]]

(* The first PT_LOAD, and the first header after it that is not one.  *)
FirstLoad(ph) ==
  CHOOSE f \in DOMAIN ph :
    ph[f].type = "LOAD" /\ \A e \in 1 .. (f - 1) : ph[e].type # "LOAD"

AfterLoads(ph) ==
  CHOOSE g \in DOMAIN ph :
    /\ g > FirstLoad(ph) /\ ph[g].type # "LOAD"
    /\ \A e \in FirstLoad(ph) .. (g - 1) : ph[e].type = "LOAD"

(* What allocate_map() asks mmap() for.  *)
MapSize(ph, addr) ==
  LET f == FirstLoad(ph)
      g == AfterLoads(ph)
      pos == ph[f].vaddr + addr
  IN  ph[g].vaddr + ph[g].filesz - ph[f].vaddr + pos - ALIGN(pos)

MapPages(ph, addr) ==
  LET start == ALIGN(ph[FirstLoad(ph)].vaddr + addr)
  IN  PagesOf(start, start + MapSize(ph, addr))

BytesOf(pages) == {b \in DOMAIN byte : b \div PAGE_SIZE \in pages}

(* read() stops at the first page that is not there or not writable.  *)
ReadLen(addr, size) ==
  CHOOSE r \in 0 .. size :
    /\ \A p \in PagesOf(addr, addr + r) : p \in DOMAIN page /\ page[p].w
    /\ r < size => LET p == (addr + r) \div PAGE_SIZE
                   IN  p \notin DOMAIN page \/ ~page[p].w

(* Mutant: the pages that mprotect() changes, without the bytes between the  *)
(* start of the page and the segment.                                       *)
ProtectPages_Short(addr, r) == PagesOf(ALIGN(addr), ALIGN(addr) + r)

(* Mutant: one byte too many.  *)
ProtectPages_Over(addr, r) == PagesOf(ALIGN(addr), addr + r + 1)

(* The pages whose permissions mprotect() changes.  *)
ProtectPages(addr, r) == PagesOf(ALIGN(addr), addr + r)

(* Mutant: the next object starts on the page that follows.  *)
NextAddr_Adjacent == ALIGN(position) + PAGE_SIZE

(* The load address of a library.  *)
NextAddr == ALIGN(position) + 3 * PAGE_SIZE

-----------------------------------------------------------------------------

(* The kernel has mapped the executable, with its .bss, before ld.so runs. *)
KernelPages(exe) ==
  LET pages(h) == PagesOf(exe.ph[h].vaddr, exe.ph[h].vaddr + exe.ph[h].memsz)
      loads == {h \in DOMAIN exe.ph : exe.ph[h].type = "LOAD"}
  IN  [p \in UNION {pages(h) : h \in loads} |->
         [own |-> 1, w |-> \E h \in loads : p \in pages(h) /\ exe.ph[h].w]]

KernelBytes(exe) ==
  [b \in UNION {exe.ph[h].vaddr .. (exe.ph[h].vaddr + exe.ph[h].filesz - 1) :
                  h \in {l \in DOMAIN exe.ph : exe.ph[l].type = "LOAD"}} |-> 1]

Fresh == [entry |-> 0, l_addr |-> 0, l_ld |-> Uninit, l_prev |-> 0, l_next |-> 0]

Init ==
  /\ prog \in Programs
  /\ pc = "entry"
  /\ n = 1
  /\ j = 1
  /\ load = FALSE
  /\ offset = 0
  /\ position = 0
  /\ node = <<Fresh>>
  /\ map = 1
  /\ new = 1
  /\ ret = 0
  /\ page = KernelPages(prog[1])
  /\ byte = KernelBytes(prog[1])

(* The link_map of entry n, before its kind is looked at: the one passed by *)
(* ldso_main() while "offset" is zero, else a new one.  Its l_ld is not     *)
(* written here: a new one holds whatever was in memory.                    *)
NewId == IF offset # 0 THEN Len(node) + 1 ELSE map

WithNew(addr) ==
  LET rec == [entry |-> n, l_addr |-> addr,
              l_ld |-> IF offset # 0 THEN Uninit ELSE node[map].l_ld,
              l_prev |-> IF offset # 0 THEN map ELSE 0, l_next |-> 0]
  IN  IF offset # 0 THEN Append(node, rec) ELSE [node EXCEPT ![map] = rec]

(* map->l_next = new; map = new; the next entry.  *)
Link(nodes, id) ==
  /\ node' = [nodes EXCEPT ![map].l_next = id]
  /\ map' = id
  /\ n' = n + 1

(* ld.so and the vdso are only linked.  *)
LinkKernelObject ==
  /\ pc = "entry"
  /\ n <= Len(prog)
  /\ prog[n].kind \in {"ld.so", "vdso"}
  /\ new' = NewId
  /\ Link(WithNew(IF prog[n].kind = "ld.so" THEN BASE ELSE VDSO), NewId)
  /\ UNCHANGED <<prog, pc, j, load, offset, position, ret, page, byte>>

(* The executable and the libraries: an address, and allocate_map().  *)
MapObject ==
  /\ pc = "entry"
  /\ n <= Len(prog)
  /\ prog[n].kind \in {"exe", "lib"}
  /\ LET ph == prog[n].ph
         addr == IF offset # 0 THEN NextAddr ELSE 0
         pages == MapPages(ph, addr)
     IN  /\ new' = NewId
         /\ node' = WithNew(addr)
         /\ IF MapSize(ph, addr) <= 0
            THEN pc' = "exit" /\ UNCHANGED <<page, byte>>
            ELSE /\ pc' = "load"
                 /\ page' = Override(page, [p \in pages |-> [own |-> n, w |-> TRUE]])
                 /\ byte' = Discard(byte, BytesOf(pages))
  /\ j' = 1
  /\ load' = FALSE
  /\ UNCHANGED <<prog, n, offset, position, map, ret>>

(* A PT_LOAD: read() into place, mprotect() of the pages read, *base.  *)
LoadSegment ==
  /\ pc = "load"
  /\ j <= Len(prog[n].ph)
  /\ prog[n].ph[j].type = "LOAD"
  /\ LET h == prog[n].ph[j]
         addr == h.vaddr + node[new].l_addr
         r == ReadLen(addr, h.filesz)
         pages == ProtectPages(addr, r)
     IN  IF (r = 0 /\ h.filesz > 0) \/ ~(pages \subseteq DOMAIN page)
         THEN pc' = "exit" /\ UNCHANGED <<page, byte, position, j, load>>
         ELSE /\ byte' = Override(byte, [b \in addr .. (addr + r - 1) |-> n])
              /\ page' = Override(page,
                           [p \in pages |-> [own |-> page[p].own, w |-> h.w]])
              /\ position' = addr + r
              /\ load' = TRUE
              /\ j' = j + 1
              /\ UNCHANGED pc
  /\ UNCHANGED <<prog, n, offset, node, map, new, ret>>

(* Mutant: PT_DYNAMIC does not advance to the next header.  *)
PassHeader_Stuck ==
  /\ pc = "load"
  /\ j <= Len(prog[n].ph)
  /\ prog[n].ph[j].type = "OTHER" /\ ~load /\ j' = j + 1
  /\ UNCHANGED <<prog, pc, n, load, offset, position, node, map, new, ret, page, byte>>

(* PT_DYNAMIC gives l_ld; other headers before the first PT_LOAD are passed. *)
PassHeader ==
  /\ pc = "load"
  /\ j <= Len(prog[n].ph)
  /\ \/ /\ prog[n].ph[j].type = "DYNAMIC"
        /\ node' = [node EXCEPT ![new].l_ld = prog[n].ph[j].vaddr + node[new].l_addr]
     \/ /\ prog[n].ph[j].type = "OTHER"
        /\ ~load
        /\ UNCHANGED node
  /\ j' = j + 1
  /\ UNCHANGED <<prog, pc, n, load, offset, position, map, new, ret, page, byte>>

(* Mutant: a library is not linked to the one before it.  *)
LinkLoaded_Backward(id) ==
  /\ node' = [node EXCEPT ![id].l_prev = map]
  /\ map' = id
  /\ n' = n + 1

(* A library is linked once it is loaded.  *)
LinkLoaded(id) == Link(node, id)

(* load_program() stops at the end, or at another header after a PT_LOAD.  *)
FinishObject ==
  /\ pc = "load"
  /\ \/ j > Len(prog[n].ph)
     \/ j <= Len(prog[n].ph) /\ prog[n].ph[j].type = "OTHER" /\ load
  /\ IF offset # 0
     THEN /\ LinkLoaded(new)
          /\ offset' = node[new].l_addr % INT_MOD
          /\ UNCHANGED ret
     ELSE /\ offset' = 1
          /\ ret' = new
          /\ map' = new
          /\ n' = n + 1
          /\ UNCHANGED node
  /\ pc' = "entry"
  /\ UNCHANGED <<prog, j, load, position, new, page, byte>>

(* *table is NULL: full_map = ret.  *)
Finish ==
  /\ pc = "entry"
  /\ n > Len(prog)
  /\ pc' = "done"
  /\ UNCHANGED <<prog, n, j, load, offset, position, node, map, new, ret, page, byte>>

Next ==
  \/ LinkKernelObject
  \/ MapObject
  \/ LoadSegment
  \/ PassHeader
  \/ FinishObject
  \/ Finish

Spec == Init /\ [][Next]_vars /\ WF_vars(Next)

-----------------------------------------------------------------------------

LinkMap == [entry : 0 .. Len(prog), l_addr : Nat, l_ld : Nat \union {Uninit},
            l_prev : 0 .. Len(prog), l_next : 0 .. Len(prog)]

Page == [own : DOMAIN prog, w : BOOLEAN]

TypeOK ==
  /\ prog \in Seq(Object)
  /\ pc \in {"entry", "load", "done", "exit"}
  /\ n \in 1 .. (Len(prog) + 1)
  /\ j \in Nat \ {0}
  /\ load \in BOOLEAN
  /\ offset \in Nat
  /\ position \in Nat
  /\ node \in Seq(LinkMap)
  /\ map \in DOMAIN node
  /\ new \in DOMAIN node
  /\ ret \in 0 .. Len(node)
  /\ \A p \in DOMAIN page : page[p] \in Page
  /\ \A b \in DOMAIN byte : byte[b] \in DOMAIN prog

RoundUp(x) == ALIGN(x + PAGE_SIZE - 1)

(* The layout of the headers that the arithmetic of loader.c relies on.  *)
Fits(o) ==
  LET f == FirstLoad(o.ph)
      g == AfterLoads(o.ph)
      last == o.ph[g - 1]
      fileEnd == last.vaddr + last.filesz
      memEnd == last.vaddr + last.memsz
  IN  /\ {h \in DOMAIN o.ph : o.ph[h].type = "LOAD"} = f .. (g - 1)
      /\ \A h \in f .. (g - 1) : 0 < o.ph[h].filesz /\ o.ph[h].filesz <= o.ph[h].memsz
      /\ \A h \in f .. (g - 2) :
           /\ o.ph[h].memsz = o.ph[h].filesz
           /\ RoundUp(o.ph[h].vaddr + o.ph[h].memsz) <= ALIGN(o.ph[h + 1].vaddr)
      /\ RoundUp(o.ph[g].vaddr + o.ph[g].filesz) >= IF o.kind = "lib" THEN memEnd ELSE fileEnd
      /\ memEnd <= ALIGN(fileEnd) + 3 * PAGE_SIZE

(* No library was at a multiple of 2^32: then "offset", an int, is zero, and *)
(* the next entry takes the link_map of that library instead of a new one.   *)
NoWrap ==
  /\ n > 1 => offset # 0
  /\ Len(node) >= IF pc \in {"load", "exit"} THEN n ELSE n - 1

(* Entry m is loaded.  *)
IsLoaded(m) == m < n /\ prog[m].kind \in {"exe", "lib"}

Sound == NoWrap /\ \A m \in DOMAIN prog : prog[m].kind \in {"exe", "lib"} => Fits(prog[m])

(* What an object was loaded with stays there: no later mapping, placed with *)
(* MAP_FIXED at an address guessed from the end of the contents read last,   *)
(* takes a page of an earlier object, its .bss included, and every byte of   *)
(* its file contents is still there.                                         *)
ImagesIntact ==
  Sound => \A m \in 1 .. Len(prog) : IsLoaded(m) =>
    \A h \in DOMAIN prog[m].ph : prog[m].ph[h].type = "LOAD" =>
      LET lo == node[m].l_addr + prog[m].ph[h].vaddr IN
        /\ \A p \in PagesOf(lo, lo + prog[m].ph[h].memsz) :
             p \in DOMAIN page /\ page[p].own = m
        /\ \A b \in lo .. (lo + prog[m].ph[h].filesz - 1) : b \in DOMAIN byte /\ byte[b] = m

(* Contents of a read-only segment end up read-only, and a writable segment  *)
(* is writable up to the end of its .bss, although all is first mapped with  *)
(* every permission and the segments share pages of one mapping.             *)
SegmentPermissions ==
  Sound => \A m \in 1 .. Len(prog) : IsLoaded(m) =>
    \A h \in DOMAIN prog[m].ph : prog[m].ph[h].type = "LOAD" =>
      LET s == prog[m].ph[h]
          lo == node[m].l_addr + s.vaddr
      IN  /\ \A p \in PagesOf(lo, lo + s.filesz) : page[p].w = s.w
          /\ s.w => \A p \in PagesOf(lo, lo + s.memsz) : page[p].w

(* The list of link_maps is the table: as many nodes as entries handled, in  *)
(* the same order, l_prev the inverse of l_next, from the head returned to   *)
(* ldso_main() to the node linked last; also while an object is being loaded.*)
ListMirrorsTable ==
  /\ TypeOK
  /\ NoWrap /\ n > 1 => ret = 1 /\ map = n - 1
  /\ NoWrap => \A m \in 1 .. (n - 1) :
       /\ node[m].entry = m
       /\ node[m].l_prev = m - 1
       /\ node[m].l_next = IF m < n - 1 THEN m + 1 ELSE 0

(* A program whose objects have the expected layout is loaded: an exit means *)
(* that the object being loaded has not.                                     *)
ExitsOnlyOnMisfit == pc = "exit" => ~Fits(prog[n])

(* Loading ends.  *)
Terminates == <>(pc \in {"done", "exit"})

=============================================================================

--------------------------------- MODULE Libdl ---------------------------------
(***************************************************************************)
(* ldso/libdl.c: a running program opens and closes libraries.             *)
(*                                                                         *)
(* The list of link_maps that startup left is extended by dlopen() with    *)
(* RTLD_GLOBAL and cut by dlclose(); the link_map of a library opened      *)
(* without it is only reached through its handle, although its l_prev      *)
(* leads into the list.  Addresses and sizes are in pages.  The process is *)
(* one thread, so a call is one step.                                      *)
(***************************************************************************)
EXTENDS Integers, Sequences, SymbolResolution

CONSTANTS
  File,       \* the files link_maps are made from
  Info,       \* what each file holds
  Startups,   \* the lists that startup may leave: [name, addr] of each entry
  Requests,   \* the dlopen()s the program may make: a file and flags
  MaxOpen     \* bound: the number of successful dlopen()s of a behaviour

STUB == 0     \* a PLT slot that leads to __reloc

FileInfo == [exists : BOOLEAN,          \* get_lib_absolute_path() finds it
             table  : SymbolTable,
             plt    : Seq(Symbol),      \* .rela.plt
             dyn    : Seq(Symbol),      \* .rela.dyn, "" for R_X86_64_RELATIVE
             first  : Nat,              \* page of the first PT_LOAD
             span   : Nat]              \* pages of all of them

Entry == [name : File, addr : Nat]

(* RTLD_LAZY, RTLD_NOW without it, or neither; RTLD_NOLOAD; RTLD_GLOBAL.     *)
Flag == [bind : {"lazy", "now", "none"}, noload : BOOLEAN, global : BOOLEAN]

ASSUME LibdlAssumption ==
  /\ Info \in [File -> FileInfo]
  /\ Requests \subseteq File \X Flag
  /\ MaxOpen \in Nat
  /\ Startups \subseteq Seq(Entry)
  /\ \A s \in Startups : Len(s) >= 2
  /\ \A s \in Startups : s[1].addr = 0 /\ Info[s[1].name].span > 0   \* the executable

VARIABLES
  startup,   \* the list as startup left it; read only
  nb,        \* link_maps allocated so far
  l_name, l_addr, l_prev, l_next,
  mode,      \* the flags of the dlopen() that made a link_map
  slot,      \* the PLT slots of each image: STUB or the object bound to
  mem,       \* the mapped pages and the link_map each belongs to
  opened,    \* the handles the program has and may close
  pc         \* "run", or how the process ended

maps == <<l_name, l_addr, l_prev, l_next>>
vars == <<startup, nb, l_name, l_addr, l_prev, l_next, mode, slot, mem, opened, pc>>

-----------------------------------------------------------------------------

NbStart == Len(startup)
Node == 1 .. (NbStart + MaxOpen)

Pages(file, addr) ==
  (addr + Info[file].first) .. (addr + Info[file].first + Info[file].span - 1)

Override(f, g) ==
  [x \in DOMAIN f \union DOMAIN g |-> IF x \in DOMAIN g THEN g[x] ELSE f[x]]

(* The image of a link_map is where it was loaded.  *)
Intact(m) == \A p \in Pages(l_name[m], l_addr[m]) : p \in DOMAIN mem /\ mem[p] = m

(* The list from a link_map on, and its first one.  *)
ListFrom(m) ==
  LET from[x \in Node] == IF l_next[x] = 0 THEN <<x>> ELSE <<x>> \o from[l_next[x]]
  IN  from[m]

HeadOf(m) ==
  LET head[x \in Node] == IF l_prev[x] = 0 THEN x ELSE head[l_prev[x]]
  IN  head[m]

(* The last link_map of the list, where dlopen() starts its work.  *)
ListTail == LET end[x \in Node] == IF l_next[x] = 0 THEN x ELSE end[l_next[x]] IN end[1]

(* Mutant: an object whose file cannot be opened is passed over.  *)
LookupFrom_PassOver(m, name) ==
  LET list == SelectSeq(ListFrom(m), LAMBDA x : Info[l_name[x]].table.opens)
      l == LinkMapLookup([x \in DOMAIN list |-> Info[l_name[list[x]]].table], name)
  IN  [l EXCEPT !.at = IF @ = 0 THEN 0 ELSE list[@]]

(* link_map_lookup(m, name), with the link_map in which it ends.  *)
LookupFrom(m, name) ==
  LET list == ListFrom(m)
      l == LinkMapLookup([x \in DOMAIN list |-> Info[l_name[list[x]]].table], name)
  IN  [l EXCEPT !.at = IF @ = 0 THEN 0 ELSE list[@]]

(* relocation_lazy(), the only way libraries are relocated once loaded.  *)
Stubs(name) == [r \in DOMAIN Info[name].plt |-> STUB]

Init ==
  /\ startup \in Startups
  /\ nb = NbStart
  /\ l_name = [m \in Node |-> IF m <= NbStart THEN startup[m].name ELSE startup[1].name]
  /\ l_addr = [m \in Node |-> IF m <= NbStart THEN startup[m].addr ELSE 0]
  /\ l_prev = [m \in Node |-> IF m <= NbStart THEN m - 1 ELSE 0]
  /\ l_next = [m \in Node |-> IF m < NbStart THEN m + 1 ELSE 0]
  /\ mode = [m \in Node |-> [bind |-> "lazy", noload |-> FALSE, global |-> TRUE]]
  /\ slot = [m \in Node |-> IF m <= NbStart THEN Stubs(l_name[m]) ELSE <<>>]
  /\ mem = [p \in UNION {Pages(l_name[m], l_addr[m]) : m \in 1 .. NbStart} |->
              CHOOSE m \in 1 .. NbStart : p \in Pages(l_name[m], l_addr[m])]
  /\ opened = {}
  /\ pc = "run"

(* dlopen(NULL): the head of the list.  *)
DlopenSelf ==
  /\ pc = "run"
  /\ opened' = opened \union {1}
  /\ UNCHANGED <<startup, nb, maps, mode, slot, mem, pc>>

(* get_lib_absolute_path() finds no such file and calls _exit(1).  *)
DlopenMissing(file) ==
  /\ pc = "run"
  /\ ~Info[file].exists
  /\ pc' = "exit"
  /\ UNCHANGED <<startup, nb, maps, mode, slot, mem, opened>>

(* Mutant: two pages further.  *)
NewAddr_TwoPages(tail) == l_addr[l_prev[tail]] + 2

(* The address of a new library.  *)
NewAddr(tail) == l_addr[l_prev[tail]] + 6

(* Mutant: a library is put right after the executable.  *)
LinkedNext_Front(tail, new, flags) ==
  IF flags.global /\ ~flags.noload THEN [l_next EXCEPT ![1] = new, ![new] = l_next[1]]
  ELSE [l_next EXCEPT ![new] = 0]

(* The l_next pointers once dlopen() has succeeded.  *)
LinkedNext(tail, new, flags) ==
  IF flags.global /\ ~flags.noload THEN [l_next EXCEPT ![tail] = new, ![new] = 0]
  ELSE [l_next EXCEPT ![new] = 0]

(* The relocations of .rela.dyn that are looked up, from the tail only.  *)
FailedDyn(file, tail) ==
  {r \in DOMAIN Info[file].dyn : LookupFrom(tail, Info[file].dyn[r]).res # "hit"}

(* The outcome of resolve_relocations() and of the test of the flags.  *)
Outcome(file, tail, flags) ==
  LET failed == FailedDyn(file, tail)
      first == CHOOSE r \in failed : \A q \in failed : r <= q
  IN  IF flags.noload THEN "run"
      ELSE IF flags.bind = "none" THEN "exit"
      ELSE IF failed = {} THEN "run"
      ELSE LookupFrom(tail, Info[file].dyn[first]).res

(* dlopen(file, flags): RTLD_NOW is handled as RTLD_LAZY is.  *)
Dlopen(file, flags) ==
  /\ pc = "run"
  /\ Info[file].exists
  /\ nb < NbStart + MaxOpen
  /\ LET tail == ListTail
         new == nb + 1
         addr == NewAddr(tail)
         out == Outcome(file, tail, flags)
     IN  /\ nb' = new
         /\ l_name' = [l_name EXCEPT ![new] = file]
         /\ l_addr' = [l_addr EXCEPT ![new] = addr]
         /\ l_prev' = [l_prev EXCEPT ![new] = tail]
         /\ mode' = [mode EXCEPT ![new] = flags]
         /\ mem' = IF flags.noload THEN mem
                   ELSE Override(mem, [p \in Pages(file, addr) |-> new])
         /\ slot' = IF flags.noload THEN slot ELSE [slot EXCEPT ![new] = Stubs(file)]
         /\ pc' = out
         /\ IF out = "run"
            THEN l_next' = LinkedNext(tail, new, flags) /\ opened' = opened \union {new}
            ELSE UNCHANGED <<l_next, opened>>
  /\ UNCHANGED startup

(* Mutant: the link_map before is linked to itself.  *)
CutNext_Self(h) ==
  IF l_prev[h] = 0 THEN l_next ELSE [l_next EXCEPT ![l_prev[h]] = l_prev[h]]

(* Mutant: the link_map before is not told.  *)
CutNext_Keep(h) == l_next

(* map->l_prev->l_next = map->l_next  *)
CutNext(h) ==
  IF l_prev[h] = 0 THEN l_next ELSE [l_next EXCEPT ![l_prev[h]] = l_next[h]]

(* map->l_next->l_prev = map->l_prev  *)
CutPrev(h) ==
  IF l_next[h] = 0 THEN l_prev ELSE [l_prev EXCEPT ![l_next[h]] = l_prev[h]]

(* The pages munmap() is given: those of the file, wherever it was loaded.   *)
Unmapped(h) == Pages(l_name[h], 0)

(* dlclose(handle).  It returns to the executable, if that is still there.   *)
Dlclose(h) ==
  /\ pc = "run"
  /\ h \in opened
  /\ mem' = [p \in DOMAIN mem \ Unmapped(h) |-> mem[p]]
  /\ l_next' = CutNext(h)
  /\ l_prev' = CutPrev(h)
  /\ opened' = opened \ {h}
  /\ pc' = IF Pages(l_name[1], l_addr[1]) \intersect Unmapped(h) = {} THEN "run" ELSE "crash"
  /\ UNCHANGED <<startup, nb, l_name, l_addr, mode, slot>>

(* dlsym() reads the hash table of a library that was not loaded, or that    *)
(* another one was loaded over.                                              *)
DlsymWild(h) ==
  /\ pc = "run"
  /\ h \in opened
  /\ ~Intact(h)
  /\ pc' = "crash"
  /\ UNCHANGED <<startup, nb, maps, mode, slot, mem, opened>>

(* Code of a library calls through a slot that leads to __reloc.  The        *)
(* program only runs code that is where it was loaded.                       *)
FirstCall(m, r) ==
  /\ pc = "run"
  /\ m \in 1 .. NbStart \union opened
  /\ Intact(m)
  /\ r \in DOMAIN slot[m]
  /\ slot[m][r] = STUB
  /\ LET l == LookupFrom(HeadOf(m), Info[l_name[m]].plt[r])
     IN  \/ l.res = "hit" /\ slot' = [slot EXCEPT ![m][r] = l.at] /\ UNCHANGED pc
         \/ l.res # "hit" /\ pc' = l.res /\ UNCHANGED slot
  /\ UNCHANGED <<startup, nb, maps, mode, mem, opened>>

Next ==
  \/ DlopenSelf
  \/ \E q \in Requests : DlopenMissing(q[1]) \/ Dlopen(q[1], q[2])
  \/ \E h \in opened : Dlclose(h) \/ DlsymWild(h)
  \/ \E m \in Node : \E r \in DOMAIN slot[m] : FirstCall(m, r)

(* A program need not call anything: no fairness.  *)
Spec == Init /\ [][Next]_vars

-----------------------------------------------------------------------------

TypeOK ==
  /\ nb \in NbStart .. (NbStart + MaxOpen)
  /\ l_name \in [Node -> File]
  /\ l_addr \in [Node -> Nat]
  /\ l_prev \in [Node -> 0 .. nb]
  /\ l_next \in [Node -> 0 .. nb]
  /\ mode \in [Node -> Flag]
  /\ \A m \in 1 .. nb :
       /\ DOMAIN slot[m] = IF mode[m].noload THEN {} ELSE DOMAIN Info[l_name[m]].plt
       /\ \A r \in DOMAIN slot[m] : slot[m][r] \in {STUB} \union 1 .. nb
  /\ \A p \in DOMAIN mem : mem[p] \in 1 .. nb
  /\ opened \subseteq 1 .. nb
  /\ pc \in {"run", "exit", "trap", "crash"}

(* The link_maps in use: those of startup and those of open handles.  *)
Live == 1 .. NbStart \union opened

(* The objects of startup stay linked, in order and both ways, whatever is   *)
(* opened and closed: what their symbols resolve to does not change.         *)
StartupPrefix ==
  pc = "run" =>
    \A m \in 1 .. NbStart :
      /\ l_prev[m] = m - 1
      /\ m < NbStart => l_next[m] = m + 1

(* Every walk ends: l_next leads to link_maps made later, and l_prev to ones *)
(* made earlier, down to the head, from which runtime_relocations() searches.*)
WalksEnd ==
  \A m \in 1 .. nb :
    /\ l_next[m] # 0 => l_next[m] > m
    /\ pc = "run" /\ m > 1 => l_prev[m] \in 1 .. (m - 1)

(* A closed library is not found again, in whatever order libraries of       *)
(* either scope are opened and closed: no link_map in use leads to one that  *)
(* was closed, and what it leads to leads back.                              *)
ClosedUnreachable ==
  pc = "run" =>
    \A m \in Live : l_next[m] # 0 => l_next[m] \in Live /\ l_prev[l_next[m]] = m

HasVdso == ~Info[l_name[NbStart]].table.opens

(* Where NewAddr() may put the libraries to come: behind one of the last two   *)
(* objects of startup, the tail's l_prev at first and the tail itself later.  *)
Shelf(b) == (startup[b].addr + 6) .. (startup[b].addr + 6 * MaxOpen + 5)
Behind == {NbStart - 1, NbStart}

Image(m) == Pages(startup[m].name, startup[m].addr)

(* An address space in which six pages a library are enough.  The low pages   *)
(* are those dlclose() unmaps of a library, whose p_vaddr starts at 0.        *)
Room ==
  /\ \A q \in Requests : Info[q[1]].first + Info[q[1]].span <= 6
  /\ \A m, o \in 1 .. NbStart : m # o => Image(m) \intersect Image(o) = {}
  /\ \A m \in 1 .. NbStart, b \in Behind : Image(m) \intersect Shelf(b) = {}
  /\ \A m \in 2 .. NbStart : Image(m) \intersect 0 .. 5 = {}
  /\ \A b \in Behind : Shelf(b) \intersect 0 .. 5 = {}
  /\ Shelf(NbStart - 1) \intersect Shelf(NbStart) = {}

(* With room for six pages a library, nothing that is opened or closed ever   *)
(* touches an object of startup.                                              *)
StartupIntact ==
  pc = "run" /\ Room => \A m \in 1 .. NbStart : Intact(m)

(* No slot is bound to a closed library, whose pages the next one may be      *)
(* loaded over: with the vdso in the list, no slot is ever bound past it.     *)
NoDanglingBinding ==
  /\ TypeOK
  /\ pc = "run" /\ HasVdso =>
       \A m \in Live : \A r \in DOMAIN slot[m] : slot[m][r] # STUB => slot[m][r] \in Live

(* A program that uses its handles as it may only crashes because a handle    *)
(* came from RTLD_NOLOAD, because two libraries were given one address, or    *)
(* because dlclose() unmapped the executable (the handle was dlopen(NULL)'s). *)
CrashHasCause ==
  pc = "crash" /\ Room =>
    \/ \E m \in 1 .. nb : mode[m].noload
    \/ \E m, o \in (NbStart + 1) .. nb : m # o /\ l_addr[m] = l_addr[o]
    \/ ~Intact(1)

(* libdl.h: with RTLD_GLOBAL, "the symbols of the loaded object [...] are     *)
(* made visible as if the object were linked directly into the program."      *)
GlobalIsVisible ==
  pc = "run" =>
    \A h \in opened : mode[h].global /\ ~mode[h].noload =>
      \A s \in Info[l_name[h]].table.defs : LookupFrom(1, s).res = "hit"

=============================================================================

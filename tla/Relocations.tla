------------------------------ MODULE Relocations ------------------------------
(***************************************************************************)
(* ldso/relocations.c and the loop of ldso_main() that calls it: the       *)
(* relocations of every object at startup, lazily or with LD_BIND_NOW,     *)
(* then the PLT calls of the running program, which bind on first use      *)
(* through __reloc and runtime_relocations().                              *)
(*                                                                         *)
(* A slot is the word a relocation patches.  Its value is one of the       *)
(* codes below or the number of the object whose definition it holds.      *)
(***************************************************************************)
EXTENDS Integers, Sequences, SymbolResolution

CONSTANT Programs   \* the lists of objects to consider

RAW     == -1   \* as in the file
STUB    == 0    \* address of the PLT stub that calls __reloc
REBASED == -2   \* l_addr + r_addend

(* elf.h: the relocation types; "OTHER" is any type ld.so does not know.    *)
Type == {"JUMP_SLOT", "GLOB_DAT", "RELATIVE", "COPY", "OTHER"}
Rela == [type : Type, sym : Symbol]

(* What is not in SymbolTable: .rela.plt, .rela.dyn, and a .got.plt section. *)
Object == [table  : SymbolTable,
           plt    : Seq(Rela),
           dyn    : Seq(Rela),
           gotplt : BOOLEAN]

ASSUME ProgramsAssumption ==
  /\ Programs \subseteq Seq(Object)
  /\ \A p \in Programs : Len(p) >= 2 /\ p[1].table.zero   \* the executable is at l_addr 0

VARIABLES
  prog,   \* the list of link_maps, in order; read only
  lazy,   \* LD_BIND_NOW is not set
  pc,     \* where ld.so or the program is
  obj,    \* the object being relocated
  i,      \* the iteration of the loop over its relocations
  rela,   \* the relocation looked at, which COPY does not advance
  slot    \* the words relocations refer to

vars == <<prog, lazy, pc, obj, i, rela, slot>>

-----------------------------------------------------------------------------

Section(m, sec) == IF sec = "plt" THEN prog[m].plt ELSE prog[m].dyn

Tables == [m \in DOMAIN prog |-> prog[m].table]

Init ==
  /\ prog \in Programs
  /\ lazy \in BOOLEAN
  /\ pc = "next"
  /\ obj = 1
  /\ i = 1
  /\ rela = 1
  /\ slot = [m \in DOMAIN prog |-> [plt |-> [r \in DOMAIN prog[m].plt |-> RAW],
                                   dyn |-> [r \in DOMAIN prog[m].dyn |-> RAW]]]

(* Mutant: the last two objects are taken for the end of the list.  *)
HasNext_Early == obj + 1 < Len(prog)

(* next->l_next: the loop of ldso_main() leaves out the last object.  *)
HasNext == obj < Len(prog)

(* ldso_main() calls resolve_relocations() for an object.  *)
ResolveObject ==
  /\ pc = "next"
  /\ HasNext
  /\ pc' = "plt"
  /\ i' = 1
  /\ rela' = 1
  /\ UNCHANGED <<prog, lazy, obj, slot>>

(* Mutant: only the first slot is rebased.  *)
Stubs_First(slots) == [slots EXCEPT ![1] = STUB]

(* Every slot of the PLT is rebased, and leads to __reloc.  *)
Stubs(slots) == [r \in DOMAIN slots |-> STUB]

(* relocation_lazy(): without a section .got.plt it changes nothing.  *)
RelocationLazy ==
  /\ pc = "plt"
  /\ lazy
  /\ pc' = "dyn"
  /\ slot' = IF prog[obj].plt # <<>> /\ prog[obj].gotplt
             THEN [slot EXCEPT ![obj].plt = Stubs(@)] ELSE slot
  /\ UNCHANGED <<prog, lazy, obj, i, rela>>

(* What relocation_lookup() stores in a slot.  *)
Stored(type, definer) == IF type = "RELATIVE" THEN REBASED ELSE definer

(* Mutant: the search starts at the object that is relocated.  *)
Lookup_FromSelf(m, sym) ==
  LET l == LinkMapLookup(SubSeq(Tables, m, Len(prog)), sym)
  IN  [l EXCEPT !.at = IF l.at = 0 THEN 0 ELSE l.at + m - 1]

(* Both binders search from the head of the list, whatever object m refers   *)
(* to the symbol.                                                            *)
Lookup(m, sym) == LinkMapLookup(Tables, sym)

(* Mutant: no iteration is counted for COPY.  *)
CountCopy_Stuck == i

(* The loop counter after a COPY.  *)
CountCopy == i + 1

(* One iteration of relocation_lookup().  *)
RelocationLookup(sec) ==
  /\ pc = sec
  /\ sec = "plt" => ~lazy
  /\ i <= Len(Section(obj, sec))
  /\ LET r == Section(obj, sec)[rela]
         l == Lookup(obj, r.sym)
     IN  \/ /\ r.type \in {"JUMP_SLOT", "GLOB_DAT", "RELATIVE"}
            /\ l.res = "hit"
            /\ slot' = [slot EXCEPT ![obj][sec][rela] = Stored(r.type, l.at)]
            /\ i' = i + 1 /\ rela' = rela + 1
            /\ UNCHANGED pc
         \/ /\ r.type \in {"JUMP_SLOT", "GLOB_DAT", "RELATIVE"}
            /\ l.res # "hit"
            /\ pc' = l.res
            /\ UNCHANGED <<i, rela, slot>>
         \/ /\ r.type = "COPY"
            /\ i' = CountCopy
            /\ UNCHANGED <<pc, rela, slot>>
         \/ /\ r.type = "OTHER"
            /\ i' = i + 1 /\ rela' = rela + 1
            /\ UNCHANGED <<pc, slot>>
  /\ UNCHANGED <<prog, lazy, obj>>

(* The eager .rela.plt is done: .rela.dyn.  *)
EndPlt ==
  /\ pc = "plt"
  /\ ~lazy
  /\ i > Len(Section(obj, "plt"))
  /\ pc' = "dyn"
  /\ i' = 1
  /\ rela' = 1
  /\ UNCHANGED <<prog, lazy, obj, slot>>

(* .rela.dyn is done: the next object.  *)
EndDyn ==
  /\ pc = "dyn"
  /\ i > Len(Section(obj, "dyn"))
  /\ pc' = "next"
  /\ obj' = obj + 1
  /\ UNCHANGED <<prog, lazy, i, rela, slot>>

(* jmp_to_usercode()  *)
StartUser ==
  /\ pc = "next"
  /\ ~HasNext
  /\ pc' = "user"
  /\ UNCHANGED <<prog, lazy, obj, i, rela, slot>>

LdsoStep ==
  \/ ResolveObject
  \/ RelocationLazy
  \/ \E sec \in {"plt", "dyn"} : RelocationLookup(sec)
  \/ EndPlt
  \/ EndDyn
  \/ StartUser

(* runtime_relocations() stores what it found.  *)
Rebound(m, r, definer) == [slot EXCEPT ![m].plt[r] = definer]

(* The program calls through a slot that leads to __reloc: it is bound, or   *)
(* the process stops.                                                        *)
FirstCall(m, r) ==
  /\ pc = "user"
  /\ slot[m].plt[r] = STUB
  /\ LET l == Lookup(m, prog[m].plt[r].sym)
     IN  \/ l.res = "hit" /\ slot' = Rebound(m, r, l.at) /\ UNCHANGED pc
         \/ l.res # "hit" /\ pc' = l.res /\ UNCHANGED slot
  /\ UNCHANGED <<prog, lazy, obj, i, rela>>

(* A call through a slot nothing relocated jumps to an address of the file.  *)
WildCall(m, r) ==
  /\ pc = "user"
  /\ slot[m].plt[r] = RAW
  /\ pc' = "crash"
  /\ UNCHANGED <<prog, lazy, obj, i, rela, slot>>

UserStep ==
  \E m \in DOMAIN prog : \E r \in DOMAIN prog[m].plt : FirstCall(m, r) \/ WildCall(m, r)

Next == LdsoStep \/ UserStep

(* ld.so runs until it starts the program; the program calls what it likes.  *)
Spec == Init /\ [][Next]_vars /\ WF_vars(LdsoStep)

-----------------------------------------------------------------------------

TypeOK ==
  /\ prog \in Seq(Object)
  /\ lazy \in BOOLEAN
  /\ pc \in {"next", "plt", "dyn", "user", "exit", "trap", "crash"}
  /\ obj \in DOMAIN prog
  /\ i \in Nat \ {0}
  /\ rela \in 1 .. i
  /\ DOMAIN slot = DOMAIN prog
  /\ \A m \in DOMAIN prog :
       /\ DOMAIN slot[m] = {"plt", "dyn"}
       /\ \A sec \in {"plt", "dyn"} :
            slot[m][sec] \in [DOMAIN Section(m, sec) -> {RAW, STUB, REBASED} \union DOMAIN prog]

(* No relocation of the section before r is a COPY.  *)
Reached(m, sec, r) == \A q \in 1 .. r : Section(m, sec)[q].type # "COPY"

Relocated(m, sec, r) ==
  Section(m, sec)[r].type \notin {"COPY", "OTHER"} => slot[m][sec][r] # RAW

(* Once the program runs, every slot of every object but the last of the     *)
(* list, which the vdso is for, is bound or leads to __reloc, except those   *)
(* a COPY relocation of the same section comes before.                       *)
RelocatedBeforeUse ==
  /\ TypeOK
  /\ pc = "user" =>
       \A m \in 1 .. (Len(prog) - 1) : \A sec \in {"plt", "dyn"} :
         \A r \in DOMAIN Section(m, sec) :
           Reached(m, sec, r) /\ (sec = "plt" /\ lazy => prog[m].gotplt) => Relocated(m, sec, r)

(* A call jumps to an address nobody relocated only in the last object, when *)
(* the kernel gave no vdso, when a lazy PLT has no section .got.plt, or when  *)
(* an eager .rela.plt has a type ld.so does not know, or a COPY.  The         *)
(* division by zero needs an object, not the executable, that has no          *)
(* DT_GNU_HASH, and a symbol that no object before it has in such a table.    *)
StopHasCause ==
  /\ pc = "crash" =>
       \E m \in DOMAIN prog : \E r \in DOMAIN prog[m].plt :
         \/ m = Len(prog)
         \/ lazy /\ ~prog[m].gotplt
         \/ ~lazy /\ prog[m].plt[r].type \in {"COPY", "OTHER"}
  /\ pc = "trap" =>
       \E m \in 2 .. Len(prog) :
         /\ prog[m].table.opens /\ ~prog[m].table.gnu
         /\ \E o \in DOMAIN prog : \E sec \in {"plt", "dyn"} : \E r \in DOMAIN Section(o, sec) :
              \A l \in 1 .. (m - 1) :
                prog[l].table.gnu => Section(o, sec)[r].sym \notin prog[l].table.defs

(* The program is started, or ld.so stops: no list of relocations, with COPY  *)
(* in it or not, keeps ld.so in a loop.                                       *)
StartupEnds == <>(pc \in {"user", "exit", "trap"})

(* Lazy binding, eager binding and the runtime binder all give a slot the     *)
(* first definition in list order, once, and stop only for want of one, when *)
(* the program is as linkers make them today: DT_GNU_HASH, a .got.plt, a PLT  *)
(* of functions only, and a vdso, of which nothing is known, at the end of    *)
(* the list.  Any other is one that may be refused.                           *)
Regular ==
  \A m \in DOMAIN prog :
    LET o == prog[m]
    IN  IF m = Len(prog) THEN ~o.table.opens /\ o.table.defs = {} /\ o.plt = <<>>
        ELSE /\ o.table.opens /\ o.table.gnu /\ ~o.table.sysv /\ o.gotplt
             /\ \A r \in DOMAIN o.plt : o.plt[r].type = "JUMP_SLOT"

Places ==
  UNION {{<<m, sec, r>> : r \in DOMAIN Section(m, sec)} : m \in DOMAIN prog, sec \in {"plt", "dyn"}}

Called == {s \in Places : s[2] = "plt"}

WantOf(m, sec, r) == FirstDefiner(Tables, Section(m, sec)[r].sym)
BoundOf(m, sec, r) == IF slot[m][sec][r] > 0 THEN slot[m][sec][r] ELSE 0

Wants == [s \in Places |-> WantOf(s[1], s[2], s[3])]
Bounds == [s \in Places |-> BoundOf(s[1], s[2], s[3])]

Refusable == <<0>>   \* one place, which wants what does not exist

Abstract == INSTANCE Binding WITH
  want  <- IF Regular THEN Wants ELSE Refusable,
  calls <- IF Regular THEN Called ELSE DOMAIN Refusable,
  eager <- ~Regular \/ ~lazy,
  bound <- IF Regular THEN Bounds ELSE Refusable,
  phase <- CASE pc \in {"next", "plt", "dyn"} -> "start"
             [] pc = "user" /\ Regular -> "run"
             [] OTHER -> "failed"

ImplementsBinding == Abstract!Spec

=============================================================================

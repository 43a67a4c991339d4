--------------------------- MODULE Relocations_proofs ---------------------------
(***************************************************************************)
(* Proofs about Relocations: for every list of objects and whatever their  *)
(* relocations are, no slot is left behind when the program starts, ld.so  *)
(* only stops or crashes for a known cause, and both ways of binding do    *)
(* what Binding promises.                                                  *)
(***************************************************************************)
EXTENDS Relocations, LeastElement, TLAPS

-----------------------------------------------------------------------------

Sec == {"plt", "dyn"}

(* Every slot of a section that is not excused has been relocated.           *)
Done(m, sec) ==
  \A r \in DOMAIN Section(m, sec) :
    IF sec = "plt" /\ lazy THEN prog[m].gotplt => slot[m][sec][r] # RAW
                           ELSE Reached(m, sec, r) => Relocated(m, sec, r)

(* No slot of the section from r on has been written.                        *)
Fresh(m, sec, r) == \A q \in DOMAIN Section(m, sec) : q >= r => slot[m][sec][q] = RAW

(* Inside relocation_lookup(): rela counts with i until it meets a COPY.     *)
Scanned(sec) ==
  /\ rela = i \/ (rela <= Len(Section(obj, sec)) /\ Section(obj, sec)[rela].type = "COPY")
  /\ \A q \in DOMAIN Section(obj, sec) :
       q < rela => Section(obj, sec)[q].type # "COPY" /\ Relocated(obj, sec, q)
  /\ Fresh(obj, sec, rela)

(* Where ld.so is: objects before obj are done, those behind it untouched.   *)
Progress ==
  /\ \A m \in DOMAIN prog : \A sec \in Sec : m < obj => Done(m, sec)
  /\ pc \in {"next", "plt", "dyn"} =>
       \A m \in DOMAIN prog : \A sec \in Sec : m > obj => Fresh(m, sec, 1)
  /\ pc = "next" => \A sec \in Sec : Fresh(obj, sec, 1)
  /\ pc = "plt" => /\ obj < Len(prog) /\ Scanned("plt") /\ Fresh(obj, "dyn", 1)
                   /\ lazy => i = 1 /\ rela = 1
  /\ pc = "dyn" => obj < Len(prog) /\ Scanned("dyn") /\ Done(obj, "plt")
  /\ pc \in {"user", "crash"} => obj = Len(prog)

(* Only a lazy PLT has stubs, only an R_X86_64_RELATIVE gives l_addr + addend. *)
Codes ==
  \A m \in DOMAIN prog : \A sec \in Sec : \A r \in DOMAIN Section(m, sec) :
    /\ slot[m][sec][r] = STUB => lazy /\ sec = "plt"
    /\ slot[m][sec][r] = REBASED => Section(m, sec)[r].type = "RELATIVE"

RelocInv ==
  /\ prog \in Programs
  /\ TypeOK
  /\ Progress
  /\ Codes
  /\ StopHasCause

-----------------------------------------------------------------------------
(* The search of link_map_lookup().  *)

LEMMA ProbeType ==
  ASSUME NEW o, NEW name
  PROVE  Probe(o, name) \in {"none", "hit", "exit", "trap"}
BY DEF Probe, GnuHashLookup, HashLookup

(* It ends at the first object that stops it, or at the end of the list.      *)
LEMMA LookupIsFirst ==
  ASSUME NEW objs, DOMAIN objs \subseteq Nat, NEW name
  PROVE  LET l == LinkMapLookup(objs, name)
         IN  \/ /\ l.res = "exit" /\ l.at = 0
                /\ \A m \in DOMAIN objs : Probe(objs[m], name) = "none"
             \/ /\ l.at \in DOMAIN objs
                /\ l.res = Probe(objs[l.at], name) /\ l.res # "none"
                /\ \A m \in DOMAIN objs : m < l.at => Probe(objs[m], name) = "none"
<1> DEFINE S == Stops(objs, name)
           first == CHOOSE m \in S : \A l \in S : m <= l
<1>1. CASE S = {}
  <2>1. LinkMapLookup(objs, name) = [res |-> "exit", at |-> 0]
    BY <1>1 DEF LinkMapLookup
  <2> QED BY <2>1, <1>1 DEF Stops
<1>2. CASE S # {}
  <2>1. LinkMapLookup(objs, name) = [res |-> Probe(objs[first], name), at |-> first]
    BY <1>2 DEF LinkMapLookup
  <2>2. S \subseteq Nat
    BY DEF Stops
  <2>3. \E m \in S : \A l \in S : m <= l
    <3> HIDE DEF S
    <3> QED BY <2>2, <1>2, SmallestExists
  <2>4. first \in S /\ \A l \in S : first <= l
    <3> HIDE DEF S
    <3> QED BY <2>3
  <2> HIDE DEF first
  <2>5. first \in DOMAIN objs /\ Probe(objs[first], name) # "none"
    BY <2>4 DEF Stops
  <2>6. ASSUME NEW m \in DOMAIN objs, m < first PROVE Probe(objs[m], name) = "none"
    <3>1. m \notin S
      BY <2>2, <2>4, <2>6
    <3> QED BY <3>1 DEF Stops
  <2> QED BY <2>1, <2>5, <2>6
<1> QED BY <1>1, <1>2

-----------------------------------------------------------------------------
(* The lists of objects.  *)

LEMMA ProgFacts ==
  ASSUME prog \in Programs
  PROVE  /\ prog \in Seq(Object)
         /\ Len(prog) \in Nat /\ Len(prog) >= 2 /\ DOMAIN prog = 1 .. Len(prog)
         /\ prog[1].table.zero
         /\ \A m \in DOMAIN prog : prog[m] \in Object
         /\ \A m \in DOMAIN prog : \A sec \in Sec :
              /\ Section(m, sec) \in Seq(Rela)
              /\ Len(Section(m, sec)) \in Nat
              /\ DOMAIN Section(m, sec) = 1 .. Len(Section(m, sec))
              /\ \A r \in DOMAIN Section(m, sec) :
                   Section(m, sec)[r].type \in Type /\ Section(m, sec)[r].sym \in Symbol
<1>1. prog \in Seq(Object) /\ Len(prog) >= 2 /\ prog[1].table.zero
  BY ProgramsAssumption
<1>2. Len(prog) \in Nat /\ DOMAIN prog = 1 .. Len(prog)
  BY <1>1
<1>3. \A m \in DOMAIN prog : prog[m] \in Object
  BY <1>1
<1>4. ASSUME NEW m \in DOMAIN prog, NEW sec \in Sec PROVE Section(m, sec) \in Seq(Rela)
  BY <1>3 DEF Section, Object
<1>5. ASSUME NEW s \in Seq(Rela)
      PROVE  /\ Len(s) \in Nat /\ DOMAIN s = 1 .. Len(s)
             /\ \A r \in DOMAIN s : s[r].type \in Type /\ s[r].sym \in Symbol
  <2>1. Len(s) \in Nat /\ DOMAIN s = 1 .. Len(s) /\ \A r \in DOMAIN s : s[r] \in Rela
    OBVIOUS
  <2> QED BY <2>1 DEF Rela
<1> QED BY <1>1, <1>2, <1>3, <1>4, <1>5

(* What the binders find: the object searched to, and what the others say.    *)
LEMMA LookupFacts ==
  ASSUME prog \in Programs, NEW m, NEW sym
  PROVE  LET l == Lookup(m, sym)
         IN  /\ l.res \in {"hit", "exit", "trap"}
             /\ l.res # "exit" => /\ l.at \in DOMAIN prog
                                  /\ l.res = Probe(prog[l.at].table, sym)
             /\ \A o \in DOMAIN prog : o < l.at => Probe(prog[o].table, sym) = "none"
             /\ l.res = "exit" => \/ l.at = 0 /\ \A o \in DOMAIN prog : Probe(prog[o].table, sym) = "none"
                                  \/ l.at \in DOMAIN prog /\ Probe(prog[l.at].table, sym) = "exit"
<1>1. DOMAIN Tables = DOMAIN prog /\ \A o \in DOMAIN prog : Tables[o] = prog[o].table
  BY DEF Tables
<1>2. DOMAIN prog \subseteq Nat
  BY ProgFacts
<1>3. Lookup(m, sym) = LinkMapLookup(Tables, sym)
  BY DEF Lookup
<1> DEFINE l == LinkMapLookup(Tables, sym)
<1>4. \/ /\ l.res = "exit" /\ l.at = 0
         /\ \A o \in DOMAIN prog : Probe(prog[o].table, sym) = "none"
      \/ /\ l.at \in DOMAIN prog
         /\ l.res = Probe(prog[l.at].table, sym) /\ l.res # "none"
         /\ \A o \in DOMAIN prog : o < l.at => Probe(prog[o].table, sym) = "none"
  <2>1. DOMAIN Tables \subseteq Nat BY <1>1, <1>2
  <2> HIDE DEF l
  <2>2. \/ /\ l.res = "exit" /\ l.at = 0
           /\ \A o \in DOMAIN Tables : Probe(Tables[o], sym) = "none"
        \/ /\ l.at \in DOMAIN Tables
           /\ l.res = Probe(Tables[l.at], sym) /\ l.res # "none"
           /\ \A o \in DOMAIN Tables : o < l.at => Probe(Tables[o], sym) = "none"
    BY <2>1, LookupIsFirst DEF l
  <2> QED BY <2>2, <1>1
<1> HIDE DEF l
<1>5. \A o : Probe(o, sym) \in {"none", "hit", "exit", "trap"}
  BY ProbeType
<1>6. l.res \in {"hit", "exit", "trap"}
  BY <1>4, <1>5
<1> QED BY <1>3, <1>4, <1>6 DEF l

(* The division by zero: the object, and that those before it do not define   *)
(* the symbol.                                                               *)
LEMMA TrapCause ==
  ASSUME prog \in Programs, NEW sym, NEW at \in DOMAIN prog,
         Probe(prog[at].table, sym) = "trap",
         \A o \in DOMAIN prog : o < at => Probe(prog[o].table, sym) = "none"
  PROVE  /\ at \in 2 .. Len(prog)
         /\ prog[at].table.opens /\ ~prog[at].table.gnu
         /\ \A l \in 1 .. (at - 1) : prog[l].table.gnu => sym \notin prog[l].table.defs
<1>1. /\ GnuHashLookup(prog[at].table, sym) = "trap"
  BY DEF Probe, HashLookup
<1>2. prog[at].table.opens /\ ~prog[at].table.gnu /\ ~prog[at].table.zero
  BY <1>1 DEF GnuHashLookup
<1>3. at \in 2 .. Len(prog)
  BY <1>2, ProgFacts
<1>4. ASSUME NEW l \in 1 .. (at - 1), prog[l].table.gnu PROVE sym \notin prog[l].table.defs
  <2>1. l \in DOMAIN prog /\ l < at
    BY <1>3, ProgFacts
  <2>2. GnuHashLookup(prog[l].table, sym) = "none"
    BY <2>1 DEF Probe
  <2> QED BY <2>2, <1>4 DEF GnuHashLookup
<1> QED BY <1>2, <1>3, <1>4

-----------------------------------------------------------------------------
(* The slots.  *)

Value == {RAW, STUB, REBASED} \union DOMAIN prog

SlotType ==
  /\ DOMAIN slot = DOMAIN prog
  /\ \A m \in DOMAIN prog :
       /\ DOMAIN slot[m] = Sec
       /\ \A sec \in Sec : slot[m][sec] \in [DOMAIN Section(m, sec) -> Value]

(* TypeOK, as the proofs use it.                                             *)
Types ==
  /\ prog \in Seq(Object)
  /\ lazy \in BOOLEAN
  /\ pc \in {"next", "plt", "dyn", "user", "exit", "trap", "crash"}
  /\ obj \in DOMAIN prog
  /\ i \in Nat \ {0}
  /\ rela \in 1 .. i
  /\ SlotType

LEMMA TypeParts == (TypeOK <=> Types) /\ (TypeOK' <=> Types')
BY DEF Types, TypeOK, SlotType, Sec, Value

Store(m, sec, r, v) == [slot EXCEPT ![m][sec][r] = v]

(* Writing one slot leaves the others alone.                                 *)
LEMMA StoreOne ==
  ASSUME SlotType, prog' = prog,
         NEW m \in DOMAIN prog, NEW sec \in Sec, NEW r \in DOMAIN Section(m, sec), NEW v \in Value,
         slot' = Store(m, sec, r, v)
  PROVE  /\ SlotType'
         /\ slot'[m][sec][r] = v
         /\ \A n \in DOMAIN prog : \A s \in Sec : \A q \in DOMAIN Section(n, s) :
              ~(n = m /\ s = sec /\ q = r) => slot'[n][s][q] = slot[n][s][q]
<1>1. \A n, s : Section(n, s)' = Section(n, s)
  BY DEF Section
<1> QED BY <1>1 DEF SlotType, Value, Store

(* A section stays done as long as no slot is reset.                         *)
LEMMA StaysDone ==
  ASSUME prog' = prog, lazy' = lazy, NEW m, NEW sec, Done(m, sec),
         \A q \in DOMAIN Section(m, sec) : slot[m][sec][q] # RAW => slot'[m][sec][q] # RAW
  PROVE  Done(m, sec)'
BY DEF Done, Section, Reached, Relocated

(* The relocations of the program behind the current object are untouched.    *)
LEMMA StaysFresh ==
  ASSUME prog' = prog, NEW m, NEW sec, NEW r, Fresh(m, sec, r),
         \A q \in DOMAIN Section(m, sec) : slot'[m][sec][q] = slot[m][sec][q]
  PROVE  Fresh(m, sec, r)'
BY DEF Fresh, Section

LEMMA InitReloc == Init => RelocInv
<1> SUFFICES ASSUME Init PROVE RelocInv
  OBVIOUS
<1>1. prog \in Programs /\ pc = "next" /\ obj = 1 /\ i = 1 /\ rela = 1 /\ lazy \in BOOLEAN
  BY DEF Init
<1>2. prog \in Seq(Object) /\ DOMAIN prog = 1 .. Len(prog) /\ Len(prog) >= 2 /\ Len(prog) \in Nat
  BY <1>1, ProgFacts
<1>3. DOMAIN slot = DOMAIN prog
  BY DEF Init
<1>4. ASSUME NEW m \in DOMAIN prog
      PROVE  /\ DOMAIN slot[m] = Sec
             /\ \A sec \in Sec : slot[m][sec] = [r \in DOMAIN Section(m, sec) |-> RAW]
  <2>1. slot[m] = [plt |-> [r \in DOMAIN prog[m].plt |-> RAW],
                   dyn |-> [r \in DOMAIN prog[m].dyn |-> RAW]]
    BY DEF Init
  <2> QED BY <2>1 DEF Sec, Section
<1>5. TypeOK
  <2>1. ASSUME NEW m \in DOMAIN prog, NEW sec \in Sec
        PROVE  slot[m][sec] \in [DOMAIN Section(m, sec) -> {RAW, STUB, REBASED} \union DOMAIN prog]
    <3>1. RAW \in {RAW, STUB, REBASED} \union DOMAIN prog
      OBVIOUS
    <3>2. slot[m][sec] = [r \in DOMAIN Section(m, sec) |-> RAW]
      BY <1>4
    <3> QED BY <3>1, <3>2
  <2>2. SlotType
    BY <1>3, <1>4, <2>1 DEF SlotType, Value
  <2> QED BY <1>1, <1>2, <2>2, TypeParts DEF Types
<1>6. ASSUME NEW m \in DOMAIN prog, NEW sec \in Sec, NEW q \in DOMAIN Section(m, sec)
      PROVE  slot[m][sec][q] = RAW
  <2>1. slot[m][sec] = [r \in DOMAIN Section(m, sec) |-> RAW] BY <1>4
  <2> QED BY <2>1
<1>7. \A m \in DOMAIN prog : \A sec \in Sec : Fresh(m, sec, 1)
  BY <1>6 DEF Fresh
<1>8. Progress
  <2>1. pc = "next" /\ obj = 1 /\ obj \in DOMAIN prog BY <1>1, <1>2
  <2>2. \A m \in DOMAIN prog : ~(m < obj) BY <1>1, <1>2
  <2> QED BY <1>7, <2>1, <2>2 DEF Progress
<1>9. Codes
  BY <1>6 DEF Codes, RAW, STUB, REBASED
<1> QED BY <1>1, <1>5, <1>8, <1>9 DEF RelocInv, StopHasCause

(* The parts of RelocInv that a step leaves alone which writes no slot.       *)
LEMMA NoWrite ==
  ASSUME RelocInv, UNCHANGED <<prog, lazy, slot>>
  PROVE  /\ prog' \in Programs /\ Codes' /\ SlotType'
         /\ \A m, sec : Section(m, sec)' = Section(m, sec)
         /\ \A m, sec : Done(m, sec)' <=> Done(m, sec)
         /\ \A m, sec, r : Fresh(m, sec, r)' <=> Fresh(m, sec, r)
         /\ \A m, sec, r : Relocated(m, sec, r)' <=> Relocated(m, sec, r)
<1>1. \A m, sec : Section(m, sec)' = Section(m, sec)
  BY DEF Section
<1>2. \A m, sec, r : Relocated(m, sec, r)' <=> Relocated(m, sec, r)
  BY <1>1 DEF Relocated
<1>3. \A m, sec, r : Reached(m, sec, r)' <=> Reached(m, sec, r)
  BY <1>1 DEF Reached
<1>4. \A m, sec : Done(m, sec)' <=> Done(m, sec)
  BY <1>1, <1>2, <1>3 DEF Done
<1>5. \A m, sec, r : Fresh(m, sec, r)' <=> Fresh(m, sec, r)
  BY <1>1 DEF Fresh
<1>6. Codes'
  BY <1>1 DEF RelocInv, Codes
<1>7. SlotType'
  BY <1>1 DEF RelocInv, TypeOK, SlotType, Sec, Value
<1> QED BY <1>1, <1>2, <1>4, <1>5, <1>6, <1>7 DEF RelocInv

(* When the iterations are used up the section is done, COPY or not.          *)
LEMMA ScanEnds ==
  ASSUME RelocInv, NEW sec \in Sec, Scanned(sec), sec = "plt" => ~lazy,
         i > Len(Section(obj, sec))
  PROVE  Done(obj, sec)
<1>1. /\ obj \in DOMAIN prog /\ i \in Nat \ {0} /\ rela \in 1 .. i
      /\ Len(Section(obj, sec)) \in Nat /\ DOMAIN Section(obj, sec) = 1 .. Len(Section(obj, sec))
  BY ProgFacts DEF RelocInv, TypeOK
<1>2. ASSUME NEW r \in DOMAIN Section(obj, sec), Reached(obj, sec, r) PROVE Relocated(obj, sec, r)
  <2>1. r < rela
    <3>1. CASE rela = i
      BY <1>1, <3>1
    <3>2. CASE rela <= Len(Section(obj, sec)) /\ Section(obj, sec)[rela].type = "COPY"
      <4>1. rela \notin 1 .. r
        BY <1>2, <3>2 DEF Reached
      <4> QED BY <4>1, <1>1
    <3> QED BY <3>1, <3>2 DEF Scanned
  <2> QED BY <2>1 DEF Scanned
<1> QED BY <1>2 DEF Done

LEMMA ResolveObjectKeeps ==
  ASSUME RelocInv, ResolveObject
  PROVE  RelocInv'
<1> USE DEF RelocInv
<1>1. /\ pc = "next" /\ obj < Len(prog) /\ pc' = "plt" /\ i' = 1 /\ rela' = 1 /\ obj' = obj
      /\ UNCHANGED <<prog, lazy, slot>>
  BY DEF ResolveObject, HasNext
<1>2. TypeOK'
  BY <1>1, NoWrite, TypeParts DEF Types
<1>3. Scanned("plt")'
  <2>1. \A q \in DOMAIN Section(obj, "plt") : ~(q < 1)
    BY <1>1, ProgFacts DEF TypeOK, Sec
  <2>2. Fresh(obj, "plt", 1)
    BY <1>1 DEF Progress, Sec
  <2> QED BY <1>1, <2>1, <2>2, NoWrite DEF Scanned
<1>4. Progress'
  <2>1. Fresh(obj, "dyn", 1)
    BY <1>1 DEF Progress, Sec
  <2> QED BY <1>1, <1>3, <2>1, NoWrite DEF Progress
<1> QED BY <1>1, <1>2, <1>4, NoWrite DEF StopHasCause

LEMMA EndPltKeeps ==
  ASSUME RelocInv, EndPlt
  PROVE  RelocInv'
<1> USE DEF RelocInv
<1>1. /\ pc = "plt" /\ ~lazy /\ pc' = "dyn" /\ i' = 1 /\ rela' = 1 /\ obj' = obj
      /\ i > Len(Section(obj, "plt"))
      /\ UNCHANGED <<prog, lazy, slot>>
  BY DEF EndPlt
<1>2. TypeOK'
  BY <1>1, NoWrite, TypeParts DEF Types
<1>3. Done(obj, "plt")
  BY <1>1, ScanEnds DEF Progress, Sec
<1>4. Scanned("dyn")'
  <2>1. \A q \in DOMAIN Section(obj, "dyn") : ~(q < 1)
    BY <1>1, ProgFacts DEF TypeOK, Sec
  <2>2. Fresh(obj, "dyn", 1)
    BY <1>1 DEF Progress, Sec
  <2> QED BY <1>1, <2>1, <2>2, NoWrite DEF Scanned
<1>5. Progress'
  BY <1>1, <1>3, <1>4, NoWrite DEF Progress
<1> QED BY <1>1, <1>2, <1>5, NoWrite DEF StopHasCause

LEMMA EndDynKeeps ==
  ASSUME RelocInv, EndDyn
  PROVE  RelocInv'
<1> USE DEF RelocInv
<1>1. /\ pc = "dyn" /\ pc' = "next" /\ obj' = obj + 1
      /\ i > Len(Section(obj, "dyn"))
      /\ UNCHANGED <<prog, lazy, slot, i, rela>>
  BY DEF EndDyn
<1>2. /\ obj \in DOMAIN prog /\ obj < Len(prog) /\ DOMAIN prog = 1 .. Len(prog) /\ Len(prog) \in Nat
      /\ obj' \in DOMAIN prog
  BY <1>1, ProgFacts DEF TypeOK, Progress
<1>3. TypeOK'
  BY <1>1, <1>2, NoWrite, TypeParts DEF Types
<1>4. Done(obj, "plt") /\ Done(obj, "dyn")
  BY <1>1, ScanEnds DEF Progress, Sec
<1>5. Progress'
  <2>1. ASSUME NEW m \in DOMAIN prog, NEW sec \in Sec, m < obj' PROVE Done(m, sec)
    <3>1. m < obj \/ m = obj
      BY <2>1, <1>1, <1>2
    <3> QED BY <3>1, <1>4, <2>1 DEF Progress, Sec
  <2>2. ASSUME NEW m \in DOMAIN prog, NEW sec \in Sec, m > obj' \/ m = obj' PROVE Fresh(m, sec, 1)
    <3>1. m > obj
      BY <2>2, <1>1, <1>2
    <3> QED BY <3>1, <1>1 DEF Progress
  <2> QED BY <1>1, <1>2, <2>1, <2>2, NoWrite DEF Progress
<1> QED BY <1>1, <1>3, <1>5, NoWrite DEF StopHasCause

LEMMA StartUserKeeps ==
  ASSUME RelocInv, StartUser
  PROVE  RelocInv'
<1> USE DEF RelocInv
<1>1. /\ pc = "next" /\ ~(obj < Len(prog)) /\ pc' = "user" /\ obj' = obj
      /\ UNCHANGED <<prog, lazy, slot, i, rela>>
  BY DEF StartUser, HasNext
<1>2. TypeOK'
  BY <1>1, NoWrite, TypeParts DEF Types
<1>3. obj = Len(prog)
  BY <1>1, ProgFacts DEF TypeOK
<1>4. Progress'
  BY <1>1, <1>3, NoWrite DEF Progress
<1> QED BY <1>1, <1>2, <1>4, NoWrite DEF StopHasCause

(* relocation_lazy() leaves a stub in every slot of a PLT with a .got.plt.    *)
LEMMA RelocationLazyKeeps ==
  ASSUME RelocInv, RelocationLazy
  PROVE  RelocInv'
<1> USE DEF RelocInv
<1>1. /\ pc = "plt" /\ lazy /\ pc' = "dyn" /\ obj' = obj /\ obj < Len(prog)
      /\ i = 1 /\ rela = 1 /\ i' = 1 /\ rela' = 1
      /\ UNCHANGED <<prog, lazy>>
  BY DEF RelocationLazy, Progress
<1>2. /\ obj \in DOMAIN prog /\ SlotType /\ prog \in Programs /\ Fresh(obj, "dyn", 1)
      /\ \A m, sec : Section(m, sec)' = Section(m, sec)
      /\ Section(obj, "plt") = prog[obj].plt
  BY <1>1, TypeParts DEF Types, Progress, Section
<1>3. CASE prog[obj].plt # <<>> /\ prog[obj].gotplt
  <2>1. slot' = [slot EXCEPT ![obj].plt = Stubs(@)]
    BY <1>3 DEF RelocationLazy
  <2>2. DOMAIN slot' = DOMAIN prog /\ \A m \in DOMAIN prog : DOMAIN slot'[m] = Sec
    BY <2>1, <1>2 DEF SlotType
  <2>3. slot'[obj]["plt"] = [r \in DOMAIN Section(obj, "plt") |-> STUB]
    BY <2>1, <1>2 DEF SlotType, Sec, Stubs
  <2>4. \A m \in DOMAIN prog : \A sec \in Sec :
          m # obj \/ sec # "plt" => slot'[m][sec] = slot[m][sec]
    BY <2>1, <1>2 DEF SlotType, Sec
  <2>5. SlotType'
    <3>1. slot'[obj]["plt"] \in [DOMAIN Section(obj, "plt") -> Value]
      <4>1. STUB \in Value
        BY DEF Value
      <4> QED BY <4>1, <2>3
    <3>2. Value' = Value
      BY <1>1 DEF Value
    <3> QED BY <3>1, <3>2, <1>1, <1>2, <2>2, <2>4 DEF SlotType
  <2>6. TypeOK'
    BY <1>1, <2>5, TypeParts DEF Types
  <2>7. Done(obj, "plt")'
    BY <1>1, <1>2, <2>3 DEF Done, STUB, RAW
  <2>8. Scanned("dyn")'
    <3>1. \A q \in DOMAIN Section(obj, "dyn") : ~(q < 1)
      BY <1>2, ProgFacts DEF Sec
    <3>2. Fresh(obj, "dyn", 1)'
      BY <1>1, <1>2, <2>4, StaysFresh DEF Sec
    <3> QED BY <1>1, <1>2, <3>1, <3>2 DEF Scanned
  <2>9. Progress'
    <3>1. ASSUME NEW m \in DOMAIN prog, NEW sec \in Sec, m < obj PROVE Done(m, sec)'
      <4>1. m # obj /\ Done(m, sec)
        BY <3>1, <1>2, ProgFacts DEF Progress
      <4> QED BY <4>1, <2>4, <1>1, StaysDone
    <3>2. ASSUME NEW m \in DOMAIN prog, NEW sec \in Sec, m > obj PROVE Fresh(m, sec, 1)'
      <4>1. m # obj /\ Fresh(m, sec, 1)
        BY <3>2, <1>1, <1>2, ProgFacts DEF Progress
      <4> QED BY <4>1, <2>4, <1>1, StaysFresh
    <3> QED BY <1>1, <2>7, <2>8, <3>1, <3>2 DEF Progress
  <2>10. Codes'
    <3>1. ASSUME NEW m \in DOMAIN prog, NEW sec \in Sec, NEW r \in DOMAIN Section(m, sec)
          PROVE  /\ slot'[m][sec][r] = STUB => lazy /\ sec = "plt"
                 /\ slot'[m][sec][r] = REBASED => Section(m, sec)[r].type = "RELATIVE"
      <4>1. CASE m = obj /\ sec = "plt"
        BY <4>1, <1>1, <2>3 DEF STUB, REBASED
      <4>2. CASE ~(m = obj /\ sec = "plt")
        BY <4>2, <2>4 DEF Codes
      <4> QED BY <4>1, <4>2
    <3> QED BY <3>1, <1>1, <1>2 DEF Codes
  <2> QED BY <1>1, <2>6, <2>9, <2>10 DEF StopHasCause
<1>4. CASE ~(prog[obj].plt # <<>> /\ prog[obj].gotplt)
  <2>1. UNCHANGED <<prog, lazy, slot>>
    BY <1>4, <1>1 DEF RelocationLazy
  <2>2. TypeOK'
    BY <1>1, <2>1, NoWrite, TypeParts DEF Types
  <2>3. Done(obj, "plt")
    BY <1>4, <1>1, <1>2 DEF Done
  <2>4. Scanned("dyn")'
    <3>1. \A q \in DOMAIN Section(obj, "dyn") : ~(q < 1)
      BY <1>2, ProgFacts DEF Sec
    <3> QED BY <1>1, <1>2, <2>1, <3>1, NoWrite DEF Scanned
  <2>5. Progress'
    BY <1>1, <2>1, <2>3, <2>4, NoWrite DEF Progress
  <2> QED BY <1>1, <2>1, <2>2, <2>5, NoWrite DEF StopHasCause
<1> QED BY <1>3, <1>4

(* One iteration of relocation_lookup() that stores, or passes over, the      *)
(* relocation it is at.                                                      *)
LEMMA AdvanceKeeps ==
  ASSUME RelocInv, NEW sec \in Sec, pc = sec, sec = "plt" => ~lazy,
         i <= Len(Section(obj, sec)),
         Section(obj, sec)[rela].type # "COPY",
         UNCHANGED <<prog, lazy, pc, obj>>, i' = i + 1, rela' = rela + 1,
         SlotType', Codes',
         Section(obj, sec)[rela].type # "OTHER" => slot'[obj][sec][rela] # RAW,
         \A m \in DOMAIN prog : \A s \in Sec : \A q \in DOMAIN Section(m, s) :
           ~(m = obj /\ s = sec /\ q = rela) => slot'[m][s][q] = slot[m][s][q]
  PROVE  RelocInv'
<1> USE DEF RelocInv
<1>1. /\ prog \in Programs /\ obj \in DOMAIN prog /\ i \in Nat \ {0} /\ rela \in 1 .. i
      /\ DOMAIN prog \subseteq Nat /\ obj < Len(prog)
      /\ Scanned(sec)
  <2>1. prog \in Programs /\ obj \in DOMAIN prog /\ i \in Nat \ {0} /\ rela \in 1 .. i
    BY TypeParts DEF Types
  <2>2. DOMAIN prog \subseteq Nat
    BY ProgFacts
  <2>3. obj < Len(prog) /\ Scanned(sec)
    BY DEF Progress, Sec
  <2> QED BY <2>1, <2>2, <2>3
<1>2. \A m, s : Section(m, s)' = Section(m, s)
  BY DEF Section
<1>3. /\ Len(Section(obj, sec)) \in Nat /\ DOMAIN Section(obj, sec) = 1 .. Len(Section(obj, sec))
  BY <1>1, ProgFacts
<1>4. rela = i
  BY <1>1 DEF Scanned
<1>5. TypeOK'
  BY <1>1, TypeParts DEF Types
<1>6. Scanned(sec)'
  <2>1. ASSUME NEW q \in DOMAIN Section(obj, sec), q < rela + 1
        PROVE  Section(obj, sec)[q].type # "COPY" /\ Relocated(obj, sec, q)'
    <3>1. CASE q = rela
      BY <3>1, <1>2 DEF Relocated
    <3>2. CASE q # rela
      <4>1. q < rela
        BY <2>1, <3>2, <1>1, <1>3
      <4>2. Section(obj, sec)[q].type # "COPY" /\ Relocated(obj, sec, q)
        BY <4>1, <1>1 DEF Scanned
      <4>3. slot'[obj][sec][q] = slot[obj][sec][q]
        BY <3>2, <1>1
      <4> QED BY <4>2, <4>3, <1>2 DEF Relocated
    <3> QED BY <3>1, <3>2
  <2>2. ASSUME NEW q \in DOMAIN Section(obj, sec), q >= rela + 1
        PROVE  slot'[obj][sec][q] = RAW
    <3>1. q >= rela /\ q # rela
      BY <2>2, <1>1, <1>3
    <3>2. slot[obj][sec][q] = RAW
      BY <3>1, <1>1 DEF Scanned, Fresh
    <3> QED BY <3>1, <3>2, <1>1
  <2>3. Fresh(obj, sec, rela)'
    BY <2>2, <1>2 DEF Fresh
  <2> QED BY <1>2, <1>4, <2>1, <2>3 DEF Scanned
<1>7. ASSUME NEW m \in DOMAIN prog, NEW s \in Sec, m # obj \/ s # sec
      PROVE  /\ \A q \in DOMAIN Section(m, s) : slot'[m][s][q] = slot[m][s][q]
             /\ Done(m, s) => Done(m, s)'
             /\ \A r : Fresh(m, s, r) => Fresh(m, s, r)'
  <2>1. \A q \in DOMAIN Section(m, s) : slot'[m][s][q] = slot[m][s][q]
    BY <1>7
  <2> QED BY <2>1, StaysDone, StaysFresh
<1>8. Progress'
  <2>1. \A m \in DOMAIN prog : \A s \in Sec : m < obj => m # obj /\ Done(m, s)
    BY <1>1 DEF Progress
  <2>2. \A m \in DOMAIN prog : \A s \in Sec : m > obj => m # obj /\ Fresh(m, s, 1)
    BY <1>1 DEF Progress, Sec
  <2>3. CASE sec = "plt"
    <3>1. Fresh(obj, "dyn", 1)'
      BY <2>3, <1>1, <1>7 DEF Progress, Sec
    <3> QED BY <2>1, <2>2, <2>3, <3>1, <1>1, <1>6, <1>7 DEF Progress
  <2>4. CASE sec = "dyn"
    <3>1. Done(obj, "plt")'
      BY <2>4, <1>1, <1>7 DEF Progress, Sec
    <3> QED BY <2>1, <2>2, <2>4, <3>1, <1>1, <1>6, <1>7 DEF Progress
  <2> QED BY <2>3, <2>4 DEF Sec
<1>9. StopHasCause'
  BY DEF StopHasCause, Sec
<1> QED BY <1>1, <1>5, <1>8, <1>9

LEMMA RelocationLookupKeeps ==
  ASSUME RelocInv, NEW sec \in Sec, RelocationLookup(sec)
  PROVE  RelocInv'
<1> USE DEF RelocInv
<1> DEFINE r == Section(obj, sec)[rela]
           l == Lookup(obj, r.sym)
<1>1. /\ pc = sec /\ (sec = "plt" => ~lazy) /\ i <= Len(Section(obj, sec))
      /\ prog' = prog /\ lazy' = lazy /\ obj' = obj
  BY DEF RelocationLookup
<1>2. /\ prog \in Programs /\ obj \in DOMAIN prog /\ i \in Nat \ {0} /\ rela \in 1 .. i
      /\ DOMAIN prog = 1 .. Len(prog) /\ Len(prog) \in Nat
      /\ rela \in DOMAIN Section(obj, sec) /\ SlotType /\ Scanned(sec)
  <2>1. /\ obj \in DOMAIN prog /\ i \in Nat \ {0} /\ rela \in 1 .. i /\ SlotType
    BY TypeParts DEF Types
  <2>2. DOMAIN prog = 1 .. Len(prog) /\ Len(prog) \in Nat /\ rela \in DOMAIN Section(obj, sec)
    BY <1>1, <2>1, ProgFacts
  <2>3. Scanned(sec)
    BY <1>1 DEF Progress, Sec
  <2> QED BY <2>1, <2>2, <2>3
<1>3. /\ \A m, s : Section(m, s)' = Section(m, s)
      /\ r.type \in Type
  BY <1>1, <1>2, ProgFacts DEF Section
<1>4. /\ l.res \in {"hit", "exit", "trap"}
      /\ l.res # "exit" => l.at \in DOMAIN prog /\ l.res = Probe(prog[l.at].table, r.sym)
      /\ \A o \in DOMAIN prog : o < l.at => Probe(prog[o].table, r.sym) = "none"
  BY <1>2, LookupFacts
<1>5. CASE /\ r.type \in {"JUMP_SLOT", "GLOB_DAT", "RELATIVE"}
           /\ l.res = "hit"
           /\ slot' = [slot EXCEPT ![obj][sec][rela] = Stored(r.type, l.at)]
           /\ i' = i + 1 /\ rela' = rela + 1
           /\ UNCHANGED pc
  <2> DEFINE v == Stored(r.type, l.at)
  <2>1. v \in Value /\ v # RAW /\ v # STUB /\ (v = REBASED => r.type = "RELATIVE")
    BY <1>2, <1>4, <1>5 DEF Stored, Value, RAW, STUB, REBASED
  <2>2. slot' = Store(obj, sec, rela, v)
    BY <1>5 DEF Store
  <2> HIDE DEF v, l
  <2>3. /\ SlotType'
        /\ slot'[obj][sec][rela] = v
        /\ \A m \in DOMAIN prog : \A s \in Sec : \A q \in DOMAIN Section(m, s) :
             ~(m = obj /\ s = sec /\ q = rela) => slot'[m][s][q] = slot[m][s][q]
    BY <1>1, <1>2, <2>1, <2>2, StoreOne
  <2>4. slot'[obj][sec][rela] # RAW
    BY <2>1, <2>3
  <2>5. Codes'
    <3>1. ASSUME NEW m \in DOMAIN prog, NEW s \in Sec, NEW q \in DOMAIN Section(m, s)
          PROVE  /\ slot'[m][s][q] = STUB => lazy /\ s = "plt"
                 /\ slot'[m][s][q] = REBASED => Section(m, s)[q].type = "RELATIVE"
      <4>1. CASE m = obj /\ s = sec /\ q = rela
        BY <4>1, <2>1, <2>3
      <4>2. CASE ~(m = obj /\ s = sec /\ q = rela)
        BY <4>2, <2>3 DEF Codes
      <4> QED BY <4>1, <4>2
    <3> QED BY <3>1, <1>1, <1>3 DEF Codes
  <2>6. r.type # "COPY"
    BY <1>5
  <2> QED BY <1>1, <1>5, <2>3, <2>4, <2>5, <2>6, AdvanceKeeps
<1>6. CASE /\ r.type \in {"JUMP_SLOT", "GLOB_DAT", "RELATIVE"}
           /\ l.res # "hit"
           /\ pc' = l.res
           /\ UNCHANGED <<i, rela, slot>>
  <2>1. UNCHANGED <<prog, lazy, slot>> /\ pc' \in {"exit", "trap"}
    BY <1>1, <1>4, <1>6
  <2>2. TypeOK'
    BY <1>1, <1>2, <1>6, <2>1, NoWrite, TypeParts DEF Types
  <2>3. Progress'
    BY <1>1, <2>1, NoWrite DEF Progress
  <2>4. StopHasCause'
    <3>1. CASE l.res = "trap"
      <4> DEFINE at == l.at
      <4>1. /\ at \in DOMAIN prog /\ Probe(prog[at].table, r.sym) = "trap"
            /\ \A o \in DOMAIN prog : o < at => Probe(prog[o].table, r.sym) = "none"
        BY <1>4, <3>1
      <4> HIDE DEF at, l
      <4>2. /\ at \in 2 .. Len(prog)
            /\ prog[at].table.opens /\ ~prog[at].table.gnu
            /\ \A o \in 1 .. (at - 1) : prog[o].table.gnu => r.sym \notin prog[o].table.defs
        BY <4>1, <1>2, TrapCause
      <4>3. \E o \in DOMAIN prog : \E s \in {"plt", "dyn"} : \E q \in DOMAIN Section(o, s) :
              \A k \in 1 .. (at - 1) : prog[k].table.gnu => Section(o, s)[q].sym \notin prog[k].table.defs
        BY <4>2, <1>2 DEF Sec
      <4> QED BY <4>2, <4>3, <1>1, <1>3, <2>1 DEF StopHasCause
    <3>2. CASE l.res # "trap"
      BY <3>2, <1>4, <1>6 DEF StopHasCause
    <3> QED BY <3>1, <3>2
  <2> QED BY <2>1, <2>2, <2>3, <2>4, NoWrite
<1>7. CASE r.type = "COPY" /\ i' = i + 1 /\ UNCHANGED <<pc, rela, slot>>
  <2>1. TypeOK'
    BY <1>1, <1>2, <1>7, NoWrite, TypeParts DEF Types
  <2>2. Scanned(sec)'
    <3>1. rela <= Len(Section(obj, sec))
      BY <1>1, <1>2, ProgFacts
    <3> QED BY <3>1, <1>1, <1>2, <1>7, NoWrite DEF Scanned
  <2>3. Progress'
    <3>1. CASE sec = "plt"
      BY <3>1, <1>1, <1>7, <2>2, NoWrite DEF Progress
    <3>2. CASE sec = "dyn"
      BY <3>2, <1>1, <1>7, <2>2, NoWrite DEF Progress
    <3> QED BY <3>1, <3>2 DEF Sec
  <2> QED BY <1>1, <1>7, <2>1, <2>3, NoWrite DEF StopHasCause, Sec
<1>8. CASE r.type = "OTHER" /\ i' = i + 1 /\ rela' = rela + 1 /\ UNCHANGED <<pc, slot>>
  <2>1. SlotType' /\ Codes'
    BY <1>1, <1>8, NoWrite
  <2> QED BY <1>1, <1>8, <2>1, AdvanceKeeps
<1> QED BY <1>5, <1>6, <1>7, <1>8 DEF RelocationLookup, CountCopy

(* The runtime binder only replaces a stub by an object.                     *)
LEMMA FirstCallKeeps ==
  ASSUME RelocInv, NEW m \in DOMAIN prog, NEW r \in DOMAIN prog[m].plt, FirstCall(m, r)
  PROVE  RelocInv'
<1> USE DEF RelocInv
<1> DEFINE sym == prog[m].plt[r].sym
           l == Lookup(m, sym)
<1>1. /\ pc = "user" /\ slot[m]["plt"][r] = STUB
      /\ UNCHANGED <<prog, lazy, obj, i, rela>>
  BY DEF FirstCall
<1>2. /\ prog \in Programs /\ SlotType /\ obj = Len(prog)
      /\ DOMAIN prog = 1 .. Len(prog) /\ Len(prog) \in Nat
      /\ Section(m, "plt") = prog[m].plt /\ "plt" \in Sec
  BY <1>1, ProgFacts, TypeParts DEF Types, Progress, Section, Sec
<1>3. \A n, s : Section(n, s)' = Section(n, s)
  BY <1>1 DEF Section
<1>4. /\ l.res \in {"hit", "exit", "trap"}
      /\ l.res # "exit" => l.at \in DOMAIN prog /\ l.res = Probe(prog[l.at].table, sym)
      /\ \A o \in DOMAIN prog : o < l.at => Probe(prog[o].table, sym) = "none"
  BY <1>2, LookupFacts
<1>5. CASE l.res = "hit" /\ slot' = Rebound(m, r, l.at) /\ UNCHANGED pc
  <2> DEFINE v == l.at
  <2>1. v \in Value /\ v # RAW /\ v # STUB /\ v # REBASED
    <3>1. v \in DOMAIN prog BY <1>4, <1>5
    <3>2. v \in Nat /\ v >= 1
      <4>1. v \in 1 .. Len(prog) BY <3>1, <1>2
      <4> QED BY <4>1, <1>2
    <3> QED BY <3>1, <3>2 DEF Value, RAW, STUB, REBASED
  <2>2. slot' = Store(m, "plt", r, v)
    BY <1>5 DEF Rebound, Store
  <2> HIDE DEF v, l
  <2>3. /\ SlotType'
        /\ slot'[m]["plt"][r] = v
        /\ \A n \in DOMAIN prog : \A s \in Sec : \A q \in DOMAIN Section(n, s) :
             ~(n = m /\ s = "plt" /\ q = r) => slot'[n][s][q] = slot[n][s][q]
    BY <1>1, <1>2, <2>1, <2>2, StoreOne
  <2>4. \A n \in DOMAIN prog : \A s \in Sec : \A q \in DOMAIN Section(n, s) :
          slot[n][s][q] # RAW => slot'[n][s][q] # RAW
    BY <2>1, <2>3
  <2>5. TypeOK'
    BY <1>1, <1>5, <2>3, TypeParts DEF Types
  <2>6. Progress'
    <3>1. ASSUME NEW n \in DOMAIN prog, NEW s \in Sec, n < obj PROVE Done(n, s)'
      <4>1. Done(n, s)
        BY <3>1 DEF Progress
      <4> QED BY <4>1, <2>4, <1>1, StaysDone
    <3> QED BY <3>1, <1>1, <1>2, <1>5 DEF Progress
  <2>7. Codes'
    <3>1. ASSUME NEW n \in DOMAIN prog, NEW s \in Sec, NEW q \in DOMAIN Section(n, s)
          PROVE  /\ slot'[n][s][q] = STUB => lazy /\ s = "plt"
                 /\ slot'[n][s][q] = REBASED => Section(n, s)[q].type = "RELATIVE"
      <4>1. CASE n = m /\ s = "plt" /\ q = r
        BY <4>1, <2>1, <2>3
      <4>2. CASE ~(n = m /\ s = "plt" /\ q = r)
        BY <4>2, <2>3 DEF Codes
      <4> QED BY <4>1, <4>2
    <3> QED BY <3>1, <1>1, <1>3 DEF Codes
  <2> QED BY <1>1, <1>5, <2>5, <2>6, <2>7 DEF StopHasCause
<1>6. CASE l.res # "hit" /\ pc' = l.res /\ UNCHANGED slot
  <2>1. UNCHANGED <<prog, lazy, slot>> /\ pc' \in {"exit", "trap"}
    BY <1>1, <1>4, <1>6
  <2>2. TypeOK'
    BY <1>1, <2>1, NoWrite, TypeParts DEF Types
  <2>3. Progress'
    BY <1>1, <2>1, NoWrite DEF Progress
  <2>4. StopHasCause'
    <3>1. CASE l.res = "trap"
      <4> DEFINE at == l.at
      <4>1. /\ at \in DOMAIN prog /\ Probe(prog[at].table, sym) = "trap"
            /\ \A o \in DOMAIN prog : o < at => Probe(prog[o].table, sym) = "none"
        BY <1>4, <3>1
      <4> HIDE DEF at, l
      <4>2. /\ at \in 2 .. Len(prog)
            /\ prog[at].table.opens /\ ~prog[at].table.gnu
            /\ \A o \in 1 .. (at - 1) : prog[o].table.gnu => sym \notin prog[o].table.defs
        BY <4>1, <1>2, TrapCause
      <4>3. \E o \in DOMAIN prog : \E s \in {"plt", "dyn"} : \E q \in DOMAIN Section(o, s) :
              \A k \in 1 .. (at - 1) : prog[k].table.gnu => Section(o, s)[q].sym \notin prog[k].table.defs
        BY <4>2, <1>2 DEF Sec
      <4> QED BY <4>2, <4>3, <1>1, <1>3, <2>1 DEF StopHasCause
    <3>2. CASE l.res # "trap"
      BY <3>2, <1>4, <1>6 DEF StopHasCause
    <3> QED BY <3>1, <3>2
  <2> QED BY <2>1, <2>2, <2>3, <2>4, NoWrite
<1> QED BY <1>5, <1>6 DEF FirstCall

(* What a call through a slot that nobody wrote says of the program.          *)
LEMMA WildCause ==
  ASSUME RelocInv, pc = "user", NEW m \in DOMAIN prog, NEW r \in DOMAIN prog[m].plt,
         slot[m]["plt"][r] = RAW
  PROVE  \/ m = Len(prog)
         \/ lazy /\ ~prog[m].gotplt
         \/ ~lazy /\ \E q \in DOMAIN prog[m].plt : prog[m].plt[q].type \in {"COPY", "OTHER"}
<1> USE DEF RelocInv
<1>1. /\ obj = Len(prog) /\ DOMAIN prog = 1 .. Len(prog) /\ Len(prog) \in Nat
      /\ Section(m, "plt") = prog[m].plt /\ "plt" \in Sec
      /\ DOMAIN prog[m].plt = 1 .. Len(prog[m].plt) /\ Len(prog[m].plt) \in Nat
  BY ProgFacts DEF Progress, Section, Sec
<1>2. m # Len(prog) => Done(m, "plt")
  BY <1>1 DEF Progress
<1>3. CASE m # Len(prog) /\ lazy
  BY <1>1, <1>2, <1>3 DEF Done
<1>4. CASE m # Len(prog) /\ ~lazy
  <2>1. ~Reached(m, "plt", r) \/ prog[m].plt[r].type \in {"COPY", "OTHER"}
    BY <1>1, <1>2, <1>4 DEF Done, Relocated
  <2>2. 1 .. r \subseteq DOMAIN prog[m].plt
    BY <1>1
  <2> QED BY <1>1, <1>4, <2>1, <2>2 DEF Reached
<1> QED BY <1>3, <1>4

LEMMA WildCallKeeps ==
  ASSUME RelocInv, NEW m \in DOMAIN prog, NEW r \in DOMAIN prog[m].plt, WildCall(m, r)
  PROVE  RelocInv'
<1> USE DEF RelocInv
<1>1. /\ pc = "user" /\ pc' = "crash" /\ slot[m]["plt"][r] = RAW
      /\ UNCHANGED <<prog, lazy, obj, i, rela, slot>>
  BY DEF WildCall
<1>2. TypeOK'
  BY <1>1, NoWrite, TypeParts DEF Types
<1>3. Progress'
  BY <1>1, NoWrite DEF Progress
<1>4. StopHasCause'
  BY <1>1, WildCause DEF StopHasCause
<1> QED BY <1>1, <1>2, <1>3, <1>4, NoWrite

LEMMA NextReloc == RelocInv /\ [Next]_vars => RelocInv'
<1> SUFFICES ASSUME RelocInv, [Next]_vars PROVE RelocInv'
  OBVIOUS
<1>1. CASE ResolveObject   BY <1>1, ResolveObjectKeeps
<1>2. CASE RelocationLazy  BY <1>2, RelocationLazyKeeps
<1>3. ASSUME NEW sec \in {"plt", "dyn"}, RelocationLookup(sec) PROVE RelocInv'
  BY <1>3, RelocationLookupKeeps DEF Sec
<1>4. CASE EndPlt          BY <1>4, EndPltKeeps
<1>5. CASE EndDyn          BY <1>5, EndDynKeeps
<1>6. CASE StartUser       BY <1>6, StartUserKeeps
<1>7. CASE UserStep        BY <1>7, FirstCallKeeps, WildCallKeeps DEF UserStep
<1>8. CASE UNCHANGED vars
  <2>1. UNCHANGED <<prog, lazy, slot>> /\ UNCHANGED <<pc, obj, i, rela>>
    BY <1>8 DEF vars
  <2>2. TypeOK'
    BY <2>1, NoWrite, TypeParts DEF Types, RelocInv
  <2>3. (Scanned("plt") => Scanned("plt")') /\ (Scanned("dyn") => Scanned("dyn")')
    BY <2>1, NoWrite DEF Scanned
  <2>4. Progress'
    BY <2>1, <2>3, NoWrite DEF Progress, RelocInv
  <2> QED BY <2>1, <2>2, <2>4, NoWrite DEF StopHasCause, RelocInv
<1> QED BY <1>1, <1>2, <1>3, <1>4, <1>5, <1>6, <1>7, <1>8 DEF Next, LdsoStep

LEMMA RelocAlways == Spec => []RelocInv
BY InitReloc, NextReloc, PTL DEF Spec

-----------------------------------------------------------------------------

(* When the program runs, every slot of every object but the last has been    *)
(* relocated or leads to __reloc, except behind a COPY and without .got.plt.  *)
THEOREM NothingLeftBehind == Spec => []RelocatedBeforeUse
<1>1. RelocInv => RelocatedBeforeUse
  <2> SUFFICES ASSUME RelocInv, pc = "user",
                      NEW m \in 1 .. (Len(prog) - 1), NEW sec \in {"plt", "dyn"},
                      NEW r \in DOMAIN Section(m, sec),
                      Reached(m, sec, r) /\ (sec = "plt" /\ lazy => prog[m].gotplt)
               PROVE  Relocated(m, sec, r)
    BY DEF RelocInv, RelocatedBeforeUse
  <2>1. m \in DOMAIN prog /\ m < Len(prog) /\ obj = Len(prog) /\ sec \in Sec
    BY ProgFacts DEF RelocInv, Progress, Sec
  <2>2. Done(m, sec)
    BY <2>1 DEF RelocInv, Progress
  <2> QED BY <2>2 DEF Done, Relocated
<1> QED BY <1>1, RelocAlways, PTL

(* ld.so divides by zero, and the program jumps to an address of the file,    *)
(* only for the causes that StopHasCause names.                              *)
THEOREM StopsForACause == Spec => []StopHasCause
<1>1. RelocInv => StopHasCause
  BY DEF RelocInv
<1> QED BY <1>1, RelocAlways, PTL

-----------------------------------------------------------------------------
(* The refinement of Binding.  *)

(* In a regular program link_map_lookup() finds the first definition, if any. *)
LEMMA RegularLookup ==
  ASSUME prog \in Programs, Regular, NEW m, NEW sym
  PROVE  LET l == Lookup(m, sym)
             d == FirstDefiner(Tables, sym)
         IN  /\ d # 0 => l.res = "hit" /\ l.at = d /\ d \in DOMAIN prog
             /\ d = 0 => l.res \in {"exit", "trap"}
<1> DEFINE l == Lookup(m, sym)
           D == {o \in DOMAIN Tables : sym \in Tables[o].defs}
           d == FirstDefiner(Tables, sym)
<1>1. /\ DOMAIN prog = 1 .. Len(prog) /\ Len(prog) \in Nat
      /\ DOMAIN Tables = DOMAIN prog /\ \A o \in DOMAIN prog : Tables[o] = prog[o].table
  BY ProgFacts DEF Tables
<1>2. \A o \in DOMAIN prog : o # Len(prog) =>
        Probe(prog[o].table, sym) = IF sym \in prog[o].table.defs THEN "hit" ELSE "none"
  <2> SUFFICES ASSUME NEW o \in DOMAIN prog, o # Len(prog)
               PROVE  Probe(prog[o].table, sym) = IF sym \in prog[o].table.defs THEN "hit" ELSE "none"
    OBVIOUS
  <2>1. prog[o].table.opens /\ prog[o].table.gnu /\ ~prog[o].table.sysv
    BY DEF Regular
  <2> QED BY <2>1 DEF Probe, GnuHashLookup, HashLookup
<1>3. /\ Len(prog) \in DOMAIN prog
      /\ Probe(prog[Len(prog)].table, sym) = "exit"
      /\ sym \notin prog[Len(prog)].table.defs
  <2>1. Len(prog) \in DOMAIN prog
    BY ProgFacts
  <2> QED BY <2>1 DEF Regular, Probe, GnuHashLookup
<1>4. /\ l.res \in {"hit", "exit", "trap"}
      /\ l.res # "exit" => l.at \in DOMAIN prog /\ l.res = Probe(prog[l.at].table, sym)
      /\ \A o \in DOMAIN prog : o < l.at => Probe(prog[o].table, sym) = "none"
      /\ l.res = "exit" => \/ l.at = 0 /\ \A o \in DOMAIN prog : Probe(prog[o].table, sym) = "none"
                           \/ l.at \in DOMAIN prog /\ Probe(prog[l.at].table, sym) = "exit"
  BY LookupFacts
<1> HIDE DEF l
<1>5. CASE D = {}
  <2>1. d = 0
    BY <1>5 DEF FirstDefiner
  <2>2. \A o \in DOMAIN prog : Probe(prog[o].table, sym) # "hit"
    BY <1>1, <1>2, <1>3, <1>5
  <2>3. l.res \in {"exit", "trap"}
    BY <1>4, <2>2
  <2> QED BY <2>1, <2>3 DEF l
<1>6. CASE D # {}
  <2>1. d = CHOOSE o \in D : \A k \in D : o <= k
    BY <1>6 DEF FirstDefiner
  <2>2. D \subseteq Nat
    BY <1>1
  <2>3. d \in D /\ \A k \in D : d <= k
    <3> HIDE DEF D
    <3>1. \E o \in D : \A k \in D : o <= k
      BY <2>2, <1>6, SmallestExists
    <3> QED BY <2>1, <3>1
  <2>4. d \in DOMAIN prog /\ d # Len(prog) /\ Probe(prog[d].table, sym) = "hit" /\ d # 0
    BY <2>3, <1>1, <1>2, <1>3
  <2>5. ASSUME NEW o \in DOMAIN prog, o < d PROVE Probe(prog[o].table, sym) = "none"
    <3>1. o \notin D
      BY <2>3, <2>5, <2>4, <1>1
    <3>2. o # Len(prog)
      BY <2>4, <2>5, <1>1
    <3> QED BY <3>1, <3>2, <1>1, <1>2
  <2> HIDE DEF d, D
  <2>6. l.at \in DOMAIN prog /\ l.at = d
    <3>1. l.at \in DOMAIN prog /\ Probe(prog[l.at].table, sym) # "none"
      BY <1>4, <2>4
    <3>2. ~(l.at < d) /\ ~(d < l.at)
      BY <3>1, <2>4, <2>5, <1>4
    <3> QED BY <3>1, <3>2, <2>4, <1>1
  <2>7. l.res = "hit"
    BY <2>4, <2>6, <1>4
  <2> QED BY <2>4, <2>6, <2>7 DEF l, d
<1> QED BY <1>5, <1>6

(* What does not change as long as the program is the same.                  *)
LEMMA SameProgram ==
  ASSUME prog' = prog
  PROVE  /\ Regular' <=> Regular
         /\ Places' = Places /\ Called' = Called /\ Wants' = Wants
         /\ \A m, sec : Section(m, sec)' = Section(m, sec)
<1>1. \A m, sec : Section(m, sec)' = Section(m, sec)
  BY DEF Section
<1>2. Tables' = Tables
  BY DEF Tables
<1>3. Places' = Places
  BY <1>1 DEF Places
<1>4. \A m, sec, r : WantOf(m, sec, r)' = WantOf(m, sec, r)
  BY <1>1, <1>2 DEF WantOf
<1>5. Wants' = Wants
  BY <1>3, <1>4 DEF Wants
<1>6. Called' = Called
  BY <1>3 DEF Called
<1>7. Regular' <=> Regular
  BY DEF Regular
<1> QED BY <1>1, <1>3, <1>5, <1>6, <1>7

(* A place, and what it is in the abstract.                                  *)
LEMMA PlaceFacts ==
  ASSUME NEW m \in DOMAIN prog, NEW sec \in Sec, NEW r \in DOMAIN Section(m, sec)
  PROVE  /\ <<m, sec, r>> \in Places
         /\ <<m, sec, r>> \in Called <=> sec = "plt"
         /\ Wants[<<m, sec, r>>] = WantOf(m, sec, r)
         /\ Bounds[<<m, sec, r>>] = BoundOf(m, sec, r)
<1>1. <<m, sec, r>> \in Places
  <2> DEFINE P(n, s) == {<<n, s, q>> : q \in DOMAIN Section(n, s)}
  <2>1. <<m, sec, r>> \in P(m, sec)
    OBVIOUS
  <2>2. P(m, sec) \in {P(n, s) : n \in DOMAIN prog, s \in {"plt", "dyn"}}
    BY DEF Sec
  <2>3. Places = UNION {P(n, s) : n \in DOMAIN prog, s \in {"plt", "dyn"}}
    BY DEF Places
  <2> HIDE DEF P
  <2> QED BY <2>1, <2>2, <2>3
<1> QED BY <1>1 DEF Called, Wants, Bounds

LEMMA PlaceParts ==
  ASSUME NEW s \in Places
  PROVE  \E m \in DOMAIN prog : \E sec \in Sec : \E r \in DOMAIN Section(m, sec) : s = <<m, sec, r>>
BY DEF Places, Sec

(* Writing a slot gives its place what it is bound to.                       *)
LEMMA BoundsStore ==
  ASSUME SlotType, prog' = prog,
         NEW m \in DOMAIN prog, NEW sec \in Sec, NEW r \in DOMAIN Section(m, sec), NEW v \in Value,
         slot' = Store(m, sec, r, v)
  PROVE  Bounds' = [Bounds EXCEPT ![<<m, sec, r>>] = IF v > 0 THEN v ELSE 0]
<1> DEFINE b == IF v > 0 THEN v ELSE 0
           new == [Bounds EXCEPT ![<<m, sec, r>>] = b]
<1>1. /\ slot'[m][sec][r] = v
      /\ \A n \in DOMAIN prog : \A s \in Sec : \A q \in DOMAIN Section(n, s) :
            ~(n = m /\ s = sec /\ q = r) => slot'[n][s][q] = slot[n][s][q]
  BY StoreOne
<1>2. Places' = Places
  BY SameProgram
<1>3. DOMAIN Bounds = Places /\ DOMAIN Bounds' = Places /\ DOMAIN new = Places
  BY <1>2 DEF Bounds
<1>4. ASSUME NEW p \in Places PROVE Bounds'[p] = new[p]
  <2>1. PICK n \in DOMAIN prog, s \in Sec : \E q \in DOMAIN Section(n, s) : p = <<n, s, q>>
    BY PlaceParts
  <2>2. PICK q \in DOMAIN Section(n, s) : p = <<n, s, q>>
    BY <2>1
  <2>3. Bounds'[p] = IF slot'[n][s][q] > 0 THEN slot'[n][s][q] ELSE 0
    BY <2>2, <1>2 DEF Bounds, BoundOf
  <2>4. Bounds[p] = IF slot[n][s][q] > 0 THEN slot[n][s][q] ELSE 0
    BY <2>2 DEF Bounds, BoundOf
  <2>5. CASE n = m /\ s = sec /\ q = r
    BY <2>2, <2>3, <2>5, <1>1, <1>3
  <2>6. CASE ~(n = m /\ s = sec /\ q = r)
    <3>1. p # <<m, sec, r>>
      BY <2>2, <2>6
    <3>2. new[p] = Bounds[p]
      BY <3>1, <1>3
    <3> QED BY <3>2, <2>3, <2>4, <2>6, <1>1
  <2> QED BY <2>5, <2>6
<1>5. Bounds' = [p \in Places |-> Bounds'[p]] /\ new = [p \in Places |-> new[p]]
  BY <1>2, <1>3 DEF Bounds
<1> HIDE DEF new
<1> QED BY <1>4, <1>5 DEF new

Starting == {"next", "plt", "dyn"}

(* A step that Binding does not see.                                         *)
LEMMA Unseen ==
  ASSUME UNCHANGED <<prog, lazy>>, Regular => Bounds' = Bounds,
         \/ pc \in Starting /\ pc' \in Starting
         \/ pc' = pc
         \/ ~Regular /\ pc \notin Starting /\ pc' \notin Starting
  PROVE  UNCHANGED Abstract!vars
BY SameProgram DEF Abstract!vars, Starting

LEMMA BoundsKept ==
  ASSUME UNCHANGED <<prog, slot>>
  PROVE  Bounds' = Bounds
BY SameProgram DEF Bounds, BoundOf

(* A program that is not regular is refused, or run: Binding fails either way. *)
LEMMA Refused ==
  ASSUME ~Regular, UNCHANGED <<prog, lazy>>, pc \in Starting, pc' \notin Starting
  PROVE  Abstract!Fail
<1>1. ~Regular'
  BY SameProgram
<1>2. 1 \in DOMAIN Refusable /\ Refusable[1] = 0
  BY DEF Refusable
<1> QED BY <1>1, <1>2 DEF Abstract!Fail, Starting

(* A place is bound.                                                         *)
LEMMA BindsOne ==
  ASSUME RelocInv, Regular, UNCHANGED <<prog, lazy, pc>>,
         NEW m \in DOMAIN prog, NEW sec \in Sec, NEW r \in DOMAIN Section(m, sec),
         slot[m][sec][r] \in {RAW, STUB},
         WantOf(m, sec, r) # 0, WantOf(m, sec, r) \in DOMAIN prog,
         slot' = Store(m, sec, r, WantOf(m, sec, r)),
         pc \in Starting \/ (pc = "user" /\ sec = "plt" /\ lazy)
  PROVE  Abstract!Bind
<1> DEFINE s == <<m, sec, r>>
           v == WantOf(m, sec, r)
<1>1. s \in Places /\ Wants[s] = v /\ Bounds[s] = 0 /\ (sec = "plt" => s \in Called)
  BY PlaceFacts DEF BoundOf, RAW, STUB
<1>2. v \in Value /\ v > 0
  BY ProgFacts DEF RelocInv, Value
<1>3. SlotType
  BY TypeParts DEF RelocInv, Types
<1>4. Bounds' = [Bounds EXCEPT ![s] = v]
  <2>1. Bounds' = [Bounds EXCEPT ![<<m, sec, r>>] = IF v > 0 THEN v ELSE 0]
    <3> HIDE DEF v
    <3> QED BY <1>2, <1>3, BoundsStore DEF v
  <2> QED BY <2>1, <1>2
<1>5. DOMAIN Wants = Places
  BY DEF Wants
<1> HIDE DEF v, s
<1>6. /\ Regular' /\ Wants' = Wants /\ Called' = Called
  BY SameProgram
<1> QED BY <1>1, <1>2, <1>4, <1>5, <1>6 DEF Abstract!Bind, Starting, v

(* A place that wants what does not exist stops the program.                 *)
LEMMA FailsOne ==
  ASSUME RelocInv, Regular, UNCHANGED <<prog, lazy, slot>>,
         NEW m \in DOMAIN prog, NEW sec \in Sec, NEW r \in DOMAIN Section(m, sec),
         slot[m][sec][r] \in {RAW, STUB},
         WantOf(m, sec, r) = 0,
         \/ pc \in Starting /\ (sec = "plt" => ~lazy)
         \/ pc = "user" /\ sec = "plt",
         pc' \in {"exit", "trap"}
  PROVE  Abstract!Fail
<1> DEFINE s == <<m, sec, r>>
<1>1. s \in Places /\ Wants[s] = 0 /\ Bounds[s] = 0 /\ (s \in Called <=> sec = "plt")
  BY PlaceFacts DEF BoundOf, RAW, STUB
<1>2. DOMAIN Wants = Places
  BY DEF Wants
<1> HIDE DEF s
<1>3. /\ Regular' /\ Wants' = Wants /\ Called' = Called /\ Bounds' = Bounds
  BY SameProgram, BoundsKept
<1> QED BY <1>1, <1>2, <1>3 DEF Abstract!Fail, Starting

(* With LD_BIND_NOW no call is left to bind when the program starts.          *)
LEMMA StartsRun ==
  ASSUME RelocInv, Regular, StartUser
  PROVE  Abstract!Run
<1>1. /\ pc = "next" /\ pc' = "user" /\ ~(obj < Len(prog))
      /\ UNCHANGED <<prog, lazy, slot>>
  BY DEF StartUser, HasNext
<1>2. /\ obj = Len(prog) /\ DOMAIN prog = 1 .. Len(prog) /\ Len(prog) \in Nat
      /\ SlotType
  BY <1>1, ProgFacts, TypeParts DEF RelocInv, Types
<1>3. ASSUME ~lazy, NEW s \in Called PROVE Bounds[s] # 0
  <2>1. s \in Places /\ s[2] = "plt"
    BY DEF Called
  <2>2. PICK m \in DOMAIN prog : \E r \in DOMAIN Section(m, "plt") : s = <<m, "plt", r>>
    BY <2>1, PlaceParts
  <2>3. PICK r \in DOMAIN Section(m, "plt") : s = <<m, "plt", r>>
    BY <2>2
  <2>4. Section(m, "plt") = prog[m].plt /\ "plt" \in Sec
    BY DEF Section, Sec
  <2>5. m # Len(prog) /\ \A q \in DOMAIN prog[m].plt : prog[m].plt[q].type = "JUMP_SLOT"
    BY <2>3, <2>4 DEF Regular
  <2>6. Done(m, "plt")
    BY <2>4, <2>5, <1>2 DEF RelocInv, Progress
  <2>7. Reached(m, "plt", r)
    <3>1. 1 .. r \subseteq DOMAIN prog[m].plt
      BY <2>4, ProgFacts DEF RelocInv
    <3> QED BY <3>1, <2>4, <2>5 DEF Reached
  <2>8. slot[m]["plt"][r] # RAW
    BY <2>3, <2>4, <2>5, <2>6, <2>7, <1>3 DEF Done, Relocated
  <2>9. slot[m]["plt"][r] # STUB /\ slot[m]["plt"][r] # REBASED
    BY <2>3, <2>4, <2>5, <1>3 DEF RelocInv, Codes
  <2>10. slot[m]["plt"][r] \in DOMAIN prog
    BY <2>4, <2>8, <2>9, <1>2 DEF SlotType, Value
  <2>11. BoundOf(m, "plt", r) # 0
    BY <2>10, <1>2 DEF BoundOf
  <2> QED BY <2>3, <2>4, <2>11, PlaceFacts
<1>4. /\ Regular' /\ Wants' = Wants /\ Called' = Called /\ Bounds' = Bounds
  BY <1>1, SameProgram, BoundsKept
<1> QED BY <1>1, <1>3, <1>4 DEF Abstract!Run

(* One iteration of relocation_lookup() binds a place, or fails for one that  *)
(* wants what does not exist, or is not seen.                                *)
LEMMA LookupImplements ==
  ASSUME RelocInv, NEW sec \in Sec, RelocationLookup(sec)
  PROVE  Abstract!Next \/ UNCHANGED Abstract!vars
<1> DEFINE r == Section(obj, sec)[rela]
           l == Lookup(obj, r.sym)
<1>1. /\ pc = sec /\ (sec = "plt" => ~lazy) /\ i <= Len(Section(obj, sec))
      /\ prog' = prog /\ lazy' = lazy /\ obj' = obj /\ pc \in Starting
  BY DEF RelocationLookup, Starting, Sec
<1>2. /\ prog \in Programs /\ obj \in DOMAIN prog /\ i \in Nat \ {0} /\ rela \in 1 .. i
      /\ rela \in DOMAIN Section(obj, sec) /\ SlotType /\ Scanned(sec)
  <2>1. /\ prog \in Programs /\ obj \in DOMAIN prog /\ i \in Nat \ {0} /\ rela \in 1 .. i /\ SlotType
    BY TypeParts DEF RelocInv, Types
  <2>2. rela \in DOMAIN Section(obj, sec)
    BY <1>1, <2>1, ProgFacts
  <2>3. Scanned(sec)
    BY <1>1 DEF RelocInv, Progress, Sec
  <2> QED BY <2>1, <2>2, <2>3
<1>3. slot[obj][sec][rela] = RAW
  BY <1>2 DEF Scanned, Fresh
<1>4. l.res \in {"hit", "exit", "trap"}
  BY <1>2, LookupFacts
<1>5. WantOf(obj, sec, rela) = FirstDefiner(Tables, r.sym)
  BY DEF WantOf
<1>6. Regular => /\ l.res = "hit" => /\ WantOf(obj, sec, rela) = l.at
                                     /\ l.at # 0 /\ l.at \in DOMAIN prog
                 /\ l.res # "hit" => WantOf(obj, sec, rela) = 0
  BY <1>2, <1>5, RegularLookup
<1> HIDE DEF l
<1>7. CASE /\ r.type \in {"JUMP_SLOT", "GLOB_DAT", "RELATIVE"}
           /\ l.res = "hit"
           /\ slot' = [slot EXCEPT ![obj][sec][rela] = Stored(r.type, l.at)]
           /\ UNCHANGED pc
  <2>1. CASE ~Regular
    BY <2>1, <1>1, <1>7, Unseen
  <2>2. CASE Regular /\ r.type = "RELATIVE"
    <3>1. slot' = Store(obj, sec, rela, REBASED) /\ REBASED \in Value
      BY <2>2, <1>7 DEF Store, Stored, Value
    <3>2. Bounds' = [Bounds EXCEPT ![<<obj, sec, rela>>] = IF REBASED > 0 THEN REBASED ELSE 0]
      BY <3>1, <1>1, <1>2, BoundsStore
    <3>3. Bounds' = [Bounds EXCEPT ![<<obj, sec, rela>>] = 0]
      BY <3>2 DEF REBASED
    <3>4. <<obj, sec, rela>> \in Places /\ Bounds[<<obj, sec, rela>>] = 0
      BY <1>2, <1>3, PlaceFacts DEF BoundOf, RAW
    <3>5. Bounds' = Bounds
      BY <3>3, <3>4 DEF Bounds
    <3> QED BY <3>5, <1>1, <1>7, Unseen
  <2>3. CASE Regular /\ r.type # "RELATIVE"
    <3>1. slot' = Store(obj, sec, rela, WantOf(obj, sec, rela))
      BY <2>3, <1>6, <1>7 DEF Store, Stored
    <3>2. WantOf(obj, sec, rela) # 0 /\ WantOf(obj, sec, rela) \in DOMAIN prog
      BY <2>3, <1>6, <1>7
    <3>3. Abstract!Bind
      BY <2>3, <3>1, <3>2, <1>1, <1>2, <1>3, <1>7, BindsOne
    <3> QED BY <3>3 DEF Abstract!Next
  <2> QED BY <2>1, <2>2, <2>3
<1>8. CASE l.res # "hit" /\ pc' = l.res /\ UNCHANGED slot
  <2>1. pc' \in {"exit", "trap"} /\ pc' \notin Starting
    BY <1>4, <1>8 DEF Starting
  <2>2. CASE ~Regular
    BY <2>1, <2>2, <1>1, Refused DEF Abstract!Next
  <2>3. CASE Regular
    <3>1. Abstract!Fail
      BY <2>1, <2>3, <1>1, <1>2, <1>3, <1>6, <1>8, FailsOne
    <3> QED BY <3>1 DEF Abstract!Next
  <2> QED BY <2>2, <2>3
<1>9. CASE UNCHANGED <<pc, slot>>
  BY <1>1, <1>9, BoundsKept, Unseen
<1> QED BY <1>7, <1>8, <1>9 DEF RelocationLookup, l

(* relocation_lazy() binds nothing.                                          *)
LEMMA LazyImplements ==
  ASSUME RelocInv, RelocationLazy
  PROVE  UNCHANGED Abstract!vars
<1>1. /\ pc = "plt" /\ lazy /\ pc' = "dyn" /\ UNCHANGED <<prog, lazy>>
      /\ i = 1 /\ rela = 1
      /\ slot' \in {slot, [slot EXCEPT ![obj].plt = Stubs(@)]}
  BY DEF RelocationLazy, RelocInv, Progress
<1>2. /\ obj \in DOMAIN prog /\ SlotType /\ prog \in Programs
      /\ Fresh(obj, "plt", 1) /\ "plt" \in Sec
  BY <1>1, TypeParts DEF RelocInv, Types, Progress, Scanned, Sec
<1>3. ASSUME NEW m \in DOMAIN prog, NEW sec \in Sec, NEW r \in DOMAIN Section(m, sec)
      PROVE  BoundOf(m, sec, r)' = BoundOf(m, sec, r)
  <2>1. CASE m = obj /\ sec = "plt"
    <3>1. r >= 1
      BY <1>2, ProgFacts
    <3>2. slot[m][sec][r] = RAW
      BY <2>1, <3>1, <1>2 DEF Fresh
    <3>3. slot'[m][sec][r] \in {RAW, STUB}
      BY <2>1, <3>2, <1>1, <1>2 DEF SlotType, Sec, Stubs
    <3> QED BY <3>2, <3>3 DEF BoundOf, RAW, STUB
  <2>2. CASE ~(m = obj /\ sec = "plt")
    <3>1. slot'[m][sec] = slot[m][sec]
      BY <2>2, <1>1, <1>2 DEF SlotType, Sec
    <3> QED BY <3>1 DEF BoundOf
  <2> QED BY <2>1, <2>2
<1>4. Bounds' = Bounds
  <2>1. Places' = Places
    BY <1>1, SameProgram
  <2>2. \A s \in Places : BoundOf(s[1], s[2], s[3])' = BoundOf(s[1], s[2], s[3])
    BY <1>3, PlaceParts
  <2> QED BY <2>1, <2>2 DEF Bounds
<1> QED BY <1>1, <1>4, Unseen DEF Starting

(* A first call binds its place, or fails for want of a definition.           *)
LEMMA FirstCallImplements ==
  ASSUME RelocInv, NEW m \in DOMAIN prog, NEW r \in DOMAIN prog[m].plt, FirstCall(m, r)
  PROVE  Abstract!Next \/ UNCHANGED Abstract!vars
<1> DEFINE sym == prog[m].plt[r].sym
           l == Lookup(m, sym)
<1>1. /\ pc = "user" /\ slot[m]["plt"][r] = STUB /\ pc \notin Starting
      /\ UNCHANGED <<prog, lazy, obj, i, rela>>
  BY DEF FirstCall, Starting
<1>2. /\ prog \in Programs /\ Section(m, "plt") = prog[m].plt /\ "plt" \in Sec
      /\ r \in DOMAIN Section(m, "plt")
  BY DEF RelocInv, Section, Sec
<1>3. lazy
  BY <1>1, <1>2 DEF RelocInv, Codes
<1>4. l.res \in {"hit", "exit", "trap"}
  BY <1>2, LookupFacts
<1>5. WantOf(m, "plt", r) = FirstDefiner(Tables, sym)
  BY <1>2 DEF WantOf
<1>6. Regular => /\ l.res = "hit" => /\ WantOf(m, "plt", r) = l.at
                                     /\ l.at # 0 /\ l.at \in DOMAIN prog
                 /\ l.res # "hit" => WantOf(m, "plt", r) = 0
  BY <1>2, <1>5, RegularLookup
<1> HIDE DEF l
<1>7. CASE l.res = "hit" /\ slot' = Rebound(m, r, l.at) /\ UNCHANGED pc
  <2>1. CASE ~Regular
    BY <2>1, <1>1, <1>7, Unseen
  <2>2. CASE Regular
    <3>1. slot' = Store(m, "plt", r, WantOf(m, "plt", r))
      BY <2>2, <1>6, <1>7 DEF Store, Rebound
    <3>2. Abstract!Bind
      BY <2>2, <3>1, <1>1, <1>2, <1>3, <1>6, <1>7, BindsOne
    <3> QED BY <3>2 DEF Abstract!Next
  <2> QED BY <2>1, <2>2
<1>8. CASE l.res # "hit" /\ pc' = l.res /\ UNCHANGED slot
  <2>1. pc' \in {"exit", "trap"} /\ pc' \notin Starting
    BY <1>4, <1>8 DEF Starting
  <2>2. CASE ~Regular
    BY <2>1, <2>2, <1>1, Unseen
  <2>3. CASE Regular
    <3>1. Abstract!Fail
      BY <2>1, <2>3, <1>1, <1>2, <1>6, <1>8, FailsOne
    <3> QED BY <3>1 DEF Abstract!Next
  <2> QED BY <2>2, <2>3
<1> QED BY <1>7, <1>8 DEF FirstCall, l

(* A regular program never calls through a slot that nobody wrote.            *)
LEMMA WildCallImplements ==
  ASSUME RelocInv, NEW m \in DOMAIN prog, NEW r \in DOMAIN prog[m].plt, WildCall(m, r)
  PROVE  UNCHANGED Abstract!vars
<1>1. /\ pc = "user" /\ pc' = "crash" /\ slot[m]["plt"][r] = RAW
      /\ UNCHANGED <<prog, lazy, slot>>
  BY DEF WildCall
<1>2. \/ m = Len(prog)
      \/ lazy /\ ~prog[m].gotplt
      \/ ~lazy /\ \E q \in DOMAIN prog[m].plt : prog[m].plt[q].type \in {"COPY", "OTHER"}
  BY <1>1, WildCause
<1>3. ~Regular
  BY <1>2 DEF Regular
<1> QED BY <1>1, <1>3, Unseen DEF Starting

LEMMA StepImplements == RelocInv /\ [Next]_vars => [Abstract!Next]_(Abstract!vars)
<1> SUFFICES ASSUME RelocInv, [Next]_vars PROVE Abstract!Next \/ UNCHANGED Abstract!vars
  OBVIOUS
<1>1. CASE ResolveObject
  <2>1. UNCHANGED <<prog, lazy, slot>> /\ pc \in Starting /\ pc' \in Starting
    BY <1>1 DEF ResolveObject, Starting
  <2> QED BY <2>1, BoundsKept, Unseen
<1>2. CASE RelocationLazy
  BY <1>2, LazyImplements
<1>3. ASSUME NEW sec \in {"plt", "dyn"}, RelocationLookup(sec)
      PROVE  Abstract!Next \/ UNCHANGED Abstract!vars
  BY <1>3, LookupImplements DEF Sec
<1>4. CASE EndPlt
  <2>1. UNCHANGED <<prog, lazy, slot>> /\ pc \in Starting /\ pc' \in Starting
    BY <1>4 DEF EndPlt, Starting
  <2> QED BY <2>1, BoundsKept, Unseen
<1>5. CASE EndDyn
  <2>1. UNCHANGED <<prog, lazy, slot>> /\ pc \in Starting /\ pc' \in Starting
    BY <1>5 DEF EndDyn, Starting
  <2> QED BY <2>1, BoundsKept, Unseen
<1>6. CASE StartUser
  <2>1. UNCHANGED <<prog, lazy, slot>> /\ pc \in Starting /\ pc' \notin Starting
    BY <1>6 DEF StartUser, Starting
  <2>2. Regular => Abstract!Run
    BY <1>6, StartsRun
  <2>3. ~Regular => Abstract!Fail
    BY <2>1, Refused
  <2> QED BY <2>2, <2>3 DEF Abstract!Next
<1>7. CASE UserStep
  BY <1>7, FirstCallImplements, WildCallImplements DEF UserStep
<1>8. CASE UNCHANGED vars
  <2>1. UNCHANGED <<prog, lazy, slot, pc>>
    BY <1>8 DEF vars
  <2> QED BY <2>1, BoundsKept, Unseen
<1> QED BY <1>1, <1>2, <1>3, <1>4, <1>5, <1>6, <1>7, <1>8 DEF Next, LdsoStep

LEMMA InitImplements == Init => Abstract!Init
<1> SUFFICES ASSUME Init PROVE Abstract!Init
  OBVIOUS
<1>1. pc = "next"
  BY DEF Init
<1>2. RelocInv
  BY InitReloc
<1>3. ASSUME NEW s \in Places PROVE Bounds[s] = 0
  <2>1. PICK m \in DOMAIN prog, sec \in Sec : \E r \in DOMAIN Section(m, sec) : s = <<m, sec, r>>
    BY PlaceParts
  <2>2. PICK r \in DOMAIN Section(m, sec) : s = <<m, sec, r>>
    BY <2>1
  <2>3. slot[m][sec][r] = RAW
    <3>1. m = 1 \/ m > 1
      BY <1>2, ProgFacts DEF RelocInv
    <3>2. r >= 1
      BY <1>2, ProgFacts DEF RelocInv
    <3>3. obj = 1
      BY DEF Init
    <3>4. Fresh(m, sec, 1)
      BY <3>1, <3>3, <1>1, <1>2 DEF RelocInv, Progress
    <3> QED BY <3>2, <3>4 DEF Fresh
  <2> QED BY <2>2, <2>3, PlaceFacts DEF BoundOf, RAW
<1>4. Bounds = [s \in Places |-> 0] /\ DOMAIN Wants = Places
  <2>1. DOMAIN Bounds = Places /\ Bounds = [s \in Places |-> Bounds[s]]
    BY DEF Bounds
  <2> QED BY <2>1, <1>3 DEF Wants
<1>5. Refusable = [s \in DOMAIN Refusable |-> 0]
  BY DEF Refusable
<1> QED BY <1>1, <1>4, <1>5 DEF Abstract!Init

(* Lazy, eager or at the first call, and whatever the tables say: a place is  *)
(* given the first definition in list order, once, and the process stops only *)
(* for want of one, or when the program is not as linkers make them today.    *)
THEOREM BindsAsPromised == Spec => Abstract!Init /\ [][Abstract!Next]_(Abstract!vars)
<1>1. Init => Abstract!Init
  BY InitImplements
<1>2. RelocInv /\ [Next]_vars => [Abstract!Next]_(Abstract!vars)
  BY StepImplements
<1> QED BY <1>1, <1>2, RelocAlways, PTL DEF Spec

=============================================================================

--------------------------- MODULE Dependency_proofs ---------------------------
(***************************************************************************)
(* Proofs about Dependency: for every file system, every dependency graph  *)
(* and every search path, the table keeps its type, is closed under        *)
(* DT_NEEDED when the search ends, is in breadth-first order, holds ld.so  *)
(* once and no more entries than there are names to resolve; and the       *)
(* search implements Closure.                                              *)
(***************************************************************************)
EXTENDS Dependency, LeastElement, SequenceTheorems, TLAPS

(* get_lib_absolute_path() returns the name, or the name behind a directory  *)
(* of the search path, or finds nothing.                                     *)
LEMMA LibPathForms ==
  ASSUME NEW s \in System, NEW name \in Name, NEW binary \in Entry
  PROVE  LibPath(s, name, binary) \in {name, NotFound} \union {Concat[<<d, name>>] : d \in Dir}
<1> DEFINE path == SearchPath(s, binary)
           hits == Hits(s, name, binary)
           first == CHOOSE d \in hits : \A e \in hits : d <= e
<1>1. path \in Seq(Dir)
  <2>1. s.rpath[binary] \in Seq(Dir) /\ s.libpath \in Seq(Dir)
        /\ s.runpath[binary] \in Seq(Dir) /\ DefaultDirs \in Seq(Dir)
    BY NameAssumption DEF System, DefaultDirs
  <2> QED BY <2>1, ConcatProperties DEF SearchPath
<1>2. CASE hits = {}
  BY <1>2, NameAssumption DEF LibPath, InPath
<1>3. CASE hits # {}
  <2>1. hits \subseteq 1 .. Len(path) /\ Len(path) \in Nat
    <3>1. DOMAIN path = 1 .. Len(path) /\ Len(path) \in Nat
      BY <1>1, LenProperties
    <3>2. hits \subseteq DOMAIN path BY DEF Hits
    <3> HIDE DEF path, hits
    <3> QED BY <3>1, <3>2
  <2>2. first \in hits
    <3>1. hits \subseteq Nat
      BY <2>1
    <3>2. \E d \in hits : \A e \in hits : d <= e
      BY <3>1, <1>3, SmallestExists
    <3> QED BY <3>2
  <2>3. path[first] \in Dir
    BY <2>1, <2>2, <1>1, ElementOfSeq
  <2>4. InPath(s, name, binary) = Concat[<<path[first], name>>]
    BY <1>3 DEF InPath
  <2> HIDE DEF path, hits, first
  <2> QED BY <2>3, <2>4 DEF LibPath
<1> QED BY <1>2, <1>3

(* So it returns a string that may be in the table, or finds nothing.        *)
LEMMA LibPathType ==
  ASSUME NEW s \in System, NEW name \in Name, NEW binary \in Entry
  PROVE  LibPath(s, name, binary) \in Entry \union {NotFound}
<1>1. name \in Entry /\ \A d \in Dir : Concat[<<d, name>>] \in Entry
  BY NameAssumption
<1>2. LibPath(s, name, binary) \in {name, NotFound} \union {Concat[<<d, name>>] : d \in Dir}
  BY LibPathForms
<1>3. {name, NotFound} \union {Concat[<<d, name>>] : d \in Dir} \subseteq Entry \union {NotFound}
  BY <1>1
<1> QED BY <1>2, <1>3

-----------------------------------------------------------------------------
(* Type correctness.                                                         *)

(* What is needed besides TypeOK: the vdso only enters the table at the end, *)
(* and the entry being read is one of the table.                             *)
TypeInv ==
  /\ TypeOK
  /\ pc # "done" => table \in Seq(Entry)
  /\ pc = "scan" => i <= Len(table)

LEMMA TypeInvInit == Init => TypeInv
<1> SUFFICES ASSUME Init PROVE TypeInv
  OBVIOUS
<1>1. <<Exe, LdSo>> \in Seq(Entry)
  BY NameAssumption
<1>2. <<Exe, LdSo>> \in Seq(Entry \union {Vdso})
  BY <1>1, SeqMonotonic
<1> QED
  BY <1>1, <1>2, SystemsAssumption DEF Init, TypeInv, TypeOK

(* The next DT_NEEDED of the entry being read is a name.                     *)
LEMMA NeededType ==
  ASSUME TypeInv, pc = "scan", k <= Len(sys.needed[table[i]])
  PROVE  /\ table[i] \in Entry
         /\ sys.needed[table[i]][k] \in Name
<1>1. table[i] \in Entry
  <2>1. i \in 1 .. Len(table) /\ table \in Seq(Entry)
    BY LenProperties DEF TypeInv, TypeOK
  <2> QED BY <2>1, ElementOfSeq
<1>2. sys.needed[table[i]] \in Seq(Name)
  BY <1>1 DEF TypeInv, TypeOK, System
<1>3. k \in 1 .. Len(sys.needed[table[i]])
  BY <1>2, LenProperties DEF TypeInv, TypeOK
<1> QED
  BY <1>1, <1>2, <1>3, ElementOfSeq

LEMMA TypeInvNext == TypeInv /\ [Next]_vars => TypeInv'
<1> SUFFICES ASSUME TypeInv, [Next]_vars PROVE TypeInv'
  OBVIOUS
<1> USE DEF TypeInv, TypeOK
<1>1. CASE Preload
  <2>1. sys.preload \in Seq(Entry)
    <3>1. sys.preload \in Seq(Name) BY DEF System
    <3> QED BY <3>1, NameAssumption, SeqMonotonic
  <2>2. table \o sys.preload \in Seq(Entry)
    BY <2>1, <1>1, ConcatProperties DEF Preload
  <2>3. table \o sys.preload \in Seq(Entry \union {Vdso})
    BY <2>2, SeqMonotonic
  <2> QED BY <2>2, <2>3, <1>1 DEF Preload
<1>2. CASE StartPass
  <2>1. Len(table) \in Nat
    BY LenProperties
  <2> QED BY <2>1, <1>2 DEF StartPass
<1>3. CASE OpenEntry
  BY <1>3 DEF OpenEntry, Bound
<1>4. CASE ResolveNeeded
  <2> DEFINE name == LibPath(sys, sys.needed[table[i]][k], table[i])
  <2>1. name \in Entry \union {NotFound}
    BY <1>4, NeededType, LibPathType DEF ResolveNeeded
  <2>2. CASE Unresolved(name)
    BY <2>2, <1>4 DEF ResolveNeeded
  <2>3. CASE ~Unresolved(name)
    <3>1. name \in Entry
      BY <2>1, <2>3 DEF Unresolved
    <3>2. table' \in Seq(Entry) /\ Len(table') >= Len(table)
      <4>1. table \in Seq(Entry) /\ Len(table) \in Nat
        BY <1>4, LenProperties DEF ResolveNeeded
      <4>2. Append(table, name) \in Seq(Entry) /\ Len(Append(table, name)) = Len(table) + 1
        BY <4>1, <3>1, AppendProperties
      <4>3. table' \in {table, Append(table, name)}
        BY <2>3, <1>4 DEF ResolveNeeded, Added
      <4> QED BY <4>1, <4>2, <4>3
    <3>3. table' \in Seq(Entry \union {Vdso})
      BY <3>2, SeqMonotonic
    <3>4. Len(table) \in Nat /\ Len(table') \in Nat
      BY <3>2, LenProperties
    <3> QED BY <3>2, <3>3, <3>4, <2>3, <1>4 DEF ResolveNeeded
  <2> QED BY <2>2, <2>3
<1>5. CASE EndEntry
  BY <1>5 DEF EndEntry
<1>6. CASE Repeat
  BY <1>6 DEF Repeat
<1>7. CASE Finish
  <2>1. Append(table, Vdso) \in Seq(Entry \union {Vdso})
    BY AppendProperties
  <2> QED BY <2>1, <1>7 DEF Finish
<1>8. CASE UNCHANGED vars
  BY <1>8 DEF vars
<1> QED
  BY <1>1, <1>2, <1>3, <1>4, <1>5, <1>6, <1>7, <1>8 DEF Next

LEMMA TypeInvariant == Spec => []TypeInv
BY TypeInvInit, TypeInvNext, PTL DEF Spec

(* TypeOK: the table only ever holds strings a search can produce, ended by  *)
(* the vdso.                                                                 *)
THEOREM TypeCorrect == Spec => []TypeOK
<1>1. TypeInv => TypeOK
  BY DEF TypeInv
<1> QED
  BY <1>1, TypeInvariant, PTL

-----------------------------------------------------------------------------
(* Closure under DT_NEEDED.                                                  *)

(* What the m-th DT_NEEDED of an entry resolves to.                          *)
Target(s, e, m) == LibPath(s, s.needed[e][m], e)

In(t) == {t[j] : j \in DOMAIN t}

(* Every dependency of e is in the table t.                                  *)
Closed(s, t, e) == \A m \in DOMAIN s.needed[e] : Target(s, e, m) \in In(t)

(* ClosedWhenDone alone says nothing of a pass that is under way.  During    *)
(* one, the entries before i are closed, and so is what has been read of     *)
(* entry i; nothing is ever taken out of the table.                          *)
ReadSoFar ==
  /\ pc \in {"open", "scan"} =>
       i <= Len(table) + 1 /\ \A j \in 1 .. (i - 1) : Closed(sys, table, table[j])
  /\ pc = "scan" =>
       \A m \in DOMAIN sys.needed[table[i]] : m < k => Target(sys, table[i], m) \in In(table)
  /\ ClosedWhenDone

ClosureInv == TypeInv /\ ReadSoFar

(* The table only grows at its end.                                          *)
LEMMA TableGrows ==
  ASSUME TypeInv, TypeInv', [Next]_vars
  PROVE  /\ sys' = sys
         /\ Len(table) \in Nat /\ Len(table') \in Nat /\ Len(table) <= Len(table')
         /\ DOMAIN table = 1 .. Len(table) /\ DOMAIN table' = 1 .. Len(table')
         /\ \A j \in 1 .. Len(table) : table'[j] = table[j]
<1>1. table \in Seq(Entry \union {Vdso}) /\ table' \in Seq(Entry \union {Vdso})
  BY DEF TypeInv, TypeOK
<1>2. /\ Len(table) \in Nat /\ Len(table') \in Nat
      /\ DOMAIN table = 1 .. Len(table) /\ DOMAIN table' = 1 .. Len(table')
  BY <1>1, LenProperties
<1>3. sys' = sys
  BY DEF Next, Preload, StartPass, OpenEntry, ResolveNeeded, EndEntry, Repeat, Finish, vars
<1>4. table' = table \/ table' = table \o sys.preload \/ \E e \in Entry \union {Vdso} : table' = Append(table, e)
  <2>1. CASE ResolveNeeded
    <3> DEFINE name == LibPath(sys, sys.needed[table[i]][k], table[i])
    <3>1. name \in Entry \union {NotFound}
      BY <2>1, NeededType, LibPathType DEF ResolveNeeded, TypeInv, TypeOK
    <3>2. Unresolved(name) => table' = table
      BY <2>1 DEF ResolveNeeded
    <3>3. ~Unresolved(name) => table' \in {table, Append(table, name)}
      BY <2>1 DEF ResolveNeeded, Added
    <3> QED BY <3>1, <3>2, <3>3 DEF Unresolved
  <2>2. CASE Preload
    BY <2>2 DEF Preload
  <2>3. CASE Finish
    BY <2>3 DEF Finish
  <2>4. CASE StartPass \/ OpenEntry \/ EndEntry \/ Repeat \/ UNCHANGED vars
    BY <2>4 DEF StartPass, OpenEntry, EndEntry, Repeat, vars
  <2> QED BY <2>1, <2>2, <2>3, <2>4 DEF Next
<1>5. sys.preload \in Seq(Entry \union {Vdso})
  <2>1. sys.preload \in Seq(Name) /\ Name \subseteq Entry \union {Vdso}
    BY NameAssumption DEF TypeInv, TypeOK, System
  <2> QED BY <2>1, SeqMonotonic
<1>6. Len(table) <= Len(table') /\ \A j \in 1 .. Len(table) : table'[j] = table[j]
  <2>1. CASE table' = table
    BY <2>1, <1>2
  <2>2. CASE table' = table \o sys.preload
    BY <2>2, <1>1, <1>2, <1>5, ConcatProperties, LenProperties
  <2>3. ASSUME NEW e \in Entry \union {Vdso}, table' = Append(table, e)
        PROVE  Len(table) <= Len(table') /\ \A j \in 1 .. Len(table) : table'[j] = table[j]
    BY <2>3, <1>1, <1>2, AppendProperties
  <2> QED BY <1>4, <2>1, <2>2, <2>3
<1> QED BY <1>2, <1>3, <1>6

(* So what is closed stays closed.                                           *)
LEMMA StaysIn ==
  ASSUME TypeInv, TypeInv', [Next]_vars
  PROVE  /\ In(table) \subseteq In(table')
         /\ \A e : Closed(sys, table, e) => Closed(sys', table', e)
<1>1. In(table) \subseteq In(table')
  BY TableGrows DEF In
<1> QED
  BY <1>1, TableGrows DEF Closed

LEMMA ClosureInvInit == Init => ClosureInv
BY TypeInvInit DEF Init, ClosureInv, ReadSoFar, ClosedWhenDone

(* One DT_NEEDED more has been read.                                         *)
LEMMA ResolveKeepsReadSoFar ==
  ASSUME ClosureInv, TypeInv', ResolveNeeded
  PROVE  ReadSoFar'
<1> DEFINE e == table[i]
           name == LibPath(sys, sys.needed[e][k], e)
<1>1. /\ TypeInv /\ ReadSoFar
      /\ pc = "scan" /\ i \in 1 .. Len(table) /\ k \in Nat /\ i' = i /\ sys' = sys
  BY LenProperties DEF ClosureInv, ResolveNeeded, TypeInv, TypeOK
<1>2. /\ In(table) \subseteq In(table')
      /\ \A f : Closed(sys, table, f) => Closed(sys', table', f)
  BY <1>1, StaysIn DEF Next
<1>3. /\ Len(table) \in Nat /\ Len(table') \in Nat /\ Len(table) <= Len(table')
      /\ DOMAIN table' = 1 .. Len(table')
      /\ \A j \in 1 .. Len(table) : table'[j] = table[j]
  BY <1>1, TableGrows DEF Next
<1>4. CASE Unresolved(name)
  BY <1>4 DEF ResolveNeeded, ReadSoFar, ClosedWhenDone
<1>5. CASE ~Unresolved(name)
  <2>1. pc' = "scan" /\ table' = Added(name) /\ k' = k + 1
    BY <1>5, <1>1 DEF ResolveNeeded
  <2>2. \A j \in 1 .. (i' - 1) : Closed(sys', table', table'[j])
    BY <1>1, <1>2, <1>3 DEF ReadSoFar
  <2>3. name \in In(table')
    <3>1. CASE IsIn(name)
      BY <3>1, <1>2 DEF IsIn, Entries, In
    <3>2. CASE ~IsIn(name)
      <4>1. table' = Append(table, name)
        BY <2>1, <3>2 DEF Added
      <4>2. Len(table') = Len(table) + 1 /\ table'[Len(table')] = name
        BY <4>1, <1>1, AppendProperties DEF TypeInv, TypeOK
      <4> QED BY <4>2, <1>3 DEF In
    <3> QED BY <3>1, <3>2
  <2>4. ASSUME NEW m \in DOMAIN sys.needed[e], m < k'
        PROVE  Target(sys, e, m) \in In(table')
    <3>1. m \in Nat
      <4>1. sys.needed[e] \in Seq(Name)
        BY <1>1, NeededType DEF ResolveNeeded, TypeInv, TypeOK, System
      <4> QED BY <4>1, LenProperties
    <3>2. CASE m < k
      BY <3>2, <1>1, <1>2 DEF ReadSoFar
    <3>3. CASE m = k
      BY <3>3, <2>3 DEF Target
    <3> QED BY <3>1, <3>2, <3>3, <2>1, <2>4, <1>1
  <2>5. i' <= Len(table') + 1 /\ table'[i'] = table[i]
    BY <1>1, <1>3
  <2> QED BY <2>1, <2>2, <2>4, <2>5, <1>1, <1>2 DEF ReadSoFar, ClosedWhenDone
<1> QED BY <1>4, <1>5

LEMMA ClosureInvNext == ClosureInv /\ [Next]_vars => ClosureInv'
<1> SUFFICES ASSUME ClosureInv, [Next]_vars PROVE ClosureInv'
  OBVIOUS
<1>1. TypeInv /\ TypeInv' /\ ReadSoFar
  BY TypeInvNext DEF ClosureInv
<1>2. /\ In(table) \subseteq In(table')
      /\ \A e : Closed(sys, table, e) => Closed(sys', table', e)
  BY <1>1, StaysIn
<1>3. /\ sys' = sys
      /\ Len(table) \in Nat /\ Len(table') \in Nat /\ Len(table) <= Len(table')
      /\ DOMAIN table = 1 .. Len(table) /\ DOMAIN table' = 1 .. Len(table')
      /\ \A j \in 1 .. Len(table) : table'[j] = table[j]
  BY <1>1, TableGrows
<1>4. i \in Nat \ {0} /\ k \in Nat \ {0}
  BY <1>1 DEF TypeInv, TypeOK
<1>5. ReadSoFar'
  <2>1. CASE Preload
    BY <2>1 DEF Preload, ReadSoFar, ClosedWhenDone
  <2>2. CASE StartPass
    BY <2>2, <1>3 DEF StartPass, ReadSoFar, ClosedWhenDone
  <2>3. CASE OpenEntry
    <3>1. table' = table /\ i' = i /\ k' = 1 /\ pc' \in {"scan", "exit"} /\ pc = "open" /\ i <= Len(table)
      BY <2>3 DEF OpenEntry, Bound
    <3>2. \A j \in 1 .. (i' - 1) : Closed(sys', table', table'[j])
      BY <3>1, <1>1, <1>2 DEF ReadSoFar
    <3>3. \A m \in DOMAIN sys'.needed[table'[i']] : ~(m < k')
      <4>1. table[i] \in Entry
        <5>1. table \in Seq(Entry) /\ i \in 1 .. Len(table)
          BY <1>1, <1>3, <1>4, <3>1 DEF TypeInv
        <5> QED BY <5>1, ElementOfSeq
      <4>2. sys.needed[table[i]] \in Seq(Name)
        BY <4>1, <1>1 DEF TypeInv, TypeOK, System
      <4>3. DOMAIN sys.needed[table[i]] = 1 .. Len(sys.needed[table[i]])
        BY <4>2, LenProperties
      <4> QED BY <4>2, <4>3, <3>1, <1>3, LenProperties
    <3> QED BY <3>1, <3>2, <3>3, <1>3, <1>4 DEF ReadSoFar, ClosedWhenDone
  <2>4. CASE ResolveNeeded
    BY <2>4, <1>1, ResolveKeepsReadSoFar DEF ClosureInv
  <2>5. CASE EndEntry
    <3>1. table' = table /\ i' = i + 1 /\ pc' = "open" /\ pc = "scan" /\ i <= Len(table)
      BY <2>5, <1>1 DEF EndEntry, TypeInv
    <3>2. Closed(sys, table, table[i])
      <4>1. table[i] \in Entry
        <5>1. table \in Seq(Entry) /\ i \in 1 .. Len(table)
          BY <1>1, <1>3, <1>4, <3>1 DEF TypeInv
        <5> QED BY <5>1, ElementOfSeq
      <4>2. sys.needed[table[i]] \in Seq(Name)
        BY <4>1, <1>1 DEF TypeInv, TypeOK, System
      <4>3. \A m \in DOMAIN sys.needed[table[i]] : m < k
        <5>1. /\ DOMAIN sys.needed[table[i]] = 1 .. Len(sys.needed[table[i]])
              /\ Len(sys.needed[table[i]]) \in Nat
          BY <4>2, LenProperties
        <5>2. k > Len(sys.needed[table[i]])
          BY <2>5 DEF EndEntry
        <5> QED BY <5>1, <5>2, <1>4
      <4> QED BY <4>3, <3>1, <1>1 DEF ReadSoFar, Closed
    <3>3. \A j \in 1 .. i : Closed(sys, table, table[j])
      BY <3>1, <3>2, <1>1, <1>4 DEF ReadSoFar
    <3> QED BY <3>1, <3>3, <1>2, <1>3, <1>4 DEF ReadSoFar, ClosedWhenDone
  <2>6. CASE Repeat
    BY <2>6 DEF Repeat, ReadSoFar, ClosedWhenDone
  <2>7. CASE Finish
    <3>1. pc = "open" /\ i > Len(table) /\ pc' = "done"
      BY <2>7 DEF Finish, Bound
    <3>2. \A j \in 1 .. Len(table) : Closed(sys', table', table[j])
      BY <3>1, <1>1, <1>2, <1>3, <1>4 DEF ReadSoFar
    <3>3. ASSUME NEW j \in DOMAIN table', table'[j] # Vdso PROVE j \in 1 .. Len(table)
      <4>1. CASE table' = table
        BY <4>1, <1>3
      <4>2. CASE table' = Append(table, Vdso)
        <5>1. Len(table') = Len(table) + 1 /\ table'[Len(table) + 1] = Vdso
          BY <4>2, <1>1, AppendProperties DEF TypeInv, TypeOK
        <5> QED BY <5>1, <3>3, <1>3
      <4> QED BY <4>1, <4>2, <2>7 DEF Finish
    <3>4. ClosedWhenDone'
      BY <3>2, <3>3, <1>3 DEF ClosedWhenDone, Closed, Target, Entries, In
    <3> QED BY <3>1, <3>4 DEF ReadSoFar
  <2>8. CASE UNCHANGED vars
    BY <2>8, <1>1, <1>2 DEF vars, ReadSoFar, ClosedWhenDone, Entries
  <2> QED BY <2>1, <2>2, <2>3, <2>4, <2>5, <2>6, <2>7, <2>8 DEF Next
<1> QED BY <1>1, <1>5 DEF ClosureInv

(* ClosedWhenDone: whatever the graph of dependencies, cyclic or not, and    *)
(* wherever the libraries are, no needed library is left out of the table.   *)
THEOREM TableIsClosed == Spec => []ClosedWhenDone
<1>1. ClosureInv => ClosedWhenDone
  BY DEF ClosureInv, ReadSoFar
<1> QED
  BY <1>1, ClosureInvInit, ClosureInvNext, PTL DEF Spec

-----------------------------------------------------------------------------
(* The order of the table.                                                   *)

RootsOf(s) == <<Exe, LdSo>> \o s.preload
Later(s, t) == (Len(RootsOf(s)) + 1) .. Len(t)
Targets(s, e) == {Target(s, e, m) : m \in DOMAIN s.needed[e]}

(* Entry q is the first one that needs entry j.                              *)
FirstNeeds(s, t, q, j) ==
  /\ q \in 1 .. (j - 1)
  /\ t[j] \in Targets(s, t[q])
  /\ \A p \in 1 .. (q - 1) : t[j] \notin Targets(s, t[p])

(* The roots come first, and once LD_PRELOAD is read they stay there.        *)
Rooted(s, t, p) ==
  IF p = "preload" THEN t = <<Exe, LdSo>>
  ELSE /\ Len(RootsOf(s)) <= Len(t)
       /\ \A j \in 1 .. Len(RootsOf(s)) : t[j] = RootsOf(s)[j]

(* Only the last entry of a finished table can be the vdso.                  *)
VdsoEnds(t, p) ==
  \A j \in 1 .. Len(t) : t[j] \in Entry \/ (p = "done" /\ t[j] = Vdso /\ j = Len(t))

(* What the search adds is new.                                              *)
NoRepeat(s, t) == \A j \in Later(s, t) : \A m \in 1 .. (j - 1) : t[m] # t[j]

(* What the search adds is needed by an entry before it ...                  *)
Explained(s, t) ==
  \A j \in Later(s, t) : t[j] # Vdso => \E q \in 1 .. (j - 1) : FirstNeeds(s, t, q, j)

(* ... and comes in the order of these entries.                              *)
InOrder(s, t) ==
  \A m, j \in Later(s, t) : m < j /\ t[m] # Vdso /\ t[j] # Vdso =>
    \A p, q \in 1 .. Len(t) : FirstNeeds(s, t, p, m) /\ FirstNeeds(s, t, q, j) => p <= q

(* This is kept because the pass that adds an entry adds it for the entry    *)
(* being read, after which nothing was added; the passes that start again    *)
(* from the first entry find a closed table and add nothing.                 *)
AllClosed(s, t) == \A j \in 1 .. Len(t) : Closed(s, t, t[j])

Frontier(s, t, p, c) ==
  /\ p = "pass" => Later(s, t) = {} \/ AllClosed(s, t)
  /\ p \in {"open", "scan"} =>
       \/ AllClosed(s, t)
       \/ \A j \in Later(s, t) : \A q \in 1 .. Len(t) : FirstNeeds(s, t, q, j) => q <= c

(* What has been read could be opened.                                       *)
Opened(s, t, p, c) ==
  /\ p \in {"open", "scan"} => \A j \in 1 .. Len(t) : j < c => t[j] \in s.exists
  /\ p = "scan" => t[c] \in s.exists
  /\ p = "done" => \A j \in 1 .. Len(t) : t[j] # Vdso => t[j] \in s.exists

OrderInv ==
  /\ ClosureInv
  /\ Rooted(sys, table, pc)
  /\ VdsoEnds(table, pc)
  /\ NoRepeat(sys, table)
  /\ Explained(sys, table)
  /\ InOrder(sys, table)
  /\ Frontier(sys, table, pc, i)
  /\ Opened(sys, table, pc, i)

LEMMA RootsType ==
  ASSUME NEW s \in System
  PROVE  /\ RootsOf(s) \in Seq(Entry)
         /\ Len(RootsOf(s)) \in Nat /\ Len(RootsOf(s)) = 2 + Len(s.preload)
         /\ RootsOf(s)[1] = Exe /\ RootsOf(s)[2] = LdSo
         /\ s.preload \in Seq(Entry) /\ Len(s.preload) \in Nat
         /\ \A j \in 1 .. Len(s.preload) : RootsOf(s)[j + 2] = s.preload[j]
<1>1. <<Exe, LdSo>> \in Seq(Entry) /\ Len(<<Exe, LdSo>>) = 2
  BY NameAssumption
<1>2. s.preload \in Seq(Entry)
  <2>1. s.preload \in Seq(Name) BY DEF System
  <2> QED BY <2>1, NameAssumption, SeqMonotonic
<1>3. Len(s.preload) \in Nat
  BY <1>2, LenProperties
<1>4. /\ RootsOf(s) \in Seq(Entry) /\ Len(RootsOf(s)) = 2 + Len(s.preload)
      /\ \A j \in 1 .. (2 + Len(s.preload)) :
           RootsOf(s)[j] = IF j <= 2 THEN <<Exe, LdSo>>[j] ELSE s.preload[j - 2]
  BY <1>1, <1>2, ConcatProperties DEF RootsOf
<1>5. RootsOf(s)[1] = Exe /\ RootsOf(s)[2] = LdSo
  BY <1>3, <1>4
<1>6. ASSUME NEW j \in 1 .. Len(s.preload) PROVE RootsOf(s)[j + 2] = s.preload[j]
  <2>1. j + 2 \in 1 .. (2 + Len(s.preload)) /\ ~(j + 2 <= 2) /\ (j + 2) - 2 = j
    BY <1>3
  <2> QED BY <2>1, <1>4
<1> QED BY <1>2, <1>3, <1>4, <1>5, <1>6

(* What first needs an entry does not change when the table grows.           *)
LEMMA FirstNeedsStays ==
  ASSUME NEW s, NEW t, NEW u, Len(t) \in Nat,
         \A m \in 1 .. Len(t) : u[m] = t[m],
         NEW j \in 1 .. Len(t), NEW q
  PROVE  FirstNeeds(s, u, q, j) <=> FirstNeeds(s, t, q, j)
<1>1. u[j] = t[j]
  OBVIOUS
<1>2. \A p \in 1 .. (j - 1) : u[p] = t[p]
  OBVIOUS
<1>3. q \in 1 .. (j - 1) => \A p \in 1 .. (q - 1) : u[p] = t[p]
  OBVIOUS
<1> QED BY <1>1, <1>2, <1>3 DEF FirstNeeds

(* The order of the table survives the arrival of the vdso, and of a new     *)
(* entry that is first needed by entry c, the last one read.                 *)
LEMMA OrderStays ==
  ASSUME NEW s \in System, NEW t, NEW u, NEW e, NEW c \in Nat,
         Len(t) \in Nat, Len(u) = Len(t) + 1, u[Len(t) + 1] = e,
         \A m \in 1 .. Len(t) : u[m] = t[m],
         Len(RootsOf(s)) <= Len(t),
         NoRepeat(s, t), Explained(s, t), InOrder(s, t),
         \A m \in 1 .. Len(t) : t[m] # e,
         e # Vdso =>
           /\ FirstNeeds(s, u, c, Len(t) + 1)
           /\ \A j \in Later(s, t) : \A q \in 1 .. Len(t) : FirstNeeds(s, t, q, j) => q <= c
  PROVE  /\ NoRepeat(s, u) /\ Explained(s, u) /\ InOrder(s, u)
         /\ e # Vdso =>
              \A j \in Later(s, u) : \A q \in 1 .. Len(u) : FirstNeeds(s, u, q, j) => q <= c
<1> DEFINE L == Len(t)
           n == Len(RootsOf(s))
<1>1. n \in Nat /\ n <= L /\ L \in Nat
  BY RootsType
<1>2. Later(s, t) = (n + 1) .. L /\ Later(s, u) = (n + 1) .. (L + 1)
  BY DEF Later
<1>3. \A j \in 1 .. L : \A q : FirstNeeds(s, u, q, j) <=> FirstNeeds(s, t, q, j)
  BY FirstNeedsStays
<1>4. \A j \in Later(s, u) : j \in Later(s, t) \/ j = L + 1
  BY <1>1, <1>2
<1>5. Later(s, t) \subseteq 1 .. L
  BY <1>1, <1>2
<1>6. NoRepeat(s, u)
  <2>1. SUFFICES ASSUME NEW j \in Later(s, u), NEW m \in 1 .. (j - 1) PROVE u[m] # u[j]
    BY DEF NoRepeat
  <2>2. CASE j \in Later(s, t)
    BY <2>2, <1>1, <1>2 DEF NoRepeat
  <2>3. CASE j = L + 1
    BY <2>3, <1>1
  <2> QED BY <2>2, <2>3, <1>4
<1>7. Explained(s, u)
  <2>1. SUFFICES ASSUME NEW j \in Later(s, u), u[j] # Vdso
                 PROVE  \E q \in 1 .. (j - 1) : FirstNeeds(s, u, q, j)
    BY DEF Explained
  <2>2. CASE j \in Later(s, t)
    <3>1. t[j] # Vdso
      BY <2>2, <2>1, <1>5
    <3>2. PICK q \in 1 .. (j - 1) : FirstNeeds(s, t, q, j)
      BY <3>1, <2>2 DEF Explained
    <3> QED BY <3>2, <2>2, <1>3, <1>5
  <2>3. CASE j = L + 1
    <3>1. FirstNeeds(s, u, c, j)
      BY <2>1, <2>3
    <3> QED BY <3>1 DEF FirstNeeds
  <2> QED BY <2>2, <2>3, <1>4
<1>8. ASSUME e # Vdso, NEW j \in Later(s, u), NEW q \in 1 .. Len(u), FirstNeeds(s, u, q, j)
      PROVE  q <= c
  <2>1. CASE j \in Later(s, t)
    <3>1. FirstNeeds(s, t, q, j)
      BY <2>1, <1>8, <1>3, <1>5
    <3>2. q \in 1 .. L
      <4>1. q \in 1 .. (j - 1) /\ j \in 1 .. L
        BY <3>1, <2>1, <1>5 DEF FirstNeeds
      <4> QED BY <4>1, <1>1
    <3> QED BY <3>1, <3>2, <2>1, <1>8
  <2>2. CASE j = L + 1
    <3>1. /\ FirstNeeds(s, u, c, j) /\ FirstNeeds(s, u, q, j)
      BY <1>8, <2>2
    <3>2. ~(c < q)
      <4>1. c \in 1 .. (j - 1) /\ u[j] \in Targets(s, u[c])
        BY <3>1 DEF FirstNeeds
      <4>2. q \in 1 .. (j - 1) /\ \A p \in 1 .. (q - 1) : u[j] \notin Targets(s, u[p])
        BY <3>1 DEF FirstNeeds
      <4> QED BY <4>1, <4>2
    <3> QED BY <3>2, <1>1
  <2> QED BY <2>1, <2>2, <1>4
<1>9. InOrder(s, u)
  <2>1. SUFFICES ASSUME NEW m \in Later(s, u), NEW j \in Later(s, u),
                        m < j, u[m] # Vdso, u[j] # Vdso,
                        NEW p \in 1 .. Len(u), NEW q \in 1 .. Len(u),
                        FirstNeeds(s, u, p, m), FirstNeeds(s, u, q, j)
                 PROVE  p <= q
    BY DEF InOrder
  <2>2. m \in Later(s, t)
    BY <2>1, <1>1, <1>2
  <2>3. FirstNeeds(s, t, p, m) /\ p \in 1 .. L /\ t[m] # Vdso
    <3>1. FirstNeeds(s, t, p, m)
      BY <2>1, <2>2, <1>3, <1>5
    <3>2. p \in 1 .. (m - 1) /\ m \in 1 .. L
      BY <3>1, <2>2, <1>5 DEF FirstNeeds
    <3>3. t[m] # Vdso
      BY <3>2, <2>1
    <3> QED BY <3>1, <3>2, <3>3, <1>1
  <2>4. CASE j \in Later(s, t)
    <3>1. FirstNeeds(s, t, q, j)
      BY <2>1, <2>4, <1>3, <1>5
    <3>2. q \in 1 .. (j - 1) /\ j \in 1 .. L
      BY <3>1, <2>4, <1>5 DEF FirstNeeds
    <3>3. t[j] # Vdso /\ q \in 1 .. L
      BY <3>2, <2>1, <1>1
    <3> QED BY <3>1, <3>3, <2>1, <2>2, <2>3, <2>4 DEF InOrder
  <2>5. CASE j = L + 1
    <3>1. e # Vdso
      BY <2>1, <2>5
    <3>2. p <= c
      BY <3>1, <2>2, <2>3
    <3>3. ~(q < c)
      <4>1. FirstNeeds(s, u, c, j)
        BY <3>1, <2>5
      <4>2. \A r \in 1 .. (c - 1) : u[j] \notin Targets(s, u[r])
        BY <4>1 DEF FirstNeeds
      <4>3. q \in 1 .. (j - 1) /\ u[j] \in Targets(s, u[q])
        BY <2>1 DEF FirstNeeds
      <4> QED BY <4>2, <4>3
    <3> QED BY <3>2, <3>3, <2>1
  <2> QED BY <2>4, <2>5, <1>4
<1> QED BY <1>6, <1>7, <1>8, <1>9

LEMMA OrderInvInit == Init => OrderInv
<1> SUFFICES ASSUME Init PROVE OrderInv
  OBVIOUS
<1>1. ClosureInv /\ sys \in System
  BY ClosureInvInit DEF ClosureInv, TypeInv, TypeOK
<1>2. table = <<Exe, LdSo>> /\ pc = "preload" /\ Len(table) = 2
  BY DEF Init
<1>3. Rooted(sys, table, pc)
  BY <1>2 DEF Rooted
<1>4. VdsoEnds(table, pc)
  BY <1>2, NameAssumption DEF VdsoEnds
<1>5. Later(sys, table) = {}
  <2>1. Len(RootsOf(sys)) \in Nat /\ Len(RootsOf(sys)) >= 2
    BY <1>1, RootsType
  <2> HIDE DEF RootsOf
  <2> QED BY <2>1, <1>2 DEF Later
<1>6. NoRepeat(sys, table) /\ Explained(sys, table) /\ InOrder(sys, table)
  BY <1>5 DEF NoRepeat, Explained, InOrder
<1>7. Frontier(sys, table, pc, i) /\ Opened(sys, table, pc, i)
  BY <1>2 DEF Frontier, Opened
<1> QED BY <1>1, <1>3, <1>4, <1>6, <1>7 DEF OrderInv

(* LD_PRELOAD completes the roots.                                           *)
LEMMA PreloadKeepsOrder ==
  ASSUME OrderInv, TypeInv, TypeInv', Preload
  PROVE  /\ Rooted(sys', table', pc') /\ VdsoEnds(table', pc')
         /\ NoRepeat(sys', table') /\ Explained(sys', table') /\ InOrder(sys', table')
         /\ Frontier(sys', table', pc', i') /\ Opened(sys', table', pc', i')
<1>1. /\ pc = "preload" /\ pc' = "pass" /\ sys' = sys /\ sys \in System
      /\ table' = table \o sys.preload
  BY DEF Preload, TypeInv, TypeOK
<1>2. table = <<Exe, LdSo>>
  BY <1>1 DEF OrderInv, Rooted
<1>3. table' = RootsOf(sys)
  BY <1>1, <1>2 DEF RootsOf
<1>4. Len(RootsOf(sys)) \in Nat
  BY <1>1, RootsType
<1>5. Rooted(sys', table', pc')
  BY <1>1, <1>3, <1>4 DEF Rooted
<1>6. Later(sys', table') = {}
  BY <1>1, <1>3, <1>4 DEF Later
<1>7. NoRepeat(sys', table') /\ Explained(sys', table') /\ InOrder(sys', table')
  BY <1>6 DEF NoRepeat, Explained, InOrder
<1>8. Frontier(sys', table', pc', i') /\ Opened(sys', table', pc', i')
  BY <1>1, <1>6 DEF Frontier, Opened
<1>9. VdsoEnds(table', pc')
  <2>1. table' \in Seq(Entry)
    BY <1>1, <1>3, RootsType
  <2> QED BY <2>1, ElementOfSeq DEF VdsoEnds
<1> QED BY <1>5, <1>7, <1>8, <1>9

(* What ResolveNeeded finds.                                                 *)
LEMMA ResolveFacts ==
  ASSUME OrderInv, TypeInv, TypeInv', ResolveNeeded
  PROVE  LET name == Target(sys, table[i], k) IN
         /\ pc = "scan" /\ sys' = sys /\ i' = i /\ i \in 1 .. Len(table) /\ table[i] \in Entry
         /\ name \in Targets(sys, table[i])
         /\ \/ name = NotFound /\ pc' = "exit" /\ table' = table
            \/ /\ name # NotFound /\ pc' = "scan" /\ name \in Entry /\ name \in Entries /\ table' = table
            \/ /\ name # NotFound /\ pc' = "scan" /\ name \in Entry /\ name \notin Entries
               /\ table' = Append(table, name)
<1> DEFINE name == Target(sys, table[i], k)
<1>1. /\ pc = "scan" /\ sys' = sys /\ i' = i /\ k <= Len(sys.needed[table[i]])
      /\ name = LibPath(sys, sys.needed[table[i]][k], table[i])
  BY DEF ResolveNeeded, Target
<1>2. i \in 1 .. Len(table)
  BY <1>1, LenProperties DEF TypeInv, TypeOK
<1>3. table[i] \in Entry /\ sys.needed[table[i]][k] \in Name /\ sys \in System
  BY <1>1, NeededType DEF TypeInv, TypeOK
<1>4. name \in Entry \union {NotFound}
  BY <1>1, <1>3, LibPathType
<1>5. k \in DOMAIN sys.needed[table[i]]
  <2>1. sys.needed[table[i]] \in Seq(Name)
    BY <1>3 DEF System
  <2> QED BY <2>1, <1>1, LenProperties DEF TypeInv, TypeOK
<1>6. name \in Targets(sys, table[i])
  BY <1>5 DEF Targets
<1>7. \/ name = NotFound /\ pc' = "exit" /\ table' = table
      \/ name # NotFound /\ pc' = "scan" /\ table' = IF name \in Entries THEN table ELSE Append(table, name)
  BY <1>1 DEF ResolveNeeded, Unresolved, Added, IsIn
<1> QED BY <1>1, <1>2, <1>3, <1>4, <1>6, <1>7

LEMMA ResolveKeepsOrder ==
  ASSUME OrderInv, TypeInv, TypeInv', ResolveNeeded
  PROVE  /\ Rooted(sys', table', pc') /\ VdsoEnds(table', pc')
         /\ NoRepeat(sys', table') /\ Explained(sys', table') /\ InOrder(sys', table')
         /\ Frontier(sys', table', pc', i') /\ Opened(sys', table', pc', i')
<1> DEFINE name == Target(sys, table[i], k)
           L == Len(table)
<1>1. /\ pc = "scan" /\ sys' = sys /\ i' = i /\ i \in 1 .. L /\ name \in Targets(sys, table[i])
  BY ResolveFacts
<1>2. /\ Rooted(sys, table, pc) /\ VdsoEnds(table, pc) /\ NoRepeat(sys, table)
      /\ Explained(sys, table) /\ InOrder(sys, table) /\ Frontier(sys, table, pc, i)
      /\ Opened(sys, table, pc, i) /\ ClosureInv
  BY DEF OrderInv
<1>3. CASE pc' = "exit" /\ table' = table
  BY <1>1, <1>2, <1>3 DEF Rooted, VdsoEnds, Frontier, Opened
<1>4. CASE pc' = "scan" /\ table' = table
  BY <1>1, <1>2, <1>4 DEF Rooted, VdsoEnds, Frontier, Opened
<1>5. CASE pc' = "scan" /\ name \in Entry /\ name \notin Entries /\ table' = Append(table, name)
  <2>1. /\ L \in Nat /\ DOMAIN table = 1 .. L /\ Len(table') = L + 1 /\ table'[L + 1] = name
        /\ \A m \in 1 .. L : table'[m] = table[m]
    BY <1>5, AppendProperties, LenProperties DEF TypeInv, TypeOK
  <2>2. \A m \in 1 .. L : table[m] # name
    BY <1>5, <2>1 DEF Entries
  <2>3. name # Vdso
    BY <1>5, NameAssumption
  <2>4. Len(RootsOf(sys)) <= L /\ \A m \in 1 .. Len(RootsOf(sys)) : table[m] = RootsOf(sys)[m]
    BY <1>1, <1>2 DEF Rooted
  <2>5. \A p \in 1 .. (i - 1) : name \notin Targets(sys, table[p])
    <3>1. ASSUME NEW p \in 1 .. (i - 1), name \in Targets(sys, table[p]) PROVE FALSE
      <4>1. Closed(sys, table, table[p])
        BY <1>1, <1>2 DEF ClosureInv, ReadSoFar
      <4>2. name \in In(table)
        BY <4>1, <3>1 DEF Closed, Targets
      <4> QED BY <4>2, <2>1, <2>2 DEF In
    <3> QED BY <3>1
  <2>6. ~AllClosed(sys, table)
    <3>1. ASSUME Closed(sys, table, table[i]) PROVE FALSE
      <4>1. name \in In(table)
        BY <3>1, <1>1 DEF Closed, Targets
      <4> QED BY <4>1, <2>1, <2>2 DEF In
    <3> QED BY <3>1, <1>1 DEF AllClosed
  <2>7. \A m \in Later(sys, table) : \A q \in 1 .. L : FirstNeeds(sys, table, q, m) => q <= i
    BY <1>1, <1>2, <2>6 DEF Frontier
  <2>8. FirstNeeds(sys, table', i, L + 1)
    <3>1. i \in 1 .. ((L + 1) - 1) /\ table'[i] = table[i]
      BY <1>1, <2>1
    <3>2. \A p \in 1 .. (i - 1) : table'[p] = table[p]
      BY <1>1, <2>1
    <3> QED BY <3>1, <3>2, <1>1, <2>1, <2>5 DEF FirstNeeds
  <2>9. /\ NoRepeat(sys, table') /\ Explained(sys, table') /\ InOrder(sys, table')
        /\ \A m \in Later(sys, table') : \A q \in 1 .. Len(table') : FirstNeeds(sys, table', q, m) => q <= i
    <3>1. sys \in System /\ i \in Nat
      BY DEF TypeInv, TypeOK
    <3> HIDE DEF name
    <3> QED BY <3>1, <1>2, <2>1, <2>2, <2>3, <2>4, <2>7, <2>8, OrderStays
  <2>10. Rooted(sys', table', pc')
    <3>1. Len(RootsOf(sys)) \in Nat
      BY RootsType DEF TypeInv, TypeOK
    <3> QED BY <3>1, <1>1, <1>5, <2>1, <2>4 DEF Rooted
  <2>11. VdsoEnds(table', pc')
    <3>1. \A m \in 1 .. L : table[m] \in Entry
      BY <1>1, <1>2 DEF VdsoEnds
    <3>2. \A m \in 1 .. Len(table') : m \in 1 .. L \/ m = L + 1
      BY <2>1
    <3> QED BY <3>1, <3>2, <2>1, <1>5 DEF VdsoEnds
  <2>12. Opened(sys', table', pc', i')
    <3>1. \A m \in 1 .. Len(table') : m < i => m \in 1 .. L
      BY <1>1, <2>1
    <3> QED BY <3>1, <1>1, <1>2, <1>5, <2>1 DEF Opened
  <2> QED BY <1>1, <1>5, <2>9, <2>10, <2>11, <2>12 DEF Frontier
<1> QED BY <1>3, <1>4, <1>5, ResolveFacts

(* The vdso ends the table.                                                  *)
LEMMA FinishKeepsOrder ==
  ASSUME OrderInv, TypeInv, TypeInv', Finish
  PROVE  /\ Rooted(sys', table', pc') /\ VdsoEnds(table', pc')
         /\ NoRepeat(sys', table') /\ Explained(sys', table') /\ InOrder(sys', table')
         /\ Frontier(sys', table', pc', i') /\ Opened(sys', table', pc', i')
<1> DEFINE L == Len(table)
<1>1. /\ pc = "open" /\ pc' = "done" /\ sys' = sys /\ i > L /\ sys \in System /\ i \in Nat
      /\ table' = table \/ table' = Append(table, Vdso)
  BY DEF Finish, Bound, TypeInv, TypeOK
<1>2. /\ Rooted(sys, table, pc) /\ VdsoEnds(table, pc) /\ NoRepeat(sys, table)
      /\ Explained(sys, table) /\ InOrder(sys, table) /\ Opened(sys, table, pc, i)
  BY DEF OrderInv
<1>3. L \in Nat /\ \A m \in 1 .. L : m < i
  BY <1>1, LenProperties DEF TypeInv, TypeOK
<1>4. /\ Frontier(sys', table', pc', i')
  BY <1>1 DEF Frontier
<1>5. \A m \in 1 .. L : table[m] \in sys.exists /\ table[m] \in Entry
  BY <1>1, <1>2, <1>3 DEF Opened, VdsoEnds
<1>6. CASE table' = table
  BY <1>1, <1>2, <1>4, <1>5, <1>6 DEF Rooted, VdsoEnds, Opened
<1>7. CASE table' = Append(table, Vdso)
  <2>1. /\ Len(table') = L + 1 /\ table'[L + 1] = Vdso
        /\ \A m \in 1 .. L : table'[m] = table[m]
    BY <1>7, AppendProperties DEF TypeInv, TypeOK
  <2>2. \A m \in 1 .. L : table[m] # Vdso
    BY <1>5, NameAssumption
  <2>3. Len(RootsOf(sys)) <= L /\ \A m \in 1 .. Len(RootsOf(sys)) : table[m] = RootsOf(sys)[m]
    BY <1>1, <1>2 DEF Rooted
  <2>4. NoRepeat(sys, table') /\ Explained(sys, table') /\ InOrder(sys, table')
    BY <1>1, <1>2, <1>3, <2>1, <2>2, <2>3, OrderStays
  <2>5. Rooted(sys', table', pc')
    <3>1. Len(RootsOf(sys)) \in Nat
      BY <1>1, RootsType
    <3> QED BY <3>1, <1>1, <1>3, <2>1, <2>3 DEF Rooted
  <2>6. \A m \in 1 .. Len(table') : m \in 1 .. L \/ m = L + 1
    BY <1>3, <2>1
  <2>7. VdsoEnds(table', pc') /\ Opened(sys', table', pc', i')
    BY <2>1, <2>6, <1>1, <1>5 DEF VdsoEnds, Opened
  <2> QED BY <1>1, <1>4, <2>4, <2>5, <2>7
<1> QED BY <1>1, <1>6, <1>7

LEMMA OrderInvNext == OrderInv /\ [Next]_vars => OrderInv'
<1> SUFFICES ASSUME OrderInv, [Next]_vars PROVE OrderInv'
  OBVIOUS
<1> DEFINE Kept ==
      /\ Rooted(sys', table', pc') /\ VdsoEnds(table', pc')
      /\ NoRepeat(sys', table') /\ Explained(sys', table') /\ InOrder(sys', table')
      /\ Frontier(sys', table', pc', i') /\ Opened(sys', table', pc', i')
<1>1. ClosureInv /\ ClosureInv' /\ TypeInv /\ TypeInv'
  BY ClosureInvNext DEF OrderInv, ClosureInv
<1>2. /\ Rooted(sys, table, pc) /\ VdsoEnds(table, pc) /\ NoRepeat(sys, table)
      /\ Explained(sys, table) /\ InOrder(sys, table) /\ Frontier(sys, table, pc, i)
      /\ Opened(sys, table, pc, i)
  BY DEF OrderInv
<1>3. Len(table) \in Nat /\ i \in Nat \ {0}
  BY <1>1, LenProperties DEF TypeInv, TypeOK
<1> SUFFICES Kept
  BY <1>1 DEF OrderInv
<1>4. CASE Preload
  BY <1>4, <1>1, PreloadKeepsOrder
<1>5. CASE StartPass
  <2>1. pc = "pass" /\ pc' = "open" /\ i' = 1 /\ table' = table /\ sys' = sys
    BY <1>5 DEF StartPass
  <2>2. Opened(sys', table', pc', i')
    BY <2>1, <1>3 DEF Opened
  <2> QED BY <2>1, <2>2, <1>2 DEF Rooted, VdsoEnds, Frontier
<1>6. CASE OpenEntry
  <2>1. /\ pc = "open" /\ i' = i /\ table' = table /\ sys' = sys /\ i \in 1 .. Len(table)
        /\ pc' = "exit" \/ (pc' = "scan" /\ table[i] \in sys.exists)
    BY <1>6, <1>3 DEF OpenEntry, Bound
  <2> QED BY <2>1, <1>2 DEF Rooted, VdsoEnds, Frontier, Opened
<1>7. CASE ResolveNeeded
  BY <1>7, <1>1, ResolveKeepsOrder
<1>8. CASE EndEntry
  <2>1. pc = "scan" /\ pc' = "open" /\ i' = i + 1 /\ table' = table /\ sys' = sys
    BY <1>8 DEF EndEntry
  <2>2. Opened(sys', table', pc', i')
    <3>1. \A m \in 1 .. Len(table) : m < i + 1 => m < i \/ m = i
      BY <1>3
    <3> QED BY <3>1, <2>1, <1>2 DEF Opened
  <2>3. Frontier(sys', table', pc', i')
    <3>1. \A q \in 1 .. Len(table) : q <= i => q <= i + 1
      BY <1>3
    <3> QED BY <3>1, <2>1, <1>2 DEF Frontier
  <2> QED BY <2>1, <2>2, <2>3, <1>2 DEF Rooted, VdsoEnds
<1>9. CASE Repeat
  <2>1. pc = "open" /\ i > Len(table) /\ pc' = "pass" /\ i' = i /\ table' = table /\ sys' = sys
    BY <1>9 DEF Repeat, Bound
  <2>2. AllClosed(sys, table)
    <3>1. \A m \in 1 .. Len(table) : m \in 1 .. (i - 1)
      BY <2>1, <1>3
    <3> QED BY <3>1, <2>1, <1>1 DEF AllClosed, ClosureInv, ReadSoFar
  <2> QED BY <2>1, <2>2, <1>2 DEF Rooted, VdsoEnds, Frontier, Opened
<1>10. CASE Finish
  BY <1>10, <1>1, FinishKeepsOrder
<1>11. CASE UNCHANGED vars
  BY <1>11, <1>2 DEF vars
<1> QED BY <1>4, <1>5, <1>6, <1>7, <1>8, <1>9, <1>10, <1>11 DEF Next

LEMMA OrderInvariant == Spec => []OrderInv
BY OrderInvInit, OrderInvNext, PTL DEF Spec

LEMMA OrderTypes ==
  ASSUME OrderInv
  PROVE  /\ sys \in System /\ TypeInv
         /\ Len(table) \in Nat /\ DOMAIN table = 1 .. Len(table)
         /\ Len(RootsOf(sys)) \in Nat /\ Len(RootsOf(sys)) >= 2
         /\ Roots = RootsOf(sys)
         /\ \A j \in 1 .. (Len(table) - 1) : table[j] \in Entry /\ table[j] # Vdso
<1>1. sys \in System /\ TypeInv /\ table \in Seq(Entry \union {Vdso})
  BY DEF OrderInv, ClosureInv, TypeInv, TypeOK
<1>2. Len(table) \in Nat /\ DOMAIN table = 1 .. Len(table)
  BY <1>1, LenProperties
<1>3. \A j \in 1 .. (Len(table) - 1) : table[j] \in Entry
  <2>1. \A L \in Nat : \A j \in 1 .. (L - 1) : j \in 1 .. L /\ j # L
    OBVIOUS
  <2> QED BY <2>1, <1>2 DEF OrderInv, VdsoEnds
<1>4. Len(RootsOf(sys)) \in Nat /\ Len(RootsOf(sys)) >= 2
  BY <1>1, RootsType
<1>5. Roots = RootsOf(sys)
  BY DEF Roots, RootsOf
<1> QED BY <1>1, <1>2, <1>3, <1>4, <1>5, NameAssumption

(* Needers and FirstNeeder are what FirstNeeds says.                         *)
LEMMA FirstNeederIs ==
  ASSUME OrderInv, NEW j \in 1 .. Len(table), NEW q, FirstNeeds(sys, table, q, j)
  PROVE  Needers(table[j]) # {} /\ FirstNeeder(table[j]) = q
<1> DEFINE N == Needers(table[j])
<1>1. \A p : p \in N <=> p \in 1 .. Len(table) /\ table[p] # Vdso /\ table[j] \in Targets(sys, table[p])
  BY OrderTypes DEF Needers, Targets, Target
<1>2. q \in 1 .. (j - 1) /\ q \in 1 .. (Len(table) - 1)
  BY OrderTypes DEF FirstNeeds
<1>3. q \in N
  BY <1>1, <1>2, OrderTypes DEF FirstNeeds
<1>4. \A m \in N : q <= m
  <2>1. ASSUME NEW m \in N, ~(q <= m) PROVE FALSE
    <3>1. m \in 1 .. Len(table) /\ table[j] \in Targets(sys, table[m])
      BY <1>1, <2>1
    <3>2. m \in 1 .. (q - 1)
      BY <3>1, <2>1, <1>2
    <3> QED BY <3>1, <3>2 DEF FirstNeeds
  <2> QED BY <2>1
<1>5. N \subseteq Nat
  BY <1>1
<1> HIDE DEF N
<1>6. \A p \in N : (\A m \in N : p <= m) => p = q
  BY <1>3, <1>4, <1>5
<1>7. (CHOOSE p \in N : \A m \in N : p <= m) = q
  BY <1>3, <1>4, <1>6
<1> QED BY <1>3, <1>7 DEF N, FirstNeeder

(* BreadthFirst: the order in which symbols are looked up is the             *)
(* breadth-first order of the objects, in every graph of dependencies.       *)
THEOREM TableIsBreadthFirst == Spec => []BreadthFirst
<1>1. OrderInv => BreadthFirst
  <2>1. SUFFICES ASSUME OrderInv,
                        NEW j \in (Len(Roots) + 1) .. Len(table), table[j] # Vdso
                 PROVE  /\ Needers(table[j]) # {}
                        /\ FirstNeeder(table[j]) < j
                        /\ \A m \in (Len(Roots) + 1) .. (j - 1) :
                             FirstNeeder(table[m]) <= FirstNeeder(table[j])
    BY DEF BreadthFirst
  <2>2. /\ Explained(sys, table) /\ InOrder(sys, table)
        /\ Len(table) \in Nat /\ Len(Roots) \in Nat /\ Roots = RootsOf(sys)
        /\ Later(sys, table) = (Len(Roots) + 1) .. Len(table)
    BY <2>1, OrderTypes DEF OrderInv, Later
  <2>3. j \in Later(sys, table) /\ j \in 1 .. Len(table)
    BY <2>2
  <2>4. PICK q \in 1 .. (j - 1) : FirstNeeds(sys, table, q, j)
    BY <2>1, <2>2, <2>3 DEF Explained
  <2>5. Needers(table[j]) # {} /\ FirstNeeder(table[j]) = q
    BY <2>1, <2>3, <2>4, FirstNeederIs
  <2>6. ASSUME NEW m \in (Len(Roots) + 1) .. (j - 1)
        PROVE  FirstNeeder(table[m]) <= q
    <3>1. m \in Later(sys, table) /\ m \in 1 .. Len(table) /\ m < j /\ m \in 1 .. (Len(table) - 1)
      BY <2>2, <2>3
    <3>2. table[m] # Vdso
      BY <2>1, <3>1, OrderTypes
    <3>3. PICK p \in 1 .. (m - 1) : FirstNeeds(sys, table, p, m)
      BY <3>1, <3>2, <2>2 DEF Explained
    <3>4. FirstNeeder(table[m]) = p
      BY <2>1, <3>1, <3>3, FirstNeederIs
    <3>5. p \in 1 .. Len(table) /\ q \in 1 .. Len(table)
      BY <3>1, <3>3, <2>3, <2>4, <2>2
    <3>6. p <= q
      BY <3>1, <3>2, <3>3, <3>5, <2>1, <2>2, <2>3, <2>4 DEF InOrder
    <3> QED BY <3>4, <3>6
  <2> QED BY <2>3, <2>4, <2>5, <2>6
<1> QED BY <1>1, OrderInvariant, PTL

(* What an object needs, and is found, is resolvable.                        *)
LEMMA LaterIsResolvable ==
  ASSUME OrderInv, NEW j \in Later(sys, table), table[j] # Vdso
  PROVE  \E q \in 1 .. (j - 1) : \E m \in DOMAIN sys.needed[table[q]] :
           /\ table[q] \in Entry
           /\ sys.needed[table[q]][m] \in Name
           /\ table[j] = LibPath(sys, sys.needed[table[q]][m], table[q])
<1>1. PICK q \in 1 .. (j - 1) : FirstNeeds(sys, table, q, j)
  BY DEF OrderInv, Explained
<1>2. j <= Len(table) /\ j \in Nat
  BY OrderTypes DEF Later
<1>3. q \in 1 .. (Len(table) - 1)
  BY <1>2, OrderTypes
<1>4. table[q] \in Entry
  BY <1>3, OrderTypes
<1>5. PICK m \in DOMAIN sys.needed[table[q]] : table[j] = Target(sys, table[q], m)
  BY <1>1 DEF FirstNeeds, Targets
<1>6. sys.needed[table[q]] \in Seq(Name)
  BY <1>4, OrderTypes DEF System
<1>7. sys.needed[table[q]][m] \in Name
  BY <1>5, <1>6, LenProperties, ElementOfSeq
<1> QED BY <1>4, <1>5, <1>7 DEF Target

(* TableFits: the slots a table takes are bounded by what the system can     *)
(* resolve, however often and in whatever cycles objects need each other.    *)
THEOREM TableSizeIsBounded == Spec => []TableFits
<1>1. OrderInv => TableFits
  <2> SUFFICES ASSUME OrderInv PROVE TableFits
    OBVIOUS
  <2> DEFINE n == Len(Roots)
             L == Len(table)
             D == (n + 1) .. (L - 1)
             f == [j \in D |-> table[j]]
  <2>1. n \in Nat /\ L \in Nat /\ n >= 2 /\ Roots = RootsOf(sys) /\ sys \in System
    BY OrderTypes
  <2>2. IsFiniteSet(Resolvable) /\ Cardinality(Resolvable) \in Nat
    <3>1. Resolvable \subseteq Entry
      <4>1. \A name \in Name, binary \in Entry : LibPath(sys, name, binary) \in Entry \union {NotFound}
        BY <2>1, LibPathType
      <4> QED BY <4>1 DEF Resolvable
    <3> QED BY <3>1, SizeAssumption, FS_Subset, FS_CardinalityType
  <2>3. f \in Injection(D, Resolvable)
    <3>1. \A j \in D : j \in Later(sys, table) /\ j \in 1 .. (L - 1)
      BY <2>1 DEF Later
    <3>2. ASSUME NEW j \in D PROVE table[j] \in Resolvable
      <4>1. table[j] # Vdso /\ table[j] \in Entry /\ NotFound \notin Entry
        BY <3>1, OrderTypes, NameAssumption
      <4>2. \E name \in Name, binary \in Entry : table[j] = LibPath(sys, name, binary)
        BY <3>1, <4>1, LaterIsResolvable
      <4> QED BY <4>1, <4>2 DEF Resolvable
    <3>3. ASSUME NEW a \in D, NEW b \in D, a < b PROVE table[a] # table[b]
      <4>1. b \in Later(sys, table) /\ a \in 1 .. (b - 1)
        BY <3>1, <3>3, <2>1
      <4> QED BY <4>1 DEF OrderInv, NoRepeat
    <3>4. \A a, b \in D : table[a] = table[b] => a = b
      BY <3>3, <2>1
    <3> HIDE DEF D
    <3>5. f \in [D -> Resolvable] /\ IsInjective(f)
      BY <3>2, <3>4 DEF IsInjective
    <3> QED BY <3>5 DEF Injection
  <2>4. Cardinality(D) <= Cardinality(Resolvable)
    <3> HIDE DEF f, D
    <3> QED BY <2>2, <2>3, FS_Injection
  <2>5. Cardinality(D) = IF n + 1 > L - 1 THEN 0 ELSE (L - 1) - (n + 1) + 1
    <3>1. n + 1 \in Int /\ L - 1 \in Int
      BY <2>1
    <3> HIDE DEF n, L
    <3> QED BY <3>1, FS_Interval
  <2> HIDE DEF n, L, D, f
  <2>6. L <= n + 1 + Cardinality(Resolvable)
    <3>1. CASE n + 1 > L - 1
      <4>1. L <= n + 1
        BY <3>1, <2>1
      <4> QED BY <4>1, <2>1, <2>2
    <3>2. CASE ~(n + 1 > L - 1)
      <4>1. Cardinality(D) = L - (n + 1)
        BY <3>2, <2>5, <2>1
      <4> QED BY <4>1, <2>4, <2>1, <2>2
    <3> QED BY <3>1, <3>2
  <2>7. L + 1 <= MAX_DEP \/ n + Cardinality(Resolvable) + 2 > MAX_DEP
    BY <2>6, <2>1, <2>2, SizeAssumption
  <2> QED BY <2>7 DEF TableFits, n, L
<1> QED BY <1>1, OrderInvariant, PTL

(* InterpreterOnce: whatever the directories hold, the only entry that is    *)
(* ld.so is the second one, the interpreter already running.                 *)
THEOREM OneInterpreter == Spec => []InterpreterOnce
<1>1. OrderInv => InterpreterOnce
  <2>1. SUFFICES ASSUME OrderInv, pc = "done", NoAlias,
                        NEW j \in DOMAIN table, table[j] \in Copies
                 PROVE  j = 2
    BY DEF InterpreterOnce
  <2>2. /\ sys \in System /\ Len(table) \in Nat /\ j \in 1 .. Len(table)
        /\ Len(RootsOf(sys)) <= Len(table) /\ Len(RootsOf(sys)) \in Nat
        /\ \A m \in 1 .. Len(RootsOf(sys)) : table[m] = RootsOf(sys)[m]
    BY <2>1, OrderTypes DEF OrderInv, Rooted
  <2>3. /\ Len(RootsOf(sys)) = 2 + Len(sys.preload) /\ Len(sys.preload) \in Nat
        /\ RootsOf(sys)[1] = Exe /\ RootsOf(sys)[2] = LdSo
        /\ DOMAIN sys.preload = 1 .. Len(sys.preload)
        /\ \A m \in 1 .. Len(sys.preload) : RootsOf(sys)[m + 2] = sys.preload[m]
    <3>1. sys.preload \in Seq(Entry)
      BY <2>2, RootsType
    <3> QED BY <3>1, <2>2, RootsType, LenProperties
  <2>4. table[j] # Vdso
    <3>1. Copies \subseteq Entry
      <4>1. \A d \in Dir : Concat[<<d, LdSo>>] \in Entry
        BY NameAssumption
      <4> QED BY <4>1, NameAssumption DEF Copies
    <3> QED BY <3>1, <2>1, NameAssumption
  <2>5. j # 1
    BY <2>1, <2>2, <2>3 DEF NoAlias
  <2>6. ~(j \in 3 .. Len(RootsOf(sys)))
    <3>1. ASSUME j \in 3 .. Len(RootsOf(sys)) PROVE FALSE
      <4>1. j - 2 \in 1 .. Len(sys.preload) /\ (j - 2) + 2 = j
        BY <3>1, <2>3
      <4>2. table[j] = sys.preload[j - 2]
        <5>1. table[j] = RootsOf(sys)[j]
          BY <3>1, <2>2
        <5> DEFINE m == j - 2
        <5>2. m \in 1 .. Len(sys.preload) /\ m + 2 = j
          BY <4>1
        <5> HIDE DEF m
        <5>3. RootsOf(sys)[m + 2] = sys.preload[m]
          BY <5>2, <2>3
        <5> QED BY <5>1, <5>2, <5>3 DEF m
      <4> QED BY <4>1, <4>2, <2>1, <2>3 DEF NoAlias
    <3> QED BY <3>1
  <2>7. ~(j \in Later(sys, table))
    <3>1. ASSUME j \in Later(sys, table) PROVE FALSE
      <4>1. PICK q \in 1 .. (j - 1) : \E m \in DOMAIN sys.needed[table[q]] :
              /\ table[q] \in Entry
              /\ sys.needed[table[q]][m] \in Name
              /\ table[j] = LibPath(sys, sys.needed[table[q]][m], table[q])
        BY <2>1, <2>4, <3>1, LaterIsResolvable
      <4>2. PICK m \in DOMAIN sys.needed[table[q]] :
              /\ table[q] \in Entry
              /\ sys.needed[table[q]][m] \in Name
              /\ table[j] = LibPath(sys, sys.needed[table[q]][m], table[q])
        BY <4>1
      <4> DEFINE name == sys.needed[table[q]][m]
      <4>3. q \in DOMAIN table /\ q \in 1 .. (Len(table) - 1) /\ 2 \in 1 .. (j - 1) /\ 2 \in 1 .. Len(table)
        BY <2>1, <2>2, <2>3, <3>1, OrderTypes DEF Later
      <4>4. table[q] # Vdso
        BY <2>1, <4>3, OrderTypes
      <4>5. table[2] = LdSo /\ table[2] # table[j]
        <5>1. table[2] = LdSo
          BY <2>2, <2>3
        <5> QED BY <5>1, <2>1, <3>1, <4>3 DEF OrderInv, NoRepeat
      <4>6. CASE name = LdSo
        <5>1. LdSo \in sys.exists
          <6>1. LdSo # Vdso
            BY NameAssumption
          <6> QED BY <6>1, <2>1, <4>3, <4>5 DEF OrderInv, Opened
        <5>2. LibPath(sys, name, table[q]) = LdSo
          BY <5>1, <4>6 DEF LibPath
        <5> QED BY <5>2, <4>2, <4>5
      <4>7. CASE name # LdSo
        <5>1. name \notin Copies /\ \A d \in Dir : Concat[<<d, name>>] \notin Copies
          BY <2>1, <4>2, <4>3, <4>4, <4>7 DEF NoAlias
        <5>2. LibPath(sys, name, table[q]) \in {name, NotFound} \union {Concat[<<d, name>>] : d \in Dir}
          BY <4>2, <2>2, LibPathForms
        <5>3. table[j] # NotFound
          <6>1. table[j] \in Entry
            BY <2>1, <2>2, <2>4 DEF OrderInv, VdsoEnds
          <6> QED BY <6>1, NameAssumption
        <5> HIDE DEF name
        <5>4. table[j] = LibPath(sys, name, table[q])
          BY <4>2 DEF name
        <5> QED BY <5>1, <5>2, <5>3, <5>4, <2>1
      <4> QED BY <4>6, <4>7
    <3> QED BY <3>1
  <2> QED BY <2>2, <2>3, <2>5, <2>6, <2>7 DEF Later
<1> QED BY <1>1, OrderInvariant, PTL

-----------------------------------------------------------------------------
(* The search implements Closure.                                            *)

FoundOf(s, t) == (In(t) \ {Vdso}) \union In(RootsOf(s))

LEMMA FoundIs == Found = FoundOf(sys, table)
BY DEF Found, FoundOf, Entries, In, Roots, RootsOf

(* Once the roots are in the table, what is found is what the table holds.   *)
LEMMA FoundOnceRooted ==
  ASSUME NEW s \in System, NEW t, Len(t) \in Nat, DOMAIN t = 1 .. Len(t),
         Len(RootsOf(s)) <= Len(t),
         \A j \in 1 .. Len(RootsOf(s)) : t[j] = RootsOf(s)[j]
  PROVE  FoundOf(s, t) = In(t) \ {Vdso}
<1>1. /\ Len(RootsOf(s)) \in Nat
      /\ DOMAIN RootsOf(s) = 1 .. Len(RootsOf(s))
      /\ \A j \in 1 .. Len(RootsOf(s)) : RootsOf(s)[j] \in Entry
  BY RootsType, LenProperties, ElementOfSeq
<1>2. \A j \in 1 .. Len(RootsOf(s)) : t[j] \in In(t) \ {Vdso}
  BY <1>1, NameAssumption DEF In
<1>3. In(RootsOf(s)) \subseteq In(t) \ {Vdso}
  BY <1>1, <1>2 DEF In
<1> QED BY <1>3 DEF FoundOf

(* What an object needs, in the abstract specification: its targets, or,     *)
(* for a file that cannot be opened, something missing.                      *)
LEMMA SuccIs ==
  ASSUME NEW e \in Entry
  PROVE  Succ[e] = IF e \notin sys.exists THEN {NotFound} ELSE Targets(sys, e)
BY DEF Succ, Targets, Target

LEMMA InitImplements == Init => Abstract!Init
<1> SUFFICES ASSUME Init PROVE Abstract!Init
  OBVIOUS
<1>1. OrderInv /\ pc = "preload" /\ table = <<Exe, LdSo>>
  BY OrderInvInit DEF Init
<1>2. sys \in System
  BY <1>1, OrderTypes
<1>3. ASSUME NEW e \in Entry PROVE Succ[e] \in SUBSET (Entry \union {NotFound})
  <2>1. ASSUME NEW m \in DOMAIN sys.needed[e]
        PROVE  Target(sys, e, m) \in Entry \union {NotFound}
    <3>1. sys.needed[e] \in Seq(Name)
      BY <1>2 DEF System
    <3>2. sys.needed[e][m] \in Name
      BY <2>1, <3>1, LenProperties, ElementOfSeq
    <3> QED BY <3>2, <1>2, LibPathType DEF Target
  <2>2. Targets(sys, e) \subseteq Entry \union {NotFound}
    BY <2>1 DEF Targets
  <2> QED BY <2>2, SuccIs
<1>4. Succ \in [Entry -> SUBSET (Entry \union {NotFound})]
  BY <1>3 DEF Succ
<1>5. Found \in SUBSET Entry
  <2>1. In(RootsOf(sys)) \subseteq Entry
    BY <1>2, RootsType, LenProperties, ElementOfSeq DEF In
  <2>2. In(table) \subseteq Entry
    <3>1. table \in Seq(Entry)
      BY <1>1, NameAssumption
    <3> QED BY <3>1, LenProperties, ElementOfSeq DEF In
  <2> QED BY <2>1, <2>2, FoundIs DEF FoundOf
<1>6. Phase = "grow"
  BY <1>1 DEF Phase
<1> QED BY <1>4, <1>5, <1>6 DEF Abstract!Init

LEMMA StepImplements == OrderInv /\ [Next]_vars => [Abstract!Next]_(Abstract!vars)
<1> SUFFICES ASSUME OrderInv, [Next]_vars
             PROVE  Abstract!Next \/ UNCHANGED Abstract!vars
  OBVIOUS
<1>1. TypeInv /\ TypeInv' /\ OrderInv' /\ ClosureInv
  BY OrderInvNext, TypeInvNext DEF OrderInv, ClosureInv
<1>2. /\ sys' = sys /\ sys \in System
      /\ Len(table) \in Nat /\ DOMAIN table = 1 .. Len(table)
      /\ Len(table') \in Nat /\ DOMAIN table' = 1 .. Len(table')
  BY <1>1, TableGrows DEF TypeInv, TypeOK
<1>3. Succ' = Succ
  BY <1>2 DEF Succ
<1>4. Found = FoundOf(sys, table) /\ Found' = FoundOf(sys, table')
  <2>1. Found' = FoundOf(sys', table')
    BY DEF Found, FoundOf, Entries, In, Roots, RootsOf
  <2> QED BY <2>1, <1>2, FoundIs
<1>5. pc # "preload" => FoundOf(sys, table) = In(table) \ {Vdso}
  BY <1>2, FoundOnceRooted DEF OrderInv, Rooted
<1>6. pc' # "preload" => FoundOf(sys, table') = In(table') \ {Vdso}
  <2>1. OrderInv'
    BY <1>1
  <2>2. Rooted(sys', table', pc')
    BY <2>1 DEF OrderInv
  <2> QED BY <2>2, <1>2, FoundOnceRooted DEF Rooted
<1>7. ASSUME table' = table, Phase' = Phase PROVE UNCHANGED Abstract!vars
  <2>1. Found' = Found
    BY <1>7, <1>4
  <2> QED BY <2>1, <1>3, <1>7 DEF Abstract!vars
<1>8. ASSUME NEW e \in Entry, e \in Found, NotFound \in Succ[e],
             Phase = "grow", pc' = "exit", table' = table
      PROVE  Abstract!Next
  <2>1. Phase' = "aborted" /\ Found' = Found
    BY <1>8, <1>4 DEF Phase
  <2>2. Abstract!Abort
    BY <2>1, <1>3, <1>8 DEF Abstract!Abort
  <2> QED BY <2>2 DEF Abstract!Next
<1>9. CASE Preload
  <2>1. pc = "preload" /\ pc' = "pass" /\ table = <<Exe, LdSo>> /\ table' = RootsOf(sys)
    BY <1>9 DEF Preload, OrderInv, Rooted, RootsOf
  <2>2. Phase' = Phase
    BY <2>1 DEF Phase
  <2>3. Found' = In(RootsOf(sys))
    BY <2>1, <1>4 DEF FoundOf
  <2>4. In(table) \subseteq In(RootsOf(sys))
    <3>1. /\ RootsOf(sys)[1] = Exe /\ RootsOf(sys)[2] = LdSo
          /\ DOMAIN RootsOf(sys) = 1 .. Len(RootsOf(sys)) /\ Len(RootsOf(sys)) >= 2
          /\ Len(RootsOf(sys)) \in Nat
      BY <1>2, RootsType, LenProperties
    <3>2. 1 \in DOMAIN RootsOf(sys) /\ 2 \in DOMAIN RootsOf(sys)
      BY <3>1
    <3>3. In(table) = {Exe, LdSo}
      BY <2>1 DEF In
    <3> QED BY <3>1, <3>2, <3>3 DEF In
  <2>5. Found = In(RootsOf(sys))
    BY <2>4, <1>4 DEF FoundOf
  <2> QED BY <2>2, <2>3, <2>5, <1>3 DEF Abstract!vars
<1>10. CASE StartPass
  <2>1. table' = table /\ Phase' = Phase
    BY <1>10 DEF StartPass, Phase
  <2> QED BY <2>1, <1>7
<1>11. CASE OpenEntry
  <2>1. /\ pc = "open" /\ table' = table /\ i \in 1 .. Len(table) /\ Phase = "grow"
    BY <1>11, <1>1 DEF OpenEntry, Bound, Phase, TypeInv, TypeOK
  <2>2. CASE table[i] \in sys.exists
    <3>1. Phase' = Phase
      BY <1>11, <2>2 DEF OpenEntry, Phase
    <3> QED BY <3>1, <2>1, <1>7
  <2>3. CASE table[i] \notin sys.exists
    <3>1. table[i] \in Entry
      BY <2>1 DEF OrderInv, VdsoEnds
    <3>2. table[i] \in Found
      BY <2>1, <3>1, <1>2, <1>4, <1>5, NameAssumption DEF In
    <3>3. NotFound \in Succ[table[i]]
      BY <2>3, <3>1, SuccIs
    <3>4. pc' = "exit"
      BY <1>11, <2>3 DEF OpenEntry
    <3> QED BY <3>1, <3>2, <3>3, <3>4, <2>1, <1>8
  <2> QED BY <2>2, <2>3
<1>12. CASE ResolveNeeded
  <2> DEFINE name == Target(sys, table[i], k)
  <2>1. /\ pc = "scan" /\ i \in 1 .. Len(table) /\ table[i] \in Entry
        /\ name \in Targets(sys, table[i])
        /\ \/ name = NotFound /\ pc' = "exit" /\ table' = table
           \/ name # NotFound /\ pc' = "scan" /\ table' = table
           \/ /\ name # NotFound /\ pc' = "scan" /\ name \in Entry /\ name \notin Entries
              /\ table' = Append(table, name)
    BY <1>1, <1>12, ResolveFacts
  <2>2. Phase = "grow" /\ table[i] \in sys.exists /\ table[i] \in Found
    <3>1. table[i] \in In(table) /\ table[i] # Vdso
      BY <2>1, <1>2, NameAssumption DEF In
    <3> QED BY <3>1, <2>1, <1>4, <1>5 DEF Phase, OrderInv, Opened
  <2>3. name \in Succ[table[i]]
    BY <2>1, <2>2, SuccIs
  <2> HIDE DEF name
  <2>4. CASE name = NotFound /\ pc' = "exit" /\ table' = table
    BY <2>1, <2>2, <2>3, <2>4, <1>8
  <2>5. CASE pc' = "scan" /\ table' = table
    <3>1. Phase' = Phase
      BY <2>1, <2>5 DEF Phase
    <3> QED BY <3>1, <2>5, <1>7
  <2>6. CASE /\ name # NotFound /\ pc' = "scan" /\ name \in Entry /\ name \notin Entries
             /\ table' = Append(table, name)
    <3>1. In(table') = In(table) \union {name}
      <4>1. /\ Len(table') = Len(table) + 1 /\ table'[Len(table) + 1] = name
            /\ \A m \in 1 .. Len(table) : table'[m] = table[m]
        BY <2>6, <1>1, AppendProperties DEF TypeInv, TypeOK
      <4>2. \A m \in 1 .. Len(table') : m \in 1 .. Len(table) \/ m = Len(table) + 1
        BY <4>1, <1>2
      <4>3. \A m \in 1 .. Len(table) : m \in 1 .. Len(table')
        BY <4>1, <1>2
      <4>4. Len(table) + 1 \in 1 .. Len(table')
        BY <4>1, <1>2
      <4> QED BY <4>1, <4>2, <4>3, <4>4, <1>2 DEF In
    <3>2. Found = In(table) \ {Vdso} /\ Found' = In(table') \ {Vdso}
      BY <2>1, <2>6, <1>4, <1>5, <1>6
    <3>3. Found' = Found \union {name}
      BY <3>1, <3>2, <2>6, NameAssumption
    <3>4. name \notin Found
      BY <3>2, <2>6 DEF Entries, In
    <3>5. Phase' = Phase
      BY <2>1, <2>6 DEF Phase
    <3>6. Abstract!Discover
      BY <3>3, <3>4, <3>5, <2>2, <2>3, <2>6, <1>3 DEF Abstract!Discover
    <3> QED BY <3>6 DEF Abstract!Next
  <2> QED BY <2>1, <2>4, <2>5, <2>6
<1>13. CASE EndEntry
  <2>1. table' = table /\ Phase' = Phase
    BY <1>13 DEF EndEntry, Phase
  <2> QED BY <2>1, <1>7
<1>14. CASE Repeat
  <2>1. table' = table /\ Phase' = Phase
    BY <1>14 DEF Repeat, Phase
  <2> QED BY <2>1, <1>7
<1>15. CASE Finish
  <2>1. /\ pc = "open" /\ pc' = "done" /\ i > Len(table) /\ i \in Nat
        /\ table' = table \/ table' = Append(table, Vdso)
    BY <1>15, <1>1 DEF Finish, Bound, TypeInv, TypeOK
  <2>2. Phase = "grow" /\ Phase' = "closed"
    BY <2>1 DEF Phase
  <2>3. In(table') \ {Vdso} = In(table) \ {Vdso}
    <3>1. CASE table' = table
      BY <3>1
    <3>2. CASE table' = Append(table, Vdso)
      <4>1. /\ Len(table') = Len(table) + 1 /\ table'[Len(table) + 1] = Vdso
            /\ \A m \in 1 .. Len(table) : table'[m] = table[m]
        BY <3>2, <1>1, AppendProperties DEF TypeInv, TypeOK
      <4>2. \A m \in 1 .. Len(table') : m \in 1 .. Len(table) \/ m = Len(table) + 1
        BY <4>1, <1>2
      <4>3. \A m \in 1 .. Len(table) : m \in 1 .. Len(table')
        BY <4>1, <1>2
      <4> QED BY <4>1, <4>2, <4>3, <1>2 DEF In
    <3> QED BY <3>1, <3>2, <2>1
  <2>4. Found' = Found /\ Found = In(table) \ {Vdso}
    BY <2>1, <2>3, <1>4, <1>5, <1>6
  <2>5. ASSUME NEW o \in Found PROVE Succ[o] \subseteq Found
    <3>1. PICK j \in 1 .. Len(table) : o = table[j]
      BY <2>4, <1>2 DEF In
    <3>2. j < i /\ j \in 1 .. (i - 1)
      <4>1. i \in Nat /\ i > Len(table)
        BY <2>1
      <4>2. \A L \in Nat : \A m \in 1 .. L : i > L => m < i /\ m \in 1 .. (i - 1)
        BY <4>1
      <4> QED BY <4>1, <4>2, <1>2
    <3>3. VdsoEnds(table, pc) /\ Opened(sys, table, pc, i) /\ ReadSoFar
      BY <1>1 DEF OrderInv, ClosureInv
    <3>4. o \in Entry /\ o \in sys.exists
      BY <3>1, <3>2, <3>3, <2>1 DEF VdsoEnds, Opened
    <3>5. Closed(sys, table, o)
      BY <3>1, <3>2, <3>3, <2>1 DEF ReadSoFar
    <3>6. Targets(sys, o) \subseteq In(table)
      BY <3>5 DEF Closed, Targets
    <3>7. Vdso \notin Targets(sys, o)
      <4>1. ASSUME NEW m \in DOMAIN sys.needed[o] PROVE Target(sys, o, m) # Vdso
        <5>1. Target(sys, o, m) \in In(table)
          BY <3>5 DEF Closed
        <5>2. \A e \in In(table) : e \in Entry
          BY <2>1, <1>2 DEF OrderInv, VdsoEnds, In
        <5> QED BY <5>1, <5>2, NameAssumption
      <4> QED BY <4>1 DEF Targets
    <3> QED BY <3>4, <3>6, <3>7, <2>4, SuccIs
  <2>6. Abstract!Finish
    BY <2>2, <2>4, <2>5, <1>3 DEF Abstract!Finish
  <2> QED BY <2>6 DEF Abstract!Next
<1>16. CASE UNCHANGED vars
  <2>1. table' = table /\ Phase' = Phase
    BY <1>16 DEF vars, Phase
  <2> QED BY <2>1, <1>7
<1> QED
  BY <1>9, <1>10, <1>11, <1>12, <1>13, <1>14, <1>15, <1>16 DEF Next

(* build_dependency_table() only ever adds what an object of the table       *)
(* needs, ends when nothing is left to add, and exits only when something is *)
(* missing: the safety half of ImplementsClosure.                            *)
THEOREM SearchComputesClosure ==
  Spec => Abstract!Init /\ [][Abstract!Next]_(Abstract!vars)
<1> QED BY InitImplements, StepImplements, OrderInvariant, PTL DEF Spec

===============================================================================

------------------------------ MODULE Dependency ------------------------------
(***************************************************************************)
(* ldso/dependency.c: the table of the objects a program is made of.       *)
(*                                                                         *)
(* build_dependency_table() starts from the executable, ld.so and the      *)
(* LD_PRELOAD list, and calls fill_dependency() until a call adds nothing. *)
(* fill_dependency() opens the entries in order and appends, unless it is  *)
(* there already, the absolute path of every DT_NEEDED name.  A file that  *)
(* cannot be opened or found ends the process with exit(1).                *)
(*                                                                         *)
(* Table entries are the strings the code compares with strcmp(): two      *)
(* names of one file are two entries.                                      *)
(***************************************************************************)
EXTENDS Naturals, Sequences, FiniteSets

CONSTANTS
  Name,      \* strings of DT_NEEDED and LD_PRELOAD
  Dir,       \* directories of a search path
  Entry,     \* strings that may be in the table
  Concat,    \* Concat[<<d, n>>]: what concatenate(d, n) returns
  Absolute,  \* the names that start with '/'
  Exe,       \* AT_EXECFN
  Systems,   \* the file systems and environments to consider
  NotFound,  \* no directory has the file
  MAX_DEP    \* slots of the table

LdSo == "ld.so"
Vdso == "linux-vdso.so.1"
DefaultDirs == <<"/lib/", "/usr/lib/">>

ASSUME NameAssumption ==
  /\ Name \subseteq Entry
  /\ Absolute \subseteq Name
  /\ Exe \in Entry
  /\ LdSo \in Name
  /\ Vdso \notin Entry
  /\ NotFound \notin Entry
  /\ Concat \in [Dir \X Name -> Entry]
  /\ {"/lib/", "/usr/lib/"} \subseteq Dir

(* The strings a process can hold are finitely many.                       *)
ASSUME SizeAssumption == IsFiniteSet(Entry) /\ MAX_DEP \in Nat

System == [exists  : SUBSET Entry,        \* the files open() can open
           needed  : [Entry -> Seq(Name)], \* the DT_NEEDED of a file
           rpath   : [Entry -> Seq(Dir)],  \* its DT_RPATH directories
           runpath : [Entry -> Seq(Dir)],  \* its DT_RUNPATH directories
           libpath : Seq(Dir),             \* LD_LIBRARY_PATH
           preload : Seq(Name),            \* LD_PRELOAD
           vdso    : BOOLEAN]              \* AT_SYSINFO_EHDR is given

ASSUME SystemsAssumption == Systems \subseteq System

VARIABLES
  sys,    \* the files, their dynamic sections, the environment; read only
  table,  \* res[0 .. nb_dep - 1]
  pc,     \* where the search is
  cpy,    \* nb_dep when the current call of fill_dependency() began
  i,      \* the entry being read
  k       \* its next DT_NEEDED

vars == <<sys, table, pc, cpy, i, k>>

-----------------------------------------------------------------------------

(* The directories get_lib_absolute_path() tries after the current one; s is *)
(* always sys.                                                             *)
SearchPath(s, binary) ==
  s.rpath[binary] \o s.libpath \o s.runpath[binary] \o DefaultDirs

Hits(s, name, binary) ==
  LET path == SearchPath(s, binary)
  IN  {d \in DOMAIN path : Concat[<<path[d], name>>] \in s.exists}

(* The first directory of the path that has the file.  *)
InPath(s, name, binary) ==
  LET hits == Hits(s, name, binary)
      first == CHOOSE d \in hits : \A e \in hits : d <= e
  IN  IF hits = {} THEN NotFound ELSE Concat[<<SearchPath(s, binary)[first], name>>]

(* Mutant: the current directory is not tried.  *)
LibPath_NoCwd(s, name, binary) == InPath(s, name, binary)

(* get_lib_absolute_path(name, binary): the first place at which test() can  *)
(* open the file; NotFound where the code exits.                           *)
LibPath(s, name, binary) ==
  IF name \in Absolute \union s.exists THEN name ELSE InPath(s, name, binary)

Entries == {table[j] : j \in DOMAIN table}

(* Mutant: only the entries already read are compared.  *)
IsIn_Read(name) == name \in {table[j] : j \in 1 .. i}

(* is_in(res, name, nb_dep)  *)
IsIn(name) == name \in Entries

(* Mutant: a dependency is put right after the object that needs it.  *)
Added_DepthFirst(name) ==
  IF IsIn(name) THEN table
  ELSE SubSeq(table, 1, i) \o <<name>> \o SubSeq(table, i + 1, Len(table))

(* The table once fill_dependency() has handled a resolved name.  *)
Added(name) == IF IsIn(name) THEN table ELSE Append(table, name)

(* The bound of the loop of fill_dependency(): *nb_dep, read every time.  *)
Bound == Len(table)

(* Mutant: the result of the last test() is not checked.  *)
Unresolved_Unchecked(name) == FALSE

(* get_lib_absolute_path() found nothing: it calls _exit(1).  *)
Unresolved(name) == name = NotFound

Init ==
  /\ sys \in Systems
  /\ table = <<Exe, LdSo>>
  /\ pc = "preload"
  /\ cpy = 0
  /\ i = 1
  /\ k = 1

(* The LD_PRELOAD tokens enter the table as they are.  *)
Preload ==
  /\ pc = "preload"
  /\ table' = table \o sys.preload
  /\ pc' = "pass"
  /\ UNCHANGED <<sys, cpy, i, k>>

(* The do/while of build_dependency_table() calls fill_dependency().  *)
StartPass ==
  /\ pc = "pass"
  /\ cpy' = Len(table)
  /\ i' = 1
  /\ pc' = "open"
  /\ UNCHANGED <<sys, table, k>>

(* Mutant: the first DT_NEEDED is skipped.  *)
OpenEntry_SkipFirst ==
  /\ pc = "open"
  /\ i <= Bound
  /\ pc' = IF table[i] \in sys.exists THEN "scan" ELSE "exit"
  /\ k' = 2
  /\ UNCHANGED <<sys, table, cpy, i>>

(* Mutant: an entry that cannot be opened is passed over.  *)
OpenEntry_PassOver ==
  /\ pc = "open"
  /\ i <= Bound
  /\ IF table[i] \in sys.exists
     THEN pc' = "scan" /\ UNCHANGED i
     ELSE i' = i + 1 /\ UNCHANGED pc
  /\ k' = 1
  /\ UNCHANGED <<sys, table, cpy>>

(* fill_dependency() reads the header of the next entry; xopen() exits.  *)
OpenEntry ==
  /\ pc = "open"
  /\ i <= Bound
  /\ pc' = IF table[i] \in sys.exists THEN "scan" ELSE "exit"
  /\ k' = 1
  /\ UNCHANGED <<sys, table, cpy, i>>

(* One DT_NEEDED of the entry: found, and appended unless it is known.  *)
ResolveNeeded ==
  /\ pc = "scan"
  /\ k <= Len(sys.needed[table[i]])
  /\ LET name == LibPath(sys, sys.needed[table[i]][k], table[i]) IN
       \/ Unresolved(name) /\ pc' = "exit" /\ UNCHANGED <<table, k>>
       \/ ~Unresolved(name) /\ table' = Added(name) /\ k' = k + 1 /\ UNCHANGED pc
  /\ UNCHANGED <<sys, cpy, i>>

(* DT_NULL: the next entry.  *)
EndEntry ==
  /\ pc = "scan"
  /\ k > Len(sys.needed[table[i]])
  /\ i' = i + 1
  /\ pc' = "open"
  /\ UNCHANGED <<sys, table, cpy, k>>

(* fill_dependency() returns: it is called again if it added something.  *)
Repeat ==
  /\ pc = "open"
  /\ i > Bound
  /\ cpy # Len(table)
  /\ pc' = "pass"
  /\ UNCHANGED <<sys, table, cpy, i, k>>

(* Nothing was added: the vdso, if there is one, ends the table.  *)
Finish ==
  /\ pc = "open"
  /\ i > Bound
  /\ cpy = Len(table)
  /\ pc' = "done"
  /\ table' = IF sys.vdso THEN Append(table, Vdso) ELSE table
  /\ UNCHANGED <<sys, cpy, i, k>>

Next ==
  \/ Preload
  \/ StartPass
  \/ OpenEntry
  \/ ResolveNeeded
  \/ EndEntry
  \/ Repeat
  \/ Finish

(* ld.so is one thread that nothing blocks: it keeps taking steps.  *)
Spec == Init /\ [][Next]_vars /\ WF_vars(Next)

-----------------------------------------------------------------------------

TypeOK ==
  /\ sys \in System
  /\ table \in Seq(Entry \union {Vdso})
  /\ pc \in {"preload", "pass", "open", "scan", "done", "exit"}
  /\ cpy \in Nat
  /\ i \in Nat \ {0}
  /\ k \in Nat \ {0}

Roots == <<Exe, LdSo>> \o sys.preload

(* The entries whose DT_NEEDED contains something that resolves to name.  *)
Needers(name) ==
  {j \in DOMAIN table :
     /\ table[j] # Vdso
     /\ \E m \in DOMAIN sys.needed[table[j]] :
          LibPath(sys, sys.needed[table[j]][m], table[j]) = name}

FirstNeeder(name) ==
  CHOOSE j \in Needers(name) : \A m \in Needers(name) : j <= m

(* When the table is finished, every library that an object of the table   *)
(* needs is in the table too: no symbol is missing because a library of a   *)
(* cycle, or one found late, was skipped.                                   *)
ClosedWhenDone ==
  pc = "done" =>
    \A j \in DOMAIN table : table[j] # Vdso =>
      \A m \in DOMAIN sys.needed[table[j]] :
        LibPath(sys, sys.needed[table[j]][m], table[j]) \in Entries

(* The objects after the roots come in breadth-first order, the order in    *)
(* which symbols are looked up: each one is needed by an object before it,  *)
(* and one found through an earlier object precedes one found through a     *)
(* later object.                                                            *)
BreadthFirst ==
  \A j \in (Len(Roots) + 1) .. Len(table) : table[j] # Vdso =>
    /\ Needers(table[j]) # {}
    /\ FirstNeeder(table[j]) < j
    /\ \A m \in (Len(Roots) + 1) .. (j - 1) :
         FirstNeeder(table[m]) <= FirstNeeder(table[j])

(* The strings a resolution can return in this system.  *)
Resolvable ==
  {LibPath(sys, name, binary) : name \in Name, binary \in Entry} \ {NotFound}

(* The code never checks nb_dep against MAX_DEP.  The table, the vdso and   *)
(* the final NULL still fit when the roots and all the paths the system can *)
(* resolve do: cycles and diamonds of dependencies cost no further slot.    *)
TableFits ==
  \/ Len(table) + 1 <= MAX_DEP
  \/ Len(Roots) + Cardinality(Resolvable) + 2 > MAX_DEP

(* The paths under which a search for "ld.so" can find a copy of it.       *)
Copies == {LdSo} \union {Concat[<<d, LdSo>>] : d \in Dir}

(* Neither LD_PRELOAD nor an object of the table names such a path in another *)
(* way than by "ld.so".                                                    *)
NoAlias ==
  /\ Exe \notin Copies
  /\ \A m \in DOMAIN sys.preload : sys.preload[m] \notin Copies
  /\ \A j \in DOMAIN table : table[j] # Vdso =>
       \A m \in DOMAIN sys.needed[table[j]] :
         LET name == sys.needed[table[j]][m] IN
         name # LdSo => /\ name \notin Copies
                        /\ \A d \in Dir : Concat[<<d, name>>] \notin Copies

(* ld.so, linked with every program, is not loaded a second time under the  *)
(* path of a directory that has a copy: a search that could return such a   *)
(* path ends with exit(1), because "ld.so" itself is opened too.            *)
InterpreterOnce ==
  pc = "done" /\ NoAlias => \A j \in DOMAIN table : table[j] \in Copies => j = 2

(* What the abstract specification sees of a state.                        *)
Succ ==
  [e \in Entry |->
     IF e \notin sys.exists THEN {NotFound}
     ELSE {LibPath(sys, sys.needed[e][m], e) : m \in DOMAIN sys.needed[e]}]

Found == (Entries \ {Vdso}) \union {Roots[j] : j \in DOMAIN Roots}

Phase ==
  CASE pc = "done" -> "closed"
    [] pc = "exit" -> "aborted"
    [] OTHER       -> "grow"

(* The search is one way to compute the closure of the roots.  *)
Abstract == INSTANCE Closure WITH
  Object <- Entry, Missing <- NotFound, succ <- Succ, found <- Found, phase <- Phase

ImplementsClosure == Abstract!Spec

=============================================================================

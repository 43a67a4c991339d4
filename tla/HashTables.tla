------------------------------ MODULE HashTables ------------------------------
(***************************************************************************)
(* The search of one object for a symbol, by gnu_hash_lookup() and         *)
(* hash_lookup() of ldso/symbol_resolution.c, over the tables that linkers *)
(* write.  SymbolResolution gives the outcome in one operator, Probe.      *)
(***************************************************************************)
EXTENDS SymbolResolution, FiniteSetsExt

CONSTANTS
  ARCH,       \* bits of a word of the bloom filter: 64 in the code
  GnuHash,    \* gnu_hash() of each name
  GabiHash,   \* the hash that linkers put names in the buckets of DT_HASH by
  Files       \* the files to search

File == [opens   : BOOLEAN,          \* whether there is a file: not for the vdso
         zero    : BOOLEAN,          \* l_addr is 0
         gnu     : BOOLEAN,          \* it has DT_GNU_HASH
         sysv    : BOOLEAN,          \* it has DT_HASH
         undefs  : Seq(Symbol),      \* .dynsym behind symbol 0: first the undefined
         defs    : Seq(Symbol),      \* and then the defined symbols
         nbucket : Nat \ {0},        \* of DT_GNU_HASH
         words   : Nat \ {0},
         shift   : Nat,
         chains  : Nat \ {0}]        \* buckets of DT_HASH

ASSUME ArchAssumption == ARCH \in Nat \ {0}
ASSUME HashAssumption == GnuHash \in [Symbol -> Nat] /\ GabiHash \in [Symbol -> Nat]
ASSUME FilesAssumption == Files \subseteq File

VARIABLES
  file, name,  \* the arguments; read only
  pc,          \* "gnu", "bucket", "compare", "sysv", "walk" or "done"
  n,           \* the symbol that is compared: index in .dynsym
  v,           \* what hashval points to: index in hashvals
  outcome      \* "none", "hit", "trap" or "exit"

vars == <<file, name, pc, n, v, outcome>>

-----------------------------------------------------------------------------
(* The tables of a file.  *)

DynSym(f) == f.undefs \o f.defs

Size(f) == Len(DynSym(f)) + 1

SymNdx(f) == Len(f.undefs) + 1

Defined(f) == SymNdx(f) .. Size(f) - 1

HashOf(f, i) == GnuHash[DynSym(f)[i]]

BucketOf(f, i) == HashOf(f, i) % f.nbucket

(* The linker sorts the defined symbols by bucket.  *)
Sorted(f) == \A i, j \in Defined(f) : i < j => BucketOf(f, i) <= BucketOf(f, j)

InBucket(f, b) == {i \in Defined(f) : BucketOf(f, i) = b}

Bucket(f, b) == IF InBucket(f, b) = {} THEN 0 ELSE Min(InBucket(f, b))

(* A chain ends with a value whose lowest bit is set.  *)
HashVal(f, i) ==
  LET k   == i + SymNdx(f)
      end == k = Max(InBucket(f, BucketOf(f, k)))
  IN  2 * (HashOf(f, k) \div 2) + IF end THEN 1 ELSE 0

Bits(f, hash) == {hash % ARCH, (hash \div 2^f.shift) % ARCH}

Word(f, w) ==
  UNION {Bits(f, HashOf(f, i)) : i \in {j \in Defined(f) : (HashOf(f, j) \div ARCH) % f.words = w}}

(* DT_HASH: the last symbol of a bucket first, 0 behind the first.  *)
InChain(f, c) == {i \in 1 .. Size(f) - 1 : GabiHash[DynSym(f)[i]] % f.chains = c}

Last0(S) == IF S = {} THEN 0 ELSE Max(S)

Chain(f, i) == Last0({j \in InChain(f, GabiHash[DynSym(f)[i]] % f.chains) : j < i})

-----------------------------------------------------------------------------
(* The search.  *)

Init ==
  /\ file \in Files
  /\ name \in Symbol \ {""}
  /\ pc = "gnu"
  /\ n = 0
  /\ v = 0
  /\ outcome = "none"

End(res) ==
  /\ pc' = "done"
  /\ outcome' = res

(* The bloom filter: false if no symbol of the file has the hash.  *)
MayHave(f, h) == Bits(f, h) \subseteq Word(f, (h \div ARCH) % f.words)

(* The table and its bloom filter.  The test for a missing table works at    *)
(* l_addr 0 only.                                                            *)
Filter ==
  /\ pc = "gnu"
  /\ \/ /\ ~file.opens
        /\ End("exit")
     \/ /\ file.opens /\ ~file.gnu /\ ~file.zero
        /\ End("trap")
     \/ /\ file.opens
        /\ \/ ~file.gnu /\ file.zero
           \/ file.gnu /\ ~MayHave(file, GnuHash[name])
        /\ pc' = "sysv"
        /\ UNCHANGED outcome
     \/ /\ file.opens /\ file.gnu /\ MayHave(file, GnuHash[name])
        /\ pc' = "bucket"
        /\ UNCHANGED outcome
  /\ UNCHANGED <<file, name, n, v>>

(* The search starts at the first symbol of the bucket, if there is one.  *)
FirstOfBucket(first) ==
  IF first = 0
  THEN /\ pc' = "sysv"
       /\ UNCHANGED <<n, v>>
  ELSE /\ pc' = "compare"
       /\ n' = first
       /\ v' = first - SymNdx(file)

FindBucket ==
  /\ pc = "bucket"
  /\ FirstOfBucket(Bucket(file, GnuHash[name] % file.nbucket))
  /\ UNCHANGED <<file, name, outcome>>

(* Mutant: the lowest bit of the value is kept.  *)
Matches_LowBit(f, s, k, i) ==
  2 * (GnuHash[s] \div 2) = HashVal(f, i) /\ DynSym(f)[k] = s

(* The lowest bit of a hash does not count.  *)
Matches(f, s, k, i) ==
  GnuHash[s] \div 2 = HashVal(f, i) \div 2 /\ DynSym(f)[k] = s

(* Mutant: "continue" at the end of a chain, in a loop that does not count.  *)
Advance_Stuck ==
  IF HashVal(file, v) % 2 = 1 THEN UNCHANGED <<pc, n, v>>
  ELSE /\ pc' = IF n + 1 < Size(file) THEN "compare" ELSE "sysv"
       /\ n' = n + 1
       /\ v' = v + 1

(* Mutant: the loop runs to the size of the table and not below.  *)
Advance_OneMore ==
  /\ pc' = IF n + 1 <= Size(file) THEN "compare" ELSE "sysv"
  /\ n' = n + 1
  /\ v' = v + 1

(* The end of a chain does not end the loop, that of .dynsym does.  *)
Advance ==
  /\ pc' = IF n + 1 < Size(file) THEN "compare" ELSE "sysv"
  /\ n' = n + 1
  /\ v' = v + 1

Compare ==
  /\ pc = "compare"
  /\ IF Matches(file, name, n, v)
     THEN End("hit") /\ UNCHANGED <<n, v>>
     ELSE Advance /\ UNCHANGED outcome
  /\ UNCHANGED <<file, name>>

(* The bucket of DT_HASH that hash_lookup() looks in: see ElfHash.  *)
BucketZero == 0

Visit(i) ==
  IF i # 0 /\ i < Size(file)
  THEN pc' = "walk" /\ n' = i /\ UNCHANGED outcome
  ELSE End("none") /\ UNCHANGED n

SysvBucket ==
  /\ pc = "sysv"
  /\ IF file.sysv THEN Visit(Last0(InChain(file, BucketZero)))
                  ELSE End("none") /\ UNCHANGED n
  /\ UNCHANGED <<file, name, v>>

(* An undefined symbol is found too; its value is 0, and link_map_lookup()   *)
(* takes 0 + l_addr for an address unless it is 0.                           *)
SysvWalk ==
  /\ pc = "walk"
  /\ IF DynSym(file)[n] = name
     THEN /\ End(IF n \in Defined(file) \/ ~file.zero THEN "hit" ELSE "none")
          /\ UNCHANGED n
     ELSE Visit(Chain(file, n))
  /\ UNCHANGED <<file, name, v>>

Next == Filter \/ FindBucket \/ Compare \/ SysvBucket \/ SysvWalk

Spec == Init /\ [][Next]_vars /\ WF_vars(Next)

-----------------------------------------------------------------------------

(* Every symbol and every hash value that is read is in its table, and they   *)
(* belong together, although they are reached by two pointers and the search *)
(* runs on behind the end of its chain.                                      *)
ReadsInTable ==
  /\ pc = "compare" => n \in Defined(file) /\ n = v + SymNdx(file)
  /\ pc = "walk" => n \in 1 .. Size(file) - 1

(* What is found is the symbol, however many names share its hash.            *)
HitIsTheSymbol == outcome = "hit" => DynSym(file)[n] = name

(* What SymbolResolution knows of the file.  *)
Abstract(f) ==
  [opens   |-> f.opens,
   zero    |-> f.zero,
   gnu     |-> f.gnu,
   sysv    |-> f.sysv,
   defs    |-> {DynSym(f)[i] : i \in Defined(f)},
   bucket0 |-> {DynSym(f)[i] : i \in InChain(f, BucketZero)}]

(* Filter, buckets and chains together find a symbol exactly when the file    *)
(* has it, that is, as SymbolResolution says.                                *)
ImplementsProbe ==
  HitIsTheSymbol /\ (pc = "done" => outcome = Probe(Abstract(file), name))

(* Every search ends.                                                         *)
SearchEnds == <>(pc = "done")

=============================================================================

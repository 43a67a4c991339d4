--------------------------- MODULE HashTables_proofs ---------------------------
(***************************************************************************)
(* Proofs about HashTables: whatever the names hash to and however many    *)
(* buckets, words and symbols a file has, the search through its tables    *)
(* reads inside of them and comes to the outcome of SymbolResolution.      *)
(***************************************************************************)
EXTENDS HashTables, LeastElement, TLAPS

-----------------------------------------------------------------------------
(* The files.  *)

(* The symbols that make the abstract defs and bucket0.                      *)
HasDef(f, s) == \E k \in Defined(f) : DynSym(f)[k] = s

(* The indices of .dynsym are those of two sequences, one behind the other.  *)
LEMMA Indices ==
  ASSUME NEW f \in File
  PROVE  /\ DynSym(f) \in Seq(Symbol)
         /\ Size(f) \in Nat \ {0}
         /\ SymNdx(f) \in Nat \ {0}
         /\ SymNdx(f) <= Size(f)
         /\ Defined(f) \subseteq 1 .. Size(f) - 1
         /\ \A k \in 1 .. Size(f) - 1 : DynSym(f)[k] \in Symbol
<1> DEFINE u == Len(f.undefs)
           d == Len(f.defs)
<1>1. f.undefs \in Seq(Symbol) /\ f.defs \in Seq(Symbol)
  BY DEF File
<1>2. DynSym(f) \in Seq(Symbol) /\ Len(DynSym(f)) = u + d
  BY <1>1 DEF DynSym
<1>3. u \in Nat /\ d \in Nat
  BY <1>1
<1>4. Size(f) = u + d + 1 /\ SymNdx(f) = u + 1
  BY <1>2 DEF Size, SymNdx
<1> HIDE DEF u, d
<1>5. Size(f) - 1 = u + d
  BY <1>3, <1>4
<1>6. ASSUME NEW k \in 1 .. Size(f) - 1 PROVE DynSym(f)[k] \in Symbol
  <2>1. k \in 1 .. Len(DynSym(f))
    BY <1>2, <1>5
  <2> HIDE DEF DynSym
  <2> QED BY <2>1, <1>2
<1>7. Defined(f) \subseteq 1 .. Size(f) - 1
  BY <1>3, <1>4, <1>5 DEF Defined
<1> QED BY <1>2, <1>3, <1>4, <1>6, <1>7

(* The last index of a set of indices is in it; 0 stands for none.           *)
LEMMA LastIsIn ==
  ASSUME NEW N \in Nat, NEW S, S \subseteq 1 .. N
  PROVE  IF S = {} THEN Last0(S) = 0
         ELSE Last0(S) \in S /\ \A k \in S : k <= Last0(S)
<1>1. CASE S = {}
  BY <1>1 DEF Last0
<1>2. CASE S # {}
  <2>1. S \subseteq 0 .. N
    OBVIOUS
  <2>2. PICK d \in S : \A e \in S : e <= d
    BY <2>1, <1>2, GreatestExists
  <2>3. \A e \in S : d >= e
    BY <2>1, <2>2
  <2>4. Max(S) \in S /\ \A e \in S : Max(S) >= e
    BY <2>3 DEF Max
  <2>5. \A e \in S : e <= Max(S)
    BY <2>4, <2>1
  <2> QED BY <1>2, <2>4, <2>5 DEF Last0
<1> QED BY <1>1, <1>2

(* buckets[b] is the first symbol of the bucket.                             *)
LEMMA BucketIsFirst ==
  ASSUME NEW f \in File, NEW b
  PROVE  IF InBucket(f, b) = {} THEN Bucket(f, b) = 0
         ELSE Bucket(f, b) \in Defined(f) /\ \A k \in InBucket(f, b) : Bucket(f, b) <= k
<1>1. CASE InBucket(f, b) = {}
  BY <1>1 DEF Bucket
<1>2. CASE InBucket(f, b) # {}
  <2>1. InBucket(f, b) \subseteq Defined(f)
    BY DEF InBucket
  <2>2. InBucket(f, b) \subseteq Nat
    BY <2>1, Indices
  <2>3. PICK d \in InBucket(f, b) : \A e \in InBucket(f, b) : d <= e
    BY <2>2, <1>2, SmallestExists
  <2>4. Min(InBucket(f, b)) \in InBucket(f, b) /\ \A e \in InBucket(f, b) : Min(InBucket(f, b)) <= e
    BY <2>3 DEF Min
  <2> QED BY <1>2, <2>1, <2>4 DEF Bucket
<1> QED BY <1>1, <1>2

(* The bloom filter does not reject a symbol that the file defines.          *)
LEMMA FilterPasses ==
  ASSUME NEW f \in File, NEW s, HasDef(f, s)
  PROVE  MayHave(f, GnuHash[s])
<1>1. PICK k \in Defined(f) : DynSym(f)[k] = s
  BY DEF HasDef
<1>2. HashOf(f, k) = GnuHash[s]
  BY <1>1 DEF HashOf
<1> QED BY <1>1, <1>2 DEF MayHave, Word

(* A defined symbol is in the bucket of its hash.                            *)
LEMMA InItsBucket ==
  ASSUME NEW f \in File, NEW s, NEW k \in Defined(f), DynSym(f)[k] = s
  PROVE  k \in InBucket(f, GnuHash[s] % f.nbucket)
BY DEF InBucket, BucketOf, HashOf

(* The value in the table differs from the hash in the lowest bit only.      *)
LEMMA ValueIsHash ==
  ASSUME NEW f \in File, NEW i \in Nat, i + SymNdx(f) \in Defined(f)
  PROVE  HashVal(f, i) \div 2 = GnuHash[DynSym(f)[i + SymNdx(f)]] \div 2
<1> DEFINE h == GnuHash[DynSym(f)[i + SymNdx(f)]]
           e == IF i + SymNdx(f) = Max(InBucket(f, BucketOf(f, i + SymNdx(f)))) THEN 1 ELSE 0
<1>1. h \in Nat
  BY Indices, HashAssumption
<1>2. HashVal(f, i) = 2 * (h \div 2) + e
  BY DEF HashVal, HashOf
<1>3. e \in {0, 1}
  OBVIOUS
<1> HIDE DEF h, e
<1>4. h \div 2 \in Nat
  BY <1>1
<1>5. (2 * (h \div 2) + e) \div 2 = h \div 2
  BY <1>3, <1>4
<1> QED BY <1>2, <1>5 DEF h

-----------------------------------------------------------------------------
(* The search.  *)

(* Nothing before the symbol that is compared has the name, and the list of  *)
(* DT_HASH has it nowhere in front of where the walk is.                     *)
SearchInv ==
  /\ file \in File
  /\ name \in Symbol
  /\ pc \in {"gnu", "bucket", "compare", "sysv", "walk", "done"}
  /\ pc # "done" => outcome = "none"
  /\ pc \in {"bucket", "compare"} => file.opens /\ file.gnu
  /\ pc = "compare" =>
       /\ n \in Defined(file)
       /\ v \in Nat
       /\ n = v + SymNdx(file)
       /\ \A k \in Defined(file) : DynSym(file)[k] = name => n <= k
  /\ pc \in {"sysv", "walk"} =>
       /\ file.opens
       /\ IF file.gnu THEN ~HasDef(file, name) ELSE file.zero
  /\ pc = "walk" =>
       /\ file.sysv
       /\ n \in InChain(file, BucketZero)
       /\ \A k \in InChain(file, BucketZero) : DynSym(file)[k] = name => k <= n
  /\ pc = "done" => outcome = Probe(Abstract(file), name)
  /\ HitIsTheSymbol

(* What Probe says of the abstract file, in terms of the tables.             *)
LEMMA ProbeOf ==
  ASSUME NEW f \in File, NEW s
  PROVE  /\ ~f.opens => Probe(Abstract(f), s) = "exit"
         /\ f.opens /\ ~f.gnu /\ ~f.zero => Probe(Abstract(f), s) = "trap"
         /\ f.opens /\ f.gnu /\ HasDef(f, s) => Probe(Abstract(f), s) = "hit"
         /\ f.opens /\ (IF f.gnu THEN ~HasDef(f, s) ELSE f.zero) =>
              Probe(Abstract(f), s) =
                IF /\ f.sysv
                   /\ \E k \in InChain(f, BucketZero) : DynSym(f)[k] = s
                   /\ HasDef(f, s) \/ ~f.zero
                THEN "hit" ELSE "none"
<1> DEFINE a == Abstract(f)
<1>1. /\ a.opens = f.opens /\ a.zero = f.zero /\ a.gnu = f.gnu /\ a.sysv = f.sysv
      /\ (s \in a.defs) <=> HasDef(f, s)
      /\ (s \in a.bucket0) <=> \E k \in InChain(f, BucketZero) : DynSym(f)[k] = s
  BY DEF Abstract, HasDef
<1> HIDE DEF a
<1>2. Probe(a, s) = IF GnuHashLookup(a, s) # "none" THEN GnuHashLookup(a, s) ELSE HashLookup(a, s)
  BY DEF Probe
<1>3. GnuHashLookup(a, s) =
        IF ~f.opens THEN "exit"
        ELSE IF ~f.gnu THEN IF f.zero THEN "none" ELSE "trap"
        ELSE IF HasDef(f, s) THEN "hit" ELSE "none"
  BY <1>1 DEF GnuHashLookup
<1>4. HashLookup(a, s) =
        IF /\ f.sysv
           /\ \E k \in InChain(f, BucketZero) : DynSym(f)[k] = s
           /\ HasDef(f, s) \/ ~f.zero
        THEN "hit" ELSE "none"
  BY <1>1 DEF HashLookup
<1>5. f.opens \in BOOLEAN /\ f.gnu \in BOOLEAN /\ f.zero \in BOOLEAN
  BY DEF File
<1> QED BY <1>2, <1>3, <1>4, <1>5 DEF a

LEMMA InitSearch == Init => SearchInv
BY FilesAssumption DEF Init, SearchInv, HitIsTheSymbol

(* The filter only rejects names that the file does not define.              *)
LEMMA FilterKeeps ==
  ASSUME SearchInv, Filter
  PROVE  SearchInv'
<1> USE DEF SearchInv, Filter, HitIsTheSymbol
<1>1. file' = file /\ name' = name /\ n' = n /\ v' = v /\ file \in File
  OBVIOUS
<1>2. file.opens \in BOOLEAN /\ file.gnu \in BOOLEAN /\ file.zero \in BOOLEAN
  BY DEF File
<1>3. CASE ~file.opens /\ End("exit")
  BY <1>1, <1>3, ProbeOf DEF End
<1>4. CASE file.opens /\ ~file.gnu /\ ~file.zero /\ End("trap")
  BY <1>1, <1>4, ProbeOf DEF End
<1>5. CASE /\ file.opens
           /\ \/ ~file.gnu /\ file.zero
              \/ file.gnu /\ ~MayHave(file, GnuHash[name])
           /\ pc' = "sysv"
           /\ UNCHANGED outcome
  BY <1>1, <1>2, <1>5, FilterPasses
<1>6. CASE file.opens /\ file.gnu /\ pc' = "bucket" /\ UNCHANGED outcome
  BY <1>1, <1>6
<1> QED BY <1>3, <1>4, <1>5, <1>6

(* An empty bucket means that the name is not defined.                       *)
LEMMA BucketKeeps ==
  ASSUME SearchInv, FindBucket
  PROVE  SearchInv'
<1> DEFINE b == GnuHash[name] % file.nbucket
           first == Bucket(file, b)
<1>1. /\ file' = file /\ name' = name /\ outcome' = outcome
      /\ file \in File /\ file.opens /\ file.gnu /\ outcome = "none" /\ name \in Symbol
      /\ FirstOfBucket(first)
  BY DEF FindBucket, SearchInv
<1>2. \A k \in Defined(file) : DynSym(file)[k] = name => k \in InBucket(file, b)
  BY <1>1, InItsBucket
<1>3. IF InBucket(file, b) = {} THEN first = 0
      ELSE first \in Defined(file) /\ \A k \in InBucket(file, b) : first <= k
  BY <1>1, BucketIsFirst
<1> HIDE DEF b, first
<1>4. CASE first = 0
  <2>1. InBucket(file, b) = {}
    BY <1>1, <1>3, <1>4, Indices
  <2>2. ~HasDef(file, name)
    BY <2>1, <1>2 DEF HasDef
  <2> QED BY <1>1, <1>4, <2>2 DEF FirstOfBucket, SearchInv, HitIsTheSymbol
<1>5. CASE first # 0
  <2>1. /\ pc' = "compare" /\ n' = first /\ v' = first - SymNdx(file)
    BY <1>1, <1>5 DEF FirstOfBucket
  <2>2. first \in Defined(file) /\ \A k \in Defined(file) : DynSym(file)[k] = name => first <= k
    BY <1>2, <1>3, <1>5
  <2>3. v' \in Nat /\ n' = v' + SymNdx(file)
    BY <2>1, <2>2, <1>1, Indices DEF Defined
  <2> QED BY <1>1, <2>1, <2>2, <2>3 DEF SearchInv, HitIsTheSymbol
<1> QED BY <1>4, <1>5

(* A symbol that does not match is not the one: the search goes on behind it. *)
LEMMA CompareKeeps ==
  ASSUME SearchInv, Compare
  PROVE  SearchInv'
<1>1. /\ file' = file /\ name' = name
      /\ file \in File /\ file.opens /\ file.gnu /\ outcome = "none" /\ name \in Symbol
      /\ n \in Defined(file) /\ v \in Nat /\ n = v + SymNdx(file)
      /\ \A k \in Defined(file) : DynSym(file)[k] = name => n <= k
  BY DEF Compare, SearchInv
<1>2. SymNdx(file) \in Nat /\ Size(file) \in Nat
  BY <1>1, Indices
<1>3. n = v + SymNdx(file) /\ HashVal(file, v) \div 2 = GnuHash[DynSym(file)[n]] \div 2
  BY <1>1, <1>2, ValueIsHash
<1>4. CASE Matches(file, name, n, v)
  <2>1. DynSym(file)[n] = name
    BY <1>4 DEF Matches
  <2>2. HasDef(file, name)
    BY <2>1, <1>1 DEF HasDef
  <2>3. outcome' = "hit" /\ pc' = "done" /\ n' = n
    BY <1>4 DEF Compare, End
  <2> QED BY <1>1, <2>1, <2>2, <2>3, ProbeOf DEF SearchInv, HitIsTheSymbol
<1>5. CASE ~Matches(file, name, n, v)
  <2>1. DynSym(file)[n] # name
    BY <1>5, <1>3 DEF Matches
  <2>2. /\ pc' = IF n + 1 < Size(file) THEN "compare" ELSE "sysv"
        /\ n' = n + 1 /\ v' = v + 1 /\ outcome' = outcome
    BY <1>5 DEF Compare, Advance
  <2>3. \A k \in Defined(file) : DynSym(file)[k] = name => n + 1 <= k
    BY <2>1, <1>1, <1>2 DEF Defined
  <2>4. CASE n + 1 < Size(file)
    <3>1. n' \in Defined(file) /\ v' \in Nat /\ n' = v' + SymNdx(file)
      BY <2>2, <2>4, <1>1, <1>2 DEF Defined
    <3> QED BY <1>1, <2>2, <2>3, <2>4, <3>1 DEF SearchInv, HitIsTheSymbol
  <2>5. CASE ~(n + 1 < Size(file))
    <3>1. ~HasDef(file, name)
      BY <2>3, <2>5, <1>1, <1>2 DEF HasDef, Defined
    <3> QED BY <1>1, <2>2, <2>5, <3>1 DEF SearchInv, HitIsTheSymbol
  <2> QED BY <2>4, <2>5
<1> QED BY <1>4, <1>5

(* The part of SearchInv about hash_lookup(): the walk is at the last symbol  *)
(* of the bucket that may still have the name, or there is none.             *)
LEMMA VisitKeeps ==
  ASSUME SearchInv, pc \in {"sysv", "walk"},
         UNCHANGED <<file, name, v>>, file.sysv,
         NEW S, S \subseteq InChain(file, BucketZero),
         \A k \in InChain(file, BucketZero) : DynSym(file)[k] = name => k \in S,
         Visit(Last0(S))
  PROVE  SearchInv'
<1>1. /\ file' = file /\ name' = name
      /\ file \in File /\ file.opens /\ outcome = "none" /\ name \in Symbol
      /\ IF file.gnu THEN ~HasDef(file, name) ELSE file.zero
  BY DEF SearchInv
<1>2. Size(file) \in Nat \ {0} /\ S \subseteq 1 .. Size(file) - 1
  BY <1>1, Indices DEF InChain
<1>3. IF S = {} THEN Last0(S) = 0 ELSE Last0(S) \in S /\ \A k \in S : k <= Last0(S)
  <2>1. Size(file) - 1 \in Nat
    BY <1>2
  <2> QED BY <1>2, <2>1, LastIsIn
<1>4. CASE S = {}
  <2>1. pc' = "done" /\ outcome' = "none"
    BY <1>3, <1>4 DEF Visit, End
  <2>2. ~ \E k \in InChain(file, BucketZero) : DynSym(file)[k] = name
    BY <1>4
  <2>3. Probe(Abstract(file), name) = "none"
    BY <1>1, <2>2, ProbeOf
  <2> QED BY <1>1, <2>1, <2>3 DEF SearchInv, HitIsTheSymbol
<1>5. CASE S # {}
  <2>1. Last0(S) \in S /\ Last0(S) # 0 /\ Last0(S) < Size(file)
    <3> DEFINE l == Last0(S)
    <3>1. l \in S
      BY <1>3, <1>5
    <3>2. l \in 1 .. Size(file) - 1
      BY <3>1, <1>2
    <3> HIDE DEF l
    <3>3. l # 0 /\ l < Size(file)
      BY <3>2, <1>2
    <3> QED BY <3>1, <3>3 DEF l
  <2>2. pc' = "walk" /\ n' = Last0(S) /\ outcome' = outcome
    BY <2>1 DEF Visit
  <2>3. /\ n' \in InChain(file, BucketZero)
        /\ \A k \in InChain(file, BucketZero) : DynSym(file)[k] = name => k <= n'
    BY <2>1, <2>2, <1>3, <1>5
  <2> QED BY <1>1, <2>2, <2>3 DEF SearchInv, HitIsTheSymbol
<1> QED BY <1>4, <1>5

LEMMA SysvBucketKeeps ==
  ASSUME SearchInv, SysvBucket
  PROVE  SearchInv'
<1>1. CASE file.sysv
  <2>1. Visit(Last0(InChain(file, BucketZero)))
    BY <1>1 DEF SysvBucket
  <2>2. pc \in {"sysv", "walk"} /\ UNCHANGED <<file, name, v>>
    BY DEF SysvBucket
  <2> QED BY <1>1, <2>1, <2>2, VisitKeeps
<1>2. CASE ~file.sysv
  <2>1. /\ file' = file /\ name' = name /\ pc' = "done" /\ outcome' = "none"
        /\ file \in File /\ file.opens /\ name \in Symbol
        /\ IF file.gnu THEN ~HasDef(file, name) ELSE file.zero
    BY <1>2 DEF SysvBucket, SearchInv, End
  <2>2. Probe(Abstract(file), name) = "none"
    BY <2>1, <1>2, ProbeOf
  <2> QED BY <2>1, <2>2 DEF SearchInv, HitIsTheSymbol
<1> QED BY <1>1, <1>2

(* All symbols of one name are in one bucket, and the last one found first is *)
(* defined if any is.                                                        *)
LEMMA SysvWalkKeeps ==
  ASSUME SearchInv, SysvWalk
  PROVE  SearchInv'
<1>1. /\ file' = file /\ name' = name /\ pc = "walk" /\ UNCHANGED v
      /\ file \in File /\ file.opens /\ file.sysv /\ outcome = "none" /\ name \in Symbol
      /\ IF file.gnu THEN ~HasDef(file, name) ELSE file.zero
      /\ n \in InChain(file, BucketZero)
      /\ \A k \in InChain(file, BucketZero) : DynSym(file)[k] = name => k <= n
  BY DEF SysvWalk, SearchInv
<1>2. /\ n \in 1 .. Size(file) - 1
      /\ GabiHash[DynSym(file)[n]] % file.chains = BucketZero
      /\ Size(file) \in Nat /\ SymNdx(file) \in Nat
      /\ Defined(file) \subseteq 1 .. Size(file) - 1
  BY <1>1, Indices DEF InChain
<1>3. CASE DynSym(file)[n] = name
  <2>1. /\ pc' = "done" /\ n' = n
        /\ outcome' = IF n \in Defined(file) \/ ~file.zero THEN "hit" ELSE "none"
    BY <1>3 DEF SysvWalk, End
  <2>2. n \in Defined(file) <=> HasDef(file, name)
    <3>1. ASSUME NEW k \in Defined(file), DynSym(file)[k] = name PROVE n \in Defined(file)
      <4>1. k \in InChain(file, BucketZero)
        BY <3>1, <1>2, <1>3 DEF InChain
      <4>2. k <= n
        BY <4>1, <3>1, <1>1
      <4> QED BY <4>2, <3>1, <1>2 DEF Defined
    <3> QED BY <3>1, <1>3 DEF HasDef
  <2>3. Probe(Abstract(file), name) = IF HasDef(file, name) \/ ~file.zero THEN "hit" ELSE "none"
    BY <1>1, <1>3, ProbeOf
  <2> QED BY <1>1, <1>3, <2>1, <2>2, <2>3 DEF SearchInv, HitIsTheSymbol
<1>4. CASE DynSym(file)[n] # name
  <2> DEFINE S == {j \in InChain(file, BucketZero) : j < n}
  <2>1. Chain(file, n) = Last0(S)
    BY <1>2 DEF Chain
  <2>2. Visit(Last0(S))
    BY <1>4, <2>1 DEF SysvWalk
  <2>3. ASSUME NEW k \in InChain(file, BucketZero), DynSym(file)[k] = name PROVE k \in S
    <3>1. k <= n /\ k # n
      BY <2>3, <1>1, <1>4
    <3>2. k \in Nat /\ n \in Nat
      BY <1>2 DEF InChain
    <3> QED BY <3>1, <3>2
  <2>4. S \subseteq InChain(file, BucketZero)
    OBVIOUS
  <2> HIDE DEF S
  <2> QED BY <1>1, <2>2, <2>3, <2>4, VisitKeeps
<1> QED BY <1>3, <1>4

LEMMA SearchStep == SearchInv /\ [Next]_vars => SearchInv'
<1> SUFFICES ASSUME SearchInv, [Next]_vars PROVE SearchInv'
  OBVIOUS
<1>1. CASE Filter       BY <1>1, FilterKeeps
<1>2. CASE FindBucket   BY <1>2, BucketKeeps
<1>3. CASE Compare      BY <1>3, CompareKeeps
<1>4. CASE SysvBucket   BY <1>4, SysvBucketKeeps
<1>5. CASE SysvWalk     BY <1>5, SysvWalkKeeps
<1>6. CASE UNCHANGED vars
  BY <1>6 DEF vars, SearchInv, HitIsTheSymbol
<1> QED BY <1>1, <1>2, <1>3, <1>4, <1>5, <1>6 DEF Next

LEMMA SearchAlways == Spec => []SearchInv
BY InitSearch, SearchStep, PTL DEF Spec

-----------------------------------------------------------------------------

(* The search reads its tables inside their bounds, and each symbol together  *)
(* with its own hash value.                                                  *)
THEOREM StaysInTables == Spec => []ReadsInTable
<1>1. SearchInv => ReadsInTable
  <2> SUFFICES ASSUME SearchInv PROVE ReadsInTable
    OBVIOUS
  <2> QED BY DEF SearchInv, ReadsInTable, InChain
<1> QED BY <1>1, SearchAlways, PTL

(* Filter, buckets and chains find what SymbolResolution says, in every file. *)
THEOREM SearchIsProbe == Spec => []ImplementsProbe
<1>1. SearchInv => ImplementsProbe
  BY DEF SearchInv, ImplementsProbe
<1> QED BY <1>1, SearchAlways, PTL

=============================================================================

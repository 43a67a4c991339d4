--------------------------- MODULE PathSearch_proofs ---------------------------
(***************************************************************************)
(* Proofs about PathSearch: for every environment, every list of search    *)
(* paths and libraries and whatever malloc()'s blocks hold, no string that *)
(* is walked along lacks its terminator, the environment is cut in one     *)
(* entry only, the entries of LD_PRELOAD are its fields, and a library is  *)
(* the first file of its paths.                                            *)
(***************************************************************************)
EXTENDS PathSearch, LeastElement, SequenceTheorems, TLAPS

-----------------------------------------------------------------------------
(* Strings in their blocks.  *)

Block(b) == \E n \in Nat : DOMAIN b = 0 .. n

(* A string that begins at p ends in the block.  *)
Ends(b, p) == p \in DOMAIN b /\ \E k \in DOMAIN b : k >= p /\ b[k] = NUL

(* Stop() finds the first byte of S, if there is one.                        *)
LEMMA StopFacts ==
  ASSUME NEW b, Block(b), NEW p \in Nat, NEW S,
         \E k \in DOMAIN b : k >= p /\ b[k] \in S
  PROVE  /\ Stop(b, p, S) \in DOMAIN b /\ Stop(b, p, S) >= p /\ b[Stop(b, p, S)] \in S
         /\ \A k \in DOMAIN b : k >= p /\ b[k] \in S => Stop(b, p, S) <= k
<1> DEFINE H == {k \in DOMAIN b : k >= p /\ b[k] \in S}
           T == H \cup {Cardinality(DOMAIN b)}
<1>1. PICK n \in Nat : DOMAIN b = 0 .. n
  BY DEF Block
<1>2. Cardinality(DOMAIN b) = n + 1
  <2>1. Cardinality(0 .. n) = n - 0 + 1 BY FS_Interval
  <2> QED BY <1>1, <2>1
<1>3. H # {} /\ H \subseteq 0 .. n /\ \A k \in H : k \in Nat /\ k < n + 1
  BY <1>1
<1>4. Stop(b, p, S) = CHOOSE x \in T : \A y \in T : x <= y
  BY DEF Stop, Min
<1> HIDE DEF H
<1>5. T \subseteq Nat /\ T # {} /\ \A k \in H : k < n + 1
  <2>1. n + 1 \in Nat OBVIOUS
  <2> QED BY <1>2, <1>3, <2>1
<1>6. \E x \in T : \A y \in T : x <= y
  BY <1>5, SmallestExists
<1>7. Stop(b, p, S) \in T /\ \A y \in T : Stop(b, p, S) <= y
  BY <1>4, <1>6
<1>8. Stop(b, p, S) \in H
  <2>1. PICK k \in H : TRUE BY <1>3
  <2>2. Stop(b, p, S) <= k /\ k < n + 1 BY <1>5, <1>7, <2>1
  <2>3. Stop(b, p, S) # n + 1
    <3> HIDE DEF T
    <3>1. Stop(b, p, S) \in Nat /\ k \in Nat
      <4>1. Stop(b, p, S) \in Nat BY <1>5, <1>7
      <4>2. k \in Nat BY <1>3, <2>1
      <4> QED BY <4>1, <4>2
    <3> QED BY <2>2, <3>1
  <2> QED BY <1>2, <1>7, <2>3
<1> QED BY <1>7, <1>8 DEF H

(* What strtok_r() leaves: the token and the rest both end in the block.     *)
LEMMA TokenFacts ==
  ASSUME NEW b, Block(b), NEW p \in Nat, Ends(b, p),
         NEW r, r = strtok_r(b, p)
  PROVE  /\ DOMAIN r.buf = DOMAIN b /\ Block(r.buf)
         /\ Ends(r.buf, p)
         /\ r.save # Null => Ends(r.buf, r.save) /\ r.save \in Nat
         /\ \A j \in DOMAIN b : j >= p /\ b[j] = NUL => r.buf[j] = NUL /\ (r.save # Null => j >= r.save)
<1> DEFINE stop == Stop(b, p, Delims \cup {NUL})
<1>1. PICK n \in Nat : DOMAIN b = 0 .. n
  BY DEF Block
<1>2. PICK z \in DOMAIN b : z >= p /\ b[z] = NUL
  BY DEF Ends
<1>3. /\ stop \in DOMAIN b /\ stop >= p /\ b[stop] \in Delims \cup {NUL}
      /\ \A k \in DOMAIN b : k >= p /\ b[k] \in Delims \cup {NUL} => stop <= k
  <2>1. \E k \in DOMAIN b : k >= p /\ b[k] \in Delims \cup {NUL}
    BY <1>2
  <2> QED BY <2>1, StopFacts
<1>4. r = IF b[stop] = NUL THEN [buf |-> b, save |-> Null]
          ELSE [buf |-> [b EXCEPT ![stop] = NUL], save |-> stop + 1]
  BY DEF strtok_r
<1> HIDE DEF stop
<1>5. CASE b[stop] = NUL
  <2>1. r.buf = b /\ r.save = Null BY <1>4, <1>5
  <2> QED BY <2>1
<1>6. CASE b[stop] # NUL
  <2>1. r.buf = [b EXCEPT ![stop] = NUL] /\ r.save = stop + 1 BY <1>4, <1>6
  <2>2. DOMAIN r.buf = DOMAIN b /\ r.buf[stop] = NUL
        /\ \A j \in DOMAIN b : j # stop => r.buf[j] = b[j]
    BY <2>1, <1>3
  <2>3. Block(r.buf) BY <2>2 DEF Block
  <2>4. Ends(r.buf, p) BY <2>2, <1>3 DEF Ends
  <2>5. z >= stop + 1 /\ stop + 1 \in DOMAIN b
    <3>1. stop \in 0 .. n /\ z \in 0 .. n BY <1>1, <1>2, <1>3
    <3>2. stop <= z /\ stop # z BY <1>2, <1>3, <1>6
    <3> QED BY <3>1, <3>2, <1>1
  <2>6. Ends(r.buf, r.save) /\ r.save \in Nat
    <3>1. r.buf[z] = NUL BY <2>2, <1>2
    <3>2. stop + 1 \in Nat BY <2>5, <1>1
    <3> QED BY <3>1, <3>2, <2>1, <2>2, <2>5 DEF Ends
  <2>7. ASSUME NEW j \in DOMAIN b, j >= p, b[j] = NUL PROVE r.buf[j] = NUL /\ j >= r.save
    <3>1. stop <= j /\ stop # j BY <2>7, <1>3, <1>6
    <3>2. stop \in Int /\ j \in Int BY <1>1, <1>3, <2>7
    <3> QED BY <3>1, <3>2, <2>1, <2>2, <2>7
  <2> QED BY <2>2, <2>3, <2>4, <2>6, <2>7
<1> QED BY <1>5, <1>6

(* A string as the kernel gave it is terminated.                             *)
LEMMA BytesEnd ==
  ASSUME NEW C, NEW s \in Seq(C)
  PROVE  Block(Bytes(s)) /\ Ends(Bytes(s), 0) /\ DOMAIN Bytes(s) = 0 .. Len(s)
<1>1. Len(s) \in Nat OBVIOUS
<1>2. DOMAIN Bytes(s) = 0 .. Len(s) /\ Bytes(s)[Len(s)] = NUL
  BY <1>1 DEF Bytes
<1>3. 0 \in DOMAIN Bytes(s) /\ Len(s) \in DOMAIN Bytes(s) /\ Len(s) >= 0
  BY <1>1, <1>2
<1> QED BY <1>1, <1>2, <1>3 DEF Block, Ends

(* The copy of a string that strdup() makes, in front of another chunk's head. *)
LEMMA CopyIs ==
  ASSUME NEW s \in Seq(Char), NEW g \in Garbage, NEW h \in Heads
  PROVE  \E n \in Nat :
           /\ n >= 2 * Len(s) /\ DOMAIN Placed(strdup(s, g), h) = 0 .. n + HEAD - 1
           /\ \A k \in 0 .. Len(s) - 1 : Placed(strdup(s, g), h)[k] = s[k + 1]
           /\ \A k \in Len(s) .. 2 * Len(s) - 1 : Placed(strdup(s, g), h)[k] = NUL
           /\ Placed(strdup(s, g), h)[n + HEAD - 1] = NUL
<1> DEFINE a == 2 * Len(s)
           n == Max({a, USABLE})
           d == strdup(s, g)
           e == Placed(d, h)
<1>1. Len(s) \in Nat /\ USABLE \in Nat /\ HEAD \in Nat \ {0} /\ Len(h) = HEAD /\ h[HEAD] = NUL
  BY PathAssumption
<1>2. n \in Nat /\ n >= a
  <2>1. a \in Nat /\ USABLE \in Nat BY <1>1
  <2>2. n = CHOOSE x \in {a, USABLE} : \A y \in {a, USABLE} : x >= y
    BY DEF Max
  <2> HIDE DEF a, n
  <2>3. \E x \in {a, USABLE} : \A y \in {a, USABLE} : x >= y BY <2>1
  <2>4. n \in {a, USABLE} /\ \A y \in {a, USABLE} : n >= y BY <2>2, <2>3
  <2> QED BY <2>1, <2>4
<1>3. d = [k \in 0 .. n - 1 |->
             IF k < Len(s) THEN s[k + 1] ELSE IF k < a \/ k >= Len(g) THEN NUL ELSE g[k + 1]]
  BY DEF strdup
<1> HIDE DEF n, d
<1>4. Cardinality(DOMAIN d) = n
  <2>1. DOMAIN d = 0 .. n - 1 BY <1>3
  <2>2. Cardinality(0 .. n - 1) = IF 0 > n - 1 THEN 0 ELSE (n - 1) - 0 + 1 BY <1>2, FS_Interval
  <2> QED BY <2>1, <2>2, <1>2
<1>5. e = [k \in 0 .. n + HEAD - 1 |-> IF k < n THEN d[k] ELSE h[k - n + 1]]
  BY <1>4 DEF Placed
<1> HIDE DEF e
<1>6. ASSUME NEW k \in 0 .. Len(s) - 1 PROVE e[k] = s[k + 1]
  <2>1. k \in 0 .. n - 1 /\ k \in 0 .. n + HEAD - 1 /\ k < n /\ k < Len(s) BY <1>1, <1>2
  <2> QED BY <2>1, <1>3, <1>5
<1>7. ASSUME NEW k \in Len(s) .. a - 1 PROVE e[k] = NUL
  <2>1. k \in 0 .. n - 1 /\ k \in 0 .. n + HEAD - 1 /\ k < n /\ ~(k < Len(s)) /\ k < a BY <1>1, <1>2
  <2> HIDE DEF a
  <2> QED BY <2>1, <1>3, <1>5
<1>8. e[n + HEAD - 1] = NUL
  <2>1. /\ n + HEAD - 1 \in 0 .. n + HEAD - 1 /\ ~(n + HEAD - 1 < n)
        /\ (n + HEAD - 1) - n + 1 = HEAD
    BY <1>1, <1>2
  <2>2. e[n + HEAD - 1] = h[(n + HEAD - 1) - n + 1] BY <2>1, <1>5
  <2> QED BY <2>1, <2>2, <1>1
<1>9. DOMAIN e = 0 .. n + HEAD - 1
  BY <1>5
<1> QED BY <1>2, <1>6, <1>7, <1>8, <1>9 DEF e, d

(* It is terminated, if not in its block then in the head behind it: the block *)
(* of an empty string holds what it held before.                             *)
LEMMA CopyEnds ==
  ASSUME NEW s \in Seq(Char), NEW g \in Garbage, NEW h \in Heads,
         NEW b, b = Placed(strdup(s, g), h)
  PROVE  /\ Block(b) /\ Ends(b, 0)
         /\ s # <<>> => Len(s) \in DOMAIN b /\ b[Len(s)] = NUL /\ Len(s) + HEAD \in DOMAIN b
<1>1. Len(s) \in Nat /\ HEAD \in Nat \ {0} /\ (s # <<>> => Len(s) > 0)
  BY EmptySeq, PathAssumption
<1>2. PICK n \in Nat : /\ n >= 2 * Len(s) /\ DOMAIN b = 0 .. n + HEAD - 1
                       /\ \A k \in Len(s) .. 2 * Len(s) - 1 : b[k] = NUL
                       /\ b[n + HEAD - 1] = NUL
  BY CopyIs
<1>3. n + HEAD - 1 \in Nat /\ 0 \in DOMAIN b /\ n + HEAD - 1 \in DOMAIN b /\ n + HEAD - 1 >= 0
  BY <1>1, <1>2
<1>4. Block(b) /\ Ends(b, 0)
  <2> DEFINE N == n + HEAD - 1
  <2>1. N \in Nat /\ N \in DOMAIN b /\ N >= 0 /\ DOMAIN b = 0 .. N /\ b[N] = NUL
    BY <1>2, <1>3
  <2> HIDE DEF N
  <2> QED BY <2>1, <1>3 DEF Block, Ends
<1>5. s # <<>> => /\ Len(s) \in Len(s) .. 2 * Len(s) - 1
                  /\ Len(s) \in 0 .. n + HEAD - 1 /\ Len(s) + HEAD \in 0 .. n + HEAD - 1
  BY <1>1, <1>2
<1> QED BY <1>2, <1>4, <1>5

-----------------------------------------------------------------------------
(* The fields of a string.  *)

(* Where the field behind k ends.                                            *)
Follow(s, k) == Min({m \in Bounds(s) : m > k})

LEMMA BoundsFacts ==
  ASSUME NEW s \in Seq(Char)
  PROVE  /\ Len(s) \in Nat /\ Bounds(s) \subseteq 0 .. Len(s) + 1 /\ IsFiniteSet(Bounds(s))
         /\ 0 \in Bounds(s) /\ Len(s) + 1 \in Bounds(s)
         /\ \A k \in 1 .. Len(s) : k \in Bounds(s) <=> s[k] \in Delims
<1>1. Len(s) \in Nat /\ DOMAIN s = 1 .. Len(s)
  OBVIOUS
<1>2. Bounds(s) \subseteq 0 .. Len(s) + 1
  BY <1>1 DEF Bounds
<1>3. IsFiniteSet(0 .. Len(s) + 1)
  BY <1>1, FS_Interval
<1>4. IsFiniteSet(Bounds(s))
  BY <1>2, <1>3, FS_Subset
<1>5. \A k \in 1 .. Len(s) : k # 0 /\ k # Len(s) + 1
  BY <1>1
<1> QED BY <1>1, <1>2, <1>4, <1>5 DEF Bounds

(* Bounds are in the order of their ranks.                                   *)
LEMMA RankFacts ==
  ASSUME NEW s \in Seq(Char)
  PROVE  /\ \A k \in Bounds(s) : Rank(s, k) \in Nat
         /\ \A k, m \in Bounds(s) : k < m => Rank(s, k) < Rank(s, m)
         /\ Rank(s, 0) = 0
         /\ Cardinality(Bounds(s)) \in Nat /\ Rank(s, Len(s) + 1) = Cardinality(Bounds(s)) - 1
<1> DEFINE B == Bounds(s)
           Below(k) == {m \in B : m < k}
<1>1. IsFiniteSet(B) /\ B \subseteq 0 .. Len(s) + 1 /\ Len(s) + 1 \in B /\ Len(s) \in Nat
  BY BoundsFacts
<1> HIDE DEF B
<1>2. \A k : IsFiniteSet(Below(k)) /\ Cardinality(Below(k)) \in Nat /\ Rank(s, k) = Cardinality(Below(k))
  <2> TAKE k
  <2>1. IsFiniteSet(Below(k)) BY <1>1, FS_Subset
  <2> QED BY <2>1, FS_CardinalityType DEF Rank, B
<1>3. ASSUME NEW k \in B, NEW m \in B, k < m PROVE Rank(s, k) < Rank(s, m)
  <2>1. k \in Below(m) /\ k \notin Below(k) /\ Below(k) \subseteq Below(m)
    <3>1. \A x \in B : x \in Int BY <1>1
    <3> QED BY <3>1, <1>3
  <2> HIDE DEF Below
  <2>2. Cardinality(Below(k)) <= Cardinality(Below(m)) /\ Cardinality(Below(k)) # Cardinality(Below(m))
    BY <1>2, <2>1, FS_Subset
  <2> QED BY <1>2, <2>2
<1>4. Rank(s, 0) = 0
  <2>1. \A m \in B : ~(m < 0) BY <1>1
  <2>2. Below(0) = {} BY <2>1
  <2> HIDE DEF Below
  <2> QED BY <1>2, <2>2, FS_EmptySet
<1>5. Cardinality(B) \in Nat /\ Rank(s, Len(s) + 1) = Cardinality(B) - 1
  <2>0. \A m \in B : m < Len(s) + 1 <=> m # Len(s) + 1 BY <1>1
  <2>1. Below(Len(s) + 1) = B \ {Len(s) + 1} BY <2>0
  <2>2. Cardinality(B) \in Nat /\ Cardinality(B \ {Len(s) + 1}) = Cardinality(B) - 1
    BY <1>1, FS_RemoveElement, FS_CardinalityType
  <2> QED BY <1>2, <2>1, <2>2
<1> QED BY <1>2, <1>3, <1>4, <1>5 DEF B

(* Between a bound and the one that follows it, there is none.               *)
LEMMA FollowFacts ==
  ASSUME NEW s \in Seq(Char), NEW k \in Bounds(s), k <= Len(s)
  PROVE  /\ Follow(s, k) \in Bounds(s) /\ k < Follow(s, k)
         /\ \A m \in Bounds(s) : k < m => Follow(s, k) <= m
         /\ Rank(s, Follow(s, k)) = Rank(s, k) + 1
<1> DEFINE B == Bounds(s)
           H == {m \in B : m > k}
           f == Follow(s, k)
           Below(x) == {m \in B : m < x}
<1>1. IsFiniteSet(B) /\ B \subseteq 0 .. Len(s) + 1 /\ Len(s) + 1 \in B /\ Len(s) \in Nat
  BY BoundsFacts
<1>2. H \subseteq Nat /\ Len(s) + 1 \in H
  BY <1>1
<1>3. f = CHOOSE x \in H : \A y \in H : x <= y
  BY DEF Follow, Min
<1>4. \E x \in H : \A y \in H : x <= y
  <2> HIDE DEF H
  <2> QED BY <1>2, SmallestExists
<1>5. f \in H /\ \A y \in H : f <= y
  <2> HIDE DEF H, f
  <2> QED BY <1>3, <1>4
<1> HIDE DEF f
<1>6. f \in B /\ k < f /\ \A m \in B : k < m => f <= m
  BY <1>1, <1>5
<1> HIDE DEF B
<1>7. Below(f) = Below(k) \cup {k} /\ k \notin Below(k)
  <2>1. k \in B /\ \A m \in B : m \in Int BY <1>1 DEF B
  <2>2. \A m \in B : m < f <=> m < k \/ m = k BY <2>1, <1>6
  <2> QED BY <2>1, <2>2
<1>8. IsFiniteSet(Below(k))
  BY <1>1, FS_Subset
<1>9. Rank(s, f) = Rank(s, k) + 1
  <2> HIDE DEF Below
  <2>1. Cardinality(Below(f)) = Cardinality(Below(k)) + 1 BY <1>7, <1>8, FS_AddElement
  <2> QED BY <2>1 DEF Below, Rank, B
<1> QED BY <1>6, <1>9 DEF f, B

(* A bound begins the field of its rank.                                     *)
LEMMA FieldAt ==
  ASSUME NEW s \in Seq(Char), NEW k \in Bounds(s), k <= Len(s)
  PROVE  /\ Rank(s, k) + 1 \in DOMAIN Fields(s)
         /\ Fields(s)[Rank(s, k) + 1] = SubSeq(s, k + 1, Follow(s, k) - 1)
         /\ Follow(s, k) = Len(s) + 1 => DOMAIN Fields(s) = 1 .. Rank(s, k) + 1
<1> DEFINE B == Bounds(s)
           Bound(j) == CHOOSE x \in B : Rank(s, x) = j
           f == Follow(s, k)
           j == Rank(s, k) + 1
<1>1. /\ f \in B /\ k < f /\ Rank(s, f) = Rank(s, k) + 1
      /\ B \subseteq 0 .. Len(s) + 1 /\ Len(s) + 1 \in B /\ Len(s) \in Nat
  BY FollowFacts, BoundsFacts
<1>2. /\ \A x \in B : Rank(s, x) \in Nat
      /\ \A x, m \in B : x < m => Rank(s, x) < Rank(s, m)
      /\ Cardinality(B) \in Nat /\ Rank(s, Len(s) + 1) = Cardinality(B) - 1
  BY RankFacts
<1>3. Fields(s) = [x \in 1 .. Cardinality(B) - 1 |-> SubSeq(s, Bound(x - 1) + 1, Bound(x) - 1)]
  BY DEF Fields
<1> HIDE DEF f, B
<1>4. k \in B BY DEF B
<1>5. ASSUME NEW x \in B PROVE Bound(Rank(s, x)) = x
  <2>1. Bound(Rank(s, x)) \in B /\ Rank(s, Bound(Rank(s, x))) = Rank(s, x) OBVIOUS
  <2> HIDE DEF Bound
  <2>2. ASSUME NEW y \in B, Rank(s, y) = Rank(s, x) PROVE y = x
    <3>1. y \in Int /\ x \in Int BY <1>1
    <3>2. ~(x < y) /\ ~(y < x) BY <1>2, <2>2
    <3> QED BY <3>1, <3>2
  <2> QED BY <2>1, <2>2
<1>6. j \in 1 .. Cardinality(B) - 1 /\ j - 1 = Rank(s, k)
  <2>1. k < Len(s) + 1 BY <1>1, <1>4
  <2>2. Rank(s, k) < Cardinality(B) - 1 BY <1>1, <1>2, <1>4, <2>1
  <2> QED BY <2>2, <1>2, <1>4
<1>7. Fields(s)[j] = SubSeq(s, k + 1, f - 1)
  <2>1. Bound(j - 1) = k /\ Bound(j) = f BY <1>1, <1>4, <1>5, <1>6
  <2> HIDE DEF Bound, j
  <2> QED BY <2>1, <1>3, <1>6
<1>8. f = Len(s) + 1 => Cardinality(B) - 1 = Rank(s, k) + 1
  BY <1>1, <1>2
<1>9. DOMAIN Fields(s) = 1 .. Cardinality(B) - 1
  BY <1>3
<1> QED BY <1>6, <1>7, <1>8, <1>9 DEF f, B

(* From p on, block b holds what the string s does.                          *)
Holds(b, p, s) ==
  /\ Block(b) /\ Len(s) \in DOMAIN b /\ p \in 0 .. Len(s)
  /\ \A k \in p .. Len(s) - 1 : b[k] = s[k + 1]
  /\ b[Len(s)] = NUL

(* The token at tk is the field of s that begins there, and at sv is the next *)
(* one, if there is one.                                                     *)
TokenIs(b, tk, sv, s) ==
  /\ tk \in Bounds(s) /\ tk <= Len(s)
  /\ Text(b, tk) = SubSeq(s, tk + 1, Follow(s, tk) - 1)
  /\ sv = Null => Follow(s, tk) = Len(s) + 1
  /\ sv # Null => sv = Follow(s, tk) /\ sv <= Len(s) /\ Holds(b, sv, s)

LEMMA TokenCut ==
  ASSUME NEW s \in Seq(Char), NEW b, NEW p \in Bounds(s), Holds(b, p, s),
         NEW r, r = strtok_r(b, p)
  PROVE  TokenIs(r.buf, p, r.save, s)
<1> DEFINE S == Delims \cup {NUL}
           stop == Stop(b, p, S)
<1>1. /\ Len(s) \in Nat /\ Bounds(s) \subseteq 0 .. Len(s) + 1 /\ Len(s) + 1 \in Bounds(s)
      /\ \A k \in 1 .. Len(s) : k \in Bounds(s) <=> s[k] \in Delims
  BY BoundsFacts
<1>2. PICK n \in Nat : DOMAIN b = 0 .. n
  BY DEF Holds, Block
<1>3. /\ Block(b) /\ Len(s) \in DOMAIN b /\ p \in 0 .. Len(s) /\ b[Len(s)] = NUL
      /\ \A k \in p .. Len(s) - 1 : b[k] = s[k + 1]
  BY DEF Holds
<1>4. \A k \in p .. Len(s) - 1 : k \in DOMAIN b /\ b[k] = s[k + 1] /\ b[k] \in Char /\ b[k] # NUL
  <2> TAKE k \in p .. Len(s) - 1
  <2>1. k \in 0 .. n /\ k + 1 \in 1 .. Len(s) BY <1>1, <1>2, <1>3
  <2>2. s[k + 1] \in Char BY <2>1
  <2> QED BY <2>1, <2>2, <1>2, <1>3, PathAssumption
<1>5. /\ stop \in DOMAIN b /\ stop >= p /\ b[stop] \in S
      /\ \A k \in DOMAIN b : k >= p /\ b[k] \in S => stop <= k
  <2>1. Len(s) \in DOMAIN b /\ Len(s) >= p /\ b[Len(s)] \in S BY <1>1, <1>3
  <2>2. p \in Nat BY <1>1, <1>3
  <2> HIDE DEF S
  <2> QED BY <1>3, <2>1, <2>2, StopFacts
<1>6. r = IF b[stop] = NUL THEN [buf |-> b, save |-> Null]
          ELSE [buf |-> [b EXCEPT ![stop] = NUL], save |-> stop + 1]
  BY DEF strtok_r
<1> HIDE DEF stop
<1>7. stop \in p .. Len(s)
  <2>1. stop <= Len(s) BY <1>1, <1>3, <1>5
  <2> QED BY <2>1, <1>1, <1>2, <1>3, <1>5
<1>8. b[stop] = NUL <=> stop = Len(s)
  BY <1>1, <1>3, <1>4, <1>7
<1>9. stop + 1 \in Bounds(s)
  <2>1. CASE stop = Len(s) BY <2>1, <1>1
  <2>2. CASE stop # Len(s)
    <3>1. stop \in p .. Len(s) - 1 /\ stop + 1 \in 1 .. Len(s) BY <2>2, <1>1, <1>3, <1>7
    <3>2. s[stop + 1] \in Delims BY <3>1, <1>4, <1>5
    <3> QED BY <3>1, <3>2, <1>1
  <2> QED BY <2>1, <2>2
<1>10. ASSUME NEW m \in Bounds(s), p < m PROVE stop + 1 <= m
  <2>1. m \in 1 .. Len(s) + 1 /\ m - 1 \in p .. Len(s) /\ m - 1 >= p /\ (m - 1) + 1 = m
    BY <1>1, <1>3, <1>10
  <2>2. m - 1 \in DOMAIN b /\ b[m - 1] \in S
    <3>1. CASE m = Len(s) + 1
      <4>1. m - 1 = Len(s) BY <3>1, <1>1
      <4> QED BY <4>1, <1>3
    <3>2. CASE m # Len(s) + 1
      <4>1. m \in 1 .. Len(s) /\ m - 1 \in p .. Len(s) - 1 BY <2>1, <3>2, <1>1
      <4>2. s[m] \in Delims BY <4>1, <1>1
      <4> QED BY <4>1, <4>2, <2>1, <1>4
    <3> QED BY <3>1, <3>2
  <2>3. stop <= m - 1 BY <2>1, <2>2, <1>5
  <2> QED BY <2>1, <2>3, <1>1, <1>3, <1>7
<1>11. Follow(s, p) = stop + 1
  <2>1. p <= Len(s) BY <1>1, <1>3
  <2>2. /\ Follow(s, p) \in Bounds(s) /\ p < Follow(s, p)
        /\ \A m \in Bounds(s) : p < m => Follow(s, p) <= m
    BY <2>1, FollowFacts
  <2>3. p < stop + 1 BY <1>1, <1>3, <1>7
  <2>4. Follow(s, p) <= stop + 1 /\ stop + 1 <= Follow(s, p) BY <2>2, <2>3, <1>9, <1>10
  <2>5. Follow(s, p) \in Int /\ stop + 1 \in Int BY <2>2, <1>1, <1>9
  <2> QED BY <2>4, <2>5
<1>12. /\ DOMAIN r.buf = DOMAIN b /\ r.buf[stop] = NUL
       /\ \A k \in DOMAIN b : k # stop => r.buf[k] = b[k]
  <2>1. CASE b[stop] = NUL
    <3>1. r.buf = b BY <1>6, <2>1
    <3> QED BY <3>1, <2>1
  <2>2. CASE b[stop] # NUL
    <3>1. r.buf = [b EXCEPT ![stop] = NUL] BY <1>6, <2>2
    <3> QED BY <3>1, <1>5
  <2> QED BY <2>1, <2>2
<1>13. Stop(r.buf, p, {NUL}) = stop
  <2> DEFINE t == Stop(r.buf, p, {NUL})
  <2>1. \E k \in DOMAIN r.buf : k >= p /\ r.buf[k] \in {NUL} BY <1>5, <1>12
  <2>2. Block(r.buf) /\ p \in Nat BY <1>1, <1>3, <1>12 DEF Block
  <2>3. /\ t \in DOMAIN r.buf /\ t >= p /\ r.buf[t] \in {NUL}
        /\ \A k \in DOMAIN r.buf : k >= p /\ r.buf[k] \in {NUL} => t <= k
    BY <2>1, <2>2, StopFacts
  <2> HIDE DEF t
  <2>4. t <= stop /\ t \in Int BY <2>3, <1>2, <1>5, <1>12
  <2>5. ASSUME t < stop PROVE FALSE
    <3>1. t \in p .. Len(s) - 1 /\ t # stop BY <2>3, <2>4, <2>5, <1>1, <1>3, <1>7
    <3> QED BY <3>1, <2>3, <1>4, <1>12
  <2> QED BY <2>4, <2>5, <1>7 DEF t
<1>14. Text(r.buf, p) = SubSeq(s, p + 1, stop)
  <2>1. Text(r.buf, p) = [k \in 1 .. stop - p |-> r.buf[p + k - 1]] BY <1>13 DEF Text
  <2>2. ASSUME NEW k \in 1 .. stop - p PROVE r.buf[p + k - 1] = s[p + k]
    <3>1. p + k - 1 \in p .. Len(s) - 1 /\ p + k - 1 # stop /\ (p + k - 1) + 1 = p + k
      BY <1>1, <1>3, <1>7
    <3> QED BY <3>1, <1>4, <1>12
  <2>3. SubSeq(s, p + 1, stop) = [k \in 1 .. stop - p |-> s[p + k]]
    <3>1. p \in Int /\ stop \in Int BY <1>1, <1>3, <1>7
    <3>2. 1 .. (1 + stop - (p + 1)) = 1 .. stop - p /\ \A k \in 1 .. stop - p : (p + 1) + k - 1 = p + k
      BY <3>1
    <3> QED BY <3>1, <3>2
  <2> QED BY <2>1, <2>2, <2>3
<1>15. CASE stop = Len(s)
  <2>1. r.save = Null BY <1>6, <1>8, <1>15
  <2>2. (stop + 1) - 1 = stop BY <1>7
  <2> QED BY <2>1, <2>2, <1>3, <1>11, <1>14, <1>15 DEF TokenIs
<1>16. CASE stop # Len(s)
  <2>1. r.save = stop + 1 BY <1>6, <1>8, <1>16
  <2>2. stop + 1 \in Nat /\ stop + 1 \in 0 .. Len(s) /\ stop + 1 <= Len(s) /\ (stop + 1) - 1 = stop
    BY <1>1, <1>3, <1>7, <1>16
  <2>3. Holds(r.buf, stop + 1, s)
    <3>1. Block(r.buf) BY <1>3, <1>12 DEF Block
    <3>2. ASSUME NEW k \in stop + 1 .. Len(s) - 1 PROVE r.buf[k] = s[k + 1]
      <4>1. k \in p .. Len(s) - 1 /\ k # stop BY <1>1, <1>3, <1>7
      <4> QED BY <4>1, <1>4, <1>12
    <3>3. r.buf[Len(s)] = NUL BY <1>3, <1>12, <1>16
    <3> QED BY <3>1, <3>2, <3>3, <2>2, <1>3, <1>12 DEF Holds
  <2>4. r.save # Null BY <2>1, <2>2, PathAssumption
  <2> QED BY <2>1, <2>2, <2>3, <2>4, <1>3, <1>11, <1>14 DEF TokenIs
<1> QED BY <1>15, <1>16

-----------------------------------------------------------------------------
(* The environment.  *)

Begins(e, var) == Len(var) <= Len(e) /\ \A c \in 1 .. Len(var) : e[c] = var[c]

LEMMA PrefixIsBeginning ==
  ASSUME NEW C, NEW s \in Seq(C), NEW t \in Seq(C)
  PROVE  IsPrefix(s, t) <=> Begins(t, s)
<1>1. Len(s) \in Nat /\ Len(t) \in Nat /\ SubSeq(s, 1, Len(s)) = s
  BY SubSeqFull
<1>2. ASSUME Len(s) <= Len(t) PROVE s = SubSeq(t, 1, Len(s)) <=> \A c \in 1 .. Len(s) : t[c] = s[c]
  <2> DEFINE u == SubSeq(t, 1, Len(s))
  <2>1. u \in Seq(C) /\ Len(u) = Len(s) /\ \A c \in 1 .. Len(s) : u[c] = t[c] BY <1>1, <1>2
  <2> HIDE DEF u
  <2>2. (\A c \in 1 .. Len(s) : t[c] = s[c]) => s = u BY <2>1, SeqEqual
  <2> QED BY <2>1, <2>2 DEF u
<1> QED BY <1>1, <1>2 DEF IsPrefix, Begins

(* strncmp() compares the whole name.                                        *)
LEMMA NamedFacts ==
  ASSUME NEW e \in Seq(Char), NEW var \in Seq(Char), Len(var) # 0
  PROVE  Named(e, var) <=> Len(var) < Len(e) /\ Begins(e, var)
<1> DEFINE n == Len(var)
           Differ(k) == Bytes(e)[k] = NUL \/ Bytes(var)[k] = NUL \/ Bytes(e)[k] # Bytes(var)[k]
           D == {k \in 0 .. n - 1 : Differ(k)}
           T == D \cup {n - 1}
           f == Min(T)
<1>1. n \in Nat /\ n >= 1 /\ Len(e) \in Nat
  OBVIOUS
<1>2. SUFFICES ASSUME n < Len(e)
               PROVE  SameFirst(e, var, n) <=> \A c \in 1 .. n : e[c] = var[c]
  BY <1>1 DEF Named, Begins
<1>3. ASSUME NEW k \in 0 .. n - 1
      PROVE  Bytes(e)[k] = e[k + 1] /\ Bytes(var)[k] = var[k + 1] /\ (Differ(k) <=> e[k + 1] # var[k + 1])
  <2>1. k + 1 \in 1 .. Len(e) /\ k + 1 \in 1 .. n /\ k \in 0 .. Len(e) /\ k < Len(e) /\ k < n /\ k \in 0 .. n
    BY <1>1, <1>2
  <2>2. e[k + 1] \in Char /\ var[k + 1] \in Char BY <2>1
  <2>3. Bytes(e)[k] = e[k + 1] /\ Bytes(var)[k] = var[k + 1] BY <2>1 DEF Bytes
  <2> QED BY <2>2, <2>3, PathAssumption
<1> HIDE DEF Differ
<1>4. f \in T /\ \A y \in T : f <= y
  <2>1. T \subseteq Nat /\ T # {} BY <1>1
  <2> HIDE DEF T
  <2>2. \E x \in T : \A y \in T : x <= y BY <2>1, SmallestExists
  <2> QED BY <2>2 DEF Min
<1>5. SameFirst(e, var, n) <=> Bytes(e)[f] = Bytes(var)[f]
  BY DEF SameFirst, Differ
<1> HIDE DEF f
<1>6. f \in 0 .. n - 1
  BY <1>1, <1>4
<1>7. SameFirst(e, var, n) <=> e[f + 1] = var[f + 1]
  BY <1>3, <1>5, <1>6
<1>8. ASSUME \A c \in 1 .. n : e[c] = var[c] PROVE e[f + 1] = var[f + 1]
  <2>1. f + 1 \in 1 .. n BY <1>1, <1>6
  <2> QED BY <1>8, <2>1
<1>9. ASSUME NEW c \in 1 .. n, e[c] # var[c] PROVE e[f + 1] # var[f + 1]
  <2>1. c - 1 \in 0 .. n - 1 /\ (c - 1) + 1 = c BY <1>1
  <2>2. c - 1 \in D BY <2>1, <1>3, <1>9
  <2>3. f <= c - 1 BY <2>2, <1>4
  <2>4. CASE f \in D BY <2>4, <1>3, <1>6
  <2>5. CASE f \notin D
    <3>1. f = n - 1 BY <2>5, <1>4
    <3>2. f = c - 1 BY <3>1, <2>1, <2>3, <1>1
    <3> QED BY <3>2, <2>2, <2>5
  <2> QED BY <2>4, <2>5
<1> QED BY <1>7, <1>8, <1>9

(* Neither variable's name is empty, and no entry has both.                  *)
LEMMA NamesApart ==
  /\ PRELOAD \in Seq(Char) /\ Len(PRELOAD) \in Nat \ {0}
  /\ LIBRARY_PATH \in Seq(Char) /\ Len(LIBRARY_PATH) \in Nat \ {0}
  /\ \A e : ~(Begins(e, PRELOAD) /\ Begins(e, LIBRARY_PATH))
<1>1. PRELOAD \in Seq(Char) /\ LIBRARY_PATH \in Seq(Char) /\ Len(PRELOAD) \in Nat /\ Len(LIBRARY_PATH) \in Nat
  BY PathAssumption
<1>2. ~Begins(LIBRARY_PATH, PRELOAD) /\ ~Begins(PRELOAD, LIBRARY_PATH)
  BY <1>1, PrefixIsBeginning, PathAssumption
<1>3. Len(PRELOAD) # 0 /\ Len(LIBRARY_PATH) # 0
  BY <1>1, <1>2 DEF Begins
<1>4. ASSUME NEW e, Begins(e, PRELOAD), Begins(e, LIBRARY_PATH) PROVE FALSE
  <2>1. CASE Len(PRELOAD) <= Len(LIBRARY_PATH)
    <3>1. \A c \in 1 .. Len(PRELOAD) : c \in 1 .. Len(LIBRARY_PATH) BY <2>1, <1>1
    <3> QED BY <3>1, <2>1, <1>2, <1>4 DEF Begins
  <2>2. CASE Len(LIBRARY_PATH) <= Len(PRELOAD)
    <3>1. \A c \in 1 .. Len(LIBRARY_PATH) : c \in 1 .. Len(PRELOAD) BY <2>2, <1>1
    <3> QED BY <3>1, <2>2, <1>2, <1>4 DEF Begins
  <2> QED BY <2>1, <2>2, <1>1
<1> QED BY <1>1, <1>3, <1>4

LEMMA GivenFacts ==
  ASSUME given \in Envs
  PROVE  given \in Seq(Seq(Char)) /\ Len(given) \in Nat /\ DOMAIN given = 1 .. Len(given)
         /\ \A k \in DOMAIN given : given[k] \in Seq(Char)
<1>1. given \in Seq(Seq(Char))
  BY PathAssumption
<1> QED BY <1>1

(* Where no other variable's name begins with var, get_env_value() and        *)
(* getenv() look for the same entries.                                       *)
LEMMA HoldersAreNamed ==
  ASSUME given \in Envs, NEW var \in Seq(Char), Len(var) # 0, Unmistakable(var)
  PROVE  Holders(var) = {k \in DOMAIN given : Named(given[k], var)}
<1> DEFINE C == Char \cup {"="}
           w == var \o <<"=">>
<1>1. /\ given \in Seq(Seq(Char)) /\ \A k \in DOMAIN given : given[k] \in Seq(Char)
  BY GivenFacts
<1>2. \A s \in Seq(Char) : s \in Seq(C)
  OBVIOUS
<1>3. w \in Seq(C) /\ Len(w) = Len(var) + 1 /\ \A c \in 1 .. Len(var) : w[c] = var[c]
  <2>1. var \in Seq(C) /\ <<"=">> \in Seq(C) /\ Len(<<"=">>) = 1 BY <1>2
  <2> HIDE DEF C
  <2> QED BY <2>1
<1> HIDE DEF w, C
<1>4. ASSUME NEW k \in DOMAIN given PROVE k \in Holders(var) <=> Named(given[k], var)
  <2> DEFINE e == given[k]
  <2>1. e \in Seq(Char) /\ e \in Seq(C) BY <1>1, <1>2
  <2> HIDE DEF e
  <2>2. Len(var) \in Nat /\ Len(e) \in Nat BY <2>1
  <2>3. ASSUME Begins(e, w) PROVE Named(e, var)
    <3>1. Len(var) < Len(e) BY <2>2, <2>3, <1>3 DEF Begins
    <3>2. \A c \in 1 .. Len(var) : c \in 1 .. Len(w) BY <1>3, <2>2
    <3>3. Begins(e, var) BY <3>1, <3>2, <2>2, <2>3, <1>3 DEF Begins
    <3> QED BY <3>1, <3>3, <2>1, NamedFacts
  <2>4. k \in Holders(var) => Named(e, var)
    <3>1. k \in Holders(var) => IsPrefix(w, e) BY DEF Holders, w, e
    <3> QED BY <3>1, <2>1, <2>3, <1>3, PrefixIsBeginning
  <2>5. ASSUME Named(e, var) PROVE k \in Holders(var)
    <3>1. Len(var) < Len(e) /\ Begins(e, var) BY <2>1, <2>5, NamedFacts
    <3>2. IsPrefix(var, e) /\ var # e BY <3>1, <2>1, <2>2, PrefixIsBeginning
    <3> QED BY <3>2 DEF IsStrictPrefix, Unmistakable, e
  <2> QED BY <2>4, <2>5 DEF e
<1>5. Holders(var) \subseteq DOMAIN given
  BY DEF Holders
<1> QED BY <1>4, <1>5

(* The first of them has the value.                                          *)
LEMMA GetenvFacts ==
  ASSUME given \in Envs, NEW var \in Seq(Char), Len(var) # 0
  PROVE  /\ Getenv(var) \in Seq(Char) \cup {Null}
         /\ Unmistakable(var) /\ (\A k \in DOMAIN given : ~Named(given[k], var)) => Getenv(var) = Null
         /\ Unmistakable(var) =>
              \A j \in DOMAIN given :
                Named(given[j], var) /\ (\A k \in 1 .. j - 1 : ~Named(given[k], var)) =>
                  Getenv(var) = ValueOf(given[j], var)
<1> DEFINE H == Holders(var)
<1>1. DOMAIN given = 1 .. Len(given) /\ Len(given) \in Nat /\ \A k \in DOMAIN given : given[k] \in Seq(Char)
  BY GivenFacts
<1>2. H \subseteq DOMAIN given
  BY DEF Holders
<1>3. Getenv(var) = IF H = {} THEN Null ELSE ValueOf(given[Min(H)], var)
  BY DEF Getenv
<1>4. Unmistakable(var) => H = {k \in DOMAIN given : Named(given[k], var)}
  BY HoldersAreNamed
<1> HIDE DEF H
<1>5. ASSUME H # {} PROVE Min(H) \in H /\ \A y \in H : Min(H) <= y
  <2>1. \E x \in H : \A y \in H : x <= y
    <3>1. H \subseteq Nat BY <1>1, <1>2
    <3> QED BY <3>1, <1>5, SmallestExists
  <2> QED BY <2>1 DEF Min
<1>6. Getenv(var) \in Seq(Char) \cup {Null}
  <2>1. ASSUME NEW e \in Seq(Char) PROVE ValueOf(e, var) \in Seq(Char)
    <3>1. Len(var) \in Nat /\ Len(e) \in Nat OBVIOUS
    <3> QED BY <3>1 DEF ValueOf
  <2>2. H # {} => given[Min(H)] \in Seq(Char) BY <1>1, <1>2, <1>5
  <2> QED BY <2>1, <2>2, <1>3
<1>7. ASSUME Unmistakable(var), \A k \in DOMAIN given : ~Named(given[k], var)
      PROVE  Getenv(var) = Null
  BY <1>3, <1>4, <1>7
<1>8. ASSUME Unmistakable(var), NEW j \in DOMAIN given, Named(given[j], var),
             \A k \in 1 .. j - 1 : ~Named(given[k], var)
      PROVE  Getenv(var) = ValueOf(given[j], var)
  <2>1. j \in H BY <1>4, <1>8
  <2>2. Min(H) \in H /\ Min(H) <= j /\ Named(given[Min(H)], var) BY <2>1, <1>4, <1>5, <1>8
  <2>3. Min(H) \in 1 .. Len(given) /\ j \in 1 .. Len(given) BY <2>2, <1>1, <1>2
  <2>4. Min(H) = j
    <3>1. Min(H) \notin 1 .. j - 1 BY <2>2, <1>8
    <3> QED BY <3>1, <2>2, <2>3
  <2> QED BY <2>1, <2>4, <1>3
<1> QED BY <1>6, <1>7, <1>8

-----------------------------------------------------------------------------

NbPaths == Len(Before) + Len(After)

(* What the walks along strings rely on: the string that is being cut and     *)
(* the rest of it are terminated, and strtok()'s position is one of them.    *)
StringInv ==
  /\ given \in Envs /\ env \in Seq(Seq(Char)) /\ Len(env) = Len(given)
  /\ pc \in {"preload", "tokens", "next", "env", "try", "exit", "done"}
  /\ i \in 1 .. Len(env) + 1
  /\ Block(buf) /\ Ends(buf, tok) /\ (save # Null => Ends(buf, save))
  /\ step \in 1 .. NbPaths + 2 /\ (pc \in {"env", "try"} => step <= NbPaths + 1)
  /\ found \in Seq(exists) /\ Len(found) <= Len(Libs)
  /\ pc # "done" => Len(found) < Len(Libs)

(* An entry of the environment is as it was given, or LD_PRELOAD's cut short. *)
KeptInv ==
  /\ pc = "preload" => env = given
  /\ EnvironmentKept

SearchInv == StringInv /\ KeptInv

LEMMA LengthFacts ==
  /\ Len(Before) \in Nat /\ Len(After) \in Nat /\ NbPaths \in Nat
  /\ Len(Libs) \in Nat /\ Len(Libs) > 0
  /\ \A k \in 1 .. Len(Before) : Before[k] \in Seq(Char)
  /\ \A k \in 1 .. Len(After) : After[k] \in Seq(Char)
<1>1. Before \in Seq(Seq(Char)) /\ After \in Seq(Seq(Char))
  BY PathAssumption
<1>2. Libs \in Seq(Seq(Char)) /\ Libs # <<>>
  BY PathAssumption
<1>3. Len(Before) \in Nat /\ Len(After) \in Nat /\ NbPaths \in Nat
  BY <1>1 DEF NbPaths
<1>4. Len(Libs) \in Nat /\ Len(Libs) > 0
  BY <1>2
<1>5. \A k \in 1 .. Len(Before) : Before[k] \in Seq(Char)
  BY <1>1
<1>6. \A k \in 1 .. Len(After) : After[k] \in Seq(Char)
  BY <1>1
<1> QED BY <1>3, <1>4, <1>5, <1>6

(* Cutting a terminated string leaves terminated ones.                        *)
LEMMA CutKeepsEnds ==
  ASSUME NEW b, Block(b), NEW p \in Nat, Ends(b, p), Cut(b, p)
  PROVE  Block(buf') /\ Ends(buf', tok') /\ (save' # Null => Ends(buf', save'))
<1>1. tok' = p /\ buf' = strtok_r(b, p).buf /\ save' = strtok_r(b, p).save
  BY DEF Cut
<1> QED BY <1>1, TokenFacts

LEMMA PositionsAreNat ==
  ASSUME StringInv
  PROVE  tok \in Nat /\ (save # Null => save \in Nat)
<1>1. \A p : Block(buf) /\ Ends(buf, p) => p \in Nat
  BY DEF Block, Ends
<1> QED BY <1>1 DEF StringInv

LEMMA SearchInvInit == Init => SearchInv
<1> SUFFICES ASSUME Init PROVE SearchInv
  OBVIOUS
<1>1. /\ given \in Envs /\ env = given /\ pc = "preload" /\ i = 1 /\ step = 1
      /\ buf = Bytes(<<>>) /\ tok = 0 /\ save = Null /\ found = <<>>
  BY DEF Init
<1>2. env \in Seq(Seq(Char)) /\ Len(env) \in Nat
  <2>1. env \in Seq(Seq(Char)) BY <1>1, PathAssumption
  <2> QED BY <2>1
<1>3. Block(buf) /\ Ends(buf, tok)
  <2>1. <<>> \in Seq(Char) OBVIOUS
  <2> QED BY <1>1, <2>1, BytesEnd
<1>4. found \in Seq(exists) /\ Len(found) = 0
  <2>1. <<>> \in Seq(exists) /\ Len(<<>>) = 0 OBVIOUS
  <2> QED BY <1>1, <2>1
<1>5. StringInv
  BY <1>1, <1>2, <1>3, <1>4, LengthFacts DEF StringInv
<1>6. KeptInv
  BY <1>1 DEF KeptInv, EnvironmentKept
<1> QED BY <1>5, <1>6 DEF SearchInv

(* A path begins at its first field, whether it is cut where it is or copied. *)
LEMMA BytesHold ==
  ASSUME NEW s \in Seq(Char)
  PROVE  Holds(Bytes(s), 0, s) /\ 0 \in Bounds(s) /\ Rank(s, 0) = 0
<1>1. Len(s) \in Nat
  OBVIOUS
<1>2. Block(Bytes(s)) /\ DOMAIN Bytes(s) = 0 .. Len(s)
  BY BytesEnd
<1>3. Bytes(s)[Len(s)] = NUL /\ \A k \in 0 .. Len(s) - 1 : Bytes(s)[k] = s[k + 1]
  BY <1>1 DEF Bytes
<1>4. Len(s) \in 0 .. Len(s) /\ 0 \in 0 .. Len(s)
  BY <1>1
<1> QED BY <1>2, <1>3, <1>4, BoundsFacts, RankFacts DEF Holds

(* The token is a field.                                                     *)
LEMMA TokenIsField ==
  ASSUME NEW s \in Seq(Char), NEW b, NEW tk, NEW sv, TokenIs(b, tk, sv, s)
  PROVE  /\ Rank(s, tk) \in Nat /\ Rank(s, tk) + 1 \in DOMAIN Fields(s)
         /\ Text(b, tk) = Fields(s)[Rank(s, tk) + 1] /\ Text(b, tk) \in Seq(Char)
         /\ sv = Null => DOMAIN Fields(s) = 1 .. Rank(s, tk) + 1
<1>1. /\ tk \in Bounds(s) /\ tk <= Len(s) /\ Text(b, tk) = SubSeq(s, tk + 1, Follow(s, tk) - 1)
      /\ sv = Null => Follow(s, tk) = Len(s) + 1
  BY DEF TokenIs
<1>2. Text(b, tk) \in Seq(Char)
  <2> DEFINE f == Follow(s, tk) - 1
  <2>1. tk \in Nat /\ f \in Int /\ f <= Len(s) /\ Len(s) \in Nat
    BY <1>1, FollowFacts, BoundsFacts
  <2> HIDE DEF f
  <2>2. \A x \in tk + 1 .. f : s[x] \in Char BY <2>1
  <2>3. SubSeq(s, tk + 1, f) \in Seq(Char) BY <2>1, <2>2, SubSeqProperties
  <2> QED BY <2>3, <1>1 DEF f
<1> QED BY <1>1, <1>2, FieldAt, RankFacts

(* The first cut of LD_PRELOAD leaves the first field of its value.          *)
LEMMA CutEntry ==
  ASSUME NEW entry \in Seq(Char), Named(entry, PRELOAD),
         NEW token, token = Text(strtok_r(Bytes(ValueOf(entry, PRELOAD)), 0).buf, 0)
  PROVE  /\ token = Fields(ValueOf(entry, PRELOAD))[1]
         /\ SubSeq(entry, 1, Len(PRELOAD) + 1) \o token \in Seq(Char)
<1> DEFINE v == ValueOf(entry, PRELOAD)
           r == strtok_r(Bytes(v), 0)
<1>1. Len(PRELOAD) \in Nat /\ Len(entry) \in Nat /\ Len(PRELOAD) + 1 <= Len(entry)
  BY PathAssumption DEF Named
<1>2. v \in Seq(Char)
  BY <1>1 DEF ValueOf
<1> HIDE DEF v
<1>3. TokenIs(r.buf, 0, r.save, v) /\ Rank(v, 0) = 0
  BY <1>2, BytesHold, TokenCut
<1>4. token = Fields(v)[0 + 1] /\ token \in Seq(Char)
  <2> HIDE DEF r
  <2> QED BY <1>2, <1>3, TokenIsField DEF r, v
<1>5. SubSeq(entry, 1, Len(PRELOAD) + 1) \in Seq(Char)
  BY <1>1
<1>6. 0 + 1 = 1
  OBVIOUS
<1> QED BY <1>4, <1>5, <1>6, ConcatProperties DEF v

(* test(): a copy of a string of the environment or of a DT_RPATH is cut.    *)
LEMMA StartPathEnds ==
  ASSUME NEW path \in Seq(Char), StartPath(path)
  PROVE  /\ Block(buf') /\ Ends(buf', tok') /\ (save' # Null => Ends(buf', save'))
         /\ pc' = "try" /\ env' = env
<1>1. PICK g \in Garbage, h \in Heads : Cut(Placed(strdup(path, g), h), 0)
  BY DEF StartPath
<1>2. Block(Placed(strdup(path, g), h)) /\ Ends(Placed(strdup(path, g), h), 0)
  BY CopyEnds
<1>3. Block(buf') /\ Ends(buf', tok') /\ (save' # Null => Ends(buf', save'))
  BY <1>1, <1>2, CutKeepsEnds
<1> QED BY <1>3 DEF StartPath

(* The rest of the string that is being cut.                                 *)
LEMMA NextTokenEnds ==
  ASSUME StringInv, save # Null, Cut(buf, save)
  PROVE  Block(buf') /\ Ends(buf', tok') /\ (save' # Null => Ends(buf', save'))
<1>1. Block(buf) /\ Ends(buf, save) /\ save \in Nat
  BY PositionsAreNat DEF StringInv
<1> QED BY <1>1, CutKeepsEnds

LEMMA SearchInvNext == SearchInv /\ [Next]_vars => SearchInv'
<1> SUFFICES ASSUME SearchInv, [Next]_vars PROVE SearchInv'
  OBVIOUS
<1>1. StringInv /\ KeptInv
  BY DEF SearchInv
<1>2. /\ given \in Envs /\ env \in Seq(Seq(Char)) /\ Len(env) = Len(given) /\ Len(env) \in Nat
      /\ i \in 1 .. Len(env) + 1 /\ found \in Seq(exists)
      /\ step \in 1 .. NbPaths + 2 /\ Len(found) <= Len(Libs) /\ Len(found) \in Nat
      /\ pc # "done" => Len(found) < Len(Libs)
  BY <1>1 DEF StringInv
<1>3. Block(buf) /\ Ends(buf, tok) /\ (save # Null => Ends(buf, save))
  BY <1>1 DEF StringInv
<1> DEFINE Cutting == Block(buf') /\ Ends(buf', tok') /\ (save' # Null => Ends(buf', save'))
<1>4. UNCHANGED <<buf, tok, save>> => Cutting
  BY <1>3
<1>5. ASSUME UNCHANGED <<given, env, exists>>, pc' # "preload" \/ pc' = pc,
             pc' \in {"preload", "tokens", "next", "env", "try", "exit", "done"},
             i' \in 1 .. Len(env) + 1, Cutting,
             step' \in 1 .. NbPaths + 2, pc' \in {"env", "try"} => step' <= NbPaths + 1,
             found' \in Seq(exists) /\ Len(found') <= Len(Libs),
             pc' # "done" => Len(found') < Len(Libs)
      PROVE  SearchInv'
  <2>1. StringInv'
    BY <1>2, <1>5 DEF StringInv
  <2>2. KeptInv'
    BY <1>1, <1>5 DEF KeptInv, EnvironmentKept
  <2> QED BY <2>1, <2>2 DEF SearchInv
<1> HIDE DEF Cutting
<1>6. ASSUME NEW var, PassEntry(var) PROVE i' \in 1 .. Len(env) + 1
  BY <1>2, <1>6 DEF PassEntry
<1>7. CASE PreloadEntry
  BY <1>2, <1>4, <1>5, <1>6, <1>7 DEF PreloadEntry, PassEntry
<1>8. CASE NoPreload
  BY <1>2, <1>4, <1>5, <1>8 DEF NoPreload
<1>9. CASE CutPreload
  <2> DEFINE entry == env[i]
             cut == SubSeq(entry, 1, Len(PRELOAD) + 1)
                      \o Text(strtok_r(Bytes(ValueOf(entry, PRELOAD)), 0).buf, 0)
  <2>1. /\ pc = "preload" /\ i <= Len(env) /\ Named(entry, PRELOAD)
        /\ Cut(Bytes(ValueOf(entry, PRELOAD)), 0)
        /\ env' = [env EXCEPT ![i] = cut]
        /\ pc' = "tokens" /\ UNCHANGED <<given, exists, i, entries, step, found>>
    BY <1>9 DEF CutPreload
  <2>2. i \in 1 .. Len(env) /\ entry \in Seq(Char) /\ env = given
    BY <1>1, <1>2, <2>1 DEF KeptInv
  <2>3. /\ cut \in Seq(Char)
        /\ cut = SubSeq(entry, 1, Len(PRELOAD) + 1) \o Fields(ValueOf(entry, PRELOAD))[1]
    <3> HIDE DEF entry
    <3> QED BY <2>1, <2>2, CutEntry
  <2>4. Cutting
    <3>1. ValueOf(entry, PRELOAD) \in Seq(Char)
      <4>1. Len(PRELOAD) \in Nat /\ Len(entry) \in Nat BY <2>2, PathAssumption
      <4> HIDE DEF entry
      <4> QED BY <2>2, <4>1 DEF ValueOf
    <3>2. Block(Bytes(ValueOf(entry, PRELOAD))) /\ Ends(Bytes(ValueOf(entry, PRELOAD)), 0)
      BY <3>1, BytesEnd
    <3> HIDE DEF entry
    <3> QED BY <2>1, <3>2, CutKeepsEnds DEF Cutting
  <2> HIDE DEF cut
  <2>5. env' \in Seq(Seq(Char)) /\ Len(env') = Len(env)
        /\ \A k \in DOMAIN env' : env'[k] = IF k = i THEN cut ELSE given[k]
    BY <1>2, <2>1, <2>2, <2>3
  <2>6. StringInv'
    BY <1>2, <2>1, <2>4, <2>5 DEF StringInv, Cutting
  <2>7. \A k \in DOMAIN env' :
          \/ env'[k] = given[k]
          \/ /\ Named(given[k], PRELOAD)
             /\ env'[k] = SubSeq(given[k], 1, Len(PRELOAD) + 1) \o Fields(ValueOf(given[k], PRELOAD))[1]
    BY <2>1, <2>2, <2>3, <2>5
  <2>8. KeptInv'
    BY <2>1, <2>7 DEF KeptInv, EnvironmentKept
  <2> QED BY <2>6, <2>8 DEF SearchInv
<1>10. CASE PreloadToken
  <2>1. Cutting
    BY <1>1, <1>4, <1>10, NextTokenEnds DEF PreloadToken, Cutting
  <2>2. pc' \in {"tokens", "next"} /\ pc = "tokens" /\ UNCHANGED <<given, env, exists, i, step, found>>
    BY <1>10 DEF PreloadToken
  <2> QED BY <1>2, <1>5, <2>1, <2>2
<1>11. CASE NextPath
  <2>0. pc = "next" /\ UNCHANGED <<given, exists, entries, step, found>>
    BY <1>11 DEF NextPath
  <2>1. CASE step <= Len(Before)
    <3>1. Before[step] \in Seq(Char) BY <2>1, <1>2, LengthFacts
    <3>2. StartPath(Before[step]) /\ UNCHANGED i BY <1>11, <2>1 DEF NextPath
    <3>3. Cutting /\ pc' = "try" /\ env' = env BY <3>1, <3>2, StartPathEnds DEF Cutting
    <3>4. step <= NbPaths + 1 BY <1>2, <2>1, LengthFacts DEF NbPaths
    <3> QED BY <1>2, <1>5, <2>0, <3>2, <3>3, <3>4
  <2>2. CASE step = Len(Before) + 1
    <3>1. ~(step <= Len(Before)) BY <2>2, LengthFacts
    <3>2. ~(step \in Len(Before) + 2 .. Len(Before) + 1 + Len(After)) BY <2>2, LengthFacts
    <3>3. pc' = "env" /\ i' = 1 /\ UNCHANGED <<env, buf, tok, save>>
      BY <1>11, <2>2, <3>1, <3>2 DEF NextPath
    <3>4. step <= NbPaths + 1 BY <2>2, LengthFacts DEF NbPaths
    <3>5. 1 \in 1 .. Len(env) + 1 BY <1>2
    <3> QED BY <1>2, <1>4, <1>5, <2>0, <3>3, <3>4, <3>5
  <2>3. CASE step \in Len(Before) + 2 .. Len(Before) + 1 + Len(After)
    <3> DEFINE k == step - Len(Before) - 1
    <3>1. ~(step <= Len(Before)) /\ step # Len(Before) + 1 BY <2>3, LengthFacts
    <3>2. k \in 1 .. Len(After) BY <2>3, <1>2, LengthFacts
    <3>3. After[k] \in Seq(Char) BY <3>2, LengthFacts
    <3>4. StartPath(After[k]) /\ UNCHANGED i BY <1>11, <2>3, <3>1 DEF NextPath
    <3> HIDE DEF k
    <3>5. Cutting /\ pc' = "try" /\ env' = env BY <3>3, <3>4, StartPathEnds DEF Cutting
    <3>6. step <= NbPaths + 1 BY <2>3, <1>2, LengthFacts DEF NbPaths
    <3> QED BY <1>2, <1>5, <2>0, <3>4, <3>5, <3>6
  <2>4. CASE /\ ~(step <= Len(Before)) /\ step # Len(Before) + 1
             /\ step \notin Len(Before) + 2 .. Len(Before) + 1 + Len(After)
    <3>1. pc' = "exit" /\ UNCHANGED <<env, i, buf, tok, save>>
      BY <1>11, <2>4 DEF NextPath
    <3> QED BY <1>2, <1>4, <1>5, <2>0, <3>1
  <2> QED BY <2>1, <2>2, <2>3, <2>4
<1>12. CASE LibraryPathEntry
  <2>1. i' \in 1 .. Len(env) + 1 BY <1>6, <1>12 DEF LibraryPathEntry
  <2>2. step <= NbPaths + 1 BY <1>1, <1>12 DEF LibraryPathEntry, StringInv
  <2> QED BY <1>2, <1>4, <1>5, <1>12, <2>1, <2>2 DEF LibraryPathEntry, PassEntry
<1>13. CASE NoLibraryPath
  <2>1. step <= NbPaths + 1 BY <1>1, <1>13 DEF NoLibraryPath, StringInv
  <2>2. step + 1 \in 1 .. NbPaths + 2 BY <2>1, <1>2, LengthFacts
  <2> QED BY <1>2, <1>4, <1>5, <1>13, <2>2 DEF NoLibraryPath
<1>14. CASE FindLibraryPath
  <2>1. /\ pc = "env" /\ i <= Len(env) /\ StartPath(ValueOf(env[i], LIBRARY_PATH))
        /\ UNCHANGED <<given, exists, i, entries, step, found>>
    BY <1>14 DEF FindLibraryPath, TestVariable
  <2>2. ValueOf(env[i], LIBRARY_PATH) \in Seq(Char)
    <3>1. env[i] \in Seq(Char) BY <1>2, <2>1
    <3>2. Len(LIBRARY_PATH) \in Nat BY PathAssumption
    <3>3. Len(env[i]) \in Nat BY <3>1
    <3> QED BY <3>1, <3>2, <3>3 DEF ValueOf
  <2>3. Cutting /\ pc' = "try" /\ env' = env
    BY <2>1, <2>2, StartPathEnds DEF Cutting
  <2>4. step <= NbPaths + 1 BY <1>1, <2>1 DEF StringInv
  <2> QED BY <1>2, <1>5, <2>1, <2>3, <2>4
<1>15. CASE Hit
  <2>1. /\ pc = "try" /\ Candidate \in exists /\ found' = Append(found, Candidate) /\ step' = 1
        /\ pc' = IF Len(found) + 1 = Len(Libs) THEN "done" ELSE "next"
        /\ UNCHANGED <<given, env, exists, i, buf, tok, save, entries>>
    BY <1>15 DEF Hit
  <2>2. found' \in Seq(exists) /\ Len(found') = Len(found) + 1
    BY <1>2, <2>1
  <2>3. Len(found) < Len(Libs) BY <1>2, <2>1
  <2>4. Len(found') <= Len(Libs) /\ (pc' # "done" => Len(found') < Len(Libs))
    BY <1>2, <2>1, <2>2, <2>3, LengthFacts
  <2>5. 1 \in 1 .. NbPaths + 2 BY LengthFacts
  <2> QED BY <1>2, <1>4, <1>5, <2>1, <2>2, <2>4, <2>5
<1>16. CASE Miss
  <2>1. pc = "try" /\ UNCHANGED <<given, env, exists, i, entries, found>>
    BY <1>16 DEF Miss
  <2>2. step <= NbPaths + 1 BY <1>1, <2>1 DEF StringInv
  <2>3. CASE save = Null
    <3>1. step' = step + 1 /\ pc' = "next" /\ UNCHANGED <<buf, tok, save>>
      BY <1>16, <2>3 DEF Miss
    <3>2. step + 1 \in 1 .. NbPaths + 2 BY <2>2, <1>2, LengthFacts
    <3> QED BY <1>2, <1>4, <1>5, <2>1, <3>1, <3>2
  <2>4. CASE save # Null
    <3>1. Cut(buf, save) /\ UNCHANGED <<step, pc>>
      BY <1>16, <2>4 DEF Miss
    <3>2. Cutting BY <1>1, <2>4, <3>1, NextTokenEnds DEF Cutting
    <3> QED BY <1>2, <1>5, <2>1, <2>2, <3>1, <3>2
  <2> QED BY <2>3, <2>4
<1>17. CASE UNCHANGED vars
  <2>1. pc \in {"env", "try"} => step <= NbPaths + 1 BY <1>1 DEF StringInv
  <2>2. pc \in {"preload", "tokens", "next", "env", "try", "exit", "done"} BY <1>1 DEF StringInv
  <2> QED BY <1>2, <1>4, <1>5, <1>17, <2>1, <2>2 DEF vars
<1> QED BY <1>7, <1>8, <1>9, <1>10, <1>11, <1>12, <1>13, <1>14, <1>15, <1>16, <1>17 DEF Next

LEMMA SearchInvariant == Spec => []SearchInv
<1> QED BY SearchInvInit, SearchInvNext, PTL DEF Spec

-----------------------------------------------------------------------------
(* Where copies end.                                                         *)

(* The copy of a path that is not empty ends in front of the head behind it.  *)
InBlock == EndsBefore(tok, HEAD) /\ (save # Null => EndsBefore(save, HEAD))

BlockInv ==
  /\ pc = "env" => step = Len(Before) + 1
  /\ pc = "try" => (Copied # <<>> => InBlock)

LEMMA StartInBlock ==
  ASSUME NEW path \in Seq(Char) \ {<<>>}, StartPath(path)
  PROVE  InBlock'
<1>1. PICK g \in Garbage, h \in Heads : Cut(Placed(strdup(path, g), h), 0)
  BY DEF StartPath
<1> DEFINE b == Placed(strdup(path, g), h)
           r == strtok_r(b, 0)
           z == Len(path)
<1>2. Block(b) /\ Ends(b, 0) /\ z \in DOMAIN b /\ b[z] = NUL /\ z + HEAD \in DOMAIN b /\ z >= 0
  BY CopyEnds
<1>3. tok' = 0 /\ buf' = r.buf /\ save' = r.save
  BY <1>1 DEF Cut
<1> HIDE DEF b, z
<1>4. DOMAIN r.buf = DOMAIN b /\ r.buf[z] = NUL /\ (r.save # Null => z >= r.save)
  BY <1>2, TokenFacts
<1> QED BY <1>2, <1>3, <1>4 DEF InBlock, EndsBefore

LEMMA NextInBlock ==
  ASSUME StringInv, InBlock, save # Null, Cut(buf, save)
  PROVE  InBlock'
<1> DEFINE r == strtok_r(buf, save)
<1>1. Block(buf) /\ Ends(buf, save) /\ save \in Nat
  BY PositionsAreNat DEF StringInv
<1>2. PICK z \in DOMAIN buf : z >= save /\ buf[z] = NUL /\ z + HEAD \in DOMAIN buf
  BY DEF InBlock, EndsBefore
<1>3. tok' = save /\ buf' = r.buf /\ save' = r.save
  BY DEF Cut
<1>4. DOMAIN r.buf = DOMAIN buf /\ r.buf[z] = NUL /\ (r.save # Null => z >= r.save)
  BY <1>1, <1>2, TokenFacts
<1> QED BY <1>2, <1>3, <1>4 DEF InBlock, EndsBefore

LEMMA BlockInvInit == Init => BlockInv
BY DEF Init, BlockInv

LEMMA BlockInvNext == SearchInv /\ BlockInv /\ [Next]_vars => BlockInv'
<1> SUFFICES ASSUME SearchInv, BlockInv, [Next]_vars PROVE BlockInv'
  OBVIOUS
<1>1. StringInv
  BY DEF SearchInv
<1>2. /\ Len(Before) \in Nat /\ Len(After) \in Nat /\ step \in Nat
  BY <1>1, LengthFacts DEF StringInv
<1>3. ASSUME pc' \notin {"env", "try"} PROVE BlockInv'
  BY <1>3 DEF BlockInv
<1>4. ASSUME UNCHANGED <<env, i, buf, tok, save, step, pc>> PROVE BlockInv'
  BY <1>4 DEF BlockInv, Copied, InBlock, EndsBefore
<1>5. ASSUME NEW path \in Seq(Char), StartPath(path), Copied' = path PROVE BlockInv'
  <2>1. pc' = "try" BY <1>5 DEF StartPath
  <2>2. path # <<>> => InBlock' BY <1>5, StartInBlock
  <2> QED BY <2>1, <2>2, <1>5 DEF BlockInv
<1>6. CASE PreloadEntry BY <1>3, <1>6 DEF PreloadEntry, PassEntry
<1>7. CASE NoPreload BY <1>3, <1>7 DEF NoPreload
<1>8. CASE CutPreload BY <1>3, <1>8 DEF CutPreload
<1>9. CASE PreloadToken BY <1>3, <1>9 DEF PreloadToken
<1>10. CASE NextPath
  <2>0. step' = step
    BY <1>10 DEF NextPath
  <2>1. CASE step <= Len(Before)
    <3>1. StartPath(Before[step]) BY <1>10, <2>1 DEF NextPath
    <3>2. step \in 1 .. Len(Before) BY <1>1, <1>2, <2>1 DEF StringInv
    <3>3. Copied' = Before[step] BY <2>0, <2>1 DEF Copied
    <3> QED BY <3>1, <3>2, <3>3, <1>5, LengthFacts
  <2>2. CASE step = Len(Before) + 1
    <3>1. ~(step <= Len(Before)) /\ step \notin Len(Before) + 2 .. Len(Before) + 1 + Len(After)
      BY <2>2, <1>2
    <3>2. pc' = "env" BY <1>10, <2>2, <3>1 DEF NextPath
    <3> QED BY <3>2, <2>0, <2>2 DEF BlockInv
  <2>3. CASE step \in Len(Before) + 2 .. Len(Before) + 1 + Len(After)
    <3> DEFINE k == step - Len(Before) - 1
    <3>1. ~(step <= Len(Before)) /\ step # Len(Before) + 1 /\ k \in 1 .. Len(After) BY <2>3, <1>2
    <3>2. StartPath(After[k]) BY <1>10, <2>3, <3>1 DEF NextPath
    <3>3. Copied' = After[k] BY <2>0, <3>1 DEF Copied
    <3> HIDE DEF k
    <3> QED BY <3>1, <3>2, <3>3, <1>5, LengthFacts
  <2>4. CASE /\ ~(step <= Len(Before)) /\ step # Len(Before) + 1
             /\ step \notin Len(Before) + 2 .. Len(Before) + 1 + Len(After)
    <3>1. pc' = "exit" BY <1>10, <2>4 DEF NextPath
    <3> QED BY <3>1, <1>3
  <2> QED BY <2>1, <2>2, <2>3, <2>4
<1>11. CASE LibraryPathEntry
  <2>1. pc = "env" /\ pc' = "env" /\ step' = step BY <1>11 DEF LibraryPathEntry, PassEntry
  <2> QED BY <2>1 DEF BlockInv
<1>12. CASE NoLibraryPath BY <1>3, <1>12 DEF NoLibraryPath
<1>13. CASE FindLibraryPath
  <2> DEFINE path == ValueOf(env[i], LIBRARY_PATH)
  <2>1. pc = "env" /\ i <= Len(env) /\ StartPath(path) /\ env' = env /\ UNCHANGED <<i, step>>
    BY <1>13 DEF FindLibraryPath, TestVariable, StartPath
  <2>2. path \in Seq(Char)
    <3>1. env[i] \in Seq(Char)
      <4>1. env \in Seq(Seq(Char)) /\ i \in 1 .. Len(env) + 1 BY <1>1 DEF StringInv
      <4> QED BY <4>1, <2>1
    <3>2. Len(LIBRARY_PATH) \in Nat /\ Len(env[i]) \in Nat BY <3>1, PathAssumption
    <3> QED BY <3>1, <3>2 DEF ValueOf
  <2>3. step = Len(Before) + 1 /\ ~(step <= Len(Before)) BY <2>1, <1>2 DEF BlockInv
  <2>4. Copied' = path BY <2>1, <2>3 DEF Copied
  <2> HIDE DEF path
  <2> QED BY <2>1, <2>2, <2>4, <1>5
<1>14. CASE Hit BY <1>3, <1>14 DEF Hit
<1>15. CASE Miss
  <2>1. pc = "try" /\ UNCHANGED <<env, i>> BY <1>15 DEF Miss
  <2>2. CASE save = Null BY <1>3, <1>15, <2>2 DEF Miss
  <2>3. CASE save # Null
    <3>1. Cut(buf, save) /\ step' = step /\ pc' = "try" BY <1>15, <2>1, <2>3 DEF Miss
    <3>2. Copied' = Copied BY <2>1, <3>1 DEF Copied
    <3>3. Copied # <<>> => InBlock' BY <2>1, <2>3, <3>1, <1>1, NextInBlock DEF BlockInv
    <3> QED BY <3>1, <3>2, <3>3 DEF BlockInv
  <2> QED BY <2>2, <2>3
<1>16. CASE UNCHANGED vars BY <1>4, <1>16 DEF vars
<1> QED BY <1>6, <1>7, <1>8, <1>9, <1>10, <1>11, <1>12, <1>13, <1>14, <1>15, <1>16 DEF Next

LEMMA BlockInvariant == Spec => [](SearchInv /\ BlockInv)
<1> QED BY SearchInvInit, SearchInvNext, BlockInvInit, BlockInvNext, PTL DEF Spec

-----------------------------------------------------------------------------
(* What was read of LD_PRELOAD, and what was searched.                      *)

(* entries are the fields of v before the one at tok.                        *)
FieldsRead(v) ==
  /\ Len(entries) = Rank(v, tok)
  /\ \A j \in 1 .. Len(entries) : j \in DOMAIN Fields(v) /\ entries[j] = Fields(v)[j]

(* The first entry with LD_PRELOAD's name is cut, and nothing else is.        *)
PreloadInv ==
  /\ entries \in Seq(Seq(Char))
  /\ pc = "preload" => entries = <<>>
  /\ pc \in {"preload", "tokens"} => \A k \in 1 .. i - 1 : ~Named(given[k], PRELOAD)
  /\ pc = "tokens" =>
       /\ i \in DOMAIN given /\ Named(given[i], PRELOAD)
       /\ TokenIs(buf, tok, save, ValueOf(given[i], PRELOAD))
       /\ FieldsRead(ValueOf(given[i], PRELOAD))
  /\ PreloadIsFields
  /\ \A k \in DOMAIN env :
       env[k] = given[k] \/ (Begins(given[k], PRELOAD) /\ Begins(env[k], PRELOAD))

Ordinary == Unmistakable(LIBRARY_PATH) /\ \A k \in DOMAIN Paths : Paths[k] # <<>>

Name == Libs[Len(found) + 1]

(* found[n] is at the first of the places where Libs[n] is.                  *)
FirstOf(n) ==
  \E p \in Places :
    /\ found[n] = File(p, Libs[n]) /\ found[n] \in exists
    /\ \A q \in Places : Precedes(q, p) => File(q, Libs[n]) \notin exists

(* The library is at none of the places that have been searched for it.      *)
SearchedInv ==
  /\ pc \in {"preload", "tokens"} => step = 1
  /\ Ordinary =>
       /\ \A n \in DOMAIN found : FirstOf(n)
       /\ pc # "done" => \A p \in Places : p[1] < step => File(p, Name) \notin exists
       /\ pc = "env" =>
            step = Len(Before) + 1 /\ \A k \in 1 .. i - 1 : ~Named(given[k], LIBRARY_PATH)
       /\ pc = "try" =>
            /\ Paths[step] \in Seq(Char) \ {<<>>}
            /\ TokenIs(buf, tok, save, Paths[step])
            /\ \A p \in Places :
                 p[1] = step /\ p[2] <= Rank(Paths[step], tok) => File(p, Name) \notin exists
       /\ pc = "exit" => step = Len(Before) + Len(After) + 2

LEMMA SearchKeeps ==
  ASSUME given' = given
  PROVE  /\ Paths' = Paths /\ Places' = Places /\ Ordinary' = Ordinary
         /\ \A p, name : File(p, name)' = File(p, name)
         /\ \A var : Getenv(var)' = Getenv(var) /\ Unmistakable(var)' = Unmistakable(var)
<1>1. \A var : Getenv(var)' = Getenv(var) /\ Unmistakable(var)' = Unmistakable(var)
  BY DEF Getenv, Unmistakable, Holders
<1>2. Getenv(LIBRARY_PATH)' = Getenv(LIBRARY_PATH) /\ Unmistakable(LIBRARY_PATH)' = Unmistakable(LIBRARY_PATH)
  BY DEF Getenv, Unmistakable, Holders
<1>3. Paths' = Paths
  BY <1>2 DEF Paths
<1>4. Places' = Places /\ Ordinary' = Ordinary
  BY <1>2, <1>3 DEF Places, Ordinary
<1>5. \A p, name : File(p, name)' = File(p, name)
  BY <1>3 DEF File
<1> QED BY <1>1, <1>3, <1>4, <1>5

LEMMA PathFacts ==
  ASSUME given \in Envs
  PROVE  /\ DOMAIN Paths = 1 .. NbPaths + 1
         /\ \A k \in 1 .. Len(Before) : Paths[k] = Before[k] /\ Paths[k] \in Seq(Char)
         /\ Paths[Len(Before) + 1] = Getenv(LIBRARY_PATH)
         /\ \A k \in Len(Before) + 2 .. NbPaths + 1 :
              Paths[k] = After[k - Len(Before) - 1] /\ Paths[k] \in Seq(Char)
         /\ Getenv(LIBRARY_PATH) \in Seq(Char) \cup {Null}
<1> DEFINE G == Getenv(LIBRARY_PATH)
           C == Seq(Char) \cup {Null}
           LB == Len(Before)
           left == Before \o <<G>>
<1>1. G \in C
  BY GetenvFacts, NamesApart
<1>2. Before \in Seq(Seq(Char)) /\ After \in Seq(Seq(Char))
  BY PathAssumption
<1>3. /\ LB \in Nat /\ Len(After) \in Nat
      /\ \A k \in 1 .. LB : Before[k] \in Seq(Char)
      /\ \A k \in 1 .. Len(After) : After[k] \in Seq(Char)
  BY <1>2
<1>4. Before \in Seq(C) /\ After \in Seq(C)
  BY <1>2, SeqMonotonic
<1>5. <<G>> \in Seq(C) /\ Len(<<G>>) = 1 /\ <<G>>[1] = G
  <2> HIDE DEF G, C
  <2> QED BY <1>1
<1> HIDE DEF C, G
<1>6. /\ left \in Seq(C) /\ Len(left) = LB + 1
      /\ \A k \in 1 .. LB + 1 : left[k] = IF k <= LB THEN Before[k] ELSE <<G>>[k - LB]
  BY <1>4, <1>5, ConcatProperties
<1>7. (LB + 1) - LB = 1 /\ ~(LB + 1 <= LB) /\ LB + 1 \in 1 .. LB + 1 /\ \A k \in 1 .. LB : k \in 1 .. LB + 1 /\ k <= LB
  BY <1>3
<1>8. left[LB + 1] = G /\ \A k \in 1 .. LB : left[k] = Before[k]
  <2> HIDE DEF left, LB
  <2> QED BY <1>5, <1>6, <1>7
<1>9. Paths = left \o After
  BY DEF Paths, G
<1> HIDE DEF left
<1>10. /\ Paths \in Seq(C) /\ Len(Paths) = LB + 1 + Len(After)
       /\ \A k \in 1 .. LB + 1 + Len(After) : Paths[k] = IF k <= LB + 1 THEN left[k] ELSE After[k - (LB + 1)]
  <2> HIDE DEF LB
  <2>1. /\ left \o After \in Seq(C) /\ Len(left \o After) = Len(left) + Len(After)
        /\ \A k \in 1 .. Len(left) + Len(After) :
             (left \o After)[k] = IF k <= Len(left) THEN left[k] ELSE After[k - Len(left)]
    BY <1>4, <1>6, ConcatProperties
  <2> QED BY <2>1, <1>6, <1>9
<1>11. NbPaths + 1 = LB + 1 + Len(After)
  BY <1>3 DEF NbPaths
<1>12. DOMAIN Paths = 1 .. NbPaths + 1
  BY <1>10, <1>11
<1>13. ASSUME NEW k \in 1 .. LB PROVE Paths[k] = Before[k]
  <2>1. k \in 1 .. LB + 1 + Len(After) /\ k <= LB + 1 BY <1>3
  <2> QED BY <2>1, <1>8, <1>10
<1>14. Paths[LB + 1] = G
  <2>1. LB + 1 \in 1 .. LB + 1 + Len(After) /\ LB + 1 <= LB + 1 BY <1>3
  <2> QED BY <2>1, <1>8, <1>10
<1>15. ASSUME NEW k \in LB + 2 .. NbPaths + 1
       PROVE  Paths[k] = After[k - LB - 1] /\ k - LB - 1 \in 1 .. Len(After)
  <2>1. /\ k \in 1 .. LB + 1 + Len(After) /\ ~(k <= LB + 1)
        /\ k - (LB + 1) = k - LB - 1 /\ k - LB - 1 \in 1 .. Len(After)
    BY <1>3, <1>11
  <2> HIDE DEF LB
  <2>2. Paths[k] = After[k - (LB + 1)] BY <2>1, <1>10
  <2> QED BY <2>1, <2>2
<1> QED BY <1>1, <1>3, <1>12, <1>13, <1>14, <1>15 DEF G, C

LEMMA PlaceFacts ==
  /\ \A k \in DOMAIN Paths : \A j \in DOMAIN Fields(Paths[k]) : Paths[k] # Null => <<k, j>> \in Places
  /\ \A p \in Places : /\ p[1] \in DOMAIN Paths /\ Paths[p[1]] # Null
                       /\ p[2] \in DOMAIN Fields(Paths[p[1]]) /\ p = <<p[1], p[2]>>
<1>1. ASSUME NEW k \in DOMAIN Paths, NEW j \in DOMAIN Fields(Paths[k]), Paths[k] # Null
      PROVE  <<k, j>> \in Places
  <2>1. k \in {n \in DOMAIN Paths : Paths[n] # Null} BY <1>1
  <2> QED BY <2>1 DEF Places
<1>2. ASSUME NEW p \in Places
      PROVE  /\ p[1] \in DOMAIN Paths /\ Paths[p[1]] # Null
             /\ p[2] \in DOMAIN Fields(Paths[p[1]]) /\ p = <<p[1], p[2]>>
  <2>1. PICK k \in {n \in DOMAIN Paths : Paths[n] # Null} : p \in {<<k, j>> : j \in DOMAIN Fields(Paths[k])}
    BY DEF Places
  <2>2. PICK j \in DOMAIN Fields(Paths[k]) : p = <<k, j>> BY <2>1
  <2>3. p[1] = k /\ p[2] = j BY <2>2
  <2> QED BY <2>1, <2>2, <2>3
<1> QED BY <1>1, <1>2

(* So does its copy, unless it is empty.                                     *)
LEMMA CopyHolds ==
  ASSUME NEW s \in Seq(Char) \ {<<>>}, NEW g \in Garbage, NEW h \in Heads
  PROVE  Holds(Placed(strdup(s, g), h), 0, s)
<1>1. /\ Block(Placed(strdup(s, g), h)) /\ Len(s) \in DOMAIN Placed(strdup(s, g), h)
      /\ Placed(strdup(s, g), h)[Len(s)] = NUL
  BY CopyEnds
<1>2. \A k \in 0 .. Len(s) - 1 : Placed(strdup(s, g), h)[k] = s[k + 1]
  BY CopyIs
<1>3. 0 \in 0 .. Len(s)
  OBVIOUS
<1> QED BY <1>1, <1>2, <1>3 DEF Holds

LEMMA StartToken ==
  ASSUME NEW path \in Seq(Char) \ {<<>>}, StartPath(path)
  PROVE  TokenIs(buf', tok', save', path) /\ Rank(path, tok') = 0
<1>1. PICK g \in Garbage, h \in Heads : Cut(Placed(strdup(path, g), h), 0)
  BY DEF StartPath
<1> DEFINE b == Placed(strdup(path, g), h)
<1>2. Holds(b, 0, path) /\ 0 \in Bounds(path) /\ Rank(path, 0) = 0
  BY CopyHolds, BytesHold
<1>3. tok' = 0 /\ buf' = strtok_r(b, 0).buf /\ save' = strtok_r(b, 0).save
  BY <1>1 DEF Cut
<1> QED BY <1>2, <1>3, TokenCut

(* The next call of strtok() is at the next field.                           *)
LEMMA NextToken ==
  ASSUME NEW s \in Seq(Char), TokenIs(buf, tok, save, s), save # Null, Cut(buf, save)
  PROVE  TokenIs(buf', tok', save', s) /\ Rank(s, tok') = Rank(s, tok) + 1
<1>1. tok \in Bounds(s) /\ tok <= Len(s) /\ save = Follow(s, tok) /\ Holds(buf, save, s)
  BY DEF TokenIs
<1>2. save \in Bounds(s) /\ Rank(s, save) = Rank(s, tok) + 1
  BY <1>1, FollowFacts
<1>3. tok' = save /\ buf' = strtok_r(buf, save).buf /\ save' = strtok_r(buf, save).save
  BY DEF Cut
<1> QED BY <1>1, <1>2, <1>3, TokenCut

LEMMA CandidateIsFile ==
  ASSUME step \in DOMAIN Paths, Paths[step] \in Seq(Char), TokenIs(buf, tok, save, Paths[step])
  PROVE  /\ <<step, Rank(Paths[step], tok) + 1>> \in Places
         /\ Candidate = File(<<step, Rank(Paths[step], tok) + 1>>, Name)
<1> DEFINE j == Rank(Paths[step], tok) + 1
           dir == Fields(Paths[step])[j]
<1>1. j \in DOMAIN Fields(Paths[step]) /\ Text(buf, tok) = dir /\ dir \in Seq(Char)
  BY TokenIsField
<1>2. <<step, j>> \in Places
  <2>1. Paths[step] # Null BY PathAssumption
  <2> HIDE DEF j
  <2> QED BY <1>1, <2>1, PlaceFacts
<1>3. <<step, j>>[1] = step /\ <<step, j>>[2] = j
  OBVIOUS
<1> HIDE DEF j
<1>4. File(<<step, j>>, Name) = IF dir = <<>> \/ Last(dir) # "/" THEN dir \o <<"/">> \o Name ELSE dir \o Name
  BY <1>3 DEF File
<1>5. Candidate = dir \o (IF LastByte(dir) # "/" THEN <<"/">> ELSE <<>>) \o Name
  BY <1>1 DEF Candidate, concatenate, Name
<1> HIDE DEF dir
<1>6. dir \o <<>> = dir
  BY <1>1, ConcatEmptySeq
<1>7. LastByte(dir) # "/" <=> dir = <<>> \/ Last(dir) # "/"
  BY DEF LastByte, NUL
<1> QED BY <1>2, <1>4, <1>5, <1>6, <1>7 DEF j

(* LD_PRELOAD's cut has taken nothing from an entry with the other name.      *)
LEMMA LibraryPathKept ==
  ASSUME StringInv, PreloadInv, NEW k \in DOMAIN env
  PROVE  /\ Named(env[k], LIBRARY_PATH) <=> Named(given[k], LIBRARY_PATH)
         /\ Named(env[k], LIBRARY_PATH) => env[k] = given[k]
<1>1. env[k] \in Seq(Char) /\ given[k] \in Seq(Char)
  <2>1. env \in Seq(Seq(Char)) /\ Len(env) = Len(given) BY DEF StringInv
  <2>2. k \in DOMAIN given BY <2>1, GivenFacts DEF StringInv
  <2> QED BY <2>1, <2>2, GivenFacts DEF StringInv
<1>2. env[k] = given[k] \/ (Begins(given[k], PRELOAD) /\ Begins(env[k], PRELOAD))
  BY DEF PreloadInv
<1>3. \A e \in Seq(Char) : Named(e, LIBRARY_PATH) => ~Begins(e, PRELOAD)
  BY NamesApart, NamedFacts
<1> QED BY <1>1, <1>2, <1>3

LEMMA PreloadInvInit == Init => PreloadInv
<1> SUFFICES ASSUME Init PROVE PreloadInv
  OBVIOUS
<1>1. pc = "preload" /\ i = 1 /\ entries = <<>> /\ env = given
  BY DEF Init
<1>2. entries \in Seq(Seq(Char))
  BY <1>1, EmptySeq
<1> QED BY <1>1, <1>2 DEF PreloadInv, PreloadIsFields

(* The value of LD_PRELOAD, once its entry is found.                         *)
LEMMA PreloadValue ==
  ASSUME given \in Envs, NEW k \in DOMAIN given, Named(given[k], PRELOAD)
  PROVE  ValueOf(given[k], PRELOAD) \in Seq(Char)
<1>1. given[k] \in Seq(Char)
  BY GivenFacts
<1>2. Len(PRELOAD) \in Nat /\ Len(given[k]) \in Nat
  BY <1>1, NamesApart
<1> HIDE DEF Named
<1> QED BY <1>1, <1>2 DEF ValueOf

LEMMA CutPreloadKeeps ==
  ASSUME SearchInv, PreloadInv, CutPreload
  PROVE  PreloadInv'
<1> DEFINE v == ValueOf(given[i], PRELOAD)
           L == Len(PRELOAD)
           cut == SubSeq(given[i], 1, L + 1) \o Text(strtok_r(Bytes(v), 0).buf, 0)
<1>1. /\ given \in Envs /\ env = given /\ pc = "preload" /\ i \in DOMAIN given
      /\ i <= Len(given) /\ Named(given[i], PRELOAD)
  <2>1. given \in Envs /\ env = given /\ pc = "preload" /\ i <= Len(env) /\ i \in 1 .. Len(env) + 1
        /\ Named(env[i], PRELOAD)
    BY DEF SearchInv, StringInv, KeptInv, CutPreload
  <2> QED BY <2>1, GivenFacts
<1>2. /\ Cut(Bytes(v), 0) /\ env' = [given EXCEPT ![i] = cut] /\ pc' = "tokens"
      /\ UNCHANGED <<given, exists, i, entries, step, found>>
  BY <1>1 DEF CutPreload
<1>3. /\ entries = <<>> /\ \A k \in 1 .. i - 1 : ~Named(given[k], PRELOAD)
  BY <1>1 DEF PreloadInv
<1>4. v \in Seq(Char) /\ given[i] \in Seq(Char)
  BY <1>1, PreloadValue, GivenFacts
<1>5. tok' = 0 /\ buf' = strtok_r(Bytes(v), 0).buf /\ save' = strtok_r(Bytes(v), 0).save
  BY <1>2 DEF Cut
<1> HIDE DEF v
<1>6. TokenIs(buf', tok', save', v) /\ Rank(v, tok') = 0
  BY <1>4, <1>5, BytesHold, TokenCut
<1>7. Begins(given[i], PRELOAD) /\ Begins(cut, PRELOAD)
  <2> DEFINE head == SubSeq(given[i], 1, L + 1)
             text == Text(buf', 0)
  <2>1. L < Len(given[i]) /\ Begins(given[i], PRELOAD) /\ L \in Nat /\ Len(given[i]) \in Nat
    BY <1>1, <1>4, NamesApart, NamedFacts
  <2>2. head \in Seq(Char) /\ Len(head) = L + 1 /\ \A c \in 1 .. L + 1 : head[c] = given[i][c]
    BY <2>1, <1>4
  <2>3. text \in Seq(Char) BY <1>4, <1>5, <1>6, TokenIsField
  <2>4. cut = head \o text BY <1>5
  <2> HIDE DEF head, text, cut, L
  <2>5. /\ Len(cut) = Len(head) + Len(text) /\ Len(text) \in Nat
        /\ \A c \in 1 .. Len(head) + Len(text) : cut[c] = IF c <= Len(head) THEN head[c] ELSE text[c - Len(head)]
    <3>1. Len(text) \in Nat BY <2>3
    <3>2. head \in Seq(Char) BY <2>2
    <3>3. /\ Len(head \o text) = Len(head) + Len(text)
          /\ \A c \in 1 .. Len(head) + Len(text) :
               (head \o text)[c] = IF c <= Len(head) THEN head[c] ELSE text[c - Len(head)]
      BY <3>2, <2>3, ConcatProperties
    <3> QED BY <3>1, <3>3, <2>4
  <2>6. L <= Len(cut) BY <2>1, <2>2, <2>5
  <2>7. ASSUME NEW c \in 1 .. L PROVE cut[c] = PRELOAD[c]
    <3>1. c \in 1 .. L + 1 /\ c <= Len(head) /\ c \in 1 .. Len(head) + Len(text) BY <2>1, <2>2, <2>5
    <3>2. cut[c] = given[i][c] BY <3>1, <2>2, <2>5
    <3> QED BY <3>2, <2>1 DEF Begins, L
  <2> QED BY <2>1, <2>6, <2>7 DEF Begins, L
<1> HIDE DEF cut
<1>8. \A k \in DOMAIN env' :
        env'[k] = given[k] \/ (Begins(given[k], PRELOAD) /\ Begins(env'[k], PRELOAD))
  BY <1>1, <1>2, <1>7
<1>9. FieldsRead(v)'
  <2>1. Len(entries) = 0 /\ 1 .. 0 = {} BY <1>3
  <2>2. entries' = entries /\ v' = v BY <1>2 DEF v
  <2> QED BY <2>1, <2>2, <1>6 DEF FieldsRead
<1>10. TokenIs(buf, tok, save, v)'
  <2>1. v' = v BY <1>2 DEF v
  <2> QED BY <2>1, <1>6
<1>11. entries' \in Seq(Seq(Char)) /\ PreloadIsFields'
  BY <1>2 DEF PreloadInv, PreloadIsFields
<1> QED BY <1>1, <1>2, <1>3, <1>8, <1>9, <1>10, <1>11 DEF PreloadInv, v

LEMMA PreloadTokenKeeps ==
  ASSUME SearchInv, PreloadInv, PreloadToken
  PROVE  PreloadInv'
<1> DEFINE v == ValueOf(given[i], PRELOAD)
           text == Text(buf, tok)
           n == Rank(v, tok)
<1>1. /\ given \in Envs /\ pc = "tokens" /\ i \in DOMAIN given /\ Named(given[i], PRELOAD)
      /\ TokenIs(buf, tok, save, v) /\ FieldsRead(v) /\ entries \in Seq(Seq(Char))
      /\ \A k \in 1 .. i - 1 : ~Named(given[k], PRELOAD)
      /\ \A k \in DOMAIN env : env[k] = given[k] \/ (Begins(given[k], PRELOAD) /\ Begins(env[k], PRELOAD))
  BY DEF SearchInv, StringInv, PreloadInv, PreloadToken
<1>2. UNCHANGED <<given, env, exists, i, step, found>> /\ entries' = Append(entries, text)
  BY DEF PreloadToken
<1>3. v \in Seq(Char) /\ v' = v
  BY <1>1, <1>2, PreloadValue
<1> HIDE DEF v
<1>4. /\ n \in Nat /\ n + 1 \in DOMAIN Fields(v) /\ text = Fields(v)[n + 1] /\ text \in Seq(Char)
      /\ save = Null => DOMAIN Fields(v) = 1 .. n + 1
  BY <1>1, <1>3, TokenIsField
<1> HIDE DEF text, n
<1>5. Len(entries) = n /\ \A j \in 1 .. n : j \in DOMAIN Fields(v) /\ entries[j] = Fields(v)[j]
  BY <1>1 DEF FieldsRead, n
<1>6. /\ entries' \in Seq(Seq(Char)) /\ Len(entries') = n + 1
      /\ \A j \in 1 .. n + 1 : entries'[j] = IF j = n + 1 THEN text ELSE entries[j]
  BY <1>1, <1>2, <1>4, <1>5
<1>7. \A j \in 1 .. n + 1 : j \in DOMAIN Fields(v) /\ entries'[j] = Fields(v)[j]
  BY <1>4, <1>5, <1>6
<1>8. CASE save = Null
  <2>1. pc' = "next" BY <1>8 DEF PreloadToken
  <2>2. entries' = Fields(v)
    <3>1. DOMAIN Fields(v) = 1 .. n + 1 BY <1>4, <1>8
    <3>2. Fields(v) = [j \in 1 .. n + 1 |-> Fields(v)[j]]
      <4> DEFINE m == Cardinality(Bounds(v)) - 1
                 Bound(j) == CHOOSE k \in Bounds(v) : Rank(v, k) = j
                 field(j) == SubSeq(v, Bound(j - 1) + 1, Bound(j) - 1)
      <4>1. Fields(v) = [j \in 1 .. m |-> field(j)] BY DEF Fields
      <4> HIDE DEF field, m
      <4>2. 1 .. m = 1 .. n + 1 /\ \A j \in 1 .. m : Fields(v)[j] = field(j) BY <4>1, <3>1
      <4> QED BY <4>1, <4>2
    <3>3. entries' = [j \in 1 .. n + 1 |-> entries'[j]] BY <1>6, LenProperties
    <3> QED BY <3>2, <3>3, <1>7
  <2>3. ASSUME Unmistakable(PRELOAD)' PROVE Getenv(PRELOAD)' = v
    <3>1. Unmistakable(PRELOAD) /\ Getenv(PRELOAD)' = Getenv(PRELOAD) BY <2>3, <1>2, SearchKeeps
    <3> QED BY <3>1, <1>1, GetenvFacts, NamesApart DEF v
  <2>4. v # Null BY <1>3, PathAssumption
  <2>5. PreloadIsFields' BY <2>2, <2>3, <2>4 DEF PreloadIsFields
  <2> QED BY <2>1, <2>5, <1>1, <1>2, <1>6 DEF PreloadInv
<1>9. CASE save # Null
  <2>1. pc' = "tokens" /\ Cut(buf, save) BY <1>1, <1>9 DEF PreloadToken
  <2>2. TokenIs(buf', tok', save', v) /\ Rank(v, tok') = n + 1 BY <2>1, <1>1, <1>3, <1>9, NextToken DEF n
  <2>3. FieldsRead(v)' /\ TokenIs(buf, tok, save, v)' BY <2>2, <1>3, <1>6, <1>7 DEF FieldsRead
  <2>4. PreloadIsFields' BY <2>1 DEF PreloadIsFields
  <2> QED BY <2>1, <2>3, <2>4, <1>1, <1>2, <1>6 DEF PreloadInv, v
<1> QED BY <1>8, <1>9

LEMMA PreloadInvNext == SearchInv /\ PreloadInv /\ [Next]_vars => PreloadInv'
<1> SUFFICES ASSUME SearchInv, PreloadInv, [Next]_vars PROVE PreloadInv'
  OBVIOUS
<1>1. given \in Envs /\ (pc = "preload" => env = given) /\ i \in 1 .. Len(env) + 1 /\ Len(env) = Len(given)
      /\ Len(given) \in Nat /\ DOMAIN given = 1 .. Len(given)
  BY GivenFacts DEF SearchInv, StringInv, KeptInv
<1>2. ASSUME pc \notin {"preload", "tokens"}, pc' \notin {"preload", "tokens"}, UNCHANGED <<given, env, entries>>
      PROVE  PreloadInv'
  <2>1. PreloadIsFields'
    <3>1. Getenv(PRELOAD)' = Getenv(PRELOAD) /\ Unmistakable(PRELOAD)' = Unmistakable(PRELOAD)
      BY <1>2, SearchKeeps
    <3>2. PreloadIsFields BY DEF PreloadInv
    <3> QED BY <3>1, <3>2, <1>2 DEF PreloadIsFields
  <2> QED BY <2>1, <1>2 DEF PreloadInv
<1>3. CASE PreloadEntry
  <2>1. /\ pc = "preload" /\ i <= Len(env) /\ ~Named(env[i], PRELOAD) /\ i' = i + 1
        /\ UNCHANGED <<given, env, exists, pc, buf, tok, save, entries, step, found>>
    BY <1>3 DEF PreloadEntry, PassEntry
  <2>2. ASSUME NEW k \in 1 .. i' - 1 PROVE ~Named(given[k], PRELOAD)
    <3>1. k \in 1 .. i - 1 \/ k = i BY <2>1, <1>1
    <3> QED BY <3>1, <2>1, <1>1 DEF PreloadInv
  <2>3. PreloadIsFields' BY <2>1 DEF PreloadIsFields
  <2> QED BY <2>1, <2>2, <2>3 DEF PreloadInv
<1>4. CASE NoPreload
  <2>1. /\ pc = "preload" /\ i > Len(env) /\ pc' = "next"
        /\ UNCHANGED <<given, env, exists, i, buf, tok, save, entries, step, found>>
    BY <1>4 DEF NoPreload
  <2>2. entries = <<>> /\ \A k \in 1 .. i - 1 : ~Named(given[k], PRELOAD) BY <2>1 DEF PreloadInv
  <2>3. \A k \in DOMAIN given : ~Named(given[k], PRELOAD)
    <3>1. DOMAIN given = 1 .. i - 1 BY <2>1, <1>1
    <3> QED BY <3>1, <2>2
  <2>4. Unmistakable(PRELOAD)' => Getenv(PRELOAD)' = Null
    BY <2>1, <2>3, <1>1, SearchKeeps, GetenvFacts, NamesApart
  <2>5. PreloadIsFields' BY <2>1, <2>2, <2>4 DEF PreloadIsFields
  <2> QED BY <2>1, <2>5 DEF PreloadInv
<1>5. CASE CutPreload BY <1>5, CutPreloadKeeps
<1>6. CASE PreloadToken BY <1>6, PreloadTokenKeeps
<1>7. CASE NextPath
  <2>1. \A path : StartPath(path) => pc' = "try" /\ env' = env BY DEF StartPath
  <2>2. /\ pc = "next" /\ UNCHANGED <<given, entries>>
        /\ pc' \in {"try", "env", "exit"} /\ env' = env
    BY <2>1, <1>7 DEF NextPath
  <2> QED BY <2>2, <1>2
<1>8. CASE LibraryPathEntry BY <1>2, <1>8 DEF LibraryPathEntry, PassEntry
<1>9. CASE NoLibraryPath BY <1>2, <1>9 DEF NoLibraryPath
<1>10. CASE FindLibraryPath BY <1>2, <1>10 DEF FindLibraryPath, TestVariable, StartPath
<1>11. CASE Hit BY <1>2, <1>11 DEF Hit
<1>12. CASE Miss BY <1>2, <1>12 DEF Miss
<1>13. CASE UNCHANGED vars
  <2>1. /\ given' = given /\ env' = env /\ exists' = exists /\ pc' = pc /\ i' = i /\ buf' = buf /\ tok' = tok
        /\ save' = save /\ entries' = entries
    BY <1>13 DEF vars
  <2>2. PreloadIsFields'
    <3>1. Getenv(PRELOAD)' = Getenv(PRELOAD) /\ Unmistakable(PRELOAD)' = Unmistakable(PRELOAD)
      BY <2>1, SearchKeeps
    <3>2. PreloadIsFields BY DEF PreloadInv
    <3> QED BY <3>1, <3>2, <2>1 DEF PreloadIsFields
  <2> QED BY <2>1, <2>2 DEF PreloadInv, FieldsRead
<1> QED BY <1>3, <1>4, <1>5, <1>6, <1>7, <1>8, <1>9, <1>10, <1>11, <1>12, <1>13 DEF Next

LEMMA SearchedInvInit == SearchInv /\ Init => SearchedInv
<1> SUFFICES ASSUME SearchInv, Init PROVE SearchedInv
  OBVIOUS
<1>1. pc = "preload" /\ step = 1 /\ found = <<>> /\ given \in Envs
  BY DEF Init, SearchInv, StringInv
<1>2. DOMAIN found = {}
  BY <1>1
<1>3. \A p \in Places : ~(p[1] < 1)
  <2> TAKE p \in Places
  <2>1. p[1] \in 1 .. NbPaths + 1 BY <1>1, PathFacts, PlaceFacts
  <2> QED BY <2>1
<1> QED BY <1>1, <1>2, <1>3 DEF SearchedInv

(* A library that was found stays where it is.                               *)
LEMMA FirstOfKeeps ==
  ASSUME UNCHANGED <<given, exists>>, NEW n, found'[n] = found[n], FirstOf(n)
  PROVE  FirstOf(n)'
<1>1. Places' = Places /\ \A p, name : File(p, name)' = File(p, name)
  BY SearchKeeps
<1> QED BY <1>1 DEF FirstOf

LEMMA HitKeeps ==
  ASSUME SearchInv, SearchedInv, Hit
  PROVE  SearchedInv'
<1> DEFINE n == Rank(Paths[step], tok)
           at == <<step, n + 1>>
<1>0. PICK last : last = Len(found) + 1
  OBVIOUS
<1>1. /\ given \in Envs /\ found \in Seq(exists) /\ Len(found) \in Nat /\ step \in 1 .. NbPaths + 1
      /\ NbPaths \in Nat
  BY LengthFacts DEF SearchInv, StringInv, Hit
<1>2. /\ pc = "try" /\ Candidate \in exists /\ found' = Append(found, Candidate) /\ step' = 1
      /\ pc' \in {"done", "next"} /\ UNCHANGED <<given, env, exists, i, buf, tok, save, entries>>
  BY DEF Hit
<1>3. Ordinary' = Ordinary /\ Places' = Places /\ \A p, name : File(p, name)' = File(p, name)
  BY <1>2, SearchKeeps
<1>4. \A p \in Places : p[1] \in 1 .. NbPaths + 1 /\ p[2] \in DOMAIN Fields(Paths[p[1]])
  BY <1>1, PathFacts, PlaceFacts
<1>5. DOMAIN found' = 1 .. last /\ DOMAIN found = 1 .. Len(found)
      /\ found'[last] = Candidate /\ \A k \in 1 .. Len(found) : found'[k] = found[k]
  BY <1>0, <1>1, <1>2
<1>6. ASSUME Ordinary PROVE \A k \in DOMAIN found' : FirstOf(k)'
  <2>1. /\ Paths[step] \in Seq(Char) /\ TokenIs(buf, tok, save, Paths[step])
        /\ \A p \in Places : p[1] < step => File(p, Name) \notin exists
        /\ \A p \in Places : p[1] = step /\ p[2] <= n => File(p, Name) \notin exists
        /\ \A k \in DOMAIN found : FirstOf(k)
    BY <1>2, <1>6 DEF SearchedInv
  <2>2. step \in DOMAIN Paths BY <1>1, PathFacts
  <2>3. at \in Places /\ Candidate = File(at, Name) /\ n \in Nat
    BY <2>1, <2>2, CandidateIsFile, TokenIsField
  <2>4. ASSUME NEW q \in Places, Precedes(q, at) PROVE File(q, Name) \notin exists
    <3>1. at[1] = step /\ at[2] = n + 1 OBVIOUS
    <3> HIDE DEF at, n
    <3>2. q[1] < step \/ (q[1] = step /\ q[2] < n + 1) BY <3>1, <2>4 DEF Precedes
    <3>3. CASE q[1] < step BY <3>3, <2>1
    <3>4. CASE q[1] = step /\ q[2] < n + 1
      <4>1. q[2] \in Int
        <5>1. q[2] \in DOMAIN Fields(Paths[step]) BY <3>4, <1>4
        <5>2. DOMAIN Fields(Paths[step]) = 1 .. Cardinality(Bounds(Paths[step])) - 1 BY DEF Fields
        <5>3. Cardinality(Bounds(Paths[step])) \in Nat BY <2>1, RankFacts
        <5> HIDE DEF Fields
        <5> QED BY <5>1, <5>2, <5>3
      <4>2. q[2] <= n BY <4>1, <3>4, <2>3
      <4> QED BY <4>2, <3>4, <2>1
    <3> QED BY <3>2, <3>3, <3>4
  <2> HIDE DEF at, n
  <2>5. FirstOf(last)'
    <3>1. Name = Libs[last] BY <1>0 DEF Name
    <3>2. found'[last] = File(at, Libs[last]) /\ found'[last] \in exists BY <2>3, <3>1, <1>2, <1>5
    <3>3. \A q \in Places : Precedes(q, at) => File(q, Libs[last]) \notin exists BY <2>4, <3>1
    <3> QED BY <3>2, <3>3, <2>3, <1>2, <1>3 DEF FirstOf
  <2>6. ASSUME NEW k \in 1 .. Len(found) PROVE FirstOf(k)'
    BY <2>1, <2>6, <1>2, <1>5, FirstOfKeeps
  <2>7. \A k \in DOMAIN found' : k \in 1 .. Len(found) \/ k = last BY <1>0, <1>1, <1>5
  <2> QED BY <2>5, <2>6, <2>7
<1>7. \A p \in Places : ~(p[1] < 1)
  <2> TAKE p \in Places
  <2>1. p[1] \in 1 .. NbPaths + 1 BY <1>4
  <2> QED BY <2>1
<1>8. \A p \in Places' : ~(p[1] < step')
  BY <1>2, <1>3, <1>7
<1> QED BY <1>2, <1>3, <1>6, <1>8 DEF SearchedInv

(* Where the step and the library stay, so do the places that were searched.  *)
LEMMA StepKeeps ==
  ASSUME SearchInv, SearchedInv, pc # "done", UNCHANGED <<given, exists, step, found>>
  PROVE  /\ Ordinary' = Ordinary /\ Paths' = Paths /\ Name' = Name /\ Places' = Places
         /\ \A p, name : File(p, name)' = File(p, name)
         /\ Ordinary => /\ \A n \in DOMAIN found' : FirstOf(n)'
                        /\ \A p \in Places' : p[1] < step' => File(p, Name)' \notin exists'
<1>1. /\ Ordinary' = Ordinary /\ Paths' = Paths /\ Places' = Places
      /\ \A p, name : File(p, name)' = File(p, name)
  BY SearchKeeps
<1>2. Name' = Name
  BY DEF Name
<1>3. ASSUME Ordinary PROVE \A n \in DOMAIN found' : FirstOf(n)'
  BY <1>3, FirstOfKeeps DEF SearchedInv
<1>4. ASSUME Ordinary, NEW p \in Places' PROVE p[1] < step' => File(p, Name)' \notin exists'
  <2>1. File(p, Name)' = File(p, Name)
    <3>1. File(p, Name)' = File(p, Name') BY <1>1 DEF File
    <3> QED BY <3>1, <1>2
  <2> QED BY <2>1, <1>1, <1>4 DEF SearchedInv
<1> QED BY <1>1, <1>2, <1>3, <1>4

(* A search begins with the first field of its path.                         *)
LEMMA StartKeeps ==
  ASSUME SearchInv, SearchedInv, pc \in {"next", "env"}, UNCHANGED <<given, exists, step, found>>, pc' = "try",
         step \in 1 .. NbPaths + 1,
         Ordinary => Paths[step] \in Seq(Char) \ {<<>>} /\ StartPath(Paths[step])
  PROVE  SearchedInv'
<1>1. /\ Ordinary' = Ordinary /\ Paths' = Paths /\ Name' = Name /\ Places' = Places
      /\ \A p, name : File(p, name)' = File(p, name)
      /\ Ordinary => /\ \A n \in DOMAIN found' : FirstOf(n)'
                     /\ \A p \in Places' : p[1] < step' => File(p, Name)' \notin exists'
  BY StepKeeps
<1>2. ASSUME Ordinary PROVE TokenIs(buf', tok', save', Paths[step]) /\ Rank(Paths[step], tok') = 0
  BY <1>2, StartToken
<1>3. ASSUME Ordinary, NEW p \in Places, p[1] = step PROVE ~(p[2] <= 0)
  <2>1. p[2] \in DOMAIN Fields(Paths[step]) BY <1>3, PlaceFacts
  <2>2. DOMAIN Fields(Paths[step]) = 1 .. Cardinality(Bounds(Paths[step])) - 1 BY DEF Fields
  <2>3. Cardinality(Bounds(Paths[step])) \in Nat BY <1>3, RankFacts
  <2> HIDE DEF Fields
  <2>4. p[2] \in Int /\ p[2] >= 1 BY <2>1, <2>2, <2>3
  <2> QED BY <2>4
<1>4. ASSUME Ordinary
      PROVE  /\ Paths'[step'] \in Seq(Char) \ {<<>>} /\ TokenIs(buf', tok', save', Paths'[step'])
             /\ \A p \in Places' : ~(p[1] = step' /\ p[2] <= Rank(Paths'[step'], tok'))
  BY <1>1, <1>2, <1>3, <1>4
<1> QED BY <1>1, <1>4 DEF SearchedInv

LEMMA NextPathKeeps ==
  ASSUME SearchInv, SearchedInv, NextPath
  PROVE  SearchedInv'
<1>1. /\ given \in Envs /\ step \in 1 .. NbPaths + 2 /\ NbPaths = Len(Before) + Len(After)
      /\ Len(Before) \in Nat /\ Len(After) \in Nat
  BY LengthFacts DEF SearchInv, StringInv, NbPaths
<1>2. pc = "next" /\ UNCHANGED <<given, exists, entries, step, found>>
  BY DEF NextPath
<1>3. /\ Ordinary' = Ordinary /\ Paths' = Paths /\ Name' = Name /\ Places' = Places
      /\ Ordinary => /\ \A n \in DOMAIN found' : FirstOf(n)'
                     /\ \A p \in Places' : p[1] < step' => File(p, Name)' \notin exists'
  BY <1>2, StepKeeps
<1>4. CASE step <= Len(Before)
  <2>1. StartPath(Before[step]) BY <1>4 DEF NextPath
  <2>2. Paths[step] = Before[step] /\ Paths[step] \in Seq(Char) /\ step \in DOMAIN Paths
    BY <1>1, <1>4, PathFacts
  <2>3. pc' = "try" /\ step \in 1 .. NbPaths + 1 BY <2>1, <1>1, <1>4 DEF StartPath
  <2>4. Ordinary => Paths[step] # <<>> BY <2>2 DEF Ordinary
  <2> QED BY <2>1, <2>2, <2>3, <2>4, <1>2, StartKeeps
<1>5. CASE step = Len(Before) + 1
  <2>1. ~(step <= Len(Before)) /\ step \notin Len(Before) + 2 .. Len(Before) + 1 + Len(After) BY <1>1, <1>5
  <2>2. pc' = "env" /\ i' = 1 BY <1>5, <2>1 DEF NextPath
  <2>3. 1 .. i' - 1 = {} BY <2>2
  <2> QED BY <2>2, <2>3, <1>2, <1>3, <1>5 DEF SearchedInv
<1>6. CASE step \in Len(Before) + 2 .. Len(Before) + 1 + Len(After)
  <2>1. ~(step <= Len(Before)) /\ step # Len(Before) + 1 BY <1>1, <1>6
  <2>2. StartPath(After[step - Len(Before) - 1]) BY <1>6, <2>1 DEF NextPath
  <2>3. step \in Len(Before) + 2 .. NbPaths + 1 /\ step \in 1 .. NbPaths + 1 BY <1>1, <1>6
  <2>4. Paths[step] = After[step - Len(Before) - 1] /\ Paths[step] \in Seq(Char) /\ step \in DOMAIN Paths
    BY <1>1, <2>3, PathFacts
  <2>5. pc' = "try" BY <2>2 DEF StartPath
  <2>6. Ordinary => Paths[step] # <<>> BY <2>4 DEF Ordinary
  <2> QED BY <2>2, <2>3, <2>4, <2>5, <2>6, <1>2, StartKeeps
<1>7. CASE /\ ~(step <= Len(Before)) /\ step # Len(Before) + 1
           /\ step \notin Len(Before) + 2 .. Len(Before) + 1 + Len(After)
  <2>1. pc' = "exit" BY <1>7 DEF NextPath
  <2>2. step = Len(Before) + Len(After) + 2 BY <1>1, <1>7
  <2> QED BY <2>1, <2>2, <1>2, <1>3 DEF SearchedInv
<1> QED BY <1>4, <1>5, <1>6, <1>7

LEMMA FindLibraryPathKeeps ==
  ASSUME SearchInv, PreloadInv, SearchedInv, FindLibraryPath
  PROVE  SearchedInv'
<1> DEFINE value == ValueOf(env[i], LIBRARY_PATH)
<1>1. /\ pc = "env" /\ i <= Len(env) /\ Named(env[i], LIBRARY_PATH) /\ StartPath(value)
      /\ UNCHANGED <<given, exists, i, entries, step, found>> /\ pc' = "try"
  BY DEF FindLibraryPath, TestVariable, StartPath
<1>2. /\ given \in Envs /\ i \in 1 .. Len(env) /\ i \in DOMAIN env /\ i \in DOMAIN given /\ step \in 1 .. NbPaths + 1
  <2>1. given \in Envs /\ env \in Seq(Seq(Char)) /\ Len(env) = Len(given) /\ i \in 1 .. Len(env) + 1
        /\ step \in 1 .. NbPaths + 2 /\ step <= NbPaths + 1
    BY <1>1 DEF SearchInv, StringInv
  <2> QED BY <2>1, <1>1, GivenFacts, LengthFacts
<1>3. env[i] = given[i] /\ Named(given[i], LIBRARY_PATH)
  BY <1>1, <1>2, LibraryPathKept DEF SearchInv
<1>4. ASSUME Ordinary PROVE Paths[step] \in Seq(Char) \ {<<>>} /\ Paths[step] = value
  <2>1. step = Len(Before) + 1 /\ \A k \in 1 .. i - 1 : ~Named(given[k], LIBRARY_PATH)
    BY <1>1, <1>4 DEF SearchedInv
  <2>2. Getenv(LIBRARY_PATH) = ValueOf(given[i], LIBRARY_PATH)
    BY <2>1, <1>2, <1>3, <1>4, GetenvFacts, NamesApart DEF Ordinary
  <2>3. Paths[step] = Getenv(LIBRARY_PATH) BY <2>1, <1>2, PathFacts
  <2>4. value \in Seq(Char)
    <3>1. given[i] \in Seq(Char) /\ Len(LIBRARY_PATH) \in Nat BY <1>2, GivenFacts, NamesApart
    <3>2. Len(given[i]) \in Nat BY <3>1
    <3> QED BY <3>1, <3>2, <1>3 DEF ValueOf
  <2>5. value # <<>>
    <3>1. step \in DOMAIN Paths BY <1>2, PathFacts
    <3> QED BY <3>1, <2>2, <2>3, <1>3, <1>4 DEF Ordinary
  <2> QED BY <2>2, <2>3, <2>4, <2>5, <1>3
<1> HIDE DEF value
<1> QED BY <1>1, <1>2, <1>4, StartKeeps

LEMMA NoLibraryPathKeeps ==
  ASSUME SearchInv, PreloadInv, SearchedInv, NoLibraryPath
  PROVE  SearchedInv'
<1>1. /\ pc = "env" /\ i > Len(env) /\ pc' = "next" /\ step' = step + 1
      /\ UNCHANGED <<given, env, exists, i, buf, tok, save, entries, found>>
  BY DEF NoLibraryPath
<1>2. /\ given \in Envs /\ env \in Seq(Seq(Char)) /\ Len(env) = Len(given) /\ i = Len(env) + 1
      /\ step \in Nat /\ Len(given) \in Nat /\ DOMAIN given = 1 .. Len(given)
  BY <1>1, GivenFacts DEF SearchInv, StringInv
<1>3. Ordinary' = Ordinary /\ Places' = Places /\ \A p, name : File(p, name)' = File(p, name)
  BY <1>1, SearchKeeps
<1>4. Name' = Name
  BY <1>1 DEF Name
<1>5. ASSUME Ordinary, NEW p \in Places PROVE p[1] # step
  <2>1. step = Len(Before) + 1 /\ \A k \in 1 .. i - 1 : ~Named(given[k], LIBRARY_PATH)
    BY <1>1, <1>5 DEF SearchedInv
  <2>2. \A k \in DOMAIN given : ~Named(given[k], LIBRARY_PATH) BY <2>1, <1>2
  <2>3. Paths[step] = Null BY <2>1, <2>2, <1>2, <1>5, PathFacts, GetenvFacts, NamesApart DEF Ordinary
  <2> QED BY <2>3, PlaceFacts
<1>6. ASSUME Ordinary, NEW p \in Places, p[1] < step + 1 PROVE File(p, Name) \notin exists
  <2>1. p[1] \in Int BY <1>2, PathFacts, PlaceFacts
  <2>2. p[1] < step BY <2>1, <1>2, <1>5, <1>6
  <2> QED BY <2>2, <1>1, <1>6 DEF SearchedInv
<1>7. ASSUME Ordinary, NEW p \in Places', p[1] < step' PROVE File(p, Name)' \notin exists'
  <2>1. File(p, Name)' = File(p, Name)
    <3>1. File(p, Name)' = File(p, Name') BY <1>1, SearchKeeps DEF File
    <3> QED BY <3>1, <1>4
  <2> QED BY <2>1, <1>1, <1>3, <1>6, <1>7
<1>8. ASSUME Ordinary, NEW n \in DOMAIN found' PROVE FirstOf(n)'
  BY <1>1, <1>8, FirstOfKeeps DEF SearchedInv
<1> QED BY <1>1, <1>3, <1>7, <1>8 DEF SearchedInv

LEMMA MissKeeps ==
  ASSUME SearchInv, SearchedInv, Miss
  PROVE  SearchedInv'
<1> DEFINE s == Paths[step]
           n == Rank(s, tok)
<1>1. /\ pc = "try" /\ Candidate \notin exists /\ UNCHANGED <<given, env, exists, i, entries, found>>
  BY DEF Miss
<1>2. given \in Envs /\ step \in 1 .. NbPaths + 1 /\ NbPaths \in Nat
  BY <1>1, LengthFacts DEF SearchInv, StringInv
<1>3. /\ Ordinary' = Ordinary /\ Paths' = Paths /\ Places' = Places
      /\ \A p, name : File(p, name)' = File(p, name)
  BY <1>1, SearchKeeps
<1>4. ASSUME NEW p \in Places PROVE File(p, Name)' = File(p, Name)
  <2>1. Name' = Name BY <1>1 DEF Name
  <2>2. File(p, Name)' = File(p, Name') BY <1>3 DEF File
  <2> QED BY <2>1, <2>2
<1>5. ASSUME Ordinary, NEW k \in DOMAIN found' PROVE FirstOf(k)'
  BY <1>1, <1>5, FirstOfKeeps DEF SearchedInv
<1>6. ASSUME Ordinary
      PROVE  /\ s \in Seq(Char) \ {<<>>} /\ TokenIs(buf, tok, save, s) /\ n \in Nat
             /\ \A p \in Places : p[1] < step => File(p, Name) \notin exists
             /\ \A p \in Places : p[1] = step /\ p[2] <= n + 1 => File(p, Name) \notin exists
             /\ save = Null => \A p \in Places : p[1] = step => p[2] <= n + 1
  <2>1. /\ s \in Seq(Char) \ {<<>>} /\ TokenIs(buf, tok, save, s)
        /\ \A p \in Places : p[1] < step => File(p, Name) \notin exists
        /\ \A p \in Places : p[1] = step /\ p[2] <= n => File(p, Name) \notin exists
    BY <1>1, <1>6 DEF SearchedInv
  <2>2. step \in DOMAIN Paths BY <1>2, PathFacts
  <2>3. Candidate = File(<<step, n + 1>>, Name) /\ n \in Nat
        /\ (save = Null => DOMAIN Fields(s) = 1 .. n + 1)
    BY <2>1, <2>2, CandidateIsFile, TokenIsField
  <2>4. Cardinality(Bounds(s)) \in Nat /\ DOMAIN Fields(s) = 1 .. Cardinality(Bounds(s)) - 1
    BY <2>1, RankFacts DEF Fields
  <2> HIDE DEF s, n
  <2>5. \A p \in Places : p[1] = step => p[2] \in DOMAIN Fields(s) /\ p = <<step, p[2]>>
    BY PlaceFacts DEF s
  <2>6. ASSUME NEW p \in Places, p[1] = step, p[2] <= n + 1 PROVE File(p, Name) \notin exists
    <3>1. p[2] \in Int BY <2>4, <2>5, <2>6
    <3>2. CASE p[2] <= n BY <3>2, <2>1, <2>6
    <3>3. CASE p[2] = n + 1
      <4>1. p = <<step, n + 1>> BY <3>3, <2>5, <2>6
      <4> QED BY <4>1, <2>3, <1>1
    <3> QED BY <3>1, <3>2, <3>3, <2>3, <2>6
  <2>7. ASSUME save = Null, NEW p \in Places, p[1] = step PROVE p[2] <= n + 1
    <3>1. p[2] \in 1 .. n + 1 BY <2>3, <2>5, <2>7
    <3> QED BY <3>1
  <2> QED BY <2>1, <2>3, <2>6, <2>7
<1> HIDE DEF s, n
<1>7. CASE save = Null
  <2>1. step' = step + 1 /\ pc' = "next" BY <1>7 DEF Miss
  <2>2. ASSUME Ordinary, NEW p \in Places, p[1] < step + 1 PROVE File(p, Name) \notin exists
    <3>1. p[1] \in Int BY <1>2, PathFacts, PlaceFacts
    <3>2. p[1] < step \/ p[1] = step BY <3>1, <2>2, <1>2
    <3> QED BY <3>2, <2>2, <1>6, <1>7
  <2>3. ASSUME Ordinary, NEW p \in Places', p[1] < step' PROVE File(p, Name)' \notin exists'
    BY <2>1, <2>2, <2>3, <1>1, <1>3, <1>4
  <2> QED BY <2>1, <2>3, <1>3, <1>5 DEF SearchedInv
<1>8. CASE save # Null
  <2>1. Cut(buf, save) /\ step' = step /\ pc' = "try" BY <1>1, <1>8 DEF Miss
  <2>2. ASSUME Ordinary
        PROVE  /\ TokenIs(buf', tok', save', s) /\ Rank(s, tok') = n + 1
               /\ s' = s /\ s \in Seq(Char) \ {<<>>}
    <3>1. s' = s BY <2>1, <1>3 DEF s
    <3>2. s \in Seq(Char) \ {<<>>} /\ TokenIs(buf, tok, save, s) BY <1>6, <2>2
    <3> QED BY <3>1, <3>2, <2>1, <1>8, NextToken DEF n
  <2>3. ASSUME Ordinary, NEW p \in Places', p[1] < step' PROVE File(p, Name)' \notin exists'
    BY <2>1, <2>3, <1>1, <1>3, <1>4, <1>6
  <2>4. ASSUME Ordinary, NEW p \in Places', p[1] = step' /\ p[2] <= Rank(s', tok')
        PROVE File(p, Name)' \notin exists'
    BY <2>1, <2>2, <2>4, <1>1, <1>3, <1>4, <1>6
  <2> QED BY <2>1, <2>2, <2>3, <2>4, <1>3, <1>5 DEF SearchedInv, s
<1> QED BY <1>7, <1>8

LEMMA SearchedInvNext == SearchInv /\ PreloadInv /\ SearchedInv /\ [Next]_vars => SearchedInv'
<1> SUFFICES ASSUME SearchInv, PreloadInv, SearchedInv, [Next]_vars PROVE SearchedInv'
  OBVIOUS
<1>1. ASSUME UNCHANGED <<given, exists, step, found>>, pc \in {"preload", "tokens"},
             pc' \in {"preload", "tokens", "next"}
      PROVE  SearchedInv'
  <2>1. /\ Ordinary' = Ordinary
        /\ Ordinary => /\ \A n \in DOMAIN found' : FirstOf(n)'
                       /\ \A p \in Places' : p[1] < step' => File(p, Name)' \notin exists'
    BY <1>1, StepKeeps
  <2> QED BY <2>1, <1>1 DEF SearchedInv
<1>2. CASE PreloadEntry BY <1>1, <1>2 DEF PreloadEntry, PassEntry
<1>3. CASE NoPreload BY <1>1, <1>3 DEF NoPreload
<1>4. CASE CutPreload BY <1>1, <1>4 DEF CutPreload
<1>5. CASE PreloadToken BY <1>1, <1>5 DEF PreloadToken
<1>6. CASE NextPath BY <1>6, NextPathKeeps
<1>7. CASE LibraryPathEntry
  <2>1. /\ pc = "env" /\ i <= Len(env) /\ ~Named(env[i], LIBRARY_PATH) /\ i' = i + 1
        /\ UNCHANGED <<given, env, exists, pc, buf, tok, save, entries, step, found>>
    BY <1>7 DEF LibraryPathEntry, PassEntry
  <2>2. i \in 1 .. Len(env) + 1 /\ env \in Seq(Seq(Char)) /\ Len(env) \in Nat
    <3>1. i \in 1 .. Len(env) + 1 /\ env \in Seq(Seq(Char)) BY DEF SearchInv, StringInv
    <3> QED BY <3>1
  <2>3. i \in DOMAIN env BY <2>1, <2>2
  <2>4. ~Named(given[i], LIBRARY_PATH) BY <2>1, <2>3, LibraryPathKept DEF SearchInv
  <2>5. ASSUME Ordinary, NEW k \in 1 .. i' - 1 PROVE ~Named(given[k], LIBRARY_PATH)
    <3>1. k \in 1 .. i - 1 \/ k = i BY <2>1, <2>2, <2>5
    <3> QED BY <3>1, <2>1, <2>4, <2>5 DEF SearchedInv
  <2>6. /\ Ordinary' = Ordinary
        /\ Ordinary => /\ \A n \in DOMAIN found' : FirstOf(n)'
                       /\ \A p \in Places' : p[1] < step' => File(p, Name)' \notin exists'
    BY <2>1, StepKeeps
  <2> QED BY <2>1, <2>5, <2>6 DEF SearchedInv
<1>8. CASE NoLibraryPath BY <1>8, NoLibraryPathKeeps
<1>9. CASE FindLibraryPath BY <1>9, FindLibraryPathKeeps
<1>10. CASE Hit BY <1>10, HitKeeps
<1>11. CASE Miss BY <1>11, MissKeeps
<1>12. CASE UNCHANGED vars
  <2>1. /\ given' = given /\ exists' = exists /\ pc' = pc /\ i' = i /\ buf' = buf /\ tok' = tok /\ save' = save
        /\ step' = step /\ found' = found
    BY <1>12 DEF vars
  <2>2. /\ Ordinary' = Ordinary /\ Paths' = Paths /\ Places' = Places /\ Name' = Name
        /\ \A p, name : File(p, name)' = File(p, name)
    BY <2>1, SearchKeeps DEF Name
  <2>3. ASSUME NEW p \in Places PROVE File(p, Name)' = File(p, Name)
    <3>1. File(p, Name)' = File(p, Name') BY <2>2 DEF File
    <3> QED BY <3>1, <2>2
  <2>4. Ordinary => \A n \in DOMAIN found' : FirstOf(n)'
    BY <2>1, FirstOfKeeps DEF SearchedInv
  <2> QED BY <2>1, <2>2, <2>3, <2>4 DEF SearchedInv
<1> QED BY <1>2, <1>3, <1>4, <1>5, <1>6, <1>7, <1>8, <1>9, <1>10, <1>11, <1>12 DEF Next

LEMMA SearchedInvariant == Spec => [](SearchInv /\ PreloadInv /\ SearchedInv)
<1> QED BY SearchInvInit, SearchInvNext, PreloadInvInit, PreloadInvNext,
           SearchedInvInit, SearchedInvNext, PTL DEF Spec

-----------------------------------------------------------------------------

(* strtok(), strlen() and strcat() never walk out of the block they are in,   *)
(* whatever blocks hold when malloc() returns them: where a token or the rest *)
(* of the string begins, a terminator follows.  Of the copy of an empty path *)
(* it follows at the latest in the head behind the block.                    *)
THEOREM StringsEnd == Spec => []Terminated
<1>1. SearchInv /\ BlockInv => Terminated
  <2> SUFFICES ASSUME StringInv, BlockInv PROVE Terminated
    BY DEF SearchInv
  <2>1. TypeOK
    <3>1. NbPaths + 2 = Len(Before) + Len(After) + 2 BY LengthFacts DEF NbPaths
    <3>2. tok \in DOMAIN buf /\ save \in DOMAIN buf \cup {Null} BY DEF StringInv, Ends
    <3> QED BY <3>1, <3>2 DEF StringInv, TypeOK
  <2>2. ASSUME NEW p \in {tok, save} \ {Null} PROVE EndsBefore(p, 0)
    <3>1. PICK n \in Nat : DOMAIN buf = 0 .. n BY DEF StringInv, Block
    <3>2. PICK k \in DOMAIN buf : k >= p /\ buf[k] = NUL BY <2>2 DEF StringInv, Ends
    <3>3. k + 0 = k BY <3>1
    <3> QED BY <3>2, <3>3 DEF EndsBefore
  <2>3. ASSUME NEW p \in {tok, save} \ {Null}, pc = "try", Copied # <<>> PROVE EndsBefore(p, HEAD)
    BY <2>3 DEF BlockInv, InBlock, EndsBefore
  <2> QED BY <2>1, <2>2, <2>3 DEF Terminated
<1> QED BY <1>1, BlockInvariant, PTL

(* The program sees the environment it was given, but for LD_PRELOAD, which   *)
(* ends where its first token did.                                           *)
THEOREM OnlyPreloadIsCut == Spec => []EnvironmentKept
<1>1. SearchInv => EnvironmentKept
  BY DEF SearchInv, KeptInv
<1> QED BY <1>1, SearchInvariant, PTL

(* Each field of LD_PRELOAD's value, empty ones too, is one entry of the      *)
(* table, and nothing else is: strtok() passes over no separator and ends    *)
(* with the string.                                                          *)
THEOREM PreloadIsRead == Spec => []PreloadIsFields
<1>1. PreloadInv => PreloadIsFields
  BY DEF PreloadInv
<1> QED BY <1>1, SearchedInvariant, PTL

(* A library is the first file of its search paths, in their order, and the   *)
(* process gives up only if there is none, whatever was searched before it.  *)
THEOREM FirstFileIsFound == Spec => []FirstHitWins
<1>1. SearchInv /\ SearchedInv => FirstHitWins
  <2> SUFFICES ASSUME SearchInv, SearchedInv, Ordinary
               PROVE  /\ \A n \in DOMAIN found : FirstOf(n)
                      /\ pc = "exit" => \A p \in Places : File(p, Name) \notin exists
    BY DEF FirstHitWins, Ordinary, FirstOf, Name
  <2>1. \A n \in DOMAIN found : FirstOf(n)
    BY DEF SearchedInv
  <2>2. ASSUME pc = "exit", NEW p \in Places PROVE File(p, Name) \notin exists
    <3>1. step = NbPaths + 2 BY <2>2, LengthFacts DEF SearchedInv, NbPaths
    <3>2. p[1] \in 1 .. NbPaths + 1 BY PathFacts, PlaceFacts DEF SearchInv, StringInv
    <3>3. p[1] < step BY <3>1, <3>2, LengthFacts
    <3> QED BY <3>3, <2>2 DEF SearchedInv
  <2> QED BY <2>1, <2>2
<1> QED BY <1>1, SearchedInvariant, PTL

===============================================================================

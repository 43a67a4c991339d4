---------------------------- MODULE TreeBin_proofs ----------------------------
(***************************************************************************)
(* Proofs about TreeBin: for words and bins of any number, any chunks and  *)
(* any sizes, the bins stay sound, and a search of two paths finds a best  *)
(* fit of all the chunks in all the bins.                                  *)
(***************************************************************************)
EXTENDS TreeBin, LeastElement, TLAPS

-----------------------------------------------------------------------------
(* The invariant.  *)

W == SIZE_T_BITSIZE
T == TREEBIN_SHIFT

Bins == {treebin_at(i) : i \in Index}

NodeRec ==
  [size : Large, index : Index, parent : Chunk \union {Null} \union Bins,
   child : [{0, 1} -> Chunk \union {Null}], fd : Chunk, bk : Chunk]

Nd(w) == DOMAIN w.node
Tr(w) == {t \in Nd(w) : w.node[t].parent # Null}

Typed(w) ==
  \E N \in SUBSET Chunk :
    w \in [node : [N -> NodeRec], root : [Index -> N \union {Null}], map : SUBSET Index]

Indexed(w) ==
  /\ \A t \in Nd(w) : w.node[t].index = compute_tree_index(w.node[t].size)
  /\ \A i \in Index : i \in w.map <=> w.root[i] # Null

(* The chunks of a size form rings, and every ring holds a tree node: there *)
(* is no way back along it that misses them all.                            *)
Rings(w) ==
  /\ \A t \in Nd(w) :
       LET n == w.node[t]
       IN  /\ n.fd \in Nd(w) /\ w.node[n.fd].bk = t
           /\ n.bk \in Nd(w) /\ w.node[n.bk].fd = t
           /\ w.node[n.bk].size = n.size
  /\ \A S \in SUBSET Nd(w) :
       S # {} /\ (\A t \in S : w.node[t].bk \in S) => S \intersect Tr(w) # {}

(* One tree node for each size.  *)
Heads(w) == \A t, u \in Tr(w) : w.node[t].size = w.node[u].size => t = u

(* Parents and children point to each other.  *)
Links(w) ==
  /\ \A i \in Index : w.root[i] # Null => w.node[w.root[i]].parent = treebin_at(i)
  /\ \A t \in Nd(w), b \in {0, 1} :
       LET c == w.node[t].child[b]
       IN  c # Null => t \in Tr(w) /\ c \in Nd(w) /\ w.node[c].parent = t
  /\ \A t \in Tr(w) :
       LET p == w.node[t].parent
       IN  \/ p \in Nd(w) /\ \E b \in {0, 1} : w.node[p].child[b] = t
           \/ \E i \in Index : p = treebin_at(i) /\ w.root[i] = t /\ w.node[t].index = i

(* The leading bits of a size, all but m of them.  *)
Top(s, m) == s \div Pow2[m]

(* The number of bits of a size that bin i leaves open.  *)
NB(i) == W - leftshift_for_tree_index(i)

(* lev is the number of bits that the place of a node leaves open.  *)
Levels(w, lev) ==
  /\ lev \in [Tr(w) -> 0 .. W]
  /\ \A i \in Index : w.root[i] # Null => lev[w.root[i]] = NB(i)
  /\ \A t \in Nd(w), b \in {0, 1} :
       LET c == w.node[t].child[b]
       IN  c # Null =>
             /\ lev[t] = lev[c] + 1
             /\ w.node[c].index = w.node[t].index
             /\ Top(w.node[c].size, lev[c]) = 2 * Top(w.node[t].size, lev[t]) + b

Shaped(w) == Typed(w) /\ Indexed(w) /\ Rings(w) /\ Heads(w) /\ Links(w)

Well(w) == Shaped(w) /\ \E lev : Levels(w, lev)

-----------------------------------------------------------------------------
(* Arithmetic.  *)

(* Quotient and remainder.                                                   *)
LEMMA DivMod ==
  ASSUME NEW a \in Nat, NEW d \in Nat \ {0}
  PROVE  /\ a \div d \in Nat /\ a % d \in Nat /\ a % d < d
         /\ a = d * (a \div d) + (a % d)
<1> QED OBVIOUS

LEMMA DivUnique ==
  ASSUME NEW d \in Nat \ {0}, NEW q \in Nat, NEW r \in Nat, r < d
  PROVE  (d * q + r) \div d = q /\ (d * q + r) % d = r
<1>1. d * q + r \in Nat OBVIOUS
<1>2. PICK x \in Nat, y \in Nat : /\ x = (d * q + r) \div d /\ y = (d * q + r) % d
                                  /\ y < d /\ d * q + r = d * x + y
  BY <1>1, DivMod
<1>3. CASE x = q BY <1>2, <1>3
<1>4. ASSUME x >= q + 1 PROVE FALSE
  <2>1. d * x >= d * (q + 1) BY <1>4
  <2>2. d * (q + 1) = d * q + d OBVIOUS
  <2> QED BY <2>1, <2>2, <1>2
<1>5. ASSUME q >= x + 1 PROVE FALSE
  <2>1. d * q >= d * (x + 1) BY <1>5
  <2>2. d * (x + 1) = d * x + d OBVIOUS
  <2> QED BY <2>1, <2>2, <1>2
<1> QED BY <1>3, <1>4, <1>5

(* The powers of two.                                                        *)
LEMMA Powers ==
  /\ Pow2[0] = 1
  /\ \A k \in 0 .. W : Pow2[k] \in Nat \ {0}
  /\ \A k \in 0 .. W : k < W => Pow2[k + 1] = 2 * Pow2[k]
<1> DEFINE D == 0 .. W
           go == 1 .. W
           rank == [k \in D |-> k]
           nxt == [k \in D |-> k - 1]
           base == [k \in D |-> 1]
           step == [k \in D |-> [v \in Nat |-> 2 * v]]
           Is(f) == f = [k \in D |-> IF k = 0 THEN 1 ELSE 2 * f[k - 1]]
<1>1. W \in Nat
  BY WidthAssumption DEF W
<1>2. \E f : Is(f)
  <2>1. Descends(D, W, rank, go, nxt) BY <1>1 DEF Descends
  <2>2. Steps(D, Nat, base, step)
    BY DEF Steps
  <2> HIDE DEF rank, nxt, base, step
  <2>3. PICK f : IsRecursive(D, Nat, go, nxt, base, step, f) BY <2>1, <2>2, RecursionExists
  <2>4. \A k \in go : f[nxt[k]] \in Nat /\ nxt[k] = k - 1
    BY <2>1, <2>3, <1>1 DEF IsRecursive, Descends, nxt
  <2>5. ASSUME NEW k \in D PROVE f[k] = IF k = 0 THEN 1 ELSE 2 * f[k - 1]
    <3>1. CASE k = 0 BY <2>3, <3>1, <1>1 DEF IsRecursive, base
    <3>2. CASE k # 0
      <4>1. k \in go BY <3>2, <1>1
      <4>2. f[k] = step[k][f[nxt[k]]] BY <4>1, <2>3 DEF IsRecursive
      <4> QED BY <4>1, <4>2, <3>2, <2>4 DEF step
    <3> QED BY <3>1, <3>2
  <2>6. f = [k \in D |-> f[k]] BY <2>3 DEF IsRecursive
  <2> QED BY <2>5, <2>6
<1>3. Is(Pow2)
  <2>1. Pow2 = CHOOSE f : Is(f) BY DEF Pow2, W
  <2> HIDE DEF Is
  <2> QED BY <1>2, <2>1
<1>4. \A k \in D : Pow2[k] = IF k = 0 THEN 1 ELSE 2 * Pow2[k - 1]
  BY <1>3
<1>5. Pow2[0] = 1
  BY <1>1, <1>4
<1>6. ASSUME NEW k \in 0 .. W, k < W PROVE Pow2[k + 1] = 2 * Pow2[k]
  <2>1. k + 1 \in D /\ k + 1 # 0 /\ (k + 1) - 1 = k BY <1>1, <1>6
  <2> QED BY <1>4, <2>1
<1>7. \A k \in D : Pow2[k] \in Nat \ {0}
  <2> DEFINE S == {n \in Nat : n \in D => Pow2[n] \in Nat \ {0}}
  <2>1. 0 \in S BY <1>5
  <2>2. ASSUME NEW n \in Nat, n \in S PROVE n + 1 \in S
    <3> SUFFICES ASSUME n + 1 \in D PROVE Pow2[n + 1] \in Nat \ {0}
      OBVIOUS
    <3>1. n \in D /\ n < W BY <1>1
    <3> QED BY <3>1, <2>2, <1>6
  <2> HIDE DEF S
  <2>3. \A n \in Nat : n \in S BY <2>1, <2>2, SetInduction
  <2> QED BY <2>3 DEF S
<1> QED BY <1>5, <1>6, <1>7

LEMMA PowAdd ==
  ASSUME NEW j \in Nat, NEW k \in Nat, j + k <= W
  PROVE  Pow2[j + k] = Pow2[j] * Pow2[k]
<1> DEFINE S == {n \in Nat : j + n <= W => Pow2[j + n] = Pow2[j] * Pow2[n]}
<1>1. W \in Nat
  BY WidthAssumption DEF W
<1>2. 0 \in S
  <2>1. j \in 0 .. W BY <1>1
  <2>2. Pow2[j] \in Nat /\ Pow2[0] = 1 BY <2>1, Powers
  <2> QED BY <2>2
<1>3. ASSUME NEW n \in Nat, n \in S PROVE n + 1 \in S
  <2> SUFFICES ASSUME j + (n + 1) <= W PROVE Pow2[j + (n + 1)] = Pow2[j] * Pow2[n + 1]
    OBVIOUS
  <2>1. /\ j \in 0 .. W /\ n \in 0 .. W /\ n < W /\ j + n \in 0 .. W /\ j + n < W
        /\ j + (n + 1) = (j + n) + 1
    BY <1>1
  <2>2. Pow2[j + n] = Pow2[j] * Pow2[n] BY <2>1, <1>3
  <2>3. Pow2[n + 1] = 2 * Pow2[n] /\ Pow2[(j + n) + 1] = 2 * Pow2[j + n] BY <2>1, Powers
  <2>4. Pow2[j] \in Nat /\ Pow2[n] \in Nat BY <2>1, Powers
  <2>5. 2 * (Pow2[j] * Pow2[n]) = Pow2[j] * (2 * Pow2[n]) BY <2>4
  <2> QED BY <2>1, <2>2, <2>3, <2>5
<1> HIDE DEF S
<1>4. \A n \in Nat : n \in S BY <1>2, <1>3, SetInduction
<1> QED BY <1>4 DEF S

LEMMA PowMono ==
  ASSUME NEW j \in 0 .. W, NEW k \in 0 .. W, j <= k
  PROVE  Pow2[j] <= Pow2[k]
<1>1. W \in Nat /\ j \in Nat /\ k - j \in Nat /\ k - j \in 0 .. W /\ j + (k - j) = k /\ k <= W
  BY WidthAssumption DEF W
<1>2. Pow2[k] = Pow2[j] * Pow2[k - j] BY <1>1, PowAdd
<1>3. Pow2[j] \in Nat \ {0} /\ Pow2[k - j] \in Nat \ {0} BY <1>1, Powers
<1>4. \A a, b \in Nat \ {0} : a <= a * b OBVIOUS
<1> QED BY <1>2, <1>3, <1>4

(* Dividing twice.                                                           *)
LEMMA DivDiv ==
  ASSUME NEW a \in Nat, NEW x \in Nat \ {0}, NEW y \in Nat \ {0}
  PROVE  (a \div x) \div y = a \div (x * y)
<1>1. PICK q \in Nat, r \in Nat : q = a \div x /\ r < x /\ a = x * q + r
  BY DivMod
<1>2. PICK p \in Nat, t \in Nat : p = q \div y /\ t < y /\ q = y * p + t
  BY DivMod
<1> DEFINE d == x * y
           u == x * t + r
<1>3. a = d * p + u
  <2>1. x * q = d * p + x * t BY <1>2
  <2>2. d * p \in Nat /\ x * t \in Nat /\ x * q \in Nat OBVIOUS
  <2> QED BY <1>1, <2>1, <2>2
<1>4. u < d
  <2>1. t + 1 <= y BY <1>2
  <2>2. x * (t + 1) <= x * y BY <2>1
  <2>3. x * (t + 1) = x * t + x OBVIOUS
  <2> QED BY <1>1, <2>2, <2>3
<1>5. u \in Nat /\ d \in Nat \ {0}
  OBVIOUS
<1> HIDE DEF d, u
<1>6. a \div d = p BY <1>3, <1>4, <1>5, DivUnique
<1> QED BY <1>1, <1>2, <1>6 DEF d

LEMMA DivMono ==
  ASSUME NEW a \in Nat, NEW b \in Nat, NEW d \in Nat \ {0}, a \div d < b \div d
  PROVE  a < b
<1>1. PICK q \in Nat, r \in Nat : q = a \div d /\ r < d /\ a = d * q + r
  BY DivMod
<1>2. PICK p \in Nat, t \in Nat : p = b \div d /\ b = d * p + t
  BY DivMod
<1>3. d * (q + 1) <= d * p
  <2>1. q + 1 <= p BY <1>1, <1>2
  <2> QED BY <2>1
<1>4. d * (q + 1) = d * q + d
  OBVIOUS
<1> QED BY <1>1, <1>2, <1>3, <1>4

LEMMA TopFacts ==
  ASSUME NEW s \in Nat, NEW m \in 0 .. W
  PROVE  Top(s, m) \in Nat /\ Top(s, 0) = s /\ (s < Pow2[W] => Top(s, W) = 0)
<1>1. W \in Nat /\ 0 \in 0 .. W /\ W \in 0 .. W
  BY WidthAssumption DEF W
<1>2. Pow2[m] \in Nat \ {0} /\ Pow2[0] = 1 /\ Pow2[W] \in Nat \ {0}
  BY <1>1, Powers
<1>3. Top(s, m) \in Nat
  BY <1>2, DivMod DEF Top
<1>4. Top(s, 0) = s
  BY <1>2 DEF Top
<1>5. ASSUME s < Pow2[W] PROVE Top(s, W) = 0
  <2>1. (Pow2[W] * 0 + s) \div Pow2[W] = 0 BY <1>2, <1>5, DivUnique
  <2>2. Pow2[W] * 0 + s = s BY <1>2
  <2> QED BY <2>1, <2>2 DEF Top
<1> QED BY <1>3, <1>4, <1>5

(* Sizes that agree in more bits agree in fewer.                             *)
LEMMA TopCoarser ==
  ASSUME NEW a \in Nat, NEW b \in Nat, NEW m \in 0 .. W, NEW n \in 0 .. W, m <= n,
         Top(a, m) = Top(b, m)
  PROVE  Top(a, n) = Top(b, n)
<1>1. W \in Nat /\ m \in Nat /\ n - m \in Nat /\ n - m \in 0 .. W /\ m + (n - m) = n /\ n <= W
  BY WidthAssumption DEF W
<1>2. Pow2[n] = Pow2[m] * Pow2[n - m] BY <1>1, PowAdd
<1>3. Pow2[m] \in Nat \ {0} /\ Pow2[n - m] \in Nat \ {0} BY <1>1, Powers
<1> QED BY <1>2, <1>3, DivDiv DEF Top

LEMMA TopMono ==
  ASSUME NEW a \in Nat, NEW b \in Nat, NEW m \in 0 .. W, Top(a, m) < Top(b, m)
  PROVE  a < b
<1> QED BY Powers, DivMono DEF Top

(* Each step down a path takes one bit of the size, from the left.           *)
LEMMA TopStep ==
  ASSUME NEW s \in Nat, NEW m \in 1 .. W
  PROVE  LET b == SignBit(Shl(s, W - m))
         IN  /\ b \in {0, 1}
             /\ Top(s, m - 1) = 2 * Top(s, m) + b
             /\ Shl(Shl(s, W - m), 1) = Shl(s, W - (m - 1))
<1> DEFINE h == Pow2[m - 1]
           e == Pow2[W - m]
<1>1. /\ W \in Nat /\ m - 1 \in Nat /\ m - 1 \in 0 .. W /\ W - m \in Nat /\ W - m \in 0 .. W
      /\ W - 1 \in 0 .. W /\ m - 1 < W /\ W - m < W /\ (m - 1) + 1 = m /\ (W - m) + 1 = W - (m - 1)
      /\ (m - 1) + (W - m) = W - 1 /\ (W - 1) + 1 = W /\ W - 1 < W /\ 0 < W /\ 0 \in 0 .. W
  BY WidthAssumption DEF W
<1>2. h \in Nat \ {0} /\ e \in Nat \ {0} /\ h * e \in Nat \ {0}
  <2>1. h \in Nat \ {0} /\ e \in Nat \ {0} BY <1>1, Powers
  <2> QED BY <2>1
<1>3. /\ Pow2[m] = 2 * h /\ Pow2[W - (m - 1)] = 2 * e /\ Pow2[1] = 2
      /\ Pow2[W - 1] = h * e /\ Pow2[W] = 2 * (h * e)
  <2>1. Pow2[(m - 1) + 1] = 2 * h BY <1>1, Powers
  <2>2. Pow2[(W - m) + 1] = 2 * e BY <1>1, Powers
  <2>3. Pow2[0 + 1] = 2 * Pow2[0] /\ Pow2[0] = 1 BY <1>1, Powers
  <2>4. Pow2[(m - 1) + (W - m)] = h * e
    <3>1. (m - 1) + (W - m) <= W BY <1>1
    <3> QED BY <1>1, <3>1, PowAdd
  <2>5. Pow2[(W - 1) + 1] = 2 * Pow2[W - 1] BY <1>1, Powers
  <2> QED BY <1>1, <2>1, <2>2, <2>3, <2>4, <2>5
<1> HIDE DEF h, e
<1>4. PICK q1 \in Nat, r \in Nat : q1 = s \div h /\ r < h /\ s = h * q1 + r
  BY <1>2, DivMod
<1>5. PICK q \in Nat, b \in Nat : b < 2 /\ q1 = 2 * q + b
  <2>1. q1 \div 2 \in Nat /\ q1 % 2 \in Nat /\ q1 % 2 < 2 /\ q1 = 2 * (q1 \div 2) + (q1 % 2)
    BY DivMod
  <2> QED BY <2>1
<1>6. Top(s, m - 1) = q1
  BY <1>4 DEF Top, h
<1>7. h * b \in Nat /\ h * b <= h /\ h * b + r \in Nat /\ h * b + r < 2 * h
  <2>1. b = 0 \/ b = 1 BY <1>5
  <2>2. h * 0 = 0 /\ h * 1 = h BY <1>2
  <2> QED BY <2>1, <2>2, <1>2, <1>4
<1>8. Top(s, m) = q
  <2>1. s = (2 * h) * q + (h * b + r)
    <3>1. h * (2 * q + b) = (2 * h) * q + h * b BY <1>2
    <3>2. (2 * h) * q \in Nat BY <1>2
    <3> QED BY <3>1, <3>2, <1>4, <1>5, <1>7
  <2>2. 2 * h \in Nat \ {0} BY <1>2
  <2> QED BY <2>1, <2>2, <1>3, <1>7, DivUnique DEF Top
<1>9. PICK x \in Nat : x = r * e /\ x < h * e /\ 2 * x < 2 * (h * e)
  <2>1. r + 1 <= h BY <1>2, <1>4
  <2>2. (r + 1) * e <= h * e BY <2>1, <1>2
  <2>3. (r + 1) * e = r * e + e BY <1>2
  <2>4. r * e \in Nat BY <1>2
  <2> QED BY <2>2, <2>3, <2>4, <1>2
<1>10. PICK g \in Nat \ {0} : g = h * e
  BY <1>2
<1>11. s * e = (2 * g) * q + (g * b + x)
  <2>0. s * e \in Nat /\ (h * q1) * e \in Nat /\ r * e \in Nat BY <1>2
  <2>1. s * e = (h * q1) * e + r * e BY <1>2, <1>4
  <2>2. (h * q1) * e = g * q1 BY <1>2, <1>10
  <2>3. g * q1 = (2 * g) * q + g * b BY <1>5
  <2>4. (2 * g) * q \in Nat /\ g * b \in Nat OBVIOUS
  <2> QED BY <2>0, <2>1, <2>2, <2>3, <2>4, <1>9
<1>12. g * b \in Nat /\ g * b + x < 2 * g /\ g * b + x \in Nat /\ x < g /\ 2 * g \in Nat \ {0}
  <2>1. b = 0 \/ b = 1 BY <1>5
  <2>2. g * 0 = 0 /\ g * 1 = g OBVIOUS
  <2> QED BY <2>1, <2>2, <1>9, <1>10
<1>17. PICK d \in Nat \ {0} : d = 2 * g /\ d = Pow2[W]
  BY <1>3, <1>10, <1>12
<1>13. Shl(s, W - m) = g * b + x
  <2>1. PICK y \in Nat : y = g * b + x /\ y < d BY <1>12, <1>17
  <2>2. (d * q + y) % d = y BY <2>1, DivUnique
  <2> QED BY <2>1, <2>2, <1>11, <1>17 DEF Shl, e, W
<1>14. SignBit(g * b + x) = b
  <2>1. (g * b + x) \div Pow2[W - 1] = b BY <1>3, <1>10, <1>12, DivUnique
  <2>2. b % 2 = b BY <1>5
  <2> QED BY <2>1, <2>2 DEF SignBit, Bit, W
<1>15. Shl(g * b + x, 1) = 2 * x
  <2>1. (g * b + x) * 2 = (2 * g) * b + 2 * x BY <1>12
  <2>2. (d * b + 2 * x) % d = 2 * x
    <3>1. 2 * x \in Nat /\ 2 * x < d BY <1>9, <1>10, <1>17
    <3> QED BY <3>1, DivUnique
  <2> QED BY <2>1, <2>2, <1>3, <1>17 DEF Shl, W
<1>16. Shl(s, W - (m - 1)) = 2 * x
  <2>1. s * (2 * e) = (2 * g) * q1 + 2 * x
    <3>1. s * (2 * e) = 2 * (s * e) BY <1>2
    <3>2. 2 * (s * e) = 2 * ((2 * g) * q) + 2 * (g * b) + 2 * x BY <1>11, <1>12
    <3>3. (2 * g) * q1 = 2 * ((2 * g) * q) + 2 * (g * b) BY <1>5
    <3> QED BY <3>1, <3>2, <3>3
  <2>2. (d * q1 + 2 * x) % d = 2 * x
    <3>1. 2 * x \in Nat /\ 2 * x < d BY <1>9, <1>10, <1>17
    <3> QED BY <3>1, DivUnique
  <2> QED BY <2>1, <2>2, <1>3, <1>17 DEF Shl, W
<1> QED BY <1>5, <1>6, <1>8, <1>13, <1>14, <1>15, <1>16

LEMMA Log2Facts ==
  ASSUME NEW x \in Nat \ {0}, x < Pow2[W]
  PROVE  /\ Log2(x) \in 0 .. W /\ Log2(x) < W
         /\ Pow2[Log2(x)] <= x /\ x < Pow2[Log2(x) + 1]
<1> DEFINE K == {k \in 0 .. W : Pow2[k] <= x}
<1>1. W \in Nat /\ 0 \in 0 .. W /\ W \in 0 .. W
  BY WidthAssumption DEF W
<1>2. 0 \in K
  BY <1>1, Powers
<1> HIDE DEF K
<1>3. \E d \in K : \A e \in K : d >= e
  <2>1. K \subseteq 0 .. W BY DEF K
  <2>2. PICK d \in K : \A e \in K : e <= d BY <2>1, <1>1, <1>2, GreatestExists
  <2> QED BY <2>1, <2>2
<1>4. Log2(x) \in K /\ \A e \in K : Log2(x) >= e
  <2>1. Log2(x) = Max(K) BY DEF Log2, K, W
  <2> QED BY <2>1, <1>3 DEF Max
<1>5. Log2(x) \in 0 .. W /\ Pow2[Log2(x)] <= x
  BY <1>4 DEF K
<1>6. Log2(x) < W
  <2>1. Log2(x) # W BY <1>1, <1>5, Powers
  <2> QED BY <2>1, <1>1, <1>5
<1>7. x < Pow2[Log2(x) + 1]
  <2>1. Log2(x) + 1 \in 0 .. W /\ ~(Log2(x) >= Log2(x) + 1) BY <1>1, <1>5, <1>6
  <2>2. Log2(x) + 1 \notin K BY <2>1, <1>4
  <2>3. Pow2[Log2(x) + 1] \in Nat BY <2>1, Powers
  <2> QED BY <2>1, <2>2, <2>3 DEF K
<1> QED BY <1>5, <1>6, <1>7

H == NTREEBINS \div 2

LEMMA Widths ==
  /\ W \in Nat /\ T \in Nat \ {0} /\ NTREEBINS \in Nat \ {0} /\ H \in Nat /\ T + H <= W
  /\ NTREEBINS = 2 * H \/ NTREEBINS = 2 * H + 1
  /\ \A s \in Large : s \in Nat /\ Pow2[T] <= s /\ s < Pow2[W]
<1>1. W \in Nat /\ T \in Nat \ {0} /\ NTREEBINS \in Nat \ {0}
  BY WidthAssumption DEF W, T
<1>2. H \in Nat /\ (NTREEBINS = 2 * H \/ NTREEBINS = 2 * H + 1)
  BY <1>1 DEF H
<1>3. T + H <= W
  BY WidthAssumption DEF W, T, H
<1>4. Pow2[W] \in Nat /\ Pow2[T] \in Nat
  <2>1. W \in 0 .. W /\ T \in 0 .. W BY <1>1, <1>2, <1>3
  <2> QED BY <2>1, Powers
<1>5. \A s \in Large : s \in Nat /\ Pow2[T] <= s /\ s < Pow2[W]
  BY <1>4 DEF Large, W, T
<1> QED BY <1>1, <1>2, <1>3, <1>5

(* The sizes of a bin but the last: the leading bit, and the bit behind it.  *)
IsOrdinary(s, k, q) ==
  /\ k \in 0 .. H - 1 /\ q \in {2, 3}
  /\ compute_tree_index(s) = 2 * k + (q - 2)
  /\ Top(s, k + T - 1) = q

(* A size has the index of the last bin or is ordinary.                      *)
LEMMA IndexCases ==
  ASSUME NEW s \in Large
  PROVE  \/ compute_tree_index(s) = NTREEBINS - 1 /\ Pow2[H + T] <= s
         \/ \E k, q : IsOrdinary(s, k, q)
<1> DEFINE x == s \div Pow2[T]
<1>1. s \in Nat /\ Pow2[T] <= s /\ s < Pow2[W] /\ W \in Nat /\ T \in 0 .. W /\ H \in 0 .. W /\ T \in Nat
  BY Widths
<1>2. PICK d \in Nat \ {0} : d = Pow2[T]
  BY <1>1, Powers
<1>3. PICK r \in Nat : x \in Nat /\ r < d /\ s = d * x + r
  BY <1>1, <1>2, DivMod
<1>4. x # 0
  <2> SUFFICES ASSUME x = 0 PROVE FALSE
    OBVIOUS
  <2> HIDE DEF x
  <2>1. d * x = 0 BY <1>2
  <2> QED BY <2>1, <1>1, <1>2, <1>3
<1>5. x < Pow2[W]
  <2> HIDE DEF x
  <2>1. x <= d * x BY <1>2, <1>3
  <2>2. d * x \in Nat /\ Pow2[W] \in Nat BY <1>2, <1>3, <1>1, Powers, Widths
  <2> QED BY <2>1, <2>2, <1>1, <1>3
<1> DEFINE k == Log2(x)
<1>6. k \in 0 .. W /\ k < W /\ Pow2[k] <= x /\ x < Pow2[k + 1]
  BY <1>3, <1>4, <1>5, Log2Facts
<1>7. compute_tree_index(s) =
        IF x >= Pow2[H] THEN NTREEBINS - 1 ELSE 2 * k + Bit(s, k + T - 1)
  BY <1>4 DEF compute_tree_index, H, T
<1> HIDE DEF x, k
<1>8. CASE x >= Pow2[H]
  <2>1. Pow2[H] \in Nat BY <1>1, Powers
  <2>2. Pow2[H + T] = Pow2[H] * d BY <1>1, <1>2, PowAdd, Widths
  <2>3. Pow2[H] * d <= x * d BY <1>8, <2>1, <1>2, <1>3
  <2>4. x * d = d * x /\ d * x \in Nat /\ Pow2[H] * d \in Nat BY <2>1, <1>2, <1>3
  <2>5. Pow2[H + T] <= s BY <2>2, <2>3, <2>4, <1>3
  <2> QED BY <2>5, <1>7, <1>8
<1>9. CASE ~(x >= Pow2[H])
  <2>1. k < H
    <3> SUFFICES ASSUME H <= k PROVE FALSE
      BY <1>1, <1>6
    <3>1. Pow2[H] <= Pow2[k] BY <1>1, <1>6, PowMono
    <3>2. Pow2[H] \in Nat /\ Pow2[k] \in Nat BY <1>1, <1>6, Powers
    <3> QED BY <3>1, <3>2, <1>3, <1>6, <1>9
  <2>2. /\ k + T - 1 \in Nat /\ k + T - 1 \in 0 .. W /\ k + T <= W /\ (k + T - 1) + 1 = k + T
        /\ k + T - 1 < W /\ k + 1 + T <= W /\ k + T \in 0 .. W /\ (k + T) + 1 = k + 1 + T
        /\ k \in 0 .. H - 1 /\ k \in Nat /\ k + 1 \in Nat /\ k + T < W /\ k + 1 \in 0 .. W
    BY <2>1, <1>1, <1>6, Widths
  <2>3. PICK h \in Nat \ {0} : h = Pow2[k + T - 1]
    BY <2>2, Powers
  <2>4. Pow2[k + T] = 2 * h /\ Pow2[k + 1 + T] = 4 * h
    <3>1. Pow2[(k + T - 1) + 1] = 2 * h BY <2>2, <2>3, Powers
    <3>2. Pow2[(k + T) + 1] = 2 * Pow2[k + T] BY <2>2, Powers
    <3> QED BY <3>1, <3>2, <2>2, <2>3
  <2>5. 2 * h <= s
    <3>1. Pow2[k + T] = Pow2[k] * d BY <2>2, <1>1, <1>2, PowAdd
    <3>2. Pow2[k] \in Nat BY <1>6, Powers
    <3>3. Pow2[k] * d <= x * d /\ x * d = d * x /\ d * x \in Nat BY <3>2, <1>2, <1>3, <1>6
    <3> QED BY <3>1, <3>2, <3>3, <2>4, <2>3, <1>3
  <2>6. s < 4 * h
    <3>1. Pow2[k + 1 + T] = Pow2[k + 1] * d BY <2>2, <1>1, <1>2, PowAdd
    <3>2. Pow2[k + 1] \in Nat BY <2>2, Powers
    <3>3. x + 1 <= Pow2[k + 1] BY <3>2, <1>3, <1>6
    <3>4. (x + 1) * d <= Pow2[k + 1] * d BY <3>2, <3>3, <1>2, <1>3
    <3>5. (x + 1) * d = d * x + d /\ d * x \in Nat BY <1>2, <1>3
    <3> QED BY <3>1, <3>4, <3>5, <2>4, <2>3, <1>3
  <2>7. PICK q \in Nat, t \in Nat : q = s \div h /\ t < h /\ s = h * q + t
    <3>1. /\ s \div h \in Nat /\ s % h \in Nat /\ s % h < h
          /\ s = h * (s \div h) + (s % h)
      BY <2>3, <1>1, DivMod
    <3> QED BY <3>1
  <2>8. q \in {2, 3}
    <3>1. ASSUME q <= 1 PROVE FALSE
      <4>1. h * q <= h BY <3>1, <2>3, <2>7
      <4>2. h * q \in Nat BY <2>3, <2>7
      <4> QED BY <4>1, <4>2, <2>5, <2>7, <2>3
    <3>2. ASSUME q >= 4 PROVE FALSE
      <4>1. h * q >= 4 * h BY <3>2, <2>3, <2>7
      <4>2. h * q \in Nat BY <2>3, <2>7
      <4> QED BY <4>1, <4>2, <2>6, <2>7, <2>3
    <3> QED BY <3>1, <3>2, <2>7
  <2>9. q % 2 = q - 2
    BY <2>8
  <2>10. IsOrdinary(s, k, q)
    BY <2>2, <2>3, <2>7, <2>8, <2>9, <1>7, <1>9 DEF IsOrdinary, Bit, Top
  <2> QED BY <2>10
<1> QED BY <1>8, <1>9

(* What the index of a size says of it.                                      *)
LEMMA IndexFacts ==
  ASSUME NEW s \in Large
  PROVE  LET i == compute_tree_index(s)
         IN  /\ i \in Index
             /\ minsize_for_tree_index(i) <= s
             /\ i # NTREEBINS - 1 => s < minsize_for_tree_index(i + 1)
<1> DEFINE i == compute_tree_index(s)
<1>1. s \in Nat /\ s < Pow2[W]
  BY Widths
<1>2. CASE i = NTREEBINS - 1 /\ Pow2[H + T] <= s
  <2>1. i \in Index BY <1>2, Widths DEF Index
  <2>2. minsize_for_tree_index(i) <= s
    <3>1. CASE NTREEBINS = 2 * H + 1
      <4>1. i \div 2 = H /\ i % 2 = 0 /\ H + T \in 0 .. W /\ H + T - 1 \in 0 .. W
        BY <1>2, <3>1, Widths
      <4>2. Pow2[H + T] \in Nat /\ Pow2[H + T - 1] \in Nat BY <4>1, Powers
      <4> QED BY <4>1, <4>2, <1>2 DEF minsize_for_tree_index, T
    <3>2. CASE NTREEBINS = 2 * H
      <4>1. /\ i \div 2 = H - 1 /\ i % 2 = 1 /\ H + T - 1 \in 0 .. W /\ H + T - 2 \in 0 .. W
            /\ (H - 1) + T = H + T - 1 /\ (H - 1) + T - 1 = H + T - 2
            /\ H + T - 1 < W /\ (H + T - 1) + 1 = H + T /\ H + T - 2 <= H + T - 1
        BY <1>2, <3>2, Widths
      <4>2. Pow2[H + T] = 2 * Pow2[H + T - 1] /\ Pow2[H + T - 2] <= Pow2[H + T - 1]
        <5>1. Pow2[(H + T - 1) + 1] = 2 * Pow2[H + T - 1] BY <4>1, Powers
        <5>2. Pow2[H + T - 2] <= Pow2[H + T - 1] BY <4>1, PowMono
        <5> QED BY <4>1, <5>1, <5>2
      <4>3. Pow2[H + T - 1] \in Nat /\ Pow2[H + T - 2] \in Nat BY <4>1, Powers
      <4>4. minsize_for_tree_index(i) = Pow2[H + T - 1] + Pow2[H + T - 2]
        BY <4>1, <4>3 DEF minsize_for_tree_index, T
      <4> QED BY <4>2, <4>3, <4>4, <1>1, <1>2
    <3> QED BY <3>1, <3>2, Widths
  <2> QED BY <2>1, <2>2, <1>2
<1>3. ASSUME NEW k, NEW q, IsOrdinary(s, k, q)
      PROVE  /\ i \in Index
             /\ minsize_for_tree_index(i) <= s
             /\ i # NTREEBINS - 1 => s < minsize_for_tree_index(i + 1)
  <2>1. k \in 0 .. H - 1 /\ q \in {2, 3} /\ i = 2 * k + (q - 2) /\ Top(s, k + T - 1) = q
    BY <1>3 DEF IsOrdinary
  <2> HIDE DEF i
  <2>2. /\ k \in Nat /\ k + T - 1 \in Nat /\ k + T - 1 \in 0 .. W /\ k + T - 1 < W
        /\ (k + T - 1) + 1 = k + T /\ k + T \in 0 .. W /\ k + T < W /\ (k + T) + 1 = (k + 1) + T
        /\ (k + 1) + T - 1 = k + T /\ i \div 2 = k /\ i % 2 = q - 2
    BY <2>1, Widths
  <2>3. i \in Index
    BY <2>1, Widths DEF Index
  <2>4. PICK h \in Nat \ {0} : h = Pow2[k + T - 1]
    BY <2>2, Powers
  <2>5. Pow2[k + T] = 2 * h /\ Pow2[(k + 1) + T] = 4 * h
    <3>1. Pow2[(k + T - 1) + 1] = 2 * h BY <2>2, <2>4, Powers
    <3>2. Pow2[(k + T) + 1] = 2 * Pow2[k + T] BY <2>2, Powers
    <3> QED BY <3>1, <3>2, <2>2, <2>4
  <2>6. h * q <= s /\ s < h * (q + 1)
    <3>1. s \div h \in Nat /\ s % h \in Nat /\ s % h < h /\ s = h * (s \div h) + (s % h)
      BY <2>4, <1>1, DivMod
    <3>2. s \div h = q BY <2>1, <2>4 DEF Top
    <3>3. PICK r \in Nat : r < h /\ s = h * q + r BY <3>1, <3>2
    <3>4. h * q \in Nat /\ h * (q + 1) = h * q + h BY <2>1, <2>4
    <3> QED BY <3>3, <3>4
  <2>7. minsize_for_tree_index(i) = h * q
    <3>1. minsize_for_tree_index(i) = 2 * h + (q - 2) * h
      BY <2>2, <2>4, <2>5 DEF minsize_for_tree_index, T
    <3> QED BY <3>1, <2>1, <2>4
  <2>8. minsize_for_tree_index(i + 1) = h * (q + 1)
    <3>1. CASE q = 2
      <4>1. (i + 1) \div 2 = k /\ (i + 1) % 2 = 1 BY <3>1, <2>1, <2>2
      <4>2. minsize_for_tree_index(i + 1) = 2 * h + 1 * h
        BY <4>1, <2>4, <2>5 DEF minsize_for_tree_index, T
      <4> QED BY <4>2, <3>1, <2>4
    <3>2. CASE q = 3
      <4>1. (i + 1) \div 2 = k + 1 /\ (i + 1) % 2 = 0 BY <3>2, <2>1, <2>2
      <4>2. minsize_for_tree_index(i + 1) = 4 * h + 0 * (2 * h)
        BY <4>1, <2>2, <2>5 DEF minsize_for_tree_index, T
      <4> QED BY <4>2, <3>2, <2>4
    <3> QED BY <3>1, <3>2, <2>1
  <2> QED BY <2>3, <2>6, <2>7, <2>8
<1> QED BY <1>2, <1>3, IndexCases

LEMMA MinsizeMono ==
  ASSUME NEW i \in Index, NEW j \in Index, i <= j
  PROVE  /\ minsize_for_tree_index(i) \in Nat /\ minsize_for_tree_index(j) \in Nat
         /\ minsize_for_tree_index(i) <= minsize_for_tree_index(j)
<1> DEFINE m(n) == minsize_for_tree_index(n)
<1>1. ASSUME NEW n \in Index
      PROVE  /\ n \div 2 \in Nat /\ n % 2 \in {0, 1} /\ n = 2 * (n \div 2) + (n % 2)
             /\ n \div 2 + T \in 0 .. W /\ n \div 2 + T - 1 \in 0 .. W
             /\ n % 2 = 1 => n \div 2 + T < W
  <2>1. n \in Nat /\ n < NTREEBINS BY Widths DEF Index
  <2>2. n \div 2 \in Nat /\ n % 2 \in {0, 1} /\ n = 2 * (n \div 2) + (n % 2) BY <2>1
  <2>3. n \div 2 <= H /\ (n % 2 = 1 => n \div 2 < H) BY <2>1, <2>2, Widths
  <2> QED BY <2>2, <2>3, Widths
<1>2. ASSUME NEW n \in Index
      PROVE  /\ m(n) \in Nat /\ Pow2[n \div 2 + T] <= m(n)
             /\ n \div 2 + T < W => m(n) <= Pow2[(n \div 2 + T) + 1]
  <2>1. PICK a \in Nat, b \in Nat : a = Pow2[n \div 2 + T] /\ b = Pow2[n \div 2 + T - 1]
    BY <1>1, Powers
  <2>2. PICK e \in {0, 1} : e = n % 2 BY <1>1
  <2>3. m(n) = a + e * b BY <2>1, <2>2 DEF minsize_for_tree_index, T
  <2>4. a = 2 * b
    <3>1. n \div 2 + T - 1 < W /\ (n \div 2 + T - 1) + 1 = n \div 2 + T BY <1>1, Widths
    <3>2. Pow2[(n \div 2 + T - 1) + 1] = 2 * Pow2[n \div 2 + T - 1] BY <1>1, <3>1, Powers
    <3> QED BY <3>1, <3>2, <2>1
  <2>5. n \div 2 + T < W => Pow2[(n \div 2 + T) + 1] = 2 * a BY <1>1, <2>1, Powers
  <2>6. m(n) = a \/ m(n) = a + b BY <2>1, <2>2, <2>3
  <2> HIDE DEF m
  <2>7. m(n) \in Nat /\ a <= m(n) /\ m(n) <= 2 * a BY <2>1, <2>4, <2>6
  <2> QED BY <2>1, <2>5, <2>7
<1>3. m(i) <= m(j)
  <2>1. CASE i \div 2 = j \div 2
    <3>1. i % 2 <= j % 2 BY <2>1, <1>1
    <3>2. PICK a \in Nat, b \in Nat : a = Pow2[i \div 2 + T] /\ b = Pow2[i \div 2 + T - 1]
      BY <1>1, Powers
    <3>3. PICK e \in {0, 1}, f \in {0, 1} : e = i % 2 /\ f = j % 2 BY <1>1
    <3>4. m(i) = a + e * b /\ m(j) = a + f * b
      BY <3>2, <3>3, <2>1 DEF minsize_for_tree_index, T
    <3>5. e * b <= f * b BY <3>1, <3>2, <3>3
    <3>6. e * b \in Nat /\ f * b \in Nat BY <3>2, <3>3
    <3> HIDE DEF m
    <3> QED BY <3>2, <3>4, <3>5, <3>6
  <2>2. CASE i \div 2 # j \div 2
    <3>1. i \div 2 + 1 <= j \div 2 BY <2>2, <1>1
    <3>2. /\ (i \div 2 + T) + 1 \in 0 .. W /\ i \div 2 + T < W
          /\ (i \div 2 + T) + 1 <= j \div 2 + T
      BY <3>1, <1>1, Widths
    <3>3. Pow2[(i \div 2 + T) + 1] <= Pow2[j \div 2 + T] BY <3>2, <1>1, PowMono
    <3>4. Pow2[(i \div 2 + T) + 1] \in Nat /\ Pow2[j \div 2 + T] \in Nat BY <3>2, <1>1, Powers
    <3> QED BY <3>2, <3>3, <3>4, <1>2
  <2> QED BY <2>1, <2>2
<1> QED BY <1>2, <1>3

(* The bins are ordered by size.                                             *)
LEMMA IndexMono ==
  ASSUME NEW a \in Large, NEW b \in Large, compute_tree_index(a) < compute_tree_index(b)
  PROVE  a < b
<1> DEFINE i == compute_tree_index(a)
           j == compute_tree_index(b)
<1>1. i \in Index /\ j \in Index /\ minsize_for_tree_index(j) <= b
  BY IndexFacts
<1>2. i # NTREEBINS - 1 /\ i + 1 \in Index /\ i + 1 <= j
  BY <1>1, Widths DEF Index
<1>3. a < minsize_for_tree_index(i + 1)
  BY <1>2, IndexFacts
<1>4. /\ minsize_for_tree_index(i + 1) \in Nat /\ minsize_for_tree_index(j) \in Nat
      /\ minsize_for_tree_index(i + 1) <= minsize_for_tree_index(j)
  BY <1>1, <1>2, MinsizeMono
<1> HIDE DEF i, j
<1> QED BY <1>1, <1>3, <1>4, Widths

(* The sizes of a bin agree in the bits that it does not leave open, which   *)
(* SizeBits() drops.                                                         *)
LEMMA BinPrefix ==
  ASSUME NEW a \in Large, NEW i, i = compute_tree_index(a)
  PROVE  /\ NB(i) \in 0 .. W
         /\ SizeBits(a) = Shl(a, W - NB(i))
         /\ \A b \in Large : compute_tree_index(b) = i => Top(a, NB(i)) = Top(b, NB(i))
<1>1. i \in Index
  BY IndexFacts
<1>2. leftshift_for_tree_index(i) \in 0 .. W /\ leftshift_for_tree_index(i) \in Nat
  <2>1. i \in Nat /\ i < NTREEBINS BY <1>1, Widths DEF Index
  <2>2. i \div 2 \in Nat /\ (i # NTREEBINS - 1 => i \div 2 <= H) BY <2>1, Widths
  <2>3. i # NTREEBINS - 1 => i \div 2 < H BY <2>1, <2>2, Widths
  <2> QED BY <2>2, <2>3, Widths DEF leftshift_for_tree_index, W, T
<1>3. NB(i) \in 0 .. W /\ W - NB(i) = leftshift_for_tree_index(i)
  BY <1>2, Widths DEF NB
<1>4. SizeBits(a) = Shl(a, W - NB(i))
  BY <1>3 DEF SizeBits
<1>5. ASSUME NEW b \in Large, compute_tree_index(b) = i
      PROVE  Top(a, NB(i)) = Top(b, NB(i))
  <2>1. CASE i = NTREEBINS - 1
    <3>1. NB(i) = W BY <2>1, Widths DEF NB, leftshift_for_tree_index, W
    <3> QED BY <3>1, <1>3, TopFacts, Widths
  <2>2. CASE i # NTREEBINS - 1
    <3>1. PICK k, q : IsOrdinary(a, k, q) BY <2>2, IndexCases
    <3>2. PICK l, p : IsOrdinary(b, l, p) BY <2>2, <1>5, IndexCases
    <3>3. k = l /\ q = p BY <3>1, <3>2, <1>5, Widths DEF IsOrdinary
    <3>4. NB(i) = k + T - 1
      <4>1. i \div 2 = k /\ k \in Nat BY <3>1, Widths DEF IsOrdinary
      <4> QED BY <4>1, <2>2, Widths DEF NB, leftshift_for_tree_index, W, T
    <3> QED BY <3>1, <3>2, <3>3, <3>4 DEF IsOrdinary
  <2> QED BY <2>1, <2>2
<1> QED BY <1>3, <1>4, <1>5

-----------------------------------------------------------------------------
(* Trees.  *)

LEMMA Fields ==
  ASSUME NEW w, Typed(w)
  PROVE  /\ Nd(w) \subseteq Chunk /\ Null \notin Nd(w) /\ Tr(w) \subseteq Nd(w)
         /\ \A i \in Index : treebin_at(i) \notin Nd(w) \union {Null}
         /\ w.root \in [Index -> Nd(w) \union {Null}] /\ w.map \subseteq Index
         /\ \A t \in Nd(w) : /\ w.node[t] \in NodeRec
                             /\ w.node[t].size \in Large /\ w.node[t].index \in Index
                             /\ w.node[t].size \in Nat /\ w.node[t].size < Pow2[W]
<1>1. PICK N \in SUBSET Chunk :
        w \in [node : [N -> NodeRec], root : [Index -> N \union {Null}], map : SUBSET Index]
  BY DEF Typed
<1>2. Nd(w) = N /\ w.node \in [N -> NodeRec]
  BY <1>1 DEF Nd
<1>3. \A t \in Nd(w) : w.node[t] \in NodeRec
  BY <1>2
<1>4. \A n \in NodeRec : n.size \in Large /\ n.index \in Index
  BY DEF NodeRec
<1> QED BY <1>1, <1>2, <1>3, <1>4, PointerAssumption, Widths DEF Tr

(* The tree nodes of the bin of t whose place is that of t or below it, by   *)
(* the leading bits of their sizes.                                          *)
Sub(w, lev, t) ==
  {u \in Tr(w) : /\ w.node[u].index = w.node[t].index /\ lev[u] <= lev[t]
                 /\ Top(w.node[u].size, lev[t]) = Top(w.node[t].size, lev[t])}

IsTree(w, lev) == Shaped(w) /\ Levels(w, lev)

(* A tree node is the root of its bin or a child of its parent.              *)
IsChild(w, lev, t, p, b) ==
  /\ p \in Tr(w) /\ b \in {0, 1} /\ w.node[t].parent = p /\ w.node[p].child[b] = t
  /\ lev[p] = lev[t] + 1 /\ w.node[t].index = w.node[p].index
  /\ Top(w.node[t].size, lev[t]) = 2 * Top(w.node[p].size, lev[p]) + b

(* Links, one at a time.                                                     *)
LEMMA RootLink ==
  ASSUME NEW w, Links(w), NEW i \in Index, w.root[i] # Null
  PROVE  w.node[w.root[i]].parent = treebin_at(i)
<1> QED BY DEF Links

LEMMA ChildLink ==
  ASSUME NEW w, Links(w), NEW t \in Nd(w), NEW b \in {0, 1}, w.node[t].child[b] # Null
  PROVE  /\ t \in Tr(w) /\ w.node[t].child[b] \in Nd(w)
         /\ w.node[w.node[t].child[b]].parent = t
<1> QED BY DEF Links

LEMMA ParentLink ==
  ASSUME NEW w, Links(w), NEW t \in Tr(w)
  PROVE  LET p == w.node[t].parent
         IN  \/ p \in Nd(w) /\ \E b \in {0, 1} : w.node[p].child[b] = t
             \/ \E i \in Index : p = treebin_at(i) /\ w.root[i] = t /\ w.node[t].index = i
<1> QED BY DEF Links

LEMMA Parents ==
  ASSUME NEW w, NEW lev, IsTree(w, lev), NEW t \in Tr(w)
  PROVE  \/ w.root[w.node[t].index] = t /\ lev[t] = NB(w.node[t].index)
         \/ \E p, b : IsChild(w, lev, t, p, b)
<1> USE DEF IsTree, Shaped
<1>1. t \in Nd(w) /\ t # Null /\ w.node[t].index \in Index
  BY Fields
<1>2. CASE \E i \in Index : w.node[t].parent = treebin_at(i) /\ w.root[i] = t /\ w.node[t].index = i
  BY <1>1, <1>2 DEF Levels
<1>3. ASSUME w.node[t].parent \in Nd(w), NEW b \in {0, 1}, w.node[w.node[t].parent].child[b] = t
      PROVE  \E p, c : IsChild(w, lev, t, p, c)
  <2> DEFINE p == w.node[t].parent
  <2>1. p \in Tr(w) BY <1>1, <1>3 DEF Links
  <2>2. IsChild(w, lev, t, p, b) BY <1>1, <1>3, <2>1 DEF Levels, IsChild
  <2> QED BY <2>2
<1> QED BY <1>2, <1>3 DEF Links

LEMMA Children ==
  ASSUME NEW w, NEW lev, IsTree(w, lev), NEW p \in Nd(w), NEW b \in {0, 1},
         w.node[p].child[b] # Null
  PROVE  w.node[p].child[b] \in Tr(w) /\ IsChild(w, lev, w.node[p].child[b], p, b)
<1> DEFINE c == w.node[p].child[b]
<1>1. p \in Tr(w) /\ c \in Nd(w) /\ w.node[c].parent = p
  BY DEF Links, IsTree, Shaped
<1>2. p # Null
  BY Fields DEF IsTree, Shaped
<1> QED BY <1>1, <1>2 DEF IsChild, Levels, IsTree, Tr

(* A set of tree nodes has a highest one.                                    *)
LEMMA Highest ==
  ASSUME NEW w, NEW lev, IsTree(w, lev), NEW S, S \subseteq Tr(w), S # {}
  PROVE  \E t \in S : \A u \in S : lev[u] <= lev[t]
<1> DEFINE L == {lev[u] : u \in S}
<1>1. L \subseteq 0 .. W /\ L # {}
  BY DEF IsTree, Levels
<1> HIDE DEF L
<1>2. PICK d \in L : \A e \in L : e <= d
  BY <1>1, Widths, GreatestExists
<1> QED BY <1>2 DEF L

LEMMA BelowRoot ==
  ASSUME NEW w, NEW lev, IsTree(w, lev), NEW t \in Tr(w)
  PROVE  LET i == w.node[t].index
             r == w.root[i]
         IN  /\ i \in Index /\ r \in Tr(w) /\ w.node[r].index = i /\ lev[r] = NB(i)
             /\ lev[t] <= NB(i) /\ (lev[t] = NB(i) => t = r)
             /\ NB(i) \in 0 .. W
<1> DEFINE i == w.node[t].index
           S == {u \in Tr(w) : w.node[u].index = i}
<1>1. i \in Index /\ lev \in [Tr(w) -> 0 .. W]
  BY Fields DEF IsTree, Shaped, Levels
<1>2. PICK r \in S : \A u \in S : lev[u] <= lev[r]
  BY Highest
<1>3. ASSUME NEW p, NEW b, IsChild(w, lev, r, p, b) PROVE FALSE
  <2>1. p \in S /\ lev[p] = lev[r] + 1 BY <1>2, <1>3 DEF IsChild
  <2>2. lev[p] <= lev[r] /\ lev[r] \in Nat BY <2>1, <1>1, <1>2
  <2> QED BY <2>1, <2>2
<1>4. w.root[i] = r /\ lev[r] = NB(i)
  BY <1>2, <1>3, Parents
<1>5. ASSUME lev[t] = NB(i) PROVE t = r
  <2>1. ASSUME NEW p, NEW b, IsChild(w, lev, t, p, b) PROVE FALSE
    <3>1. p \in S /\ lev[p] = lev[t] + 1 BY <2>1 DEF IsChild
    <3>2. lev[p] <= lev[r] /\ lev[r] \in Nat BY <3>1, <1>1, <1>2
    <3> QED BY <3>1, <3>2, <1>4, <1>5
  <2> QED BY <2>1, <1>4, Parents
<1> QED BY <1>1, <1>2, <1>4, <1>5

LEMMA IsRoot ==
  ASSUME NEW w, NEW lev, IsTree(w, lev), NEW t \in Tr(w), lev[t] = NB(w.node[t].index)
  PROVE  t = w.root[w.node[t].index]
<1> QED BY BelowRoot

(* Two places that agree in level and leading bits are one.                  *)
LEMMA PlacesDiffer ==
  ASSUME NEW w, NEW lev, IsTree(w, lev), NEW t \in Tr(w), NEW u \in Tr(w),
         w.node[t].index = w.node[u].index, lev[t] = lev[u],
         Top(w.node[t].size, lev[t]) = Top(w.node[u].size, lev[u])
  PROVE  t = u
<1> DEFINE Twins(x, y) ==
             /\ x # y /\ w.node[x].index = w.node[y].index /\ lev[x] = lev[y]
             /\ Top(w.node[x].size, lev[x]) = Top(w.node[y].size, lev[y])
           S == {x \in Tr(w) : \E y \in Tr(w) : Twins(x, y)}
<1>1. ASSUME S # {} PROVE FALSE
  <2>1. PICK x \in S : \A z \in S : lev[z] <= lev[x] BY <1>1, Highest
  <2>2. PICK y \in Tr(w) : Twins(x, y) OBVIOUS
  <2>3. x \in Tr(w) /\ lev \in [Tr(w) -> 0 .. W] BY DEF IsTree, Levels
  <2>5. lev[x] # NB(w.node[x].index)
    <3> SUFFICES ASSUME lev[x] = NB(w.node[x].index) PROVE FALSE
      OBVIOUS
    <3>1. /\ w.node[x].index = w.node[y].index /\ lev[y] = NB(w.node[y].index) /\ x # y
      BY <2>2
    <3> HIDE DEF Twins, S
    <3>2. x = w.root[w.node[x].index] BY <2>3, IsRoot
    <3>3. y = w.root[w.node[y].index] BY <2>2, <3>1, IsRoot
    <3> QED BY <3>1, <3>2, <3>3
  <2>6. PICK p, b : IsChild(w, lev, x, p, b) BY <2>3, <2>5, Parents
  <2>7. PICK q, c : IsChild(w, lev, y, q, c) BY <2>2, <2>5, Parents
  <2>8. lev[p] = lev[q] /\ lev[p] \in 0 .. W /\ lev[p] = lev[x] + 1 /\ p \in Tr(w) /\ q \in Tr(w)
    BY <2>2, <2>3, <2>6, <2>7 DEF IsChild
  <2>9. b = c /\ Top(w.node[p].size, lev[p]) = Top(w.node[q].size, lev[q])
    <3>1. w.node[p].size \in Nat /\ w.node[q].size \in Nat
      BY <2>8, Fields DEF IsTree, Shaped
    <3>2. Top(w.node[p].size, lev[p]) \in Nat /\ Top(w.node[q].size, lev[q]) \in Nat
      BY <3>1, <2>8, TopFacts
    <3>3. 2 * Top(w.node[p].size, lev[p]) + b = 2 * Top(w.node[q].size, lev[q]) + c
      BY <2>2, <2>6, <2>7 DEF IsChild
    <3> QED BY <3>2, <3>3, <2>6, <2>7 DEF IsChild
  <2>10. p # q
    BY <2>2, <2>6, <2>7, <2>9 DEF IsChild
  <2>11. Twins(p, q)
    BY <2>2, <2>6, <2>7, <2>8, <2>9, <2>10 DEF IsChild
  <2>12. p \in S BY <2>8, <2>11
  <2>13. lev[p] <= lev[x] /\ lev[x] \in Nat BY <2>1, <2>3, <2>12
  <2> QED BY <2>8, <2>13
<1> QED BY <1>1

(* What is below a node, and what below its children.                        *)
LEMMA SubFacts ==
  ASSUME NEW w, NEW lev, IsTree(w, lev), NEW t \in Tr(w)
  PROVE  /\ t \in Sub(w, lev, t) /\ Sub(w, lev, t) \subseteq Tr(w)
         /\ lev[t] \in Nat /\ lev[t] \in 0 .. W /\ w.node[t].size \in Nat
         /\ Top(w.node[t].size, lev[t]) \in Nat
<1>1. lev \in [Tr(w) -> 0 .. W]
  BY DEF IsTree, Levels
<1>2. lev[t] \in Nat /\ lev[t] \in 0 .. W
  BY <1>1, Widths
<1>3. w.node[t].size \in Nat
  BY Fields DEF IsTree, Shaped
<1> QED BY <1>2, <1>3, TopFacts DEF Sub

LEMMA SubRoot ==
  ASSUME NEW w, NEW lev, IsTree(w, lev), NEW i \in Index, w.root[i] # Null
  PROVE  /\ w.root[i] \in Tr(w) /\ w.node[w.root[i]].index = i /\ lev[w.root[i]] = NB(i)
         /\ Sub(w, lev, w.root[i]) = {u \in Tr(w) : w.node[u].index = i}
<1> DEFINE r == w.root[i]
<1>1. w.root[i] \in Nd(w) /\ w.node[r].parent = treebin_at(i)
  BY Fields DEF IsTree, Shaped, Links
<1>2. r \in Tr(w)
  BY <1>1, Fields DEF Tr, IsTree, Shaped
<1>3. w.node[r].index = i
  <2>1. w.node[r].parent \notin Nd(w) BY <1>1, Fields DEF IsTree, Shaped
  <2>2. PICK j \in Index : treebin_at(i) = treebin_at(j) /\ w.node[r].index = j
    BY <1>1, <1>2, <2>1 DEF IsTree, Shaped, Links
  <2> QED BY <2>2 DEF treebin_at
<1>4. lev[r] = NB(i)
  BY DEF IsTree, Levels
<1>5. ASSUME NEW u \in Tr(w), w.node[u].index = i PROVE u \in Sub(w, lev, r)
  <2>1. lev[u] <= NB(i) BY <1>5, BelowRoot
  <2>2. /\ w.node[r].size \in Large /\ compute_tree_index(w.node[r].size) = i
        /\ w.node[u].size \in Large /\ compute_tree_index(w.node[u].size) = i
    <3>1. r \in Nd(w) /\ u \in Nd(w) BY <1>1 DEF Tr
    <3> QED BY <3>1, <1>3, <1>5, Fields DEF IsTree, Shaped, Indexed
  <2>3. Top(w.node[u].size, NB(i)) = Top(w.node[r].size, NB(i))
    BY <2>2, BinPrefix
  <2> QED BY <2>1, <2>3, <1>3, <1>4, <1>5 DEF Sub
<1> HIDE DEF r
<1> QED BY <1>2, <1>3, <1>4, <1>5 DEF Sub, r

LEMMA SubTrans ==
  ASSUME NEW w, NEW lev, IsTree(w, lev), NEW t \in Tr(w), NEW u \in Sub(w, lev, t)
  PROVE  Sub(w, lev, u) \subseteq Sub(w, lev, t)
<1>1. u \in Tr(w) /\ w.node[u].index = w.node[t].index /\ lev[u] <= lev[t]
  BY DEF Sub
<1> SUFFICES ASSUME NEW v \in Sub(w, lev, u) PROVE v \in Sub(w, lev, t)
  OBVIOUS
<1>2. v \in Tr(w) /\ w.node[v].index = w.node[u].index /\ lev[v] <= lev[u]
  BY DEF Sub
<1>3. lev[t] \in 0 .. W /\ lev[u] \in 0 .. W /\ lev[v] \in 0 .. W
  BY <1>1, <1>2, SubFacts
<1>4. Top(w.node[v].size, lev[t]) = Top(w.node[u].size, lev[t])
  <2>1. Top(w.node[v].size, lev[u]) = Top(w.node[u].size, lev[u]) BY DEF Sub
  <2> QED BY <2>1, <1>1, <1>2, <1>3, SubFacts, TopCoarser
<1> QED BY <1>1, <1>2, <1>3, <1>4 DEF Sub

LEMMA SubChild ==
  ASSUME NEW w, NEW lev, IsTree(w, lev), NEW t, NEW p, NEW b, IsChild(w, lev, t, p, b),
         t \in Tr(w)
  PROVE  Sub(w, lev, t) \subseteq Sub(w, lev, p) \ {p}
<1>1. p \in Tr(w) /\ b \in {0, 1} /\ lev[p] = lev[t] + 1 /\ w.node[t].index = w.node[p].index
  BY DEF IsChild
<1>2. /\ lev[t] \in 0 .. W /\ lev[p] \in 0 .. W /\ lev[t] \in Nat /\ lev[p] \in 1 .. W
      /\ lev[p] - 1 = lev[t] /\ w.node[t].size \in Nat /\ w.node[p].size \in Nat
  BY <1>1, SubFacts
<1>3. Top(w.node[t].size, lev[p]) = Top(w.node[p].size, lev[p])
  <2>1. PICK c \in {0, 1} :
          Top(w.node[t].size, lev[p] - 1) = 2 * Top(w.node[t].size, lev[p]) + c
    BY <1>2, TopStep
  <2>2. Top(w.node[t].size, lev[t]) = 2 * Top(w.node[p].size, lev[p]) + b BY DEF IsChild
  <2>3. Top(w.node[t].size, lev[p]) \in Nat /\ Top(w.node[p].size, lev[p]) \in Nat
    BY <1>2, TopFacts
  <2> QED BY <2>1, <2>2, <2>3, <1>1, <1>2
<1>4. t \in Sub(w, lev, p)
  BY <1>1, <1>2, <1>3 DEF Sub
<1>5. p \notin Sub(w, lev, t)
  BY <1>1, <1>2 DEF Sub
<1> QED BY <1>1, <1>4, <1>5, SubTrans

LEMMA SubSplit ==
  ASSUME NEW w, NEW lev, IsTree(w, lev), NEW t \in Tr(w), NEW u \in Sub(w, lev, t), u # t
  PROVE  /\ lev[t] \in 1 .. W
         /\ \E b \in {0, 1} :
              LET c == w.node[t].child[b]
              IN  /\ c # Null /\ u \in Sub(w, lev, c)
                  /\ Top(w.node[u].size, lev[t] - 1) = 2 * Top(w.node[t].size, lev[t]) + b
<1>1. u \in Tr(w) /\ w.node[u].index = w.node[t].index /\ lev[u] <= lev[t]
  BY DEF Sub
<1>2. lev[u] # lev[t]
  BY <1>1, PlacesDiffer DEF Sub
<1>3. lev[u] \in Nat /\ lev[t] \in Nat /\ lev[t] \in 1 .. W /\ lev[u] <= lev[t] - 1
  BY <1>1, <1>2, SubFacts
<1> DEFINE S == {v \in Tr(w) : /\ w.node[v].index = w.node[t].index /\ lev[v] <= lev[t] - 1
                               /\ u \in Sub(w, lev, v)}
<1>4. u \in S
  BY <1>1, <1>3, SubFacts
<1>5. PICK v \in S : \A x \in S : lev[x] <= lev[v]
  <2>1. S \subseteq Tr(w) /\ S # {} BY <1>4
  <2> HIDE DEF S
  <2> QED BY <2>1, Highest
<1>6. v \in Tr(w) /\ w.node[v].index = w.node[t].index /\ lev[v] <= lev[t] - 1 /\ u \in Sub(w, lev, v)
  OBVIOUS
<1>7. lev[v] \in Nat
  BY <1>6, SubFacts
<1>8. PICK p, b : IsChild(w, lev, v, p, b)
  <2>1. lev[t] <= NB(w.node[t].index) /\ NB(w.node[t].index) \in 0 .. W BY BelowRoot
  <2>2. lev[v] # NB(w.node[v].index) BY <2>1, <1>3, <1>6, <1>7
  <2> QED BY <2>2, <1>6, Parents
<1>9. /\ p \in Tr(w) /\ b \in {0, 1} /\ w.node[p].child[b] = v /\ lev[p] = lev[v] + 1
      /\ w.node[p].index = w.node[t].index
  BY <1>6, <1>8 DEF IsChild
<1>10. u \in Sub(w, lev, p)
  BY <1>6, <1>8, SubChild
<1>11. lev[p] = lev[t]
  <2>1. lev[p] \in Nat BY <1>9, SubFacts
  <2> SUFFICES ASSUME lev[p] <= lev[t] - 1 PROVE FALSE
    BY <2>1, <1>3, <1>6, <1>7, <1>9
  <2>2. p \in S BY <1>9, <1>10
  <2>3. lev[p] <= lev[v] BY <2>2, <1>5
  <2> QED BY <2>3, <1>7, <1>9
<1>12. p = t
  <2>1. Top(w.node[p].size, lev[p]) = Top(w.node[t].size, lev[t])
    BY <1>10, <1>11 DEF Sub
  <2> QED BY <2>1, <1>9, <1>11, PlacesDiffer
<1>13. Top(w.node[u].size, lev[v]) = 2 * Top(w.node[t].size, lev[t]) + b
  BY <1>6, <1>8, <1>12 DEF IsChild, Sub
<1>14. lev[v] = lev[t] - 1 /\ v # Null
  BY <1>3, <1>6, <1>7, <1>9, <1>11, Fields DEF IsTree, Shaped
<1> QED BY <1>3, <1>6, <1>9, <1>12, <1>13, <1>14

(* The sizes in the left subtree are smaller than those in the right one.    *)
LEMMA Sides ==
  ASSUME NEW w, NEW lev, IsTree(w, lev), NEW t \in Nd(w),
         w.node[t].child[0] # Null, w.node[t].child[1] # Null
  PROVE  \A u \in Sub(w, lev, w.node[t].child[0]), v \in Sub(w, lev, w.node[t].child[1]) :
           w.node[u].size < w.node[v].size
<1> DEFINE l == w.node[t].child[0]
           r == w.node[t].child[1]
<1>1. l \in Tr(w) /\ IsChild(w, lev, l, t, 0) /\ r \in Tr(w) /\ IsChild(w, lev, r, t, 1)
  BY Children
<1> SUFFICES ASSUME NEW u \in Sub(w, lev, l), NEW v \in Sub(w, lev, r)
             PROVE  w.node[u].size < w.node[v].size
  OBVIOUS
<1> HIDE DEF l, r
<1>2. t \in Tr(w) /\ lev[t] = lev[l] + 1 /\ lev[t] = lev[r] + 1
  BY <1>1 DEF IsChild
<1>3. lev[l] \in 0 .. W /\ lev[l] = lev[r] /\ Top(w.node[t].size, lev[t]) \in Nat
  BY <1>1, <1>2, SubFacts
<1>4. Top(w.node[u].size, lev[l]) = 2 * Top(w.node[t].size, lev[t])
  BY <1>1, <1>3 DEF IsChild, Sub
<1>5. Top(w.node[v].size, lev[l]) = 2 * Top(w.node[t].size, lev[t]) + 1
  BY <1>1, <1>3 DEF IsChild, Sub
<1>6. Top(w.node[u].size, lev[l]) < Top(w.node[v].size, lev[l])
  BY <1>3, <1>4, <1>5
<1>7. u \in Tr(w) /\ v \in Tr(w)
  BY DEF Sub
<1> QED BY <1>3, <1>6, <1>7, SubFacts, TopMono

-----------------------------------------------------------------------------
(* Paths.  *)

LEMMA ShlNat ==
  ASSUME NEW n \in Nat, NEW k \in 0 .. W
  PROVE  Shl(n, k) \in Nat
<1>1. Pow2[k] \in Nat /\ Pow2[W] \in Nat \ {0}
  <2>1. W \in 0 .. W BY Widths
  <2> QED BY <2>1, Powers
<1>2. PICK m \in Nat : m = n * Pow2[k]
  BY <1>1
<1>3. m % Pow2[W] \in Nat
  BY <1>1, <1>2, DivMod
<1> QED BY <1>2, <1>3 DEF Shl, W

LEMMA BitFacts ==
  ASSUME NEW n \in Nat
  PROVE  SignBit(n) \in {0, 1} /\ Shl(n, 1) \in Nat
<1>1. W - 1 \in 0 .. W /\ 1 \in 0 .. W
  BY Widths
<1>2. Pow2[W - 1] \in Nat \ {0}
  BY <1>1, Powers
<1>3. n \div Pow2[W - 1] \in Nat
  BY <1>2, DivMod
<1>4. (n \div Pow2[W - 1]) % 2 \in {0, 1}
  BY <1>3
<1> QED BY <1>1, <1>4, ShlNat DEF SignBit, Bit, W

(* The loop of PathEnd.  *)
PathStates(w) == [t : Nd(w), sizebits : Nat]

NextOf(w, p) == w.node[p.t].child[SignBit(p.sizebits)]

PathWalk(w, s, f) ==
  f = [p \in [t : DOMAIN w.node, sizebits : Nat] |->
         LET next == w.node[p.t].child[SignBit(p.sizebits)]
         IN  IF w.node[p.t].size = s \/ next = Null THEN p
             ELSE f[[t |-> next, sizebits |-> Shl(p.sizebits, 1)]]]

(* The place of size s: what the loops along its path say of t and sizebits. *)
OnPath(w, lev, s, t, sizebits) ==
  /\ t \in Tr(w) /\ w.node[t].index = compute_tree_index(s)
  /\ Top(w.node[t].size, lev[t]) = Top(s, lev[t])
  /\ sizebits = Shl(s, W - lev[t])
  /\ \A u \in Tr(w) : w.node[u].size = s => u \in Sub(w, lev, t)

LEMMA PathStart ==
  ASSUME NEW w, NEW lev, IsTree(w, lev), NEW s \in Large,
         w.root[compute_tree_index(s)] # Null
  PROVE  OnPath(w, lev, s, w.root[compute_tree_index(s)], SizeBits(s))
<1> DEFINE i == compute_tree_index(s)
           r == w.root[i]
<1>1. i \in Index
  BY IndexFacts
<1>2. r \in Tr(w) /\ w.node[r].index = i /\ lev[r] = NB(i)
  BY <1>1, SubRoot
<1>3. r \in Nd(w) /\ w.node[r].size \in Large /\ compute_tree_index(w.node[r].size) = i
  BY <1>2, Fields DEF IsTree, Shaped, Indexed
<1>4. SizeBits(s) = Shl(s, W - NB(i)) /\ Top(w.node[r].size, NB(i)) = Top(s, NB(i))
  BY <1>3, BinPrefix
<1>5. ASSUME NEW u \in Tr(w), w.node[u].size = s PROVE u \in Sub(w, lev, r)
  <2>1. w.node[u].index = i BY <1>5, Fields DEF IsTree, Shaped, Indexed
  <2> QED BY <2>1, <1>1, SubRoot
<1> QED BY <1>2, <1>4, <1>5 DEF OnPath

LEMMA PathStep ==
  ASSUME NEW w, NEW lev, IsTree(w, lev), NEW s \in Large, NEW t, NEW sizebits,
         OnPath(w, lev, s, t, sizebits)
  PROVE  LET b == SignBit(sizebits)
             c == w.node[t].child[b]
         IN  /\ w.node[t].size # s => lev[t] \in 1 .. W
             /\ lev[t] \in 1 .. W =>
                  /\ b \in {0, 1}
                  /\ Top(s, lev[t] - 1) = 2 * Top(w.node[t].size, lev[t]) + b
             /\ c # Null /\ w.node[t].size # s =>
                  OnPath(w, lev, s, c, Shl(sizebits, 1)) /\ lev[t] = lev[c] + 1
             /\ c = Null /\ w.node[t].size # s => \A u \in Tr(w) : w.node[u].size # s
<1> DEFINE b == SignBit(sizebits)
           c == w.node[t].child[b]
<1>1. t \in Tr(w) /\ t \in Nd(w) /\ s \in Nat /\ lev[t] \in 0 .. W /\ w.node[t].size \in Nat
  BY SubFacts, Widths DEF OnPath, Tr
<1>2. ASSUME w.node[t].size # s PROVE lev[t] \in 1 .. W
  <2> SUFFICES ASSUME lev[t] = 0 PROVE FALSE
    BY <1>1, Widths
  <2> QED BY <1>1, <1>2, TopFacts DEF OnPath
<1>3. ASSUME lev[t] \in 1 .. W
      PROVE  /\ b \in {0, 1}
             /\ Top(s, lev[t] - 1) = 2 * Top(w.node[t].size, lev[t]) + b
             /\ Shl(sizebits, 1) = Shl(s, W - (lev[t] - 1))
  BY <1>1, <1>3, TopStep DEF OnPath
<1>5. ASSUME w.node[t].size # s, NEW u \in Tr(w), w.node[u].size = s
      PROVE  c # Null /\ u \in Sub(w, lev, c)
  <2>1. u \in Sub(w, lev, t) /\ u # t BY <1>5 DEF OnPath
  <2>2. PICK d \in {0, 1} :
          LET e == w.node[t].child[d]
          IN  /\ e # Null /\ u \in Sub(w, lev, e)
              /\ Top(s, lev[t] - 1) = 2 * Top(w.node[t].size, lev[t]) + d
    BY <2>1, <1>1, <1>5, SubSplit
  <2>3. b \in {0, 1} /\ Top(s, lev[t] - 1) = 2 * Top(w.node[t].size, lev[t]) + b
    BY <1>2, <1>3, <1>5
  <2>4. Top(w.node[t].size, lev[t]) \in Nat BY <1>1, SubFacts
  <2> HIDE DEF b
  <2>5. d = b BY <2>2, <2>3, <2>4
  <2> QED BY <2>2, <2>5
<1>4. ASSUME c # Null, w.node[t].size # s
      PROVE  OnPath(w, lev, s, c, Shl(sizebits, 1)) /\ lev[t] = lev[c] + 1
  <2>1. sizebits \in Nat
    <3>1. W - lev[t] \in 0 .. W BY <1>1, Widths
    <3> QED BY <1>1, <3>1, ShlNat DEF OnPath
  <2>2. b \in {0, 1} BY <2>1, BitFacts
  <2> HIDE DEF b
  <2>3. c \in Tr(w) /\ IsChild(w, lev, c, t, b) BY <1>1, <1>4, <2>2, Children
  <2> HIDE DEF c
  <2>4. lev[c] \in 0 .. W /\ lev[t] = lev[c] + 1 /\ lev[t] \in 1 .. W /\ lev[t] - 1 = lev[c]
    BY <1>1, <2>3, SubFacts DEF IsChild
  <2>5. \A u \in Tr(w) : w.node[u].size = s => u \in Sub(w, lev, c) BY <1>4, <1>5 DEF c
  <2> QED BY <1>3, <2>3, <2>4, <2>5 DEF IsChild, OnPath, b
<1> QED BY <1>2, <1>3, <1>4, <1>5

(* The path of s ends where s is, or where it has to be.                     *)
LEMMA PathEnds ==
  ASSUME NEW w, NEW lev, IsTree(w, lev), NEW s \in Large,
         w.root[compute_tree_index(s)] # Null
  PROVE  LET end == PathEnd(w, w.root[compute_tree_index(s)], s)
         IN  /\ OnPath(w, lev, s, end.t, end.sizebits)
             /\ w.node[end.t].size = s \/ w.node[end.t].child[SignBit(end.sizebits)] = Null
<1> DEFINE D == PathStates(w)
           go == {p \in D : ~(w.node[p.t].size = s \/ NextOf(w, p) = Null)}
           nxt == [p \in D |-> [t |-> NextOf(w, p), sizebits |-> Shl(p.sizebits, 1)]]
           rank == [p \in D |-> IF p.t \in Tr(w) THEN lev[p.t] ELSE 0]
           base == [p \in D |-> p]
           S == {p \in D : OnPath(w, lev, s, p.t, p.sizebits)}
           p0 == [t |-> w.root[compute_tree_index(s)], sizebits |-> SizeBits(s)]
<1>1. W \in Nat /\ lev \in [Tr(w) -> 0 .. W] /\ Tr(w) \subseteq Nd(w)
  BY Widths, Fields DEF IsTree, Shaped, Levels
<1>2. \A p \in D : p.t \in Nd(w) /\ p.sizebits \in Nat
  BY DEF PathStates
<1>3. ASSUME NEW p \in go
      PROVE  nxt[p] \in D /\ rank[nxt[p]] < rank[p]
  <2>1. /\ p.t \in Nd(w) /\ SignBit(p.sizebits) \in {0, 1} /\ Shl(p.sizebits, 1) \in Nat
        /\ NextOf(w, p) # Null
    BY <1>2, BitFacts
  <2>2. NextOf(w, p) \in Tr(w) /\ p.t \in Tr(w) /\ lev[p.t] = lev[NextOf(w, p)] + 1
    BY <2>1, Children DEF NextOf, IsChild
  <2>3. nxt[p] \in D
    BY <2>1, <2>2, <1>1 DEF PathStates
  <2>4. lev[NextOf(w, p)] \in Nat
    BY <2>2, SubFacts
  <2> QED BY <2>2, <2>3, <2>4
<1>4. Descends(D, W, rank, go, nxt)
  BY <1>1, <1>3 DEF Descends
<1>5. ASSUME NEW f PROVE PathWalk(w, s, f) <=> IsLoop(D, go, nxt, base, f)
  <2> DEFINE A(p) == IF w.node[p.t].size = s \/ NextOf(w, p) = Null THEN p
                     ELSE f[[t |-> NextOf(w, p), sizebits |-> Shl(p.sizebits, 1)]]
             B(p) == IF p \in go THEN f[nxt[p]] ELSE base[p]
  <2>1. PathWalk(w, s, f) <=> f = [p \in D |-> A(p)]
    BY DEF PathWalk, PathStates, NextOf, Nd
  <2>2. \A p \in D : A(p) = B(p)
    OBVIOUS
  <2>3. IsLoop(D, go, nxt, base, f) <=> f = [p \in D |-> B(p)]
    BY DEF IsLoop
  <2> HIDE DEF A, B
  <2>4. [p \in D |-> A(p)] = [p \in D |-> B(p)]
    BY <2>2
  <2> QED BY <2>1, <2>3, <2>4
<1> DEFINE walk == CHOOSE f : PathWalk(w, s, f)
<1>6. IsLoop(D, go, nxt, base, walk)
  <2> HIDE DEF D, go, nxt, rank, base
  <2>1. \E f : IsLoop(D, go, nxt, base, f) BY <1>4, LoopExists
  <2>2. \E f : PathWalk(w, s, f) BY <1>5, <2>1
  <2>3. PathWalk(w, s, walk) BY <2>2
  <2> QED BY <1>5, <2>3
<1>7. PathEnd(w, p0.t, s) = walk[p0]
  BY DEF PathEnd, PathWalk
<1>8. S \subseteq D /\ \A p \in S \intersect go : nxt[p] \in S
  <2> SUFFICES ASSUME NEW p \in S \intersect go PROVE nxt[p] \in S
    OBVIOUS
  <2>1. nxt[p] \in D /\ nxt[p].t = NextOf(w, p) /\ nxt[p].sizebits = Shl(p.sizebits, 1)
    BY <1>3
  <2>2. OnPath(w, lev, s, p.t, p.sizebits) /\ NextOf(w, p) # Null /\ w.node[p.t].size # s
    OBVIOUS
  <2>3. OnPath(w, lev, s, NextOf(w, p), Shl(p.sizebits, 1))
    BY <2>2, PathStep DEF NextOf
  <2> QED BY <2>1, <2>3
<1>9. p0 \in S
  <2>1. OnPath(w, lev, s, p0.t, p0.sizebits) BY PathStart
  <2>2. p0.sizebits \in Nat /\ p0.t \in Nd(w)
    <3>1. p0.t \in Tr(w) /\ p0.sizebits = Shl(s, W - lev[p0.t]) BY <2>1 DEF OnPath
    <3> HIDE DEF p0
    <3>2. W - lev[p0.t] \in 0 .. W /\ s \in Nat BY <3>1, <1>1, SubFacts, Widths
    <3> QED BY <3>1, <3>2, <1>1, ShlNat
  <2>3. p0 \in D BY <2>2 DEF PathStates
  <2> QED BY <2>1, <2>3
<1>10. PICK q \in S \ go : walk[p0] = base[q]
  <2> HIDE DEF D, go, nxt, rank, base, S, p0, walk
  <2> QED BY <1>4, <1>6, <1>8, <1>9, LoopRule
<1>11. walk[p0] = q /\ OnPath(w, lev, s, q.t, q.sizebits)
       /\ (w.node[q.t].size = s \/ NextOf(w, q) = Null)
  BY <1>10
<1> HIDE DEF walk
<1> QED BY <1>7, <1>11 DEF NextOf

(* The path of s ends at the tree node of that size, if there is one.        *)
LEMMA PathFinds ==
  ASSUME NEW w, NEW lev, IsTree(w, lev), NEW u \in Tr(w)
  PROVE  LET s == w.node[u].size
         IN  /\ s \in Large /\ w.root[compute_tree_index(s)] # Null
             /\ compute_tree_index(s) \in w.map
             /\ PathEnd(w, w.root[compute_tree_index(s)], s).t = u
<1> DEFINE s == w.node[u].size
           i == compute_tree_index(s)
           end == PathEnd(w, w.root[i], s)
           t == end.t
<1>1. u \in Nd(w) /\ s \in Large /\ s \in Nat /\ w.node[u].index = i /\ i \in Index
  BY Fields DEF IsTree, Shaped, Indexed
<1>2. w.root[i] \in Tr(w)
  BY <1>1, BelowRoot
<1>3. w.root[i] # Null /\ i \in w.map
  BY <1>1, <1>2, Fields DEF IsTree, Shaped, Indexed
<1>4. /\ OnPath(w, lev, s, t, end.sizebits)
      /\ w.node[t].size = s \/ w.node[t].child[SignBit(end.sizebits)] = Null
  BY <1>1, <1>3, PathEnds
<1> HIDE DEF end
<1>5. w.node[t].size = s
  BY <1>1, <1>4, PathStep
<1>6. t = u
  BY <1>4, <1>5 DEF OnPath, Heads, IsTree, Shaped
<1> QED BY <1>1, <1>3, <1>6 DEF end

-----------------------------------------------------------------------------
(* Best fits.  *)

Below(w, lev, t) == IF t = Null THEN {} ELSE Sub(w, lev, t)

(* v is a chunk, and no larger than y.  *)
Beats(w, v, y) == v # Null /\ w.node[v].size <= w.node[y].size

LEMMA BetterFacts ==
  ASSUME NEW w, Typed(w), NEW nb \in Nat, NEW t \in Nd(w), NEW v \in Nd(w) \union {Null}
  PROVE  /\ Better(w, nb, v, t) \in {v, t}
         /\ v # Null => Beats(w, Better(w, nb, v, t), v)
         /\ w.node[t].size >= nb => Beats(w, Better(w, nb, v, t), t)
         /\ (v = Null \/ w.node[v].size >= nb) =>
              Better(w, nb, v, t) = Null \/ w.node[Better(w, nb, v, t)].size >= nb
<1>1. w.node[t].size \in Nat /\ t # Null /\ (v # Null => w.node[v].size \in Nat)
  BY Fields
<1> QED BY <1>1 DEF Better, Beats

LEMMA BeatsTrans ==
  ASSUME NEW w, Typed(w), NEW u, NEW v, NEW y \in Nd(w), u \in Nd(w) \union {Null},
         v \in Nd(w) \union {Null}, Beats(w, u, v), Beats(w, v, y)
  PROVE  Beats(w, u, y)
<1>1. /\ u # Null /\ v # Null /\ w.node[u].size \in Nat /\ w.node[v].size \in Nat
      /\ w.node[y].size \in Nat
  BY Fields DEF Beats
<1> QED BY <1>1 DEF Beats

(* The loop of Leftmost.  *)
LeftWalk(w, nb, f) ==
  f = [p \in [t : DOMAIN w.node \cup {Null}, v : DOMAIN w.node \cup {Null}] |->
         IF p.t = Null THEN p
         ELSE f[[t |-> leftmost_child(w, p.t), v |-> Better(w, nb, p.v, p.t)]]]

(* Going left, the smallest of the rest of a subtree is not missed.          *)
LEMMA LeftKeepsSmallest ==
  ASSUME NEW w, NEW lev, IsTree(w, lev), NEW t \in Tr(w), NEW z \in Sub(w, lev, t), z # t
  PROVE  \E x \in Below(w, lev, leftmost_child(w, t)) : w.node[x].size <= w.node[z].size
<1>1. PICK b \in {0, 1} : w.node[t].child[b] # Null /\ z \in Sub(w, lev, w.node[t].child[b])
  BY SubSplit
<1>2. t \in Nd(w) /\ z \in Tr(w) /\ w.node[z].size \in Nat
  BY SubFacts DEF Sub, Tr
<1>3. CASE w.node[t].child[0] = Null \/ b = 0
  <2>1. leftmost_child(w, t) = w.node[t].child[b] BY <1>1, <1>3 DEF leftmost_child
  <2> QED BY <2>1, <1>1, <1>2 DEF Below
<1>4. CASE w.node[t].child[0] # Null /\ b = 1
  <2> DEFINE c == w.node[t].child[0]
  <2>1. c \in Tr(w) BY <1>2, <1>4, Children
  <2>2. c \in Sub(w, lev, c) /\ w.node[c].size \in Nat BY <2>1, SubFacts
  <2>3. w.node[c].size < w.node[z].size BY <2>2, <1>1, <1>2, <1>4, Sides
  <2>4. leftmost_child(w, t) = c /\ c # Null BY <1>4 DEF leftmost_child
  <2> QED BY <2>2, <2>3, <2>4, <1>2 DEF Below
<1> QED BY <1>3, <1>4, <1>1

(* From a subtree of fits and a fit, or nothing, Leftmost takes the best.    *)
LEMMA LeftmostFinds ==
  ASSUME NEW w, NEW lev, IsTree(w, lev), NEW nb \in Nat,
         NEW t0 \in Tr(w) \union {Null}, NEW v0 \in Nd(w) \union {Null},
         v0 # Null => w.node[v0].size >= nb,
         \A y \in Below(w, lev, t0) : w.node[y].size >= nb
  PROVE  LET r == Leftmost(w, nb, t0, v0)
         IN  /\ r \in Below(w, lev, t0) \union {v0}
             /\ v0 # Null => Beats(w, r, v0)
             /\ \A y \in Below(w, lev, t0) : Beats(w, r, y)
<1> DEFINE Ptr == Nd(w) \union {Null}
           D == [t : Ptr, v : Ptr]
           go == {p \in D : p.t # Null}
           nxt == [p \in D |-> [t |-> leftmost_child(w, p.t), v |-> Better(w, nb, p.v, p.t)]]
           rank == [p \in D |-> IF p.t = Null THEN 0 ELSE IF p.t \in Tr(w) THEN lev[p.t] + 1 ELSE 1]
           base == [p \in D |-> p]
           Met(p) == \A y \in Below(w, lev, t0) :
                       \/ Beats(w, p.v, y)
                       \/ \E z \in Below(w, lev, p.t) : w.node[z].size <= w.node[y].size
           Inv(p) == /\ p.t \in Tr(w) \union {Null}
                     /\ p.v \in Below(w, lev, t0) \union {v0}
                     /\ v0 # Null => Beats(w, p.v, v0)
                     /\ Below(w, lev, p.t) \subseteq Below(w, lev, t0)
                     /\ Met(p)
           S == {p \in D : Inv(p)}
           p0 == [t |-> t0, v |-> v0]
<1>1. /\ W \in Nat /\ lev \in [Tr(w) -> 0 .. W] /\ Tr(w) \subseteq Nd(w) /\ Null \notin Nd(w)
      /\ Typed(w)
  BY Widths, Fields DEF IsTree, Shaped, Levels
<1>2. \A p \in D : p.t \in Ptr /\ p.v \in Ptr
  OBVIOUS
<1>3. ASSUME NEW t \in Nd(w)
      PROVE  LET c == leftmost_child(w, t)
             IN  c # Null => c \in Tr(w) /\ \E b \in {0, 1} : IsChild(w, lev, c, t, b)
  BY Children DEF leftmost_child
<1>4. ASSUME NEW p \in go
      PROVE  nxt[p] \in D /\ rank[nxt[p]] < rank[p]
  <2> DEFINE c == leftmost_child(w, p.t)
  <2>1. p.t \in Nd(w) /\ p.v \in Ptr BY <1>2
  <2>2. c \in Ptr /\ Better(w, nb, p.v, p.t) \in Ptr
    BY <2>1, <1>1, <1>3, BetterFacts
  <2>3. nxt[p] = [t |-> c, v |-> Better(w, nb, p.v, p.t)] /\ nxt[p] \in D
    BY <2>2
  <2>4. rank[nxt[p]] < rank[p]
    <3>1. CASE c = Null
      <4>1. rank[nxt[p]] = 0 BY <2>3, <3>1
      <4>2. rank[p] \in Nat \ {0} BY <2>1, <1>1
      <4> QED BY <4>1, <4>2
    <3>2. CASE c # Null
      <4>1. c \in Tr(w) /\ p.t \in Tr(w) /\ lev[p.t] = lev[c] + 1
        BY <3>2, <2>1, <1>3 DEF IsChild
      <4>2. rank[nxt[p]] = lev[c] + 1 /\ rank[p] = lev[p.t] + 1
        BY <4>1, <3>2, <2>1, <2>3, <1>1
      <4>3. lev[c] \in Nat BY <4>1, SubFacts
      <4> QED BY <4>1, <4>2, <4>3
    <3> QED BY <3>1, <3>2
  <2> QED BY <2>3, <2>4
<1>5. Descends(D, W + 1, rank, go, nxt)
  <2>1. rank \in [D -> 0 .. (W + 1)] BY <1>1
  <2>2. W + 1 \in Nat /\ go \subseteq D BY <1>1
  <2> HIDE DEF D, go, nxt, rank
  <2> QED BY <2>1, <2>2, <1>4 DEF Descends
<1>6. ASSUME NEW f PROVE LeftWalk(w, nb, f) <=> IsLoop(D, go, nxt, base, f)
  <2> DEFINE A(p) == IF p.t = Null THEN p
                     ELSE f[[t |-> leftmost_child(w, p.t), v |-> Better(w, nb, p.v, p.t)]]
             B(p) == IF p \in go THEN f[nxt[p]] ELSE base[p]
  <2>1. LeftWalk(w, nb, f) <=> f = [p \in D |-> A(p)]
    BY DEF LeftWalk, Nd
  <2>2. \A p \in D : A(p) = B(p)
    OBVIOUS
  <2>3. IsLoop(D, go, nxt, base, f) <=> f = [p \in D |-> B(p)]
    BY DEF IsLoop
  <2> HIDE DEF A, B
  <2>4. [p \in D |-> A(p)] = [p \in D |-> B(p)]
    BY <2>2
  <2> QED BY <2>1, <2>3, <2>4
<1> DEFINE walk == CHOOSE f : LeftWalk(w, nb, f)
<1>7. IsLoop(D, go, nxt, base, walk)
  <2> HIDE DEF D, go, nxt, rank, base
  <2>1. \E f : IsLoop(D, go, nxt, base, f) BY <1>5, LoopExists
  <2>2. \E f : LeftWalk(w, nb, f) BY <1>6, <2>1
  <2>3. LeftWalk(w, nb, walk) BY <2>2
  <2> QED BY <1>6, <2>3
<1>8. Leftmost(w, nb, t0, v0) = walk[p0].v
  BY DEF Leftmost, LeftWalk
<1>9. ASSUME NEW p \in S \intersect go PROVE nxt[p] \in S
  <2> DEFINE t == p.t
             c == leftmost_child(w, t)
             v == Better(w, nb, p.v, t)
  <2>1. nxt[p] \in D /\ nxt[p].t = c /\ nxt[p].v = v
    BY <1>4
  <2>2. t \in Tr(w) /\ t \in Nd(w) /\ p.v \in Ptr /\ Inv(p)
    BY <1>1, <1>2
  <2>3. t \in Below(w, lev, t) /\ w.node[t].size >= nb
    BY <2>2, <1>1, SubFacts DEF Below
  <2>4. v \in {p.v, t} /\ v \in Ptr /\ (p.v # Null => Beats(w, v, p.v)) /\ Beats(w, v, t)
    BY <2>2, <2>3, <1>1, BetterFacts
  <2> HIDE DEF v, c
  <2>5. c \in Tr(w) \union {Null} /\ Below(w, lev, c) \subseteq Below(w, lev, t)
    BY <2>2, <1>1, <1>3, SubChild DEF c, Below
  <2>6. v \in Below(w, lev, t0) \union {v0}
    BY <2>2, <2>3, <2>4
  <2>7. v0 # Null => Beats(w, v, v0)
    <3> SUFFICES ASSUME v0 # Null PROVE Beats(w, v, v0)
      OBVIOUS
    <3>1. Beats(w, p.v, v0) BY <2>2
    <3>2. p.v # Null BY <3>1 DEF Beats
    <3> QED BY <3>1, <3>2, <2>2, <2>4, <1>1, BeatsTrans
  <2>8. ASSUME NEW y \in Below(w, lev, t0)
        PROVE  \/ Beats(w, v, y)
               \/ \E z \in Below(w, lev, c) : w.node[z].size <= w.node[y].size
    <3>1. y \in Nd(w) /\ w.node[y].size \in Nat
      BY <1>1, SubFacts, Fields DEF Below, Sub
    <3>2. CASE Beats(w, p.v, y)
      <4>1. p.v # Null BY <3>2 DEF Beats
      <4> QED BY <4>1, <3>1, <3>2, <2>2, <2>4, <1>1, BeatsTrans
    <3>3. ASSUME NEW z \in Below(w, lev, t), w.node[z].size <= w.node[y].size
          PROVE  \/ Beats(w, v, y)
                 \/ \E x \in Below(w, lev, c) : w.node[x].size <= w.node[y].size
      <4>1. CASE z = t
        <5>1. Beats(w, t, y) BY <4>1, <3>3, <2>2, <1>1 DEF Beats
        <5> QED BY <5>1, <3>1, <2>2, <2>4, <1>1, BeatsTrans
      <4>2. CASE z # t
        <5>1. z \in Sub(w, lev, t) /\ z \in Tr(w) BY <2>2, <1>1 DEF Below, Sub
        <5>2. PICK x \in Below(w, lev, c) : w.node[x].size <= w.node[z].size
          BY <5>1, <4>2, <2>2, LeftKeepsSmallest DEF c
        <5>3. x \in Tr(w) /\ w.node[x].size \in Nat /\ w.node[z].size \in Nat
          BY <5>1, <5>2, SubFacts DEF Below, Sub
        <5> QED BY <5>2, <5>3, <3>1, <3>3
      <4> QED BY <4>1, <4>2
    <3> QED BY <3>2, <3>3, <2>2
  <2> QED BY <2>1, <2>2, <2>5, <2>6, <2>7, <2>8
<1>10. p0 \in S
  <2>1. p0 \in D /\ p0.t = t0 /\ p0.v = v0 BY <1>1
  <2>2. v0 # Null => Beats(w, v0, v0)
    <3>1. v0 # Null => w.node[v0].size \in Nat BY Fields DEF IsTree, Shaped
    <3> QED BY <3>1 DEF Beats
  <2>3. Met(p0)
    <3> SUFFICES ASSUME NEW y \in Below(w, lev, t0) PROVE w.node[y].size <= w.node[y].size
      BY <2>1
    <3>1. y \in Tr(w) BY DEF Below, Sub
    <3>2. w.node[y].size \in Nat BY <3>1, SubFacts
    <3> QED BY <3>2
  <2> HIDE DEF p0, Met
  <2> QED BY <2>1, <2>2, <2>3
<1>11. PICK q \in S \ go : walk[p0] = base[q]
  <2>1. S \subseteq D OBVIOUS
  <2> HIDE DEF D, go, nxt, rank, base, S, p0, walk
  <2> QED BY <2>1, <1>5, <1>7, <1>9, <1>10, LoopRule
<1>12. walk[p0] = q /\ q.t = Null /\ Inv(q)
  BY <1>11
<1>13. \A y \in Below(w, lev, t0) : Beats(w, q.v, y)
  BY <1>12 DEF Below
<1> HIDE DEF walk
<1> QED BY <1>8, <1>12, <1>13

(* The loop of AlongPath.  *)
FitWalk(w, nb, f) ==
  f = [p \in [t : DOMAIN w.node \cup {Null}, sizebits : Nat,
              v : DOMAIN w.node \cup {Null}, rst : DOMAIN w.node \cup {Null}] |->
         LET next == w.node[p.t].child[SignBit(p.sizebits)]
             best == Better(w, nb, p.v, p.t)
         IN  IF p.t = Null THEN p
             ELSE IF w.node[p.t].size = nb THEN [p EXCEPT !.v = best, !.rst = Null]
             ELSE f[[t |-> next, sizebits |-> Shl(p.sizebits, 1), v |-> best,
                     rst |-> RightOf(w, p.t, next, p.rst)]]]

(* The tree nodes of the bin of nb that fit.  *)
FitsInBin(w, nb) ==
  {y \in Tr(w) : w.node[y].index = compute_tree_index(nb) /\ w.node[y].size >= nb}

(* What AlongPath has on its way: the fit v, and the fits below t and rst,   *)
(* hold a smallest fit of the bin, those below t being the smaller ones.     *)
PathInv(w, lev, nb, t, v, rst) ==
  /\ t \in Tr(w) \union {Null} /\ v \in FitsInBin(w, nb) \union {Null}
  /\ rst \in Tr(w) \union {Null}
  /\ Below(w, lev, rst) \subseteq FitsInBin(w, nb)
  /\ \A y \in Below(w, lev, t), z \in Below(w, lev, rst) : w.node[y].size < w.node[z].size
  /\ \A y \in FitsInBin(w, nb) :
       \/ Beats(w, v, y) \/ y \in Below(w, lev, t)
       \/ \E z \in Below(w, lev, rst) : w.node[z].size <= w.node[y].size

LEMMA PathInvStep ==
  ASSUME NEW w, NEW lev, IsTree(w, lev), NEW nb \in Large, NEW t, NEW sizebits, NEW v, NEW rst,
         OnPath(w, lev, nb, t, sizebits), PathInv(w, lev, nb, t, v, rst),
         w.node[t].size # nb
  PROVE  LET next == w.node[t].child[SignBit(sizebits)]
         IN  PathInv(w, lev, nb, next, Better(w, nb, v, t), RightOf(w, t, next, rst))
<1> DEFINE b == SignBit(sizebits)
           next == w.node[t].child[b]
           best == Better(w, nb, v, t)
           right == RightOf(w, t, next, rst)
           rt == w.node[t].child[1]
           lt == w.node[t].child[0]
<1>1. /\ Typed(w) /\ Tr(w) \subseteq Nd(w) /\ Null \notin Nd(w) /\ nb \in Nat
      /\ \A u \in Nd(w) : w.node[u].size \in Nat
  BY Fields, Widths DEF IsTree, Shaped
<1>2. t \in Tr(w) /\ t \in Nd(w) /\ w.node[t].index = compute_tree_index(nb) /\ t # Null
  BY <1>1 DEF OnPath
<1>3. lev[t] \in 1 .. W /\ b \in {0, 1}
      /\ Top(nb, lev[t] - 1) = 2 * Top(w.node[t].size, lev[t]) + b
  BY PathStep
<1>4. Top(w.node[t].size, lev[t]) \in Nat /\ lev[t] - 1 \in 0 .. W
  BY <1>2, <1>3, SubFacts, Widths
<1>5. ASSUME NEW c \in {0, 1}, w.node[t].child[c] # Null
      PROVE  LET k == w.node[t].child[c]
             IN  /\ k \in Tr(w) /\ Sub(w, lev, k) \subseteq Sub(w, lev, t) \ {t}
                 /\ lev[k] = lev[t] - 1
                 /\ \A u \in Sub(w, lev, k) :
                      /\ Top(w.node[u].size, lev[t] - 1) = 2 * Top(w.node[t].size, lev[t]) + c
                      /\ w.node[u].index = compute_tree_index(nb)
  <2> DEFINE k == w.node[t].child[c]
  <2>1. k \in Tr(w) /\ IsChild(w, lev, k, t, c) BY <1>2, <1>5, Children
  <2> HIDE DEF k
  <2>2. Sub(w, lev, k) \subseteq Sub(w, lev, t) \ {t} BY <2>1, SubChild
  <2>3. lev[k] = lev[t] - 1 BY <2>1, SubFacts DEF IsChild
  <2> QED BY <2>1, <2>2, <2>3, <1>2 DEF IsChild, Sub, k
<1>6. /\ v \in FitsInBin(w, nb) \union {Null} /\ rst \in Tr(w) \union {Null}
      /\ Below(w, lev, rst) \subseteq FitsInBin(w, nb)
      /\ \A y \in Below(w, lev, t), z \in Below(w, lev, rst) : w.node[y].size < w.node[z].size
      /\ \A y \in FitsInBin(w, nb) :
           \/ Beats(w, v, y) \/ y \in Below(w, lev, t)
           \/ \E z \in Below(w, lev, rst) : w.node[z].size <= w.node[y].size
  BY DEF PathInv
<1>7. /\ best \in FitsInBin(w, nb) \union {Null}
      /\ v # Null => Beats(w, best, v)
      /\ w.node[t].size >= nb => Beats(w, best, t)
  <2>1. v \in Nd(w) \union {Null} /\ (v = Null \/ w.node[v].size >= nb)
    BY <1>1, <1>6 DEF FitsInBin
  <2>2. /\ best \in {v, t} /\ (v # Null => Beats(w, best, v))
        /\ w.node[t].size >= nb => Beats(w, best, t)
        /\ best = Null \/ w.node[best].size >= nb
    BY <2>1, <1>1, <1>2, BetterFacts
  <2> QED BY <2>2, <1>2, <1>6 DEF FitsInBin
<1> HIDE DEF best, b
<1>8. next \in Tr(w) \union {Null} /\ Below(w, lev, next) \subseteq Below(w, lev, t)
  BY <1>2, <1>3, <1>5 DEF Below
<1>9. CASE b = 0 /\ rt # Null
  <2>1. right = rt
    <3>1. next # rt
      <4> SUFFICES ASSUME lt = rt PROVE FALSE
        BY <1>9
      <4>1. lt # Null /\ rt \in Tr(w) /\ lt \in Tr(w) BY <1>5, <1>9
      <4>2. lt \in Sub(w, lev, lt) /\ rt \in Sub(w, lev, rt) BY <4>1, SubFacts
      <4>3. w.node[lt].size < w.node[rt].size BY <4>1, <4>2, <1>2, <1>9, Sides
      <4>4. w.node[lt].size \in Nat BY <4>1, <1>1
      <4> QED BY <4>3, <4>4
    <3> QED BY <3>1, <1>9 DEF RightOf
  <2>2. rt \in Tr(w) /\ Below(w, lev, rt) = Sub(w, lev, rt)
    BY <1>5, <1>9 DEF Below
  <2>3. ASSUME NEW z \in Sub(w, lev, rt) PROVE z \in FitsInBin(w, nb)
    <3>1. z \in Tr(w) /\ w.node[z].index = compute_tree_index(nb)
      BY <1>5, <1>9 DEF Sub
    <3>2. Top(w.node[z].size, lev[t] - 1) = 2 * Top(w.node[t].size, lev[t]) + 1
      BY <1>5, <1>9
    <3>3. Top(nb, lev[t] - 1) < Top(w.node[z].size, lev[t] - 1)
      BY <3>2, <1>3, <1>4, <1>9
    <3>4. nb < w.node[z].size
      BY <3>1, <3>3, <1>1, <1>4, TopMono
    <3> QED BY <3>1, <3>4, <1>1 DEF FitsInBin
  <2>4. ASSUME NEW y \in Below(w, lev, next), NEW z \in Sub(w, lev, rt)
        PROVE  w.node[y].size < w.node[z].size
    <3>1. next = lt /\ next # Null BY <1>9, <2>4 DEF Below
    <3> QED BY <3>1, <2>4, <1>2, <1>9, Sides DEF Below
  <2>5. ASSUME NEW y \in FitsInBin(w, nb)
        PROVE  \/ Beats(w, best, y) \/ y \in Below(w, lev, next)
               \/ \E z \in Sub(w, lev, rt) : w.node[z].size <= w.node[y].size
    <3>0. y \in Tr(w) /\ y \in Nd(w) /\ w.node[y].size \in Nat /\ w.node[y].size >= nb
      BY <1>1 DEF FitsInBin
    <3>1. CASE Beats(w, v, y)
      <4>1. v # Null BY <3>1 DEF Beats
      <4>2. v \in Nd(w) \union {Null} /\ best \in Nd(w) \union {Null}
        BY <1>1, <1>6, <1>7 DEF FitsInBin
      <4> QED BY <4>1, <4>2, <3>0, <3>1, <1>1, <1>7, BeatsTrans
    <3>2. CASE y = t BY <3>0, <3>2, <1>7
    <3>3. CASE y \in Below(w, lev, t) /\ y # t
      <4>1. y \in Sub(w, lev, t) BY <3>3, <1>2 DEF Below
      <4>2. PICK c \in {0, 1} : w.node[t].child[c] # Null /\ y \in Sub(w, lev, w.node[t].child[c])
        BY <4>1, <3>3, <1>2, SubSplit
      <4>3. CASE c = 0 BY <4>2, <4>3, <1>9 DEF Below
      <4>4. CASE c = 1 BY <4>2, <4>4, <3>0
      <4> QED BY <4>3, <4>4
    <3>4. ASSUME NEW z \in Below(w, lev, rst), w.node[z].size <= w.node[y].size
          PROVE  \E x \in Sub(w, lev, rt) : w.node[x].size <= w.node[y].size
      <4>1. rt \in Sub(w, lev, rt) /\ rt \in Below(w, lev, t)
        BY <2>2, <1>2, <1>5, <1>9, SubFacts DEF Below
      <4>2. w.node[rt].size < w.node[z].size BY <4>1, <1>6
      <4>3. w.node[rt].size \in Nat /\ w.node[z].size \in Nat
        BY <2>2, <1>1, <1>6 DEF FitsInBin
      <4> QED BY <4>1, <4>2, <4>3, <3>0, <3>4
    <3> QED BY <3>1, <3>2, <3>3, <3>4, <1>6
  <2> QED BY <2>1, <2>2, <2>3, <2>4, <2>5, <1>7, <1>8 DEF PathInv, best, b
<1>10. CASE ~(b = 0 /\ rt # Null)
  <2>1. right = rst
    BY <1>3, <1>10 DEF RightOf
  <2>2. ASSUME NEW y \in FitsInBin(w, nb)
        PROVE  \/ Beats(w, best, y) \/ y \in Below(w, lev, next)
               \/ \E z \in Below(w, lev, rst) : w.node[z].size <= w.node[y].size
    <3>0. y \in Tr(w) /\ y \in Nd(w) /\ w.node[y].size \in Nat /\ w.node[y].size >= nb
      BY <1>1 DEF FitsInBin
    <3>1. CASE Beats(w, v, y)
      <4>1. v # Null BY <3>1 DEF Beats
      <4>2. v \in Nd(w) \union {Null} /\ best \in Nd(w) \union {Null}
        BY <1>1, <1>6, <1>7 DEF FitsInBin
      <4> QED BY <4>1, <4>2, <3>0, <3>1, <1>1, <1>7, BeatsTrans
    <3>2. CASE y = t BY <3>0, <3>2, <1>7
    <3>3. CASE y \in Below(w, lev, t) /\ y # t
      <4>1. y \in Sub(w, lev, t) BY <3>3, <1>2 DEF Below
      <4>2. PICK c \in {0, 1} : w.node[t].child[c] # Null /\ y \in Sub(w, lev, w.node[t].child[c])
        BY <4>1, <3>3, <1>2, SubSplit
      <4>3. CASE c = b BY <4>2, <4>3 DEF Below
      <4>4. ASSUME c # b PROVE FALSE
        <5>1. c = 0 /\ b = 1 BY <4>2, <4>4, <1>3, <1>10
        <5>2. Top(w.node[y].size, lev[t] - 1) = 2 * Top(w.node[t].size, lev[t]) + 0
          BY <4>2, <5>1, <1>5
        <5>3. Top(w.node[y].size, lev[t] - 1) < Top(nb, lev[t] - 1)
          BY <5>1, <5>2, <1>3, <1>4
        <5>4. w.node[y].size < nb
          BY <5>3, <3>0, <1>1, <1>4, TopMono
        <5> QED BY <5>4, <3>0, <1>1
      <4> QED BY <4>3, <4>4
    <3> QED BY <3>1, <3>2, <3>3, <1>6
  <2> QED BY <2>1, <2>2, <1>6, <1>7, <1>8 DEF PathInv, best, b
<1> QED BY <1>9, <1>10

(* AlongPath finds a smallest fit of the bin of nb, or leaves it to Leftmost *)
(* to find it below rst.                                                     *)
LEMMA AlongPathFinds ==
  ASSUME NEW w, NEW lev, IsTree(w, lev), NEW nb \in Large
  PROVE  LET p == AlongPath(w, nb, w.root[compute_tree_index(nb)])
         IN  PathInv(w, lev, nb, Null, p.v, p.rst)
<1> DEFINE Ptr == Nd(w) \union {Null}
           D == [t : Ptr, sizebits : Nat, v : Ptr, rst : Ptr]
           Best(p) == Better(w, nb, p.v, p.t)
           go == {p \in D : p.t # Null /\ w.node[p.t].size # nb}
           nxt == [p \in D |-> [t |-> NextOf(w, p), sizebits |-> Shl(p.sizebits, 1),
                                v |-> Best(p), rst |-> RightOf(w, p.t, NextOf(w, p), p.rst)]]
           rank == [p \in D |-> IF p.t = Null THEN 0 ELSE IF p.t \in Tr(w) THEN lev[p.t] + 1 ELSE 1]
           base == [p \in D |-> IF p.t = Null THEN p ELSE [p EXCEPT !.v = Best(p), !.rst = Null]]
           Inv(p) == /\ PathInv(w, lev, nb, p.t, p.v, p.rst)
                     /\ p.t # Null => OnPath(w, lev, nb, p.t, p.sizebits)
           S == {p \in D : Inv(p)}
           r == w.root[compute_tree_index(nb)]
           p0 == [t |-> r, sizebits |-> SizeBits(nb), v |-> Null, rst |-> Null]
<1>1. /\ W \in Nat /\ lev \in [Tr(w) -> 0 .. W] /\ Tr(w) \subseteq Nd(w) /\ Null \notin Nd(w)
      /\ Typed(w) /\ nb \in Nat
  BY Widths, Fields DEF IsTree, Shaped, Levels
<1>2. \A p \in D : p.t \in Ptr /\ p.v \in Ptr /\ p.rst \in Ptr /\ p.sizebits \in Nat
  OBVIOUS
<1>3. ASSUME NEW p \in D, p.t # Null
      PROVE  LET c == NextOf(w, p)
             IN  c # Null => c \in Tr(w) /\ p.t \in Tr(w) /\ lev[p.t] = lev[c] + 1
  <2> SUFFICES ASSUME NextOf(w, p) # Null
               PROVE  /\ NextOf(w, p) \in Tr(w) /\ p.t \in Tr(w)
                      /\ lev[p.t] = lev[NextOf(w, p)] + 1
    OBVIOUS
  <2>1. p.t \in Nd(w) /\ SignBit(p.sizebits) \in {0, 1} BY <1>2, <1>3, BitFacts
  <2>2. NextOf(w, p) \in Tr(w) /\ IsChild(w, lev, NextOf(w, p), p.t, SignBit(p.sizebits))
    BY <2>1, Children DEF NextOf
  <2> QED BY <2>2 DEF IsChild
<1>4. ASSUME NEW p \in go
      PROVE  nxt[p] \in D /\ rank[nxt[p]] < rank[p]
  <2> DEFINE c == NextOf(w, p)
             rt == RightOf(w, p.t, c, p.rst)
  <2>1. p.t \in Nd(w) /\ p.v \in Ptr /\ p.rst \in Ptr /\ p.sizebits \in Nat BY <1>2
  <2>2. c \in Ptr /\ Best(p) \in Ptr
    BY <2>1, <1>1, <1>3, BetterFacts
  <2>3. rt \in Ptr
    BY <2>1, <1>1, Children DEF RightOf
  <2>4. Shl(p.sizebits, 1) \in Nat
    BY <2>1, BitFacts
  <2> HIDE DEF c, rt, Best
  <2>5. nxt[p] = [t |-> c, sizebits |-> Shl(p.sizebits, 1), v |-> Best(p), rst |-> rt]
        /\ nxt[p] \in D
    BY <2>2, <2>3, <2>4 DEF c, rt
  <2>6. rank[nxt[p]] < rank[p]
    <3>1. CASE c = Null
      <4>1. rank[nxt[p]] = 0 BY <2>5, <3>1
      <4>2. rank[p] \in Nat \ {0} BY <2>1, <1>1
      <4> QED BY <4>1, <4>2
    <3>2. CASE c # Null
      <4>1. c \in Tr(w) /\ p.t \in Tr(w) /\ lev[p.t] = lev[c] + 1
        BY <3>2, <2>1, <1>3 DEF c
      <4>2. rank[nxt[p]] = lev[c] + 1 /\ rank[p] = lev[p.t] + 1
        BY <4>1, <3>2, <2>1, <2>5, <1>1
      <4>3. lev[c] \in Nat BY <4>1, SubFacts
      <4> QED BY <4>1, <4>2, <4>3
    <3> QED BY <3>1, <3>2
  <2> QED BY <2>5, <2>6
<1>5. Descends(D, W + 1, rank, go, nxt)
  <2>1. rank \in [D -> 0 .. (W + 1)] BY <1>1
  <2>2. W + 1 \in Nat /\ go \subseteq D BY <1>1
  <2> HIDE DEF D, go, nxt, rank
  <2> QED BY <2>1, <2>2, <1>4 DEF Descends
<1>6. ASSUME NEW f PROVE FitWalk(w, nb, f) <=> IsLoop(D, go, nxt, base, f)
  <2> DEFINE A(p) == IF p.t = Null THEN p
                     ELSE IF w.node[p.t].size = nb THEN [p EXCEPT !.v = Best(p), !.rst = Null]
                     ELSE f[[t |-> NextOf(w, p), sizebits |-> Shl(p.sizebits, 1), v |-> Best(p),
                             rst |-> RightOf(w, p.t, NextOf(w, p), p.rst)]]
             B(p) == IF p \in go THEN f[nxt[p]] ELSE base[p]
  <2>1. FitWalk(w, nb, f) <=> f = [p \in D |-> A(p)]
    BY DEF FitWalk, Nd, NextOf
  <2> HIDE DEF Best
  <2>2. \A p \in D : A(p) = B(p)
    OBVIOUS
  <2>3. IsLoop(D, go, nxt, base, f) <=> f = [p \in D |-> B(p)]
    BY DEF IsLoop
  <2> HIDE DEF A, B
  <2>4. [p \in D |-> A(p)] = [p \in D |-> B(p)]
    BY <2>2
  <2> QED BY <2>1, <2>3, <2>4
<1> DEFINE walk == CHOOSE f : FitWalk(w, nb, f)
<1>7. IsLoop(D, go, nxt, base, walk)
  <2> HIDE DEF D, go, nxt, rank, base
  <2>1. \E f : IsLoop(D, go, nxt, base, f) BY <1>5, LoopExists
  <2>2. \E f : FitWalk(w, nb, f) BY <1>6, <2>1
  <2>3. FitWalk(w, nb, walk) BY <2>2
  <2> QED BY <1>6, <2>3
<1>8. AlongPath(w, nb, r) = walk[p0]
  BY DEF AlongPath, FitWalk
<1>9. ASSUME NEW p \in S \intersect go PROVE nxt[p] \in S
  <2>1. /\ nxt[p] \in D /\ nxt[p].t = NextOf(w, p) /\ nxt[p].sizebits = Shl(p.sizebits, 1)
        /\ nxt[p].v = Best(p) /\ nxt[p].rst = RightOf(w, p.t, NextOf(w, p), p.rst)
    BY <1>4
  <2>2. OnPath(w, lev, nb, p.t, p.sizebits) /\ PathInv(w, lev, nb, p.t, p.v, p.rst)
        /\ w.node[p.t].size # nb
    OBVIOUS
  <2>3. PathInv(w, lev, nb, NextOf(w, p), Best(p), RightOf(w, p.t, NextOf(w, p), p.rst))
    BY <2>2, PathInvStep DEF NextOf
  <2>4. NextOf(w, p) # Null => OnPath(w, lev, nb, NextOf(w, p), Shl(p.sizebits, 1))
    BY <2>2, PathStep DEF NextOf
  <2> QED BY <2>1, <2>3, <2>4
<1>10. p0 \in S
  <2>1. r \in Tr(w) \union {Null}
    BY IndexFacts, SubRoot
  <2>2. r # Null => OnPath(w, lev, nb, r, SizeBits(nb))
    BY PathStart
  <2>3. SizeBits(nb) \in Nat
    <3>1. NB(compute_tree_index(nb)) \in 0 .. W
          /\ SizeBits(nb) = Shl(nb, W - NB(compute_tree_index(nb)))
      BY BinPrefix
    <3>2. W - NB(compute_tree_index(nb)) \in 0 .. W BY <3>1, <1>1
    <3> QED BY <3>1, <3>2, <1>1, ShlNat
  <2>4. ASSUME NEW y \in FitsInBin(w, nb) PROVE y \in Below(w, lev, r)
    <3>1. y \in Tr(w) /\ w.node[y].index = compute_tree_index(nb) BY DEF FitsInBin
    <3>2. r # Null BY <3>1, <1>1, BelowRoot
    <3> QED BY <3>1, <3>2, IndexFacts, SubRoot DEF Below
  <2>5. PathInv(w, lev, nb, r, Null, Null)
    BY <2>1, <2>4 DEF PathInv, Below
  <2>6. p0 \in D /\ p0.t = r /\ p0.sizebits = SizeBits(nb) /\ p0.v = Null /\ p0.rst = Null
    BY <2>1, <2>3, <1>1
  <2> HIDE DEF p0, r
  <2> QED BY <2>2, <2>5, <2>6
<1>11. PICK q \in S \ go : walk[p0] = base[q]
  <2>1. S \subseteq D OBVIOUS
  <2> HIDE DEF D, go, nxt, rank, base, S, p0, walk
  <2> QED BY <2>1, <1>5, <1>7, <1>9, <1>10, LoopRule
<1> HIDE DEF walk
<1>12. CASE q.t = Null
  <2>1. walk[p0] = q /\ Inv(q) BY <1>11, <1>12
  <2> QED BY <2>1, <1>8, <1>12
<1>13. CASE q.t # Null
  <2>1. /\ walk[p0] = [q EXCEPT !.v = Best(q), !.rst = Null]
        /\ Inv(q) /\ w.node[q.t].size = nb /\ q \in D
    BY <1>11, <1>13
  <2>2. walk[p0].v = Best(q) /\ walk[p0].rst = Null
    BY <2>1
  <2>3. /\ q.t \in Tr(w) /\ q.v \in FitsInBin(w, nb) \union {Null}
        /\ w.node[q.t].index = compute_tree_index(nb)
    BY <2>1, <1>13 DEF PathInv, OnPath
  <2>4. q.v \in Nd(w) \union {Null} /\ (q.v = Null \/ w.node[q.v].size >= nb)
    BY <2>3, <1>1 DEF FitsInBin
  <2>5. Best(q) \in {q.v, q.t} /\ Beats(w, Best(q), q.t)
    BY <2>1, <2>3, <2>4, <1>1, BetterFacts
  <2>6. Best(q) \in FitsInBin(w, nb)
    BY <2>1, <2>3, <2>5, <1>1 DEF FitsInBin, Beats
  <2> HIDE DEF Best
  <2>7. ASSUME NEW y \in FitsInBin(w, nb) PROVE Beats(w, Best(q), y)
    <3>1. y \in Tr(w) /\ w.node[y].size \in Nat /\ w.node[y].size >= nb
      BY SubFacts DEF FitsInBin
    <3>2. Best(q) \in Tr(w) /\ w.node[Best(q)].size \in Nat
      BY <2>6, SubFacts DEF FitsInBin
    <3> QED BY <3>1, <3>2, <2>1, <2>5, <1>1 DEF Beats
  <2>8. PathInv(w, lev, nb, Null, Best(q), Null)
    BY <2>6, <2>7 DEF PathInv, Below
  <2> QED BY <2>2, <2>8, <1>8
<1> QED BY <1>12, <1>13

(* Every chunk in the bins has a tree node of its size, in its own bin.      *)
LEMMA HasHead ==
  ASSUME NEW w, NEW lev, IsTree(w, lev), NEW y \in Nd(w)
  PROVE  \E h \in Tr(w) : w.node[h].size = w.node[y].size
<1> DEFINE S == {u \in Nd(w) : w.node[u].size = w.node[y].size}
<1>1. \A u \in S : w.node[u].bk \in S
  BY DEF IsTree, Shaped, Rings
<1>2. S \in SUBSET Nd(w) /\ y \in S
  OBVIOUS
<1> HIDE DEF S
<1>3. S \intersect Tr(w) # {}
  BY <1>1, <1>2 DEF IsTree, Shaped, Rings
<1> QED BY <1>3 DEF S

LEMMA MinFacts ==
  ASSUME NEW S, S \subseteq Nat, S # {}
  PROVE  Min(S) \in S /\ \A j \in S : Min(S) <= j
<1>1. \E d \in S : \A e \in S : d <= e
  BY SmallestExists
<1> QED BY <1>1 DEF Min

(* A bin with an index of its own holds sizes of its own.                    *)
LEMMA BinsOrdered ==
  ASSUME NEW w, NEW lev, IsTree(w, lev), NEW x \in Tr(w), NEW y \in Tr(w),
         w.node[x].index < w.node[y].index
  PROVE  w.node[x].size < w.node[y].size
<1>1. /\ x \in Nd(w) /\ y \in Nd(w) /\ w.node[x].size \in Large /\ w.node[y].size \in Large
      /\ w.node[x].index = compute_tree_index(w.node[x].size)
      /\ w.node[y].index = compute_tree_index(w.node[y].size)
  BY Fields DEF IsTree, Shaped, Indexed
<1> QED BY <1>1, IndexMono

(* tmalloc_large() gets a best fit of the tree nodes of all bins.            *)
LEMMA PickLargeFits ==
  ASSUME NEW w, NEW lev, IsTree(w, lev), NEW nb \in Large
  PROVE  LET r == PickLarge(w, nb)
         IN  /\ r = Null \/ (r \in Tr(w) /\ w.node[r].size >= nb)
             /\ \A y \in Tr(w) : w.node[y].size >= nb => Beats(w, r, y)
<1> DEFINE i == compute_tree_index(nb)
           path == AlongPath(w, nb, w.root[i])
           v == path.v
           rst == path.rst
           larger == {j \in w.map : j > i}
           r == PickLarge(w, nb)
<1>1. /\ Typed(w) /\ Tr(w) \subseteq Nd(w) /\ Null \notin Nd(w) /\ nb \in Nat /\ i \in Index
      /\ w.map \subseteq Index /\ Index \subseteq Nat
      /\ \A u \in Tr(w) : w.node[u].size \in Nat /\ w.node[u].index \in Index
  BY Fields, IndexFacts, Widths DEF IsTree, Shaped, Index
<1>2. PathInv(w, lev, nb, Null, v, rst)
  BY AlongPathFinds
<1>3. /\ v \in FitsInBin(w, nb) \union {Null} /\ rst \in Tr(w) \union {Null}
      /\ Below(w, lev, rst) \subseteq FitsInBin(w, nb)
      /\ \A y \in FitsInBin(w, nb) :
           Beats(w, v, y) \/ \E z \in Below(w, lev, rst) : w.node[z].size <= w.node[y].size
  BY <1>2 DEF PathInv, Below
<1>4. r = Leftmost(w, nb, IF rst = Null /\ v = Null /\ larger # {} THEN w.root[Min(larger)] ELSE rst, v)
  BY DEF PickLarge
<1> HIDE DEF i, path, larger, r, v, rst
<1>5. ASSUME NEW y \in Tr(w), w.node[y].size >= nb
      PROVE  y \in FitsInBin(w, nb) \/ w.node[y].index \in larger
  <2>1. y \in Nd(w) /\ w.node[y].size \in Large /\ w.node[y].index = compute_tree_index(w.node[y].size)
    BY <1>1, Fields DEF IsTree, Shaped, Indexed
  <2>2. ~(w.node[y].index < i)
    BY <2>1, <1>1, <1>5, IndexMono DEF i
  <2>3. w.node[y].index \in w.map
    <3>1. w.root[w.node[y].index] \in Tr(w) BY BelowRoot
    <3> QED BY <3>1, <1>1 DEF IsTree, Shaped, Indexed
  <2>4. w.node[y].index = i \/ w.node[y].index > i
    BY <2>2, <1>1
  <2> QED BY <2>3, <2>4, <1>5 DEF FitsInBin, larger, i
<1>6. CASE v # Null \/ rst # Null \/ larger = {}
  <2>1. r = Leftmost(w, nb, rst, v)
    BY <1>4, <1>6
  <2>2. /\ v \in Nd(w) \union {Null} /\ (v # Null => w.node[v].size >= nb)
        /\ \A y \in Below(w, lev, rst) : w.node[y].size >= nb
    BY <1>1, <1>3 DEF FitsInBin
  <2>3. /\ r \in Below(w, lev, rst) \union {v} /\ (v # Null => Beats(w, r, v))
        /\ \A y \in Below(w, lev, rst) : Beats(w, r, y)
    BY <2>1, <2>2, <1>1, <1>3, LeftmostFinds
  <2>4. r \in FitsInBin(w, nb) \union {Null} /\ r \in Nd(w) \union {Null}
    BY <2>3, <1>1, <1>3 DEF FitsInBin
  <2>5. r = Null \/ (r \in Tr(w) /\ w.node[r].size >= nb)
    BY <2>4 DEF FitsInBin
  <2>6. \A y \in FitsInBin(w, nb) : Beats(w, r, y)
    <3> SUFFICES ASSUME NEW y \in FitsInBin(w, nb) PROVE Beats(w, r, y)
      OBVIOUS
    <3>1. y \in Tr(w) /\ y \in Nd(w) BY <1>1 DEF FitsInBin
    <3>2. CASE Beats(w, v, y)
      <4>1. v # Null BY <3>2 DEF Beats
      <4> QED BY <4>1, <3>1, <3>2, <2>2, <2>3, <2>4, <1>1, BeatsTrans
    <3>3. ASSUME NEW z \in Below(w, lev, rst), w.node[z].size <= w.node[y].size
          PROVE  Beats(w, r, y)
      <4>1. z \in Tr(w) /\ z \in Nd(w) /\ z # Null BY <1>1, <1>3 DEF FitsInBin
      <4>2. Beats(w, z, y) BY <4>1, <3>3 DEF Beats
      <4> QED BY <4>1, <4>2, <3>1, <2>3, <2>4, <1>1, BeatsTrans
    <3> QED BY <3>2, <3>3, <1>3
  <2>7. ASSUME NEW y \in Tr(w), w.node[y].index \in larger
        PROVE  Beats(w, r, y)
    <3>1. PICK x \in Tr(w) : Beats(w, r, x) /\ w.node[x].index = i
      <4>1. CASE v # Null
        BY <4>1, <2>3, <1>3 DEF FitsInBin, i
      <4>2. CASE rst # Null
        <5>1. rst \in Below(w, lev, rst) BY <4>2, <1>3, SubFacts DEF Below
        <5> QED BY <5>1, <2>3, <1>3 DEF FitsInBin, i
      <4> QED BY <4>1, <4>2, <2>7, <1>6
    <3>2. w.node[x].size < w.node[y].size
      BY <3>1, <2>7, BinsOrdered DEF larger
    <3>3. Beats(w, x, y) BY <3>2, <1>1 DEF Beats
    <3> QED BY <3>1, <3>3, <2>4, <1>1, BeatsTrans
  <2> QED BY <2>5, <2>6, <2>7, <1>5 DEF r
<1>7. CASE ~(v # Null \/ rst # Null \/ larger = {})
  <2> DEFINE m == Min(larger)
             top == w.root[m]
  <2>1. m \in larger /\ \A j \in larger : m <= j
    <3>1. larger \subseteq Nat BY <1>1 DEF larger
    <3> QED BY <3>1, <1>7, MinFacts
  <2> HIDE DEF m
  <2>2. m \in Index /\ m \in w.map /\ m > i
    BY <2>1, <1>1 DEF larger
  <2>3. top \in Tr(w) /\ w.node[top].index = m
        /\ Sub(w, lev, top) = {u \in Tr(w) : w.node[u].index = m}
    BY <2>2, SubRoot DEF IsTree, Shaped, Indexed
  <2>4. top # Null /\ Below(w, lev, top) = Sub(w, lev, top)
    BY <2>3, <1>1 DEF Below
  <2>5. \A y \in Below(w, lev, top) : w.node[y].size >= nb
    <3> SUFFICES ASSUME NEW y \in Below(w, lev, top) PROVE w.node[y].size >= nb
      OBVIOUS
    <3>1. y \in Tr(w) /\ w.node[y].index = m BY <2>3, <2>4
    <3>2. y \in Nd(w) /\ w.node[y].size \in Large /\ w.node[y].index = compute_tree_index(w.node[y].size)
      BY <3>1, <1>1, Fields DEF IsTree, Shaped, Indexed
    <3>3. nb < w.node[y].size BY <3>1, <3>2, <2>2, IndexMono DEF i
    <3> QED BY <3>1, <3>3, <1>1
  <2>6. r = Leftmost(w, nb, top, Null)
    BY <1>4, <1>7 DEF m
  <2> HIDE DEF top
  <2>7. /\ r \in Below(w, lev, top) \union {Null}
        /\ \A y \in Below(w, lev, top) : Beats(w, r, y)
    BY <2>3, <2>5, <2>6, <1>1, LeftmostFinds
  <2>8. r = Null \/ (r \in Tr(w) /\ w.node[r].size >= nb)
    BY <2>3, <2>4, <2>5, <2>7
  <2>9. ASSUME NEW y \in Tr(w), w.node[y].index \in larger
        PROVE  Beats(w, r, y)
    <3>1. CASE w.node[y].index = m
      BY <3>1, <2>3, <2>4, <2>7
    <3>2. CASE w.node[y].index # m
      <4>1. m < w.node[y].index BY <3>2, <2>1, <2>2, <2>9, <1>1
      <4>2. w.node[top].size < w.node[y].size BY <4>1, <2>3, BinsOrdered
      <4>3. Beats(w, top, y) BY <4>2, <2>3, <2>4, <1>1 DEF Beats
      <4>4. Beats(w, r, top) BY <2>3, <2>4, <2>7
      <4> QED BY <4>3, <4>4, <2>3, <2>8, <1>1, BeatsTrans
    <3> QED BY <3>1, <3>2
  <2>10. FitsInBin(w, nb) = {}
    BY <1>3, <1>7 DEF Beats, Below
  <2> QED BY <2>8, <2>9, <2>10, <1>5 DEF r
<1> QED BY <1>6, <1>7

(* tmalloc_small() gets a smallest of them.                                  *)
LEMMA PickSmallFits ==
  ASSUME NEW w, NEW lev, IsTree(w, lev), w.map # {}
  PROVE  LET r == PickSmall(w)
         IN  r \in Tr(w) /\ \A y \in Tr(w) : Beats(w, r, y)
<1> DEFINE m == Min(w.map)
           top == w.root[m]
           r == PickSmall(w)
<1>1. /\ Typed(w) /\ Tr(w) \subseteq Nd(w) /\ Null \notin Nd(w)
      /\ w.map \subseteq Index /\ Index \subseteq Nat
      /\ \A u \in Tr(w) : w.node[u].size \in Nat /\ w.node[u].index \in Index
  BY Fields, Widths DEF IsTree, Shaped, Index
<1>2. m \in w.map /\ \A j \in w.map : m <= j
  <2>1. w.map \subseteq Nat BY <1>1
  <2> QED BY <2>1, MinFacts
<1>3. r = Leftmost(w, 0, top, top)
  BY DEF PickSmall
<1> HIDE DEF m, r
<1>4. top \in Tr(w) /\ w.node[top].index = m
      /\ Sub(w, lev, top) = {u \in Tr(w) : w.node[u].index = m}
  <2>1. m \in Index /\ w.root[m] # Null BY <1>1, <1>2 DEF IsTree, Shaped, Indexed
  <2> QED BY <2>1, SubRoot
<1> HIDE DEF top
<1>5. top # Null /\ Below(w, lev, top) = Sub(w, lev, top) /\ top \in Below(w, lev, top)
  BY <1>1, <1>4, SubFacts DEF Below
<1>6. w.node[top].size >= 0 /\ \A y \in Below(w, lev, top) : w.node[y].size >= 0
  BY <1>1, <1>4, <1>5
<1>7. r \in Below(w, lev, top) \union {top} /\ \A y \in Below(w, lev, top) : Beats(w, r, y)
  BY <1>1, <1>3, <1>4, <1>6, LeftmostFinds
<1>8. r \in Tr(w)
  BY <1>4, <1>5, <1>7
<1>9. ASSUME NEW y \in Tr(w) PROVE Beats(w, r, y)
  <2>1. CASE w.node[y].index = m
    BY <2>1, <1>4, <1>5, <1>7
  <2>2. CASE w.node[y].index # m
    <3>1. w.node[y].index \in w.map
      <4>1. w.root[w.node[y].index] \in Tr(w) BY BelowRoot
      <4> QED BY <4>1, <1>1 DEF IsTree, Shaped, Indexed
    <3>2. m < w.node[y].index BY <3>1, <2>2, <1>1, <1>2
    <3>3. w.node[top].size < w.node[y].size BY <3>2, <1>4, BinsOrdered
    <3>4. Beats(w, top, y) BY <3>3, <1>4, <1>5, <1>1 DEF Beats
    <3>5. Beats(w, r, top) BY <1>5, <1>7
    <3> QED BY <3>4, <3>5, <1>1, <1>4, <1>8, BeatsTrans
  <2> QED BY <2>1, <2>2
<1> QED BY <1>8, <1>9 DEF r

-----------------------------------------------------------------------------
(* What holds of the bins in a state of the invariant.  *)

(* The loop of bin_find(): from u, the ring is followed to x, but not past   *)
(* end.                                                                      *)
RingWalk(w, x, end, f) ==
  f = [u \in DOMAIN w.node |-> u = x \/ (w.node[u].fd # end /\ f[w.node[u].fd])]

LEMMA RingWalkExists ==
  ASSUME NEW w, NEW x \in Nd(w), NEW end, \A u \in Nd(w) : w.node[u].fd \in Nd(w)
  PROVE  \E f : RingWalk(w, x, end, f)
<1> DEFINE Goes(u) == w.node[u].fd # end
           Closed(S) == x \in S /\ \A v \in Nd(w) : Goes(v) /\ w.node[v].fd \in S => v \in S
           R == {u \in Nd(w) : \A S \in SUBSET Nd(w) : Closed(S) => u \in S}
           f == [u \in Nd(w) |-> u \in R]
<1>1. ASSUME NEW u \in Nd(w), u = x \/ (Goes(u) /\ w.node[u].fd \in R) PROVE u \in R
  BY <1>1
<1>2. ASSUME NEW u \in R, u # x, ~(Goes(u) /\ w.node[u].fd \in R) PROVE FALSE
  <2>1. Closed(R \ {u})
    <3>1. x \in R \ {u} BY <1>2
    <3>2. ASSUME NEW v \in Nd(w), Goes(v), w.node[v].fd \in R \ {u} PROVE v \in R \ {u}
      <4> HIDE DEF R, Goes
      <4>1. v \in R BY <3>2, <1>1
      <4>2. v # u BY <3>2, <1>2
      <4> QED BY <4>1, <4>2
    <3> HIDE DEF R, Goes
    <3> QED BY <3>1, <3>2
  <2>2. R \ {u} \in SUBSET Nd(w) OBVIOUS
  <2> QED BY <2>1, <2>2
<1> HIDE DEF R
<1>3. R \subseteq Nd(w) BY DEF R
<1>4. \A u \in Nd(w) : f[u] = (u \in R) OBVIOUS
<1>5. \A u \in Nd(w) : (u \in R) <=> (u = x \/ (Goes(u) /\ w.node[u].fd \in R))
  BY <1>1, <1>2
<1>6. \A u \in Nd(w) : f[u] = (u = x \/ (Goes(u) /\ f[w.node[u].fd]))
  <2> SUFFICES ASSUME NEW u \in Nd(w) PROVE f[u] = (u = x \/ (Goes(u) /\ f[w.node[u].fd]))
    OBVIOUS
  <2> HIDE DEF f, Goes
  <2>1. f[u] = (u \in R) /\ f[w.node[u].fd] = (w.node[u].fd \in R) BY <1>4
  <2>2. (u \in R) = (u = x \/ (Goes(u) /\ w.node[u].fd \in R)) BY <1>5
  <2> QED BY <2>1, <2>2
<1> HIDE DEF f, Goes
<1>7. f = [u \in Nd(w) |-> u = x \/ (Goes(u) /\ f[w.node[u].fd])]
  BY <1>6 DEF f
<1> QED BY <1>7 DEF RingWalk, Nd, Goes

(* bin_find() finds each chunk that is in the bins.                          *)
LEMMA BinFinds ==
  ASSUME NEW w, NEW lev, IsTree(w, lev), NEW x \in Nd(w)
  PROVE  bin_find(w, x, w.node[x].size)
<1> DEFINE s == w.node[x].size
           i == compute_tree_index(s)
           end == PathEnd(w, w.root[i], s).t
           ring == CHOOSE f : RingWalk(w, x, end, f)
<1>1. PICK h \in Tr(w) : w.node[h].size = s
  BY HasHead
<1>2. i \in w.map /\ end = h
  BY <1>1, PathFinds
<1>3. \A u \in Nd(w) : /\ w.node[u].fd \in Nd(w) /\ w.node[u].bk \in Nd(w)
                       /\ w.node[w.node[u].bk].fd = u
                       /\ w.node[w.node[u].bk].size = w.node[u].size
  BY DEF IsTree, Shaped, Rings
<1>4. RingWalk(w, x, end, ring)
  <2>1. \E f : RingWalk(w, x, end, f) BY <1>3, RingWalkExists
  <2> HIDE DEF end
  <2> QED BY <2>1
<1>5. bin_find(w, x, s) <=> (i \in w.map /\ w.node[end].size = s /\ ring[end])
  BY DEF bin_find, RingWalk
<1> HIDE DEF ring, end, i
<1>6. \A u \in Nd(w) : ring[u] = (u = x \/ (w.node[u].fd # end /\ ring[w.node[u].fd]))
  BY <1>4 DEF RingWalk, Nd
<1>7. ring[x]
  BY <1>6
<1>8. ASSUME NEW u \in Nd(w), u # end, ring[u] PROVE ring[w.node[u].bk]
  <2>1. w.node[u].bk \in Nd(w) /\ w.node[w.node[u].bk].fd = u BY <1>3
  <2>2. PICK v \in Nd(w) : v = w.node[u].bk /\ w.node[v].fd = u BY <2>1
  <2>3. ring[v] = (v = x \/ (w.node[v].fd # end /\ ring[w.node[v].fd])) BY <1>6
  <2>4. ring[v] = (v = x \/ (u # end /\ ring[u])) BY <2>2, <2>3
  <2> QED BY <2>2, <2>4, <1>8
<1> DEFINE S == {u \in Nd(w) : w.node[u].size = s /\ ring[u]}
<1>9. ASSUME ~ring[end] PROVE FALSE
  <2>1. \A u \in S : w.node[u].bk \in S
    <3> SUFFICES ASSUME NEW u \in S PROVE w.node[u].bk \in S
      OBVIOUS
    <3>1. u \in Nd(w) /\ ring[u] /\ w.node[u].size = s OBVIOUS
    <3>2. u # end BY <3>1, <1>9
    <3>3. ring[w.node[u].bk] BY <3>1, <3>2, <1>8
    <3> QED BY <3>1, <3>3, <1>3
  <2>2. S \in SUBSET Nd(w) /\ x \in S BY <1>7
  <2> HIDE DEF S
  <2>3. S \intersect Tr(w) # {} BY <2>1, <2>2 DEF IsTree, Shaped, Rings
  <2>4. PICK g \in Tr(w) : w.node[g].size = s /\ ring[g] BY <2>3 DEF S
  <2>5. g = h BY <2>4, <1>1 DEF Heads, IsTree, Shaped
  <2> QED BY <2>4, <2>5, <1>2, <1>9
<1> QED BY <1>1, <1>2, <1>5, <1>9

LEMMA SoundTypes ==
  ASSUME Typed(bins), Links(bins), Rings(bins)
  PROVE  TypeOK
<1>1. /\ Nd(bins) \subseteq Chunk /\ Null \notin Nd(bins) /\ bins.map \subseteq Index
      /\ bins.root \in [Index -> Nd(bins) \union {Null}]
      /\ \A x \in Nd(bins) : bins.node[x].index \in Index
  BY Fields
<1>2. ASSUME NEW x \in Nd(bins)
      PROVE  /\ bins.node[x].fd \in Nd(bins) /\ bins.node[x].bk \in Nd(bins)
             /\ \A b \in {0, 1} : bins.node[x].child[b] \in Nd(bins) \union {Null}
             /\ bins.node[x].parent \in Nd(bins) \union {Null} \union {treebin_at(i) : i \in Index}
  <2>1. bins.node[x].fd \in Nd(bins) /\ bins.node[x].bk \in Nd(bins) BY DEF Rings
  <2>2. \A b \in {0, 1} : bins.node[x].child[b] \in Nd(bins) \union {Null} BY DEF Links
  <2>3. bins.node[x].parent \in Nd(bins) \union {Null} \union {treebin_at(i) : i \in Index}
    BY DEF Links, Tr
  <2> QED BY <2>1, <2>2, <2>3
<1> QED BY <1>1, <1>2 DEF TypeOK, Ref, Nd

LEMMA SoundNode ==
  ASSUME NEW lev, IsTree(bins, lev), NEW t \in Nd(bins)
  PROVE  CheckNode(t)
<1> DEFINE n == bins.node[t]
           mates == {u \in DOMAIN bins.node : bins.node[u].size = n.size}
<1>1. /\ n.size \in Large /\ n.index = compute_tree_index(n.size)
      /\ Null \notin Nd(bins) /\ \A i \in Index : treebin_at(i) \notin Nd(bins) \union {Null}
  BY Fields DEF IsTree, Shaped, Indexed
<1>2. /\ n.size >= minsize_for_tree_index(n.index)
      /\ n.index # NTREEBINS - 1 => n.size < minsize_for_tree_index(n.index + 1)
  <2>1. minsize_for_tree_index(n.index) <= n.size BY <1>1, IndexFacts
  <2>2. n.index # NTREEBINS - 1 => n.size < minsize_for_tree_index(n.index + 1)
    BY <1>1, IndexFacts
  <2>3. n.index \in Index BY <1>1, IndexFacts
  <2>4. minsize_for_tree_index(n.index) \in Nat BY <2>3, MinsizeMono, Widths DEF Index
  <2>5. n.size \in Nat BY <1>1, Widths
  <2> QED BY <2>1, <2>2, <2>4, <2>5
<1>3. /\ bins.node[n.fd].bk = t /\ bins.node[n.bk].fd = t
      /\ bins.node[n.fd].size = n.size
  BY DEF IsTree, Shaped, Rings
<1>4. Cardinality({u \in mates : bins.node[u].parent # Null}) = 1
  <2>1. PICK h \in Tr(bins) : bins.node[h].size = n.size BY HasHead
  <2>2. {u \in mates : bins.node[u].parent # Null} = {h}
    BY <2>1 DEF IsTree, Shaped, Heads, Tr, Nd
  <2> QED BY <2>2, FS_Singleton
<1>5. n.parent = Null => n.child[0] = Null /\ n.child[1] = Null
  BY DEF IsTree, Shaped, Links, Tr
<1>6. n.parent \in DOMAIN bins.node => \E b \in {0, 1} : bins.node[n.parent].child[b] = t
  <2> SUFFICES ASSUME n.parent \in Nd(bins) PROVE \E b \in {0, 1} : bins.node[n.parent].child[b] = t
    BY DEF Nd
  <2>1. t \in Tr(bins) BY <1>1 DEF Tr
  <2> QED BY <2>1, <1>1 DEF IsTree, Shaped, Links
<1>7. n.parent \in {treebin_at(i) : i \in Index} => bins.root[n.index] = t
  <2> SUFFICES ASSUME NEW i \in Index, n.parent = treebin_at(i) PROVE bins.root[n.index] = t
    OBVIOUS
  <2>1. t \in Tr(bins) /\ n.parent \notin Nd(bins) BY <1>1 DEF Tr
  <2> QED BY <2>1 DEF IsTree, Shaped, Links
<1>8. \A b \in {0, 1} : n.child[b] # Null => bins.node[n.child[b]].parent = t
  BY DEF IsTree, Shaped, Links
<1>9. n.child[0] # Null /\ n.child[1] # Null =>
        bins.node[n.child[0]].size < bins.node[n.child[1]].size
  <2> SUFFICES ASSUME n.child[0] # Null, n.child[1] # Null
               PROVE  bins.node[n.child[0]].size < bins.node[n.child[1]].size
    OBVIOUS
  <2>1. n.child[0] \in Tr(bins) /\ n.child[1] \in Tr(bins) BY Children
  <2>2. n.child[0] \in Sub(bins, lev, n.child[0]) /\ n.child[1] \in Sub(bins, lev, n.child[1])
    BY <2>1, SubFacts
  <2> QED BY <2>2, Sides
<1> QED BY <1>1, <1>2, <1>3, <1>4, <1>5, <1>6, <1>7, <1>8, <1>9 DEF CheckNode

LEMMA WellIsSound == Well(bins) => TreesSound
<1> SUFFICES ASSUME Well(bins) PROVE TreesSound
  OBVIOUS
<1>1. PICK lev : IsTree(bins, lev)
  BY DEF Well, IsTree
<1>2. TypeOK
  BY <1>1, SoundTypes DEF IsTree, Shaped
<1>3. \A i \in Index : i \in bins.map <=> bins.root[i] # Null
  BY DEF Well, Shaped, Indexed
<1>4. \A t \in Nd(bins) : CheckNode(t) /\ bin_find(bins, t, bins.node[t].size)
  BY <1>1, SoundNode, BinFinds
<1> QED BY <1>2, <1>3, <1>4 DEF TreesSound, Nd

LEMMA WellPicksBestFit == Well(bins) => PicksBestFit
<1> SUFFICES ASSUME Well(bins) PROVE PicksBestFit
  OBVIOUS
<1>1. PICK lev : IsTree(bins, lev)
  BY DEF Well, IsTree
<1>2. /\ Tr(bins) \subseteq Nd(bins) /\ \A u \in Nd(bins) : bins.node[u].size \in Nat
  BY <1>1, Fields DEF IsTree, Shaped
<1>3. ASSUME NEW nb \in Requests
      PROVE  IF Fits(nb) = {} THEN PickLarge(bins, nb) = Null
             ELSE IsSmallest(PickLarge(bins, nb), Fits(nb))
  <2> DEFINE r == PickLarge(bins, nb)
  <2>1. nb \in Large BY WidthAssumption
  <2>2. /\ r = Null \/ (r \in Tr(bins) /\ bins.node[r].size >= nb)
        /\ \A y \in Tr(bins) : bins.node[y].size >= nb => Beats(bins, r, y)
    BY <2>1, <1>1, PickLargeFits
  <2> HIDE DEF r
  <2>3. ASSUME NEW y \in Fits(nb) PROVE Beats(bins, r, y)
    <3>1. y \in Nd(bins) /\ bins.node[y].size >= nb BY DEF Fits, Nd
    <3>2. PICK h \in Tr(bins) : bins.node[h].size = bins.node[y].size BY <3>1, <1>1, HasHead
    <3> QED BY <3>1, <3>2, <2>2 DEF Beats
  <2>4. r # Null => r \in Fits(nb) BY <2>2, <1>2 DEF Fits, Nd
  <2>5. CASE Fits(nb) = {} BY <2>4, <2>5 DEF r
  <2>6. CASE Fits(nb) # {}
    <3>1. r \in Fits(nb) BY <2>3, <2>4, <2>6 DEF Beats
    <3> QED BY <3>1, <2>3, <2>6 DEF IsSmallest, Beats, r
  <2> QED BY <2>5, <2>6
<1>4. ASSUME bins.map # {} PROVE IsSmallest(PickSmall(bins), DOMAIN bins.node)
  <2> DEFINE r == PickSmall(bins)
  <2>1. r \in Tr(bins) /\ \A y \in Tr(bins) : Beats(bins, r, y)
    BY <1>1, <1>4, PickSmallFits
  <2> HIDE DEF r
  <2>2. ASSUME NEW y \in Nd(bins) PROVE bins.node[r].size <= bins.node[y].size
    <3>1. PICK h \in Tr(bins) : bins.node[h].size = bins.node[y].size BY <1>1, HasHead
    <3> QED BY <3>1, <2>1 DEF Beats
  <2> QED BY <2>1, <2>2, <1>2 DEF IsSmallest, Nd, r
<1> QED BY <1>3, <1>4 DEF PicksBestFit

-----------------------------------------------------------------------------
(* Insertion.  *)

LEMMA WithFacts ==
  ASSUME NEW w, Typed(w), NEW x \in Chunk \ Nd(w), NEW n \in NodeRec,
         NEW node \in [Nd(w) -> NodeRec]
  PROVE  LET v == With(w, x, n, node)
         IN  /\ Typed(v) /\ Nd(v) = Nd(w) \union {x} /\ v.root = w.root /\ v.map = w.map
             /\ v.node[x] = n /\ \A c \in Nd(w) : v.node[c] = node[c]
<1> DEFINE F == [c \in DOMAIN node \union {x} |-> IF c = x THEN n ELSE node[c]]
           v == With(w, x, n, node)
<1>1. PICK N \in SUBSET Chunk :
        w \in [node : [N -> NodeRec], root : [Index -> N \union {Null}], map : SUBSET Index]
  BY DEF Typed
<1>2. Nd(w) = N /\ DOMAIN node = N
  BY <1>1 DEF Nd
<1>3. F \in [N \union {x} -> NodeRec]
  BY <1>2
<1>4. DOMAIN F = N \union {x} /\ F[x] = n /\ \A c \in N : F[c] = node[c]
  BY <1>2
<1>5. v = [w EXCEPT !.node = F]
  BY DEF With
<1> HIDE DEF F, v
<1>6. v.node = F /\ v.root = w.root /\ v.map = w.map
  BY <1>1, <1>5
<1>7. v \in [node : [N \union {x} -> NodeRec], root : [Index -> (N \union {x}) \union {Null}],
             map : SUBSET Index]
  <2>1. w.root \in [Index -> (N \union {x}) \union {Null}] BY <1>1
  <2> QED BY <2>1, <1>1, <1>3, <1>5
<1>8. Typed(v)
  <2>1. N \union {x} \in SUBSET Chunk OBVIOUS
  <2> QED BY <2>1, <1>7 DEF Typed
<1> QED BY <1>2, <1>4, <1>6, <1>8 DEF v, Nd

(* The fields of c that an insertion of a tree node leaves alone.  *)
Same(w, v, c) ==
  /\ v.node[c].size = w.node[c].size /\ v.node[c].index = w.node[c].index
  /\ v.node[c].parent = w.node[c].parent
  /\ v.node[c].fd = w.node[c].fd /\ v.node[c].bk = w.node[c].bk

(* v is w with a tree node x of size s, the first of that size, under p.  *)
SingleAdded(w, v, x, s, p) ==
  /\ x \in Chunk \ Nd(w) /\ s \in Large /\ p # Null
  /\ \A t \in Tr(w) : w.node[t].size # s
  /\ Nd(v) = Nd(w) \union {x} /\ v.node[x] = Single(x, s, p)
  /\ \A c \in Nd(w) : Same(w, v, c)

LEMMA SingleFields ==
  ASSUME NEW x, NEW s, NEW p
  PROVE  LET n == Single(x, s, p)
         IN  /\ n.size = s /\ n.index = compute_tree_index(s) /\ n.parent = p
             /\ n.child[0] = Null /\ n.child[1] = Null /\ n.fd = x /\ n.bk = x
             /\ x \in Chunk /\ s \in Large /\ p \in Chunk \union {Null} \union Bins => n \in NodeRec
<1> QED BY IndexFacts DEF Single, NodeRec

LEMMA SingleKeeps ==
  ASSUME NEW w, NEW v, NEW x, NEW s, NEW p, Shaped(w), SingleAdded(w, v, x, s, p)
  PROVE  /\ Tr(v) = Tr(w) \union {x} /\ Rings(v) /\ Heads(v)
         /\ \A t \in Nd(v) : v.node[t].index = compute_tree_index(v.node[t].size)
<1>1. /\ Nd(v) = Nd(w) \union {x} /\ p # Null /\ x \notin Nd(w)
      /\ \A c \in Nd(w) : Same(w, v, c)
  BY DEF SingleAdded
<1>2. /\ v.node[x].size = s /\ v.node[x].index = compute_tree_index(s) /\ v.node[x].parent = p
      /\ v.node[x].fd = x /\ v.node[x].bk = x
  BY SingleFields DEF SingleAdded
<1>3. Tr(v) = Tr(w) \union {x}
  BY <1>1, <1>2 DEF Tr, Same
<1>4. Rings(v)
  <2>1. ASSUME NEW t \in Nd(v)
        PROVE  /\ v.node[t].fd \in Nd(v) /\ v.node[v.node[t].fd].bk = t
               /\ v.node[t].bk \in Nd(v) /\ v.node[v.node[t].bk].fd = t
               /\ v.node[v.node[t].bk].size = v.node[t].size
    <3>1. CASE t = x BY <3>1, <1>1, <1>2
    <3>2. CASE t # x
      <4>1. t \in Nd(w) BY <3>2, <1>1
      <4>2. w.node[t].fd \in Nd(w) /\ w.node[t].bk \in Nd(w) BY <4>1 DEF Shaped, Rings
      <4>3. /\ w.node[w.node[t].fd].bk = t /\ w.node[w.node[t].bk].fd = t
            /\ w.node[w.node[t].bk].size = w.node[t].size
        BY <4>1 DEF Shaped, Rings
      <4>4. v.node[t].fd = w.node[t].fd /\ v.node[t].bk = w.node[t].bk
            /\ v.node[t].size = w.node[t].size
        BY <4>1, <1>1 DEF Same
      <4>5. /\ v.node[w.node[t].fd].bk = w.node[w.node[t].fd].bk
            /\ v.node[w.node[t].bk].fd = w.node[w.node[t].bk].fd
            /\ v.node[w.node[t].bk].size = w.node[w.node[t].bk].size
        BY <4>2, <1>1 DEF Same
      <4> QED BY <4>2, <4>3, <4>4, <4>5, <1>1
    <3> QED BY <3>1, <3>2
  <2>2. ASSUME NEW S \in SUBSET Nd(v), S # {}, \A t \in S : v.node[t].bk \in S
        PROVE  S \intersect Tr(v) # {}
    <3>1. CASE x \in S BY <3>1, <1>3
    <3>2. CASE x \notin S
      <4>1. S \in SUBSET Nd(w) BY <3>2, <1>1
      <4>2. \A t \in S : w.node[t].bk \in S BY <4>1, <2>2, <1>1 DEF Same
      <4>3. S \intersect Tr(w) # {} BY <4>1, <4>2, <2>2 DEF Shaped, Rings
      <4> QED BY <4>3, <1>3
    <3> QED BY <3>1, <3>2
  <2> QED BY <2>1, <2>2 DEF Rings
<1>5. Heads(v)
  <2>1. \A t \in Tr(w) : v.node[t].size = w.node[t].size /\ v.node[t].size # s
    BY <1>1 DEF SingleAdded, Same, Tr
  <2> QED BY <2>1, <1>2, <1>3 DEF Shaped, Heads
<1>6. \A t \in Nd(v) : v.node[t].index = compute_tree_index(v.node[t].size)
  BY <1>1, <1>2 DEF Shaped, Indexed, Same
<1> QED BY <1>3, <1>4, <1>5, <1>6

(* Into an empty bin.                                                        *)
LEMMA InsertRoot ==
  ASSUME NEW w, NEW lev, IsTree(w, lev), NEW x \in Chunk \ Nd(w), NEW s \in Large,
         compute_tree_index(s) \notin w.map
  PROVE  LET v == insert_large_chunk(w, x, s) IN Well(v) /\ Nd(v) = Nd(w) \union {x}
<1> DEFINE i == compute_tree_index(s)
           n == Single(x, s, treebin_at(i))
           u == With(w, x, n, w.node)
           v == insert_large_chunk(w, x, s)
<1>1. /\ Typed(w) /\ i \in Index /\ treebin_at(i) # Null /\ x \notin Nd(w) /\ Null \notin Nd(w)
      /\ w.root \in [Index -> Nd(w) \union {Null}] /\ w.root[i] = Null /\ Shaped(w)
      /\ \A j \in Index : treebin_at(j) \notin Nd(w) \union {x} \union {Null}
      /\ x # Null
  BY Fields, IndexFacts, PointerAssumption DEF IsTree, Shaped, Indexed
<1>2. n \in NodeRec
  BY <1>1, SingleFields DEF Bins
<1>3. w.node \in [Nd(w) -> NodeRec]
  BY DEF IsTree, Shaped, Typed, Nd
<1>4. /\ Typed(u) /\ Nd(u) = Nd(w) \union {x} /\ u.root = w.root /\ u.map = w.map
      /\ u.node[x] = n /\ \A c \in Nd(w) : u.node[c] = w.node[c]
  BY <1>1, <1>2, <1>3, WithFacts
<1>5. v = [u EXCEPT !.map = @ \union {i}, !.root[i] = x]
  BY DEF insert_large_chunk
<1> HIDE DEF v, u, n
<1>6. /\ Typed(v) /\ v.node = u.node /\ v.map = w.map \union {i}
      /\ v.root = [w.root EXCEPT ![i] = x]
  <2>1. PICK N \in SUBSET Chunk :
          u \in [node : [N -> NodeRec], root : [Index -> N \union {Null}], map : SUBSET Index]
    BY <1>4 DEF Typed
  <2>2. N = Nd(w) \union {x} BY <2>1, <1>4 DEF Nd
  <2>3. v.node = u.node /\ v.map = w.map \union {i} /\ v.root = [w.root EXCEPT ![i] = x]
    BY <2>1, <1>4, <1>5
  <2>4. v \in [node : [N -> NodeRec], root : [Index -> N \union {Null}], map : SUBSET Index]
    BY <2>1, <2>2, <1>1, <1>4, <1>5
  <2> QED BY <2>3, <2>4 DEF Typed
<1>7. Nd(v) = Nd(w) \union {x} /\ v.node[x] = n /\ \A c \in Nd(w) : v.node[c] = w.node[c]
  BY <1>4, <1>6 DEF Nd
<1>8. /\ v.root[i] = x /\ \A j \in Index : j # i => v.root[j] = w.root[j]
  BY <1>1, <1>6
<1>9. SingleAdded(w, v, x, s, treebin_at(i))
  <2>1. ASSUME NEW t \in Tr(w), w.node[t].size = s PROVE FALSE
    <3>1. w.node[t].index = i BY <2>1, Fields DEF IsTree, Shaped, Indexed
    <3> QED BY <3>1, <1>1, BelowRoot, Fields DEF IsTree, Shaped
  <2> QED BY <2>1, <1>1, <1>7 DEF SingleAdded, Same, n
<1>10. /\ Tr(v) = Tr(w) \union {x} /\ Rings(v) /\ Heads(v)
       /\ \A t \in Nd(v) : v.node[t].index = compute_tree_index(v.node[t].size)
  BY <1>1, <1>9, SingleKeeps
<1>11. /\ v.node[x].parent = treebin_at(i) /\ v.node[x].index = i
       /\ \A b \in {0, 1} : v.node[x].child[b] = Null
  BY <1>7, SingleFields DEF n
<1>12. Indexed(v)
  <2>1. \A j \in Index : j \in v.map <=> v.root[j] # Null
    BY <1>1, <1>6, <1>8 DEF Shaped, Indexed
  <2> QED BY <2>1, <1>10 DEF Indexed
<1>13. Links(v)
  <2>1. ASSUME NEW j \in Index, v.root[j] # Null
        PROVE  v.node[v.root[j]].parent = treebin_at(j)
    BY <2>1, <1>1, <1>7, <1>8, <1>11 DEF Shaped, Links
  <2>2. ASSUME NEW t \in Nd(v), NEW b \in {0, 1}, v.node[t].child[b] # Null
        PROVE  /\ t \in Tr(v) /\ v.node[t].child[b] \in Nd(v)
               /\ v.node[v.node[t].child[b]].parent = t
    <3> DEFINE c == v.node[t].child[b]
    <3>1. t \in Nd(w) /\ v.node[t] = w.node[t] BY <2>2, <1>7, <1>11
    <3>2. t \in Tr(w) /\ c \in Nd(w) /\ w.node[c].parent = t
      BY <2>2, <3>1, <1>1, ChildLink DEF Shaped
    <3> HIDE DEF c
    <3>3. c \in Nd(v) /\ v.node[c].parent = t /\ t \in Tr(v) BY <3>2, <1>7, <1>10
    <3> QED BY <3>3 DEF c
  <2>3. ASSUME NEW t \in Tr(v)
        PROVE  LET p == v.node[t].parent
               IN  \/ p \in Nd(v) /\ \E b \in {0, 1} : v.node[p].child[b] = t
                   \/ \E j \in Index : p = treebin_at(j) /\ v.root[j] = t /\ v.node[t].index = j
    <3>1. CASE t = x BY <3>1, <1>1, <1>8, <1>11
    <3>2. CASE t # x
      <4>1. t \in Tr(w) /\ v.node[t] = w.node[t] /\ t # Null BY <3>2, <1>1, <1>7, <1>10 DEF Tr
      <4>2. CASE w.node[t].parent \in Nd(w)
        <5>1. PICK b \in {0, 1} : w.node[w.node[t].parent].child[b] = t
          BY <4>1, <4>2, <1>1, ParentLink DEF Shaped
        <5> QED BY <5>1, <4>1, <4>2, <1>7
      <4>3. CASE w.node[t].parent \notin Nd(w)
        <5>1. PICK j \in Index : w.node[t].parent = treebin_at(j) /\ w.root[j] = t /\ w.node[t].index = j
          BY <4>1, <4>3, ParentLink DEF IsTree, Shaped
        <5>2. j # i BY <5>1, <4>1, <1>1
        <5> QED BY <5>1, <5>2, <4>1, <1>8
      <4> QED BY <4>2, <4>3
    <3> QED BY <3>1, <3>2
  <2> QED BY <2>1, <2>2, <2>3 DEF Links
<1>14. \E l : Levels(v, l)
  <2> DEFINE l == [t \in Tr(v) |-> IF t = x THEN NB(i) ELSE lev[t]]
  <2>1. lev \in [Tr(w) -> 0 .. W] BY DEF IsTree, Levels
  <2>2. NB(i) \in 0 .. W BY BinPrefix
  <2>3. l \in [Tr(v) -> 0 .. W] /\ l[x] = NB(i) /\ \A t \in Tr(w) : l[t] = lev[t]
    BY <2>1, <2>2, <1>1, <1>10 DEF Tr
  <2> HIDE DEF l
  <2>4. ASSUME NEW j \in Index, v.root[j] # Null PROVE l[v.root[j]] = NB(j)
    <3>1. CASE j = i BY <3>1, <2>3, <1>8
    <3>2. CASE j # i
      <4>1. w.root[j] # Null /\ v.root[j] = w.root[j] BY <3>2, <2>4, <1>8
      <4>2. w.root[j] \in Tr(w) BY <4>1, SubRoot
      <4> QED BY <4>1, <4>2, <2>3 DEF IsTree, Levels
    <3> QED BY <3>1, <3>2
  <2>5. ASSUME NEW t \in Nd(v), NEW b \in {0, 1}, v.node[t].child[b] # Null
        PROVE  LET c == v.node[t].child[b]
               IN  /\ l[t] = l[c] + 1
                   /\ v.node[c].index = v.node[t].index
                   /\ Top(v.node[c].size, l[c]) = 2 * Top(v.node[t].size, l[t]) + b
    <3>1. t \in Nd(w) /\ v.node[t] = w.node[t] BY <2>5, <1>7, <1>11
    <3>2. w.node[t].child[b] \in Tr(w) /\ t \in Tr(w) /\ w.node[t].child[b] \in Nd(w)
      BY <2>5, <3>1, Children DEF IsChild, Tr
    <3> QED BY <3>1, <3>2, <2>3, <2>5, <1>7 DEF IsTree, Levels
  <2>6. Levels(v, l) BY <2>3, <2>4, <2>5 DEF Levels
  <2> QED BY <2>6
<1> QED BY <1>6, <1>7, <1>10, <1>12, <1>13, <1>14 DEF Well, Shaped, v

(* Below the node where the path of its size ends.                           *)
LEMMA InsertLeaf ==
  ASSUME NEW w, NEW lev, IsTree(w, lev), NEW x \in Chunk \ Nd(w), NEW s \in Large,
         compute_tree_index(s) \in w.map,
         w.node[PathEnd(w, w.root[compute_tree_index(s)], s).t].size # s
  PROVE  LET v == insert_large_chunk(w, x, s) IN Well(v) /\ Nd(v) = Nd(w) \union {x}
<1> DEFINE i == compute_tree_index(s)
           end == PathEnd(w, w.root[i], s)
           t == end.t
           b == SignBit(end.sizebits)
           n == Single(x, s, t)
           nt == [w.node[t] EXCEPT !.child[b] = x]
           node == [w.node EXCEPT ![t].child[b] = x]
           v == insert_large_chunk(w, x, s)
<1>1. /\ Typed(w) /\ i \in Index /\ x \notin Nd(w) /\ Null \notin Nd(w) /\ x # Null
      /\ w.root[i] # Null /\ Shaped(w) /\ Tr(w) \subseteq Nd(w)
      /\ \A j \in Index : treebin_at(j) \notin Nd(w)
  BY Fields, IndexFacts, PointerAssumption DEF IsTree, Shaped, Indexed
<1>2. /\ OnPath(w, lev, s, t, end.sizebits)
      /\ w.node[t].size = s \/ w.node[t].child[b] = Null
  BY <1>1, PathEnds
<1> HIDE DEF end
<1>3. w.node[t].size # s /\ w.node[t].child[b] = Null
  BY <1>2 DEF end
<1>4. /\ t \in Tr(w) /\ t \in Nd(w) /\ t # x /\ t # Null /\ t \in Chunk
      /\ w.node[t].index = i /\ lev[t] \in 1 .. W
      /\ b \in {0, 1} /\ Top(s, lev[t] - 1) = 2 * Top(w.node[t].size, lev[t]) + b
      /\ \A u \in Tr(w) : w.node[u].size # s
  <2>1. t \in Tr(w) /\ w.node[t].index = i BY <1>2 DEF OnPath
  <2>2. lev[t] \in 1 .. W BY <1>2, <1>3, PathStep
  <2>3. /\ b \in {0, 1} /\ Top(s, lev[t] - 1) = 2 * Top(w.node[t].size, lev[t]) + b
        /\ \A u \in Tr(w) : w.node[u].size # s
    BY <1>2, <1>3, <2>2, PathStep
  <2>4. t \in Chunk BY <2>1, <1>1, Fields
  <2> QED BY <2>1, <2>2, <2>3, <2>4, <1>1
<1> HIDE DEF b, t
<1>5. n \in NodeRec
  BY <1>4, SingleFields
<1>6. /\ nt \in NodeRec /\ nt.child[b] = x /\ (\A a \in {0, 1} : a # b => nt.child[a] = w.node[t].child[a])
      /\ nt.size = w.node[t].size /\ nt.index = w.node[t].index /\ nt.parent = w.node[t].parent
      /\ nt.fd = w.node[t].fd /\ nt.bk = w.node[t].bk
  <2>1. w.node[t] \in NodeRec BY <1>4, <1>1, Fields
  <2> QED BY <2>1, <1>4 DEF NodeRec
<1>7. w.node \in [Nd(w) -> NodeRec]
  BY DEF IsTree, Shaped, Typed, Nd
<1>8. node = [w.node EXCEPT ![t] = nt]
  OBVIOUS
<1> HIDE DEF nt, node, n
<1>9. node \in [Nd(w) -> NodeRec] /\ node[t] = nt /\ \A c \in Nd(w) \ {t} : node[c] = w.node[c]
  BY <1>4, <1>6, <1>7, <1>8
<1>10. v = With(w, x, n, node)
  BY <1>1, <1>3 DEF insert_large_chunk, n, node, t, b, end, IsTree, Shaped, Indexed
<1> HIDE DEF v
<1>11. /\ Typed(v) /\ Nd(v) = Nd(w) \union {x} /\ v.root = w.root /\ v.map = w.map
       /\ v.node[x] = n /\ v.node[t] = nt /\ \A c \in Nd(w) \ {t} : v.node[c] = w.node[c]
  <2>1. LET u == With(w, x, n, node)
        IN  /\ Typed(u) /\ Nd(u) = Nd(w) \union {x} /\ u.root = w.root /\ u.map = w.map
            /\ u.node[x] = n /\ \A c \in Nd(w) : u.node[c] = node[c]
    BY <1>1, <1>5, <1>9, WithFacts
  <2> QED BY <2>1, <1>10, <1>9, <1>4
<1>12. \A c \in Nd(w) : Same(w, v, c)
  BY <1>6, <1>11 DEF Same
<1>13. SingleAdded(w, v, x, s, t)
  BY <1>1, <1>4, <1>11, <1>12 DEF SingleAdded, n
<1>14. /\ Tr(v) = Tr(w) \union {x} /\ Rings(v) /\ Heads(v)
       /\ \A c \in Nd(v) : v.node[c].index = compute_tree_index(v.node[c].size)
  BY <1>1, <1>13, SingleKeeps
<1>15. /\ v.node[x].parent = t /\ v.node[x].index = i /\ v.node[x].size = s
       /\ \A a \in {0, 1} : v.node[x].child[a] = Null
  BY <1>11, SingleFields DEF n
<1>16. Indexed(v)
  BY <1>1, <1>11, <1>14 DEF Indexed, Shaped
<1>17. \A u \in Nd(w), a \in {0, 1} :
         v.node[u].child[a] = IF u = t /\ a = b THEN x ELSE w.node[u].child[a]
  BY <1>6, <1>11
<1>18. Links(v)
  <2>1. ASSUME NEW j \in Index, v.root[j] # Null
        PROVE  v.node[v.root[j]].parent = treebin_at(j)
    <3>1. w.root[j] \in Nd(w) /\ w.node[w.root[j]].parent = treebin_at(j)
      <4>1. w.root[j] # Null BY <2>1, <1>11
      <4>2. w.root[j] \in Nd(w) BY <4>1, <1>1, Fields
      <4> QED BY <4>1, <4>2, RootLink DEF IsTree, Shaped
    <3> QED BY <3>1, <1>11, <1>12 DEF Same
  <2>2. ASSUME NEW u \in Nd(v), NEW a \in {0, 1}, v.node[u].child[a] # Null
        PROVE  /\ u \in Tr(v) /\ v.node[u].child[a] \in Nd(v)
               /\ v.node[v.node[u].child[a]].parent = u
    <3>1. u \in Nd(w) BY <2>2, <1>11, <1>15
    <3>2. CASE u = t /\ a = b BY <3>1, <3>2, <1>4, <1>11, <1>14, <1>15, <1>17
    <3>3. CASE ~(u = t /\ a = b)
      <4>1. v.node[u].child[a] = w.node[u].child[a] BY <3>1, <3>3, <1>17
      <4>2. /\ u \in Tr(w) /\ w.node[u].child[a] \in Nd(w)
            /\ w.node[w.node[u].child[a]].parent = u
        BY <4>1, <3>1, <2>2, <1>1 DEF Shaped, Links
      <4> QED BY <4>1, <4>2, <1>11, <1>12, <1>14 DEF Same
    <3> QED BY <3>2, <3>3
  <2>3. ASSUME NEW u \in Tr(v)
        PROVE  LET p == v.node[u].parent
               IN  \/ p \in Nd(v) /\ \E a \in {0, 1} : v.node[p].child[a] = u
                   \/ \E j \in Index : p = treebin_at(j) /\ v.root[j] = u /\ v.node[u].index = j
    <3>1. CASE u = x
      <4>1. v.node[t].child[b] = x BY <1>4, <1>17
      <4> QED BY <4>1, <3>1, <1>4, <1>11, <1>15
    <3>2. CASE u # x
      <4>1. u \in Tr(w) /\ u \in Nd(w) /\ u # Null BY <3>2, <1>1, <1>14
      <4>2. v.node[u].parent = w.node[u].parent /\ v.node[u].index = w.node[u].index
        BY <4>1, <1>12 DEF Same
      <4>3. CASE w.node[u].parent \in Nd(w)
        <5>1. PICK a \in {0, 1} : w.node[w.node[u].parent].child[a] = u
          BY <4>1, <4>3, <1>1, ParentLink DEF Shaped
        <5>2. v.node[w.node[u].parent].child[a] = u BY <5>1, <4>1, <4>3, <1>3, <1>17
        <5> QED BY <5>2, <4>2, <4>3, <1>11
      <4>4. CASE w.node[u].parent \notin Nd(w)
        <5>1. PICK j \in Index : w.node[u].parent = treebin_at(j) /\ w.root[j] = u /\ w.node[u].index = j
          BY <4>1, <4>4, <1>1, ParentLink DEF Shaped
        <5> QED BY <5>1, <4>2, <1>11
      <4> QED BY <4>3, <4>4
    <3> QED BY <3>1, <3>2
  <2> QED BY <2>1, <2>2, <2>3 DEF Links
<1>19. \E l : Levels(v, l)
  <2> DEFINE l == [u \in Tr(v) |-> IF u = x THEN lev[t] - 1 ELSE lev[u]]
  <2>1. lev \in [Tr(w) -> 0 .. W] BY DEF IsTree, Levels
  <2>2. lev[t] - 1 \in 0 .. W /\ (lev[t] - 1) + 1 = lev[t] BY <1>4, Widths
  <2>3. l \in [Tr(v) -> 0 .. W] /\ l[x] = lev[t] - 1 /\ \A u \in Tr(w) : l[u] = lev[u]
    BY <2>1, <2>2, <1>1, <1>14
  <2> HIDE DEF l
  <2>4. ASSUME NEW j \in Index, v.root[j] # Null PROVE l[v.root[j]] = NB(j)
    <3>1. w.root[j] \in Tr(w) BY <2>4, <1>11, SubRoot
    <3> QED BY <3>1, <2>3, <2>4, <1>11 DEF IsTree, Levels
  <2>5. ASSUME NEW u \in Nd(v), NEW a \in {0, 1}, v.node[u].child[a] # Null
        PROVE  LET c == v.node[u].child[a]
               IN  /\ l[u] = l[c] + 1
                   /\ v.node[c].index = v.node[u].index
                   /\ Top(v.node[c].size, l[c]) = 2 * Top(v.node[u].size, l[u]) + a
    <3>1. u \in Nd(w) BY <2>5, <1>11, <1>15
    <3>2. v.node[u].size = w.node[u].size /\ v.node[u].index = w.node[u].index
      BY <3>1, <1>12 DEF Same
    <3>3. CASE u = t /\ a = b
      <4>1. v.node[u].child[a] = x BY <3>1, <3>3, <1>17
      <4> QED BY <4>1, <3>2, <3>3, <2>2, <2>3, <1>4, <1>15
    <3>4. CASE ~(u = t /\ a = b)
      <4>1. v.node[u].child[a] = w.node[u].child[a] /\ w.node[u].child[a] # Null
        BY <3>1, <3>4, <2>5, <1>17
      <4> DEFINE c == w.node[u].child[a]
      <4>2. c \in Tr(w) /\ IsChild(w, lev, c, u, a) BY <4>1, <3>1, Children
      <4>3. v.node[c].size = w.node[c].size /\ v.node[c].index = w.node[c].index
        BY <4>2, <1>1, <1>12 DEF Same
      <4>4. l[c] = lev[c] /\ l[u] = lev[u] BY <4>2, <2>3 DEF IsChild
      <4> HIDE DEF c
      <4>5. /\ lev[u] = lev[c] + 1 /\ w.node[c].index = w.node[u].index
            /\ Top(w.node[c].size, lev[c]) = 2 * Top(w.node[u].size, lev[u]) + a
        BY <4>2 DEF IsChild
      <4> QED BY <4>1, <4>3, <4>4, <4>5, <3>2 DEF c
    <3> QED BY <3>3, <3>4
  <2>6. Levels(v, l) BY <2>3, <2>4, <2>5 DEF Levels
  <2> QED BY <2>6
<1> QED BY <1>11, <1>14, <1>16, <1>18, <1>19 DEF Well, Shaped, v

(* Setting one pointer of one node.                                          *)
LEMMA SetFd ==
  ASSUME NEW D, NEW node \in [D -> NodeRec], NEW t \in D, NEW x \in Chunk
  PROVE  LET m == [node EXCEPT ![t].fd = x]
         IN  /\ m \in [D -> NodeRec]
             /\ \A c \in D : /\ m[c].fd = IF c = t THEN x ELSE node[c].fd
                             /\ m[c].bk = node[c].bk /\ m[c].size = node[c].size
                             /\ m[c].index = node[c].index /\ m[c].parent = node[c].parent
                             /\ m[c].child = node[c].child
<1> DEFINE n == [node[t] EXCEPT !.fd = x]
<1>1. node[t] \in NodeRec
  OBVIOUS
<1>2. /\ n \in NodeRec /\ n.fd = x /\ n.bk = node[t].bk /\ n.size = node[t].size
      /\ n.index = node[t].index /\ n.parent = node[t].parent /\ n.child = node[t].child
  BY <1>1 DEF NodeRec
<1>3. [node EXCEPT ![t].fd = x] = [node EXCEPT ![t] = n]
  OBVIOUS
<1> HIDE DEF n
<1> QED BY <1>2, <1>3

LEMMA SetBk ==
  ASSUME NEW D, NEW node \in [D -> NodeRec], NEW t \in D, NEW x \in Chunk
  PROVE  LET m == [node EXCEPT ![t].bk = x]
         IN  /\ m \in [D -> NodeRec]
             /\ \A c \in D : /\ m[c].bk = IF c = t THEN x ELSE node[c].bk
                             /\ m[c].fd = node[c].fd /\ m[c].size = node[c].size
                             /\ m[c].index = node[c].index /\ m[c].parent = node[c].parent
                             /\ m[c].child = node[c].child
<1> DEFINE n == [node[t] EXCEPT !.bk = x]
<1>1. node[t] \in NodeRec
  OBVIOUS
<1>2. /\ n \in NodeRec /\ n.bk = x /\ n.fd = node[t].fd /\ n.size = node[t].size
      /\ n.index = node[t].index /\ n.parent = node[t].parent /\ n.child = node[t].child
  BY <1>1 DEF NodeRec
<1>3. [node EXCEPT ![t].bk = x] = [node EXCEPT ![t] = n]
  OBVIOUS
<1> HIDE DEF n
<1> QED BY <1>2, <1>3

LEMMA RingFacts ==
  ASSUME NEW w, Rings(w), NEW t \in Nd(w)
  PROVE  /\ w.node[t].fd \in Nd(w) /\ w.node[w.node[t].fd].bk = t
         /\ w.node[t].bk \in Nd(w) /\ w.node[w.node[t].bk].fd = t
         /\ w.node[w.node[t].bk].size = w.node[t].size
<1> QED BY DEF Rings

(* Into the ring of the tree node of its size, behind that.                  *)
LEMMA InsertMate ==
  ASSUME NEW w, NEW lev, IsTree(w, lev), NEW x \in Chunk \ Nd(w), NEW s \in Large,
         compute_tree_index(s) \in w.map,
         w.node[PathEnd(w, w.root[compute_tree_index(s)], s).t].size = s
  PROVE  LET v == insert_large_chunk(w, x, s) IN Well(v) /\ Nd(v) = Nd(w) \union {x}
<1> DEFINE i == compute_tree_index(s)
           t == PathEnd(w, w.root[i], s).t
           f == w.node[t].fd
           n == [Single(x, s, Null) EXCEPT !.fd = f, !.bk = t]
           m == [w.node EXCEPT ![t].fd = x]
           node == [m EXCEPT ![f].bk = x]
           v == insert_large_chunk(w, x, s)
<1>1. /\ Typed(w) /\ i \in Index /\ x \notin Nd(w) /\ Null \notin Nd(w) /\ x # Null
      /\ w.root[i] # Null /\ Shaped(w) /\ Rings(w) /\ Tr(w) \subseteq Nd(w) /\ Nd(w) \subseteq Chunk
      /\ \A j \in Index : treebin_at(j) \notin Nd(w)
      /\ w.root \in [Index -> Nd(w) \union {Null}]
  BY Fields, IndexFacts, PointerAssumption DEF IsTree, Shaped, Indexed
<1>2. t \in Tr(w) /\ t \in Nd(w) /\ w.node[t].size = s
  BY <1>1, PathEnds DEF OnPath
<1> HIDE DEF t
<1>3. f \in Nd(w) /\ w.node[f].bk = t /\ w.node[f].size = s
  <2>1. f \in Nd(w) /\ w.node[f].bk = t BY <1>1, <1>2, RingFacts
  <2>2. w.node[w.node[f].bk].size = w.node[f].size BY <1>1, <2>1, RingFacts
  <2> QED BY <2>1, <2>2, <1>2
<1>4. w.node[t].fd = f
  OBVIOUS
<1> HIDE DEF f
<1>5. /\ n \in NodeRec /\ n.size = s /\ n.index = i /\ n.parent = Null /\ n.fd = f /\ n.bk = t
      /\ \A a \in {0, 1} : n.child[a] = Null
  <2> DEFINE o == Single(x, s, Null)
  <2>1. /\ o \in NodeRec /\ o.size = s /\ o.index = i /\ o.parent = Null
        /\ o.child[0] = Null /\ o.child[1] = Null
    BY SingleFields
  <2> HIDE DEF o
  <2>2. f \in Chunk /\ t \in Chunk BY <1>1, <1>2, <1>3
  <2>3. n = [o EXCEPT !.fd = f, !.bk = t] BY DEF o
  <2> QED BY <2>1, <2>2, <2>3 DEF NodeRec
<1>6. w.node \in [Nd(w) -> NodeRec]
  BY DEF IsTree, Shaped, Typed, Nd
<1>7. /\ node \in [Nd(w) -> NodeRec]
      /\ \A c \in Nd(w) : /\ node[c].fd = IF c = t THEN x ELSE w.node[c].fd
                          /\ node[c].bk = IF c = f THEN x ELSE w.node[c].bk
                          /\ node[c].size = w.node[c].size
                          /\ node[c].index = w.node[c].index
                          /\ node[c].parent = w.node[c].parent
                          /\ node[c].child = w.node[c].child
  <2>1. /\ m \in [Nd(w) -> NodeRec]
        /\ \A c \in Nd(w) : /\ m[c].fd = IF c = t THEN x ELSE w.node[c].fd
                            /\ m[c].bk = w.node[c].bk /\ m[c].size = w.node[c].size
                            /\ m[c].index = w.node[c].index /\ m[c].parent = w.node[c].parent
                            /\ m[c].child = w.node[c].child
    BY <1>2, <1>6, SetFd
  <2> HIDE DEF m
  <2>2. /\ node \in [Nd(w) -> NodeRec]
        /\ \A c \in Nd(w) : /\ node[c].bk = IF c = f THEN x ELSE m[c].bk
                            /\ node[c].fd = m[c].fd /\ node[c].size = m[c].size
                            /\ node[c].index = m[c].index /\ node[c].parent = m[c].parent
                            /\ node[c].child = m[c].child
    BY <1>3, <2>1, SetBk
  <2> QED BY <2>1, <2>2
<1> HIDE DEF n
<1>8. v = With(w, x, n, node)
  BY <1>1, <1>2 DEF insert_large_chunk, n, t, f, IsTree, Shaped, Indexed
<1> HIDE DEF node, v
<1>9. /\ Typed(v) /\ Nd(v) = Nd(w) \union {x} /\ v.root = w.root /\ v.map = w.map
      /\ v.node[x] = n /\ \A c \in Nd(w) : v.node[c] = node[c]
  BY <1>1, <1>5, <1>7, <1>8, WithFacts
<1>10. /\ \A c \in Nd(w) : /\ v.node[c].fd = IF c = t THEN x ELSE w.node[c].fd
                           /\ v.node[c].bk = IF c = f THEN x ELSE w.node[c].bk
                           /\ v.node[c].size = w.node[c].size
                           /\ v.node[c].index = w.node[c].index
                           /\ v.node[c].parent = w.node[c].parent
                           /\ v.node[c].child = w.node[c].child
       /\ v.node[x].size = s /\ v.node[x].index = i /\ v.node[x].parent = Null
       /\ v.node[x].fd = f /\ v.node[x].bk = t
       /\ \A a \in {0, 1} : v.node[x].child[a] = Null
  BY <1>5, <1>7, <1>9
<1>11. Tr(v) = Tr(w)
  BY <1>9, <1>10 DEF Tr
<1>12. Indexed(v)
  BY <1>1, <1>9, <1>10 DEF Indexed, Shaped
<1>13. Heads(v)
  BY <1>1, <1>10, <1>11 DEF Heads, Shaped
<1>14. Rings(v)
  <2>1. ASSUME NEW c \in Nd(v)
        PROVE  v.node[c].fd \in Nd(v) /\ v.node[v.node[c].fd].bk = c
    <3>1. CASE c = x BY <3>1, <1>3, <1>9, <1>10
    <3>2. CASE c = t BY <3>2, <1>2, <1>9, <1>10
    <3>3. CASE c # x /\ c # t
      <4> DEFINE d == w.node[c].fd
      <4>1. c \in Nd(w) BY <3>3, <1>9
      <4>2. d \in Nd(w) /\ w.node[d].bk = c BY <4>1, <1>1, RingFacts
      <4>3. v.node[c].fd = d BY <4>1, <3>3, <1>10
      <4> HIDE DEF d
      <4>4. v.node[d].bk = c BY <4>2, <3>3, <1>3, <1>10
      <4> QED BY <4>2, <4>3, <4>4, <1>9
    <3> QED BY <3>1, <3>2, <3>3
  <2>2. ASSUME NEW c \in Nd(v)
        PROVE  /\ v.node[c].bk \in Nd(v) /\ v.node[v.node[c].bk].fd = c
               /\ v.node[v.node[c].bk].size = v.node[c].size
    <3>1. CASE c = x BY <3>1, <1>2, <1>9, <1>10
    <3>2. CASE c = f BY <3>2, <1>1, <1>3, <1>9, <1>10
    <3>3. CASE c # x /\ c # f
      <4> DEFINE d == w.node[c].bk
      <4>1. c \in Nd(w) BY <3>3, <1>9
      <4>2. d \in Nd(w) /\ w.node[d].fd = c /\ w.node[d].size = w.node[c].size
        BY <4>1, <1>1, RingFacts
      <4>3. v.node[c].bk = d BY <4>1, <3>3, <1>10
      <4> HIDE DEF d
      <4>4. v.node[d].fd = c BY <4>2, <3>3, <1>4, <1>10
      <4> QED BY <4>1, <4>2, <4>3, <4>4, <1>9, <1>10
    <3> QED BY <3>1, <3>2, <3>3
  <2>3. ASSUME NEW S \in SUBSET Nd(v), S # {}, \A c \in S : v.node[c].bk \in S
        PROVE  S \intersect Tr(v) # {}
    <3>1. CASE x \in S BY <3>1, <2>3, <1>2, <1>10, <1>11
    <3>2. CASE x \notin S
      <4>1. S \in SUBSET Nd(w) BY <3>2, <1>9
      <4>2. f \notin S BY <3>2, <2>3, <1>3, <1>10
      <4>3. \A c \in S : w.node[c].bk \in S BY <4>1, <4>2, <2>3, <1>10
      <4>4. S \intersect Tr(w) # {} BY <4>1, <4>3, <2>3, <1>1 DEF Rings
      <4> QED BY <4>4, <1>11
    <3> QED BY <3>1, <3>2
  <2> QED BY <2>1, <2>2, <2>3 DEF Rings
<1>15. \A c \in Nd(v), a \in {0, 1} :
         v.node[c].child[a] # Null =>
           /\ c \in Nd(w) /\ v.node[c].child[a] = w.node[c].child[a]
           /\ c \in Tr(w) /\ w.node[c].child[a] \in Nd(w)
           /\ w.node[w.node[c].child[a]].parent = c
  BY <1>1, <1>9, <1>10 DEF Shaped, Links
<1>16. Links(v)
  <2>1. ASSUME NEW j \in Index, v.root[j] # Null
        PROVE  v.node[v.root[j]].parent = treebin_at(j)
    BY <2>1, <1>1, <1>9, <1>10 DEF Shaped, Links
  <2>2. ASSUME NEW c \in Nd(v), NEW a \in {0, 1}, v.node[c].child[a] # Null
        PROVE  /\ c \in Tr(v) /\ v.node[c].child[a] \in Nd(v)
               /\ v.node[v.node[c].child[a]].parent = c
    <3> DEFINE d == w.node[c].child[a]
    <3>1. c \in Tr(w) /\ v.node[c].child[a] = d /\ d \in Nd(w) /\ w.node[d].parent = c
      BY <2>2, <1>15
    <3> HIDE DEF d
    <3>2. v.node[d].parent = w.node[d].parent BY <3>1, <1>10
    <3> QED BY <3>1, <3>2, <1>9, <1>11
  <2>3. ASSUME NEW c \in Tr(v)
        PROVE  LET p == v.node[c].parent
               IN  \/ p \in Nd(v) /\ \E a \in {0, 1} : v.node[p].child[a] = c
                   \/ \E j \in Index : p = treebin_at(j) /\ v.root[j] = c /\ v.node[c].index = j
    <3>1. c \in Tr(w) /\ c \in Nd(w) BY <1>1, <1>11
    <3>2. CASE w.node[c].parent \in Nd(w)
      <4>1. PICK a \in {0, 1} : w.node[w.node[c].parent].child[a] = c
        BY <3>1, <3>2, <1>1, ParentLink DEF Shaped
      <4> QED BY <4>1, <3>1, <3>2, <1>9, <1>10
    <3>3. CASE w.node[c].parent \notin Nd(w)
      <4>1. PICK j \in Index : w.node[c].parent = treebin_at(j) /\ w.root[j] = c /\ w.node[c].index = j
        BY <3>1, <3>3, <1>1, ParentLink DEF Shaped
      <4> QED BY <4>1, <3>1, <1>9, <1>10
    <3> QED BY <3>2, <3>3
  <2> QED BY <2>1, <2>2, <2>3 DEF Links
<1>17. Levels(v, lev)
  <2>1. lev \in [Tr(v) -> 0 .. W] BY <1>11 DEF IsTree, Levels
  <2>2. \A j \in Index : v.root[j] # Null => lev[v.root[j]] = NB(j)
    BY <1>9 DEF IsTree, Levels
  <2>3. ASSUME NEW u \in Nd(v), NEW a \in {0, 1}, v.node[u].child[a] # Null
        PROVE  LET c == v.node[u].child[a]
               IN  /\ lev[u] = lev[c] + 1
                   /\ v.node[c].index = v.node[u].index
                   /\ Top(v.node[c].size, lev[c]) = 2 * Top(v.node[u].size, lev[u]) + a
    <3> DEFINE c == w.node[u].child[a]
    <3>1. /\ u \in Nd(w) /\ v.node[u].child[a] = c /\ c # Null /\ c \in Nd(w)
      BY <2>3, <1>15
    <3>2. /\ lev[u] = lev[c] + 1 /\ w.node[c].index = w.node[u].index
          /\ Top(w.node[c].size, lev[c]) = 2 * Top(w.node[u].size, lev[u]) + a
      BY <3>1 DEF IsTree, Levels
    <3> HIDE DEF c
    <3> QED BY <3>1, <3>2, <1>10
  <2> QED BY <2>1, <2>2, <2>3 DEF Levels
<1> QED BY <1>9, <1>12, <1>13, <1>14, <1>16, <1>17 DEF Well, Shaped, v

(* A chunk may be inserted.                                                  *)
LEMMA InsertKeeps ==
  ASSUME NEW w, Well(w), NEW x \in Chunk \ Nd(w), NEW s \in Large
  PROVE  LET v == insert_large_chunk(w, x, s) IN Well(v) /\ Nd(v) = Nd(w) \union {x}
<1>1. PICK lev : IsTree(w, lev)
  BY DEF Well, IsTree
<1> DEFINE i == compute_tree_index(s)
           t == PathEnd(w, w.root[i], s).t
<1>2. CASE i \notin w.map
  BY <1>1, <1>2, InsertRoot
<1>3. CASE i \in w.map /\ w.node[t].size # s
  BY <1>1, <1>3, InsertLeaf
<1>4. CASE i \in w.map /\ w.node[t].size = s
  BY <1>1, <1>4, InsertMate
<1> QED BY <1>2, <1>3, <1>4

-----------------------------------------------------------------------------
(* Removal.  *)

Childless(w, t) == \A b \in {0, 1} : w.node[t].child[b] = Null

LeafWalk(w, f) ==
  f = [t \in DOMAIN w.node |->
         IF w.node[t].child[1] # Null THEN f[w.node[t].child[1]]
         ELSE IF w.node[t].child[0] # Null THEN f[w.node[t].child[0]]
         ELSE t]

(* The loop that goes right where it can ends at a leaf below x.             *)
LEMMA LeafFinds ==
  ASSUME NEW w, NEW lev, IsTree(w, lev), NEW x \in Tr(w)
  PROVE  LeafBelow(w, x) \in Sub(w, lev, x) /\ Childless(w, LeafBelow(w, x))
<1> DEFINE D == Nd(w)
           right(t) == IF w.node[t].child[1] # Null THEN 1 ELSE 0
           down(t) == w.node[t].child[right(t)]
           go == {t \in D : ~Childless(w, t)}
           nxt == [t \in D |-> down(t)]
           rank == [t \in D |-> IF t \in Tr(w) THEN lev[t] ELSE 0]
           base == [t \in D |-> t]
           S == Sub(w, lev, x)
<1>1. W \in Nat /\ lev \in [Tr(w) -> 0 .. W] /\ Tr(w) \subseteq Nd(w)
  BY Widths, Fields DEF IsTree, Shaped, Levels
<1>2. ASSUME NEW t \in go
      PROVE  /\ t \in Nd(w) /\ right(t) \in {0, 1} /\ down(t) # Null /\ down(t) \in Tr(w)
             /\ IsChild(w, lev, down(t), t, right(t))
  <2>1. t \in Nd(w) /\ right(t) \in {0, 1} /\ down(t) # Null BY DEF Childless
  <2> HIDE DEF right
  <2> QED BY <2>1, Children
<1>3. \A t \in go : nxt[t] \in D /\ rank[nxt[t]] < rank[t]
  <2> SUFFICES ASSUME NEW t \in go PROVE nxt[t] \in D /\ rank[nxt[t]] < rank[t]
    OBVIOUS
  <2>1. nxt[t] = down(t) /\ down(t) \in Tr(w) /\ t \in Tr(w) /\ lev[t] = lev[down(t)] + 1
    BY <1>2 DEF IsChild
  <2> HIDE DEF down
  <2> QED BY <2>1, <1>1
<1>4. Descends(D, W, rank, go, nxt)
  BY <1>1, <1>3 DEF Descends
<1>5. ASSUME NEW f PROVE LeafWalk(w, f) <=> IsLoop(D, go, nxt, base, f)
  <2> DEFINE A(t) == IF w.node[t].child[1] # Null THEN f[w.node[t].child[1]]
                     ELSE IF w.node[t].child[0] # Null THEN f[w.node[t].child[0]]
                     ELSE t
             B(t) == IF t \in go THEN f[nxt[t]] ELSE base[t]
  <2>1. LeafWalk(w, f) <=> f = [t \in D |-> A(t)]
    BY DEF LeafWalk, Nd
  <2>2. \A t \in D : A(t) = B(t)
    BY DEF Childless
  <2>3. IsLoop(D, go, nxt, base, f) <=> f = [t \in D |-> B(t)]
    BY DEF IsLoop
  <2> HIDE DEF A, B
  <2>4. [t \in D |-> A(t)] = [t \in D |-> B(t)]
    BY <2>2
  <2> QED BY <2>1, <2>3, <2>4
<1> DEFINE leaf == CHOOSE f : LeafWalk(w, f)
<1>6. IsLoop(D, go, nxt, base, leaf)
  <2> HIDE DEF D, go, nxt, rank, base
  <2>1. \E f : IsLoop(D, go, nxt, base, f) BY <1>4, LoopExists
  <2>2. \E f : LeafWalk(w, f) BY <1>5, <2>1
  <2>3. LeafWalk(w, leaf) BY <2>2
  <2> QED BY <1>5, <2>3
<1>7. LeafBelow(w, x) = leaf[x]
  BY DEF LeafBelow, LeafWalk
<1>8. S \subseteq D /\ x \in S
  BY <1>1, SubFacts
<1>9. \A t \in S \intersect go : nxt[t] \in S
  <2> SUFFICES ASSUME NEW t \in S \intersect go PROVE nxt[t] \in S
    OBVIOUS
  <2> HIDE DEF S
  <2>1. /\ nxt[t] = down(t) /\ down(t) \in Tr(w) /\ IsChild(w, lev, down(t), t, right(t))
    BY <1>2
  <2> HIDE DEF down, right, nxt
  <2>2. down(t) \in Sub(w, lev, down(t)) BY <2>1, SubFacts
  <2>3. down(t) \in Sub(w, lev, t) BY <2>1, <2>2, SubChild
  <2>4. Sub(w, lev, t) \subseteq S BY SubTrans DEF S
  <2> QED BY <2>1, <2>3, <2>4
<1>10. PICK q \in S \ go : leaf[x] = base[q]
  <2> HIDE DEF D, go, nxt, rank, base, S, leaf
  <2> QED BY <1>4, <1>6, <1>8, <1>9, LoopRule
<1>11. leaf[x] = q /\ q \in S /\ Childless(w, q)
  BY <1>8, <1>10
<1> HIDE DEF leaf
<1> QED BY <1>7, <1>11

(* r may take the place of x: a chunk of its ring, or a leaf below it; there *)
(* is no r if x is no tree node, or alone in its ring and a leaf.            *)
Replaces(w, lev, x, r) ==
  \/ r = Null /\ Childless(w, x) /\ (x \in Tr(w) => w.node[x].bk = x)
  \/ /\ x \in Tr(w) /\ r \in Nd(w) \ {x} /\ Childless(w, r)
     /\ \/ r = w.node[x].bk /\ r \notin Tr(w)
        \/ w.node[x].bk = x /\ r \in Sub(w, lev, x)

(* What the pointers of v are, if x was taken out of w and r took its place. *)
Unlinked(w, v, x, r) ==
  /\ Nd(v) = Nd(w) \ {x}
  /\ \A c \in Nd(v) :
       LET n == w.node[c]
       IN  /\ v.node[c].size = n.size /\ v.node[c].index = n.index
           /\ v.node[c].fd = IF c = w.node[x].bk THEN w.node[x].fd ELSE n.fd
           /\ v.node[c].bk = IF c = w.node[x].fd THEN w.node[x].bk ELSE n.bk
           /\ v.node[c].parent = IF c = r THEN w.node[x].parent
                                 ELSE IF n.parent = x THEN r ELSE n.parent
           /\ \A b \in {0, 1} :
                LET d == IF c = r THEN w.node[x].child[b] ELSE n.child[b]
                IN  v.node[c].child[b] = IF d = r THEN Null ELSE IF d = x THEN r ELSE d
  /\ \A j \in Index : v.root[j] = IF w.root[j] = x THEN r ELSE w.root[j]
  /\ \A j \in Index : j \in v.map <=> j \in w.map /\ ~(w.root[j] = x /\ r = Null)

(* The place of x is one for r too, and r is below it or in no tree.         *)
LEMMA ReplaceFacts ==
  ASSUME NEW w, NEW lev, IsTree(w, lev), NEW x \in Nd(w), NEW r, Replaces(w, lev, x, r), r # Null
  PROVE  /\ x \in Tr(w) /\ r \in Nd(w) /\ r # x /\ Childless(w, r)
         /\ w.node[r].index = w.node[x].index
         /\ Top(w.node[r].size, lev[x]) = Top(w.node[x].size, lev[x])
         /\ \A j \in Index : w.root[j] # r
         /\ w.node[x].parent # r /\ w.node[x].parent # Null
<1>1. x \in Tr(w) /\ r \in Nd(w) /\ r # x /\ Childless(w, r) /\ w.node[x].parent # Null
  BY DEF Replaces, Tr
<1>2. CASE r = w.node[x].bk /\ r \notin Tr(w)
  <2>1. w.node[r].size = w.node[x].size BY <1>2, RingFacts DEF IsTree, Shaped
  <2>2. w.node[r].index = w.node[x].index BY <1>1, <2>1 DEF IsTree, Shaped, Indexed
  <2>3. \A j \in Index : w.root[j] # r BY <1>1, <1>2, Fields, SubRoot DEF IsTree, Shaped
  <2>4. w.node[x].parent # r
    <3>1. w.node[x].parent \in Tr(w) \/ w.node[x].parent \notin Nd(w)
      <4>1. CASE w.node[x].parent \in Nd(w)
        <5>1. PICK b \in {0, 1} : w.node[w.node[x].parent].child[b] = x
          BY <4>1, <1>1, Fields DEF IsTree, Shaped, Links
        <5>2. x # Null BY Fields DEF IsTree, Shaped
        <5> QED BY <4>1, <5>1, <5>2 DEF IsTree, Shaped, Links
      <4> QED BY <4>1
    <3> QED BY <3>1, <1>1, <1>2
  <2> QED BY <1>1, <2>1, <2>2, <2>3, <2>4
<1>3. CASE r \in Sub(w, lev, x)
  <2>1. /\ r \in Tr(w) /\ w.node[r].index = w.node[x].index /\ lev[r] <= lev[x]
        /\ Top(w.node[r].size, lev[x]) = Top(w.node[x].size, lev[x])
    BY <1>3 DEF Sub
  <2>2. lev[r] \in Nat /\ lev[x] \in Nat BY <1>1, <2>1, SubFacts
  <2>3. ASSUME NEW j \in Index, w.root[j] = r PROVE FALSE
    <3>1. w.node[r].index = j /\ lev[r] = NB(j) /\ r # Null
      BY <1>1, <2>3, SubRoot
    <3>2. w.node[x].index = j BY <3>1, <2>1
    <3>3. LET i == w.node[x].index
          IN  lev[x] <= NB(i) /\ (lev[x] = NB(i) => x = w.root[i]) /\ NB(i) \in 0 .. W
      BY <1>1, BelowRoot
    <3>4. lev[x] <= NB(j) /\ (lev[x] = NB(j) => x = w.root[j]) /\ NB(j) \in 0 .. W
      BY <3>2, <3>3
    <3> QED BY <3>1, <3>4, <2>1, <2>2, <2>3, <1>1
  <2>4. ASSUME w.node[x].parent = r PROVE FALSE
    <3>1. PICK b \in {0, 1} : w.node[r].child[b] = x
      BY <1>1, <2>4, Fields DEF IsTree, Shaped, Links
    <3>2. x # Null BY Fields DEF IsTree, Shaped
    <3> QED BY <1>1, <3>1, <3>2 DEF Childless
  <2> QED BY <1>1, <2>1, <2>3, <2>4
<1> QED BY <1>2, <1>3 DEF Replaces

(* Who points to x.                                                          *)
LEMMA PointedBy ==
  ASSUME NEW w, NEW lev, IsTree(w, lev), NEW x \in Nd(w)
  PROVE  /\ x # Null /\ w.node[x].parent # x
         /\ \A t \in Nd(w), b \in {0, 1} :
              w.node[t].child[b] = x => x \in Tr(w) /\ w.node[x].parent = t /\ t # x /\ t \in Tr(w)
         /\ \A j \in Index : w.root[j] = x =>
              x \in Tr(w) /\ w.node[x].parent = treebin_at(j) /\ w.node[x].index = j
         /\ \A t \in Nd(w) : w.node[t].parent = x =>
              t \in Tr(w) /\ \E b \in {0, 1} : w.node[x].child[b] = t
<1>1. x # Null
  BY Fields DEF IsTree, Shaped
<1>2. ASSUME NEW t \in Nd(w), NEW b \in {0, 1}, w.node[t].child[b] = x
      PROVE  x \in Tr(w) /\ w.node[x].parent = t /\ t # x /\ t \in Tr(w)
  <2>1. x \in Tr(w) /\ IsChild(w, lev, x, t, b) BY <1>1, <1>2, Children
  <2>2. lev[t] = lev[x] + 1 /\ lev[x] \in Nat BY <2>1, SubFacts DEF IsChild
  <2> QED BY <2>1, <2>2 DEF IsChild
<1>3. ASSUME NEW j \in Index, w.root[j] = x
      PROVE  x \in Tr(w) /\ w.node[x].parent = treebin_at(j) /\ w.node[x].index = j
  <2>1. x \in Tr(w) /\ w.node[x].index = j BY <1>1, <1>3, SubRoot
  <2> QED BY <2>1, <1>1, <1>3 DEF IsTree, Shaped, Links
<1>4. ASSUME NEW t \in Nd(w), w.node[t].parent = x
      PROVE  t \in Tr(w) /\ \E b \in {0, 1} : w.node[x].child[b] = t
  <2>1. t \in Tr(w) BY <1>1, <1>4 DEF Tr
  <2>2. \A j \in Index : x # treebin_at(j) BY Fields DEF IsTree, Shaped
  <2> QED BY <2>1, <2>2, <1>4 DEF IsTree, Shaped, Links
<1>5. w.node[x].parent # x
  <2> SUFFICES ASSUME w.node[x].parent = x PROVE FALSE
    OBVIOUS
  <2>1. PICK b \in {0, 1} : w.node[x].child[b] = x BY <1>4
  <2> QED BY <2>1, <1>2
<1> QED BY <1>1, <1>2, <1>3, <1>4, <1>5

Heir(r) == IF r = Null THEN {} ELSE {r}

LEMMA UnlinkedTr ==
  ASSUME NEW w, NEW lev, IsTree(w, lev), NEW x \in Nd(w), NEW r, Replaces(w, lev, x, r),
         NEW v, Unlinked(w, v, x, r)
  PROVE  Tr(v) = (Tr(w) \ {x}) \union Heir(r)
<1>1. Null \notin Nd(w) /\ Tr(w) \subseteq Nd(w) /\ Nd(v) = Nd(w) \ {x}
  BY Fields DEF IsTree, Shaped, Unlinked
<1>2. ASSUME NEW t \in Nd(v)
      PROVE  v.node[t].parent # Null <=> t \in Tr(w) \/ t = r
  <2>1. t \in Nd(w) /\ t # x /\ t # Null BY <1>1
  <2>2. v.node[t].parent = IF t = r THEN w.node[x].parent
                           ELSE IF w.node[t].parent = x THEN r ELSE w.node[t].parent
    BY DEF Unlinked
  <2>3. CASE t = r
    <3>1. w.node[x].parent # Null BY <2>1, <2>3, ReplaceFacts
    <3> QED BY <3>1, <2>2, <2>3
  <2>4. CASE t # r /\ w.node[t].parent = x
    <3>1. t \in Tr(w) /\ \E b \in {0, 1} : w.node[x].child[b] = t BY <2>1, <2>4, PointedBy
    <3>2. r # Null BY <3>1, <2>1, <1>1 DEF Replaces, Childless
    <3> QED BY <3>1, <3>2, <2>2, <2>4
  <2>5. CASE t # r /\ w.node[t].parent # x
    BY <2>1, <2>2, <2>5 DEF Tr
  <2> QED BY <2>3, <2>4, <2>5
<1>3. r # Null => r \in Nd(v)
  BY <1>1, ReplaceFacts
<1> QED BY <1>1, <1>2, <1>3 DEF Tr, Heir

LEMMA UnlinkedHeads ==
  ASSUME NEW w, NEW lev, IsTree(w, lev), NEW x \in Nd(w), NEW r, Replaces(w, lev, x, r),
         NEW v, Unlinked(w, v, x, r)
  PROVE  Heads(v)
<1>1. /\ Tr(v) = (Tr(w) \ {x}) \union Heir(r) /\ Heads(w) /\ Tr(v) \subseteq Nd(v)
      /\ \A t \in Nd(v) : v.node[t].size = w.node[t].size
  BY UnlinkedTr DEF IsTree, Shaped, Unlinked, Tr
<1>2. CASE Tr(v) \subseteq Tr(w)
  BY <1>1, <1>2 DEF Heads
<1>3. CASE ~(Tr(v) \subseteq Tr(w))
  <2>1. r # Null /\ r \notin Tr(w) /\ r \in Tr(v) /\ Tr(v) = (Tr(w) \ {x}) \union {r}
    BY <1>1, <1>3 DEF Heir
  <2>2. x \in Tr(w) /\ r = w.node[x].bk BY <2>1 DEF Replaces, Sub
  <2>3. w.node[r].size = w.node[x].size BY <2>2, RingFacts DEF IsTree, Shaped
  <2>4. \A t \in Tr(w) \ {x} : w.node[t].size # w.node[r].size BY <1>1, <2>2, <2>3 DEF Heads
  <2> QED BY <1>1, <2>1, <2>4 DEF Heads
<1> QED BY <1>2, <1>3

LEMMA UnlinkedIndexed ==
  ASSUME NEW w, NEW lev, IsTree(w, lev), NEW x \in Nd(w), NEW r, Replaces(w, lev, x, r),
         NEW v, Unlinked(w, v, x, r)
  PROVE  Indexed(v)
<1>1. \A t \in Nd(v) : v.node[t].index = compute_tree_index(v.node[t].size)
  BY DEF IsTree, Shaped, Indexed, Unlinked
<1>2. ASSUME NEW j \in Index PROVE j \in v.map <=> v.root[j] # Null
  <2>1. x # Null BY Fields DEF IsTree, Shaped
  <2>2. j \in w.map <=> w.root[j] # Null BY DEF IsTree, Shaped, Indexed
  <2> QED BY <2>1, <2>2 DEF Unlinked
<1> QED BY <1>1, <1>2 DEF Indexed

LEMMA UnlinkedRings ==
  ASSUME NEW w, NEW lev, IsTree(w, lev), NEW x \in Nd(w), NEW r, Replaces(w, lev, x, r),
         NEW v, Unlinked(w, v, x, r)
  PROVE  Rings(v)
<1> DEFINE before == w.node[x].bk
           after == w.node[x].fd
<1>1. /\ Rings(w) /\ Nd(v) = Nd(w) \ {x}
      /\ \A c \in Nd(v) : /\ v.node[c].size = w.node[c].size
                          /\ v.node[c].fd = IF c = before THEN after ELSE w.node[c].fd
                          /\ v.node[c].bk = IF c = after THEN before ELSE w.node[c].bk
  BY DEF IsTree, Shaped, Unlinked
<1>2. /\ after \in Nd(w) /\ before \in Nd(w) /\ w.node[after].bk = x /\ w.node[before].fd = x
      /\ w.node[before].size = w.node[x].size /\ w.node[after].size = w.node[x].size
  <2>1. /\ after \in Nd(w) /\ before \in Nd(w) /\ w.node[after].bk = x /\ w.node[before].fd = x
        /\ w.node[before].size = w.node[x].size
    BY <1>1, RingFacts
  <2>2. w.node[w.node[after].bk].size = w.node[after].size BY <2>1, <1>1, RingFacts
  <2> QED BY <2>1, <2>2
<1>3. after = x <=> before = x
  BY <1>2
<1> HIDE DEF before, after
<1>4. ASSUME NEW c \in Nd(v)
      PROVE  v.node[c].fd \in Nd(v) /\ v.node[v.node[c].fd].bk = c
  <2>1. CASE c = before
    BY <2>1, <1>1, <1>2, <1>3
  <2>2. CASE c # before
    <3> DEFINE d == w.node[c].fd
    <3>1. c \in Nd(w) /\ c # x BY <1>1
    <3>2. d \in Nd(w) /\ w.node[d].bk = c BY <3>1, <1>1, RingFacts
    <3>3. v.node[c].fd = d BY <2>2, <1>1
    <3> HIDE DEF d
    <3>4. d # x /\ d # after BY <3>1, <3>2, <2>2, <1>2 DEF before
    <3> QED BY <3>2, <3>3, <3>4, <1>1
  <2> QED BY <2>1, <2>2
<1>5. ASSUME NEW c \in Nd(v)
      PROVE  /\ v.node[c].bk \in Nd(v) /\ v.node[v.node[c].bk].fd = c
             /\ v.node[v.node[c].bk].size = v.node[c].size
  <2>1. CASE c = after
    BY <2>1, <1>1, <1>2, <1>3
  <2>2. CASE c # after
    <3> DEFINE d == w.node[c].bk
    <3>1. c \in Nd(w) /\ c # x BY <1>1
    <3>2. d \in Nd(w) /\ w.node[d].fd = c /\ w.node[d].size = w.node[c].size
      BY <3>1, <1>1, RingFacts
    <3>3. v.node[c].bk = d BY <2>2, <1>1
    <3> HIDE DEF d
    <3>4. d # x /\ d # before BY <3>1, <3>2, <2>2, <1>2 DEF after
    <3> QED BY <3>2, <3>3, <3>4, <1>1
  <2> QED BY <2>1, <2>2
<1>6. Tr(v) = (Tr(w) \ {x}) \union Heir(r)
  BY UnlinkedTr
<1>7. ASSUME NEW S \in SUBSET Nd(v), S # {}, \A c \in S : v.node[c].bk \in S
      PROVE  S \intersect Tr(v) # {}
  <2>1. CASE after \in S
    <3>1. before \in S /\ before # x BY <2>1, <1>1, <1>7
    <3>2. S \union {x} \in SUBSET Nd(w) BY <1>1
    <3>3. \A c \in S \union {x} : w.node[c].bk \in S \union {x}
      BY <3>1, <1>1, <1>2, <1>7 DEF before
    <3>4. (S \union {x}) \intersect Tr(w) # {} BY <3>2, <3>3, <1>1 DEF Rings
    <3>5. CASE x \in Tr(w)
      <4>1. before \notin {x} /\ w.node[x].bk # x BY <3>1 DEF before
      <4>2. r # Null /\ r = before
        BY <3>5, <4>1, Fields DEF Replaces, before, IsTree, Shaped
      <4> QED BY <4>2, <3>1, <1>6 DEF Heir
    <3>6. CASE x \notin Tr(w)
      BY <3>4, <3>6, <1>6
    <3> QED BY <3>5, <3>6
  <2>2. CASE after \notin S
    <3>1. S \in SUBSET Nd(w) /\ x \notin S BY <1>1
    <3>2. \A c \in S : w.node[c].bk \in S BY <2>2, <1>1, <1>7
    <3>3. S \intersect Tr(w) # {} BY <3>1, <3>2, <1>1, <1>7 DEF Rings
    <3> QED BY <3>1, <3>3, <1>6
  <2> QED BY <2>1, <2>2
<1> QED BY <1>4, <1>5, <1>7 DEF Rings

(* The children of v: those of x hang from r, and r hangs where x did.       *)
LEMMA UnlinkedChild ==
  ASSUME NEW w, NEW lev, IsTree(w, lev), NEW x \in Nd(w), NEW r, Replaces(w, lev, x, r),
         NEW v, Unlinked(w, v, x, r),
         NEW t \in Nd(v), NEW b \in {0, 1}, v.node[t].child[b] # Null
  PROVE  LET c == v.node[t].child[b]
         IN  \/ t = r /\ r # Null /\ c = w.node[x].child[b] /\ c # r /\ c # x /\ c # Null
             \/ t # r /\ r # Null /\ c = r /\ w.node[t].child[b] = x
             \/ t # r /\ c = w.node[t].child[b] /\ c # r /\ c # x
<1> DEFINE c == v.node[t].child[b]
<1>1. t \in Nd(w) /\ t # x /\ t # Null /\ x # Null
  BY Fields DEF IsTree, Shaped, Unlinked
<1>2. c = LET d == IF t = r THEN w.node[x].child[b] ELSE w.node[t].child[b]
          IN  IF d = r THEN Null ELSE IF d = x THEN r ELSE d
  BY DEF Unlinked
<1>3. CASE t = r
  <2>1. w.node[x].child[b] # x BY PointedBy
  <2> QED BY <2>1, <1>1, <1>2, <1>3
<1>4. CASE t # r
  BY <1>2, <1>4
<1> QED BY <1>3, <1>4

LEMMA UnlinkedLinks ==
  ASSUME NEW w, NEW lev, IsTree(w, lev), NEW x \in Nd(w), NEW r, Replaces(w, lev, x, r),
         NEW v, Unlinked(w, v, x, r)
  PROVE  Links(v)
<1>1. /\ Nd(v) = Nd(w) \ {x} /\ Null \notin Nd(w) /\ Tr(w) \subseteq Nd(w) /\ Links(w)
      /\ \A j \in Index : treebin_at(j) \notin Nd(w)
      /\ w.root \in [Index -> Nd(w) \union {Null}]
      /\ \A j \in Index : v.root[j] = IF w.root[j] = x THEN r ELSE w.root[j]
  BY Fields DEF IsTree, Shaped, Unlinked
<1>2. \A t \in Nd(v) :
        /\ v.node[t].index = w.node[t].index
        /\ v.node[t].parent = IF t = r THEN w.node[x].parent
                              ELSE IF w.node[t].parent = x THEN r ELSE w.node[t].parent
  BY DEF Unlinked
<1>3. Tr(v) = (Tr(w) \ {x}) \union Heir(r)
  BY UnlinkedTr
<1>4. r # Null =>
        /\ x \in Tr(w) /\ r \in Nd(v) /\ r \in Tr(v) /\ r # x /\ Childless(w, r)
        /\ w.node[r].index = w.node[x].index
        /\ \A j \in Index : w.root[j] # r
        /\ w.node[x].parent # r
  BY <1>1, <1>3, ReplaceFacts DEF Heir
<1>5. ASSUME NEW j \in Index, v.root[j] # Null
      PROVE  v.node[v.root[j]].parent = treebin_at(j)
  <2>1. CASE w.root[j] = x
    BY <2>1, <1>1, <1>2, <1>4, <1>5, PointedBy
  <2>2. CASE w.root[j] # x
    <3> DEFINE c == w.root[j]
    <3>1. v.root[j] = c /\ c \in Nd(v) /\ c # r BY <2>2, <1>1, <1>4, <1>5
    <3>2. w.node[c].parent = treebin_at(j) BY <3>1, <1>1, <1>5 DEF Links
    <3>3. w.node[c].parent # x BY <3>2, <1>1
    <3> HIDE DEF c
    <3> QED BY <3>1, <3>2, <3>3, <1>2
  <2> QED BY <2>1, <2>2
<1>6. ASSUME NEW t \in Nd(v), NEW b \in {0, 1}, v.node[t].child[b] # Null
      PROVE  /\ t \in Tr(v) /\ v.node[t].child[b] \in Nd(v)
             /\ v.node[v.node[t].child[b]].parent = t
  <2> DEFINE c == v.node[t].child[b]
  <2>1. \/ t = r /\ r # Null /\ c = w.node[x].child[b] /\ c # r /\ c # x /\ c # Null
        \/ t # r /\ r # Null /\ c = r /\ w.node[t].child[b] = x
        \/ t # r /\ c = w.node[t].child[b] /\ c # r /\ c # x
    BY <1>6, UnlinkedChild
  <2>2. c # Null /\ t \in Nd(w) /\ t # x BY <1>1, <1>6
  <2> HIDE DEF c
  <2>3. CASE t = r /\ r # Null /\ c = w.node[x].child[b] /\ c # r /\ c # x /\ c # Null
    <3>1. c \in Nd(w) /\ w.node[c].parent = x BY <2>3, <1>1 DEF Links
    <3>2. c \in Nd(v) BY <3>1, <2>3, <1>1
    <3> QED BY <3>1, <3>2, <2>3, <1>2, <1>4 DEF c
  <2>4. CASE t # r /\ r # Null /\ c = r /\ w.node[t].child[b] = x
    <3>1. w.node[x].parent = t /\ t \in Tr(w) BY <2>2, <2>4, PointedBy
    <3> QED BY <3>1, <2>2, <2>4, <1>2, <1>3, <1>4 DEF c
  <2>5. CASE t # r /\ c = w.node[t].child[b] /\ c # r /\ c # x
    <3>1. c \in Nd(w) /\ w.node[c].parent = t /\ t \in Tr(w) BY <2>2, <2>5, <1>1 DEF Links
    <3>2. c \in Nd(v) /\ t \in Tr(v) BY <3>1, <2>2, <2>5, <1>1, <1>3
    <3> QED BY <3>1, <3>2, <2>2, <2>5, <1>2 DEF c
  <2> QED BY <2>1, <2>3, <2>4, <2>5
<1>7. \A t \in Nd(v), b \in {0, 1} :
        v.node[t].child[b] =
          LET d == IF t = r THEN w.node[x].child[b] ELSE w.node[t].child[b]
          IN  IF d = r THEN Null ELSE IF d = x THEN r ELSE d
  BY DEF Unlinked
<1>8. ASSUME NEW t \in Tr(v)
      PROVE  LET p == v.node[t].parent
             IN  \/ p \in Nd(v) /\ \E b \in {0, 1} : v.node[p].child[b] = t
                 \/ \E j \in Index : p = treebin_at(j) /\ v.root[j] = t /\ v.node[t].index = j
  <2>1. t \in Nd(v) /\ t \in Nd(w) /\ t # Null /\ t # x BY <1>1, <1>8 DEF Tr
  <2>2. CASE t = r
    <3> DEFINE p == w.node[x].parent
    <3>1. v.node[t].parent = p /\ p # r /\ p # x /\ x \in Tr(w) BY <2>1, <2>2, <1>2, <1>4, PointedBy
    <3>2. CASE p \in Nd(w)
      <4>1. PICK b \in {0, 1} : w.node[p].child[b] = x BY <3>1, <3>2, <1>1 DEF Links
      <4> HIDE DEF p
      <4>2. p \in Nd(v) BY <3>1, <3>2, <1>1
      <4>3. v.node[p].child[b] = r BY <4>1, <4>2, <3>1, <2>1, <2>2, <1>7
      <4> QED BY <4>2, <4>3, <3>1, <2>2
    <3>3. CASE p \notin Nd(w)
      <4>1. PICK j \in Index : p = treebin_at(j) /\ w.root[j] = x /\ w.node[x].index = j
        BY <3>1, <3>3, <1>1 DEF Links
      <4>2. v.root[j] = r /\ v.node[r].index = j BY <4>1, <2>1, <2>2, <1>1, <1>2, <1>4
      <4> QED BY <4>1, <4>2, <3>1, <2>2
    <3> QED BY <3>2, <3>3
  <2>3. CASE t # r
    <3> DEFINE p == w.node[t].parent
    <3>1. t \in Tr(w) BY <2>3, <1>3, <1>8 DEF Heir
    <3>2. v.node[t].parent = IF p = x THEN r ELSE p BY <2>1, <2>3, <1>2
    <3>3. CASE p = x
      <4>1. PICK b \in {0, 1} : w.node[x].child[b] = t BY <3>3, <2>1, PointedBy
      <4>2. r # Null BY <4>1, <2>1, <1>1 DEF Replaces, Childless
      <4>3. v.node[r].child[b] = t BY <4>1, <4>2, <2>1, <2>3, <1>4, <1>7
      <4> QED BY <4>2, <4>3, <3>2, <3>3, <1>4
    <3>4. CASE p # x /\ p \in Nd(w)
      <4>1. PICK b \in {0, 1} : w.node[p].child[b] = t BY <3>1, <3>4, <1>1 DEF Links
      <4> HIDE DEF p
      <4>2. p \in Nd(v) /\ p # r BY <4>1, <3>4, <2>1, <1>1, <1>4 DEF Childless
      <4>3. v.node[p].child[b] = t BY <4>1, <4>2, <2>1, <2>3, <1>7
      <4> QED BY <4>2, <4>3, <3>2, <3>4
    <3>5. CASE p \notin Nd(w)
      <4>1. PICK j \in Index : p = treebin_at(j) /\ w.root[j] = t /\ w.node[t].index = j
        BY <3>1, <3>5, <1>1 DEF Links
      <4>2. p # x BY <3>5
      <4>3. v.root[j] = t /\ v.node[t].index = j BY <4>1, <2>1, <1>1, <1>2
      <4> QED BY <4>1, <4>2, <4>3, <3>2
    <3> QED BY <3>3, <3>4, <3>5
  <2> QED BY <2>2, <2>3
<1> QED BY <1>5, <1>6, <1>8 DEF Links

LEMMA UnlinkedLevels ==
  ASSUME NEW w, NEW lev, IsTree(w, lev), NEW x \in Nd(w), NEW r, Replaces(w, lev, x, r),
         NEW v, Unlinked(w, v, x, r)
  PROVE  \E l : Levels(v, l)
<1> DEFINE l == [t \in Tr(v) |-> IF t = r THEN lev[x] ELSE lev[t]]
<1>1. /\ Nd(v) = Nd(w) \ {x} /\ Null \notin Nd(w) /\ Tr(w) \subseteq Nd(w)
      /\ lev \in [Tr(w) -> 0 .. W] /\ Tr(v) = (Tr(w) \ {x}) \union Heir(r)
      /\ \A j \in Index : v.root[j] = IF w.root[j] = x THEN r ELSE w.root[j]
      /\ \A t \in Nd(v) : v.node[t].index = w.node[t].index /\ v.node[t].size = w.node[t].size
  <2>1. Null \notin Nd(w) /\ Tr(w) \subseteq Nd(w) BY Fields DEF IsTree, Shaped
  <2>2. lev \in [Tr(w) -> 0 .. W] BY DEF IsTree, Levels
  <2>3. Tr(v) = (Tr(w) \ {x}) \union Heir(r) BY UnlinkedTr
  <2>4. /\ Nd(v) = Nd(w) \ {x}
        /\ \A j \in Index : v.root[j] = IF w.root[j] = x THEN r ELSE w.root[j]
        /\ \A t \in Nd(v) : v.node[t].index = w.node[t].index /\ v.node[t].size = w.node[t].size
    BY DEF Unlinked
  <2> QED BY <2>1, <2>2, <2>3, <2>4
<1>2. r # Null =>
        /\ x \in Tr(w) /\ r \in Nd(v) /\ r \in Tr(v) /\ w.node[r].index = w.node[x].index
        /\ Top(w.node[r].size, lev[x]) = Top(w.node[x].size, lev[x])
        /\ \A j \in Index : w.root[j] # r
  BY <1>1, ReplaceFacts DEF Heir
<1>3. /\ l \in [Tr(v) -> 0 .. W]
      /\ (r # Null => l[r] = lev[x])
      /\ \A t \in Tr(w) : t # r /\ t # x => l[t] = lev[t]
  <2>1. ASSUME NEW t \in Tr(v) PROVE (IF t = r THEN lev[x] ELSE lev[t]) \in 0 .. W
    <3>1. CASE t = r
      <4>1. t # Null BY <1>1 DEF Tr
      <4> QED BY <4>1, <3>1, <1>1, <1>2
    <3>2. CASE t # r BY <3>2, <1>1 DEF Heir
    <3> QED BY <3>1, <3>2
  <2> QED BY <2>1, <1>1, <1>2
<1> HIDE DEF l
<1>4. ASSUME NEW j \in Index, v.root[j] # Null PROVE l[v.root[j]] = NB(j)
  <2>1. w.root[j] # Null BY <1>1, <1>4, Fields DEF IsTree, Shaped
  <2>2. w.root[j] \in Tr(w) /\ lev[w.root[j]] = NB(j) BY <2>1, SubRoot
  <2>3. CASE w.root[j] = x BY <2>2, <2>3, <1>1, <1>3, <1>4
  <2>4. CASE w.root[j] # x
    <3>1. w.root[j] # r BY <2>1, <1>2
    <3> QED BY <3>1, <2>2, <2>4, <1>1, <1>3
  <2> QED BY <2>3, <2>4
<1>5. ASSUME NEW t \in Nd(v), NEW b \in {0, 1}, v.node[t].child[b] # Null
      PROVE  LET c == v.node[t].child[b]
             IN  /\ l[t] = l[c] + 1
                 /\ v.node[c].index = v.node[t].index
                 /\ Top(v.node[c].size, l[c]) = 2 * Top(v.node[t].size, l[t]) + b
  <2> DEFINE c == v.node[t].child[b]
  <2>1. \/ t = r /\ r # Null /\ c = w.node[x].child[b] /\ c # r /\ c # x /\ c # Null
        \/ t # r /\ r # Null /\ c = r /\ w.node[t].child[b] = x
        \/ t # r /\ c = w.node[t].child[b] /\ c # r /\ c # x
    BY <1>5, UnlinkedChild
  <2>2. c # Null /\ t \in Nd(w) /\ t # x /\ x # Null BY <1>1, <1>5
  <2> SUFFICES /\ l[t] = l[c] + 1 /\ v.node[c].index = v.node[t].index
               /\ Top(v.node[c].size, l[c]) = 2 * Top(v.node[t].size, l[t]) + b
    OBVIOUS
  <2> HIDE DEF c
  <2>3. CASE t = r /\ r # Null /\ c = w.node[x].child[b] /\ c # r /\ c # x /\ c # Null
    <3>1. c \in Tr(w) /\ IsChild(w, lev, c, x, b) BY <2>3, Children
    <3>2. c \in Nd(v) /\ l[c] = lev[c] /\ l[t] = lev[x] BY <3>1, <2>3, <1>1, <1>3
    <3>3. /\ lev[x] = lev[c] + 1 /\ w.node[c].index = w.node[x].index
          /\ Top(w.node[c].size, lev[c]) = 2 * Top(w.node[x].size, lev[x]) + b
      BY <3>1 DEF IsChild
    <3>4. /\ v.node[c].size = w.node[c].size /\ v.node[c].index = w.node[c].index
          /\ v.node[t].size = w.node[r].size /\ v.node[t].index = w.node[x].index
      BY <3>2, <2>3, <1>1, <1>2
    <3>5. Top(w.node[r].size, lev[x]) = Top(w.node[x].size, lev[x]) BY <2>3, <1>2
    <3> QED BY <3>2, <3>3, <3>4, <3>5
  <2>4. CASE t # r /\ r # Null /\ c = r /\ w.node[t].child[b] = x
    <3>1. x \in Tr(w) /\ IsChild(w, lev, x, t, b) /\ t \in Tr(w) BY <2>2, <2>4, Children DEF IsChild
    <3>2. c \in Nd(v) /\ l[c] = lev[x] /\ l[t] = lev[t] BY <3>1, <2>2, <2>4, <1>2, <1>3
    <3>3. /\ lev[t] = lev[x] + 1 /\ w.node[x].index = w.node[t].index
          /\ Top(w.node[x].size, lev[x]) = 2 * Top(w.node[t].size, lev[t]) + b
      BY <3>1 DEF IsChild
    <3>4. /\ v.node[c].size = w.node[r].size /\ v.node[c].index = w.node[x].index
          /\ v.node[t].size = w.node[t].size /\ v.node[t].index = w.node[t].index
      BY <3>2, <2>4, <1>1, <1>2
    <3>5. Top(w.node[r].size, lev[x]) = Top(w.node[x].size, lev[x]) BY <2>4, <1>2
    <3> QED BY <3>2, <3>3, <3>4, <3>5
  <2>5. CASE t # r /\ c = w.node[t].child[b] /\ c # r /\ c # x
    <3>1. c \in Tr(w) /\ IsChild(w, lev, c, t, b) /\ t \in Tr(w)
      <4>1. c \in Tr(w) /\ IsChild(w, lev, c, t, b) BY <2>2, <2>5, Children
      <4> QED BY <4>1 DEF IsChild
    <3>2. c \in Nd(v) /\ l[c] = lev[c] /\ l[t] = lev[t] BY <3>1, <2>2, <2>5, <1>1, <1>3
    <3>3. /\ lev[t] = lev[c] + 1 /\ w.node[c].index = w.node[t].index
          /\ Top(w.node[c].size, lev[c]) = 2 * Top(w.node[t].size, lev[t]) + b
      BY <3>1 DEF IsChild
    <3>4. /\ v.node[c].size = w.node[c].size /\ v.node[c].index = w.node[c].index
          /\ v.node[t].size = w.node[t].size /\ v.node[t].index = w.node[t].index
      BY <3>2, <1>1
    <3> QED BY <3>2, <3>3, <3>4
  <2> QED BY <2>1, <2>3, <2>4, <2>5
<1>6. Levels(v, l)
  BY <1>3, <1>4, <1>5 DEF Levels
<1> QED BY <1>6

(* Whatever takes the place of x, the bins stay well-formed.                 *)
LEMMA UnlinkedKeeps ==
  ASSUME NEW w, NEW lev, IsTree(w, lev), NEW x \in Nd(w), NEW r, Replaces(w, lev, x, r),
         NEW v, Typed(v), Unlinked(w, v, x, r)
  PROVE  Well(v)
<1> QED
  BY UnlinkedIndexed, UnlinkedRings, UnlinkedHeads, UnlinkedLinks, UnlinkedLevels DEF Well, Shaped

(* The fields that a change of children leaves alone.  *)
Agree(n, o) ==
  n.size = o.size /\ n.index = o.index /\ n.parent = o.parent /\ n.fd = o.fd /\ n.bk = o.bk

(* Pointers of p to a now lead to y.  *)
Redirect(node, p, a, y) ==
  [node EXCEPT ![p].child = [b \in {0, 1} |-> IF @[b] = a THEN y ELSE @[b]]]

LEMMA Redirects ==
  ASSUME NEW D, NEW node \in [D -> NodeRec], NEW p \in D, NEW a, NEW y \in Chunk \union {Null}
  PROVE  LET m == Redirect(node, p, a, y)
         IN  /\ m \in [D -> NodeRec]
             /\ \A c \in D : /\ Agree(m[c], node[c])
                             /\ \A b \in {0, 1} :
                                  m[c].child[b] = IF c = p /\ node[c].child[b] = a THEN y
                                                  ELSE node[c].child[b]
<1> DEFINE o == node[p]
           k == [b \in {0, 1} |-> IF o.child[b] = a THEN y ELSE o.child[b]]
           n == [o EXCEPT !.child = k]
<1>1. o \in NodeRec /\ o.child \in [{0, 1} -> Chunk \union {Null}]
  BY DEF NodeRec
<1>2. /\ k \in [{0, 1} -> Chunk \union {Null}]
      /\ \A b \in {0, 1} : k[b] = IF o.child[b] = a THEN y ELSE o.child[b]
  BY <1>1
<1>3. Redirect(node, p, a, y) = [node EXCEPT ![p] = n]
  BY DEF Redirect
<1> HIDE DEF k
<1>4. n \in NodeRec /\ n.child = k /\ Agree(n, o)
  BY <1>1, <1>2 DEF NodeRec, Agree
<1> HIDE DEF n
<1>5. [node EXCEPT ![p] = n] \in [D -> NodeRec] /\ [node EXCEPT ![p] = n][p] = n
      /\ \A c \in D : c # p => [node EXCEPT ![p] = n][c] = node[c]
  BY <1>4
<1> QED BY <1>2, <1>3, <1>4, <1>5 DEF Agree

(* The nodes m once r has the parent p and the children of x.  *)
Adopted(D, node, m, r, x, p) ==
  /\ m \in [D -> NodeRec]
  /\ \A c \in D :
       /\ m[c].size = node[c].size /\ m[c].index = node[c].index
       /\ m[c].fd = node[c].fd /\ m[c].bk = node[c].bk
       /\ m[c].parent = IF c = r THEN p
                        ELSE IF \E b \in {0, 1} : node[x].child[b] = c THEN r
                        ELSE node[c].parent
       /\ \A b \in {0, 1} :
            m[c].child[b] = IF c = r /\ node[x].child[b] # Null
                            THEN node[x].child[b] ELSE node[c].child[b]

LEMMA Adopts ==
  ASSUME NEW D, Null \notin D, D \subseteq Chunk, NEW node \in [D -> NodeRec],
         NEW r \in D, NEW x \in D, NEW p \in Chunk \union {Null} \union Bins
  PROVE  Adopted(D, node, Adopt(node, r, p, x), r, x, p)
<1> DEFINE kids == {b \in {0, 1} : node[x].child[b] # Null}
           k(c) == [b \in {0, 1} |-> IF b \in kids THEN node[x].child[b] ELSE node[c].child[b]]
           n(c) == IF c = r THEN [node[c] EXCEPT !.parent = p, !.child = k(c)]
                   ELSE IF \E b \in kids : node[x].child[b] = c
                   THEN [node[c] EXCEPT !.parent = r]
                   ELSE node[c]
           m == [c \in D |-> n(c)]
<1>1. Adopt(node, r, p, x) = m
  <2>1. DOMAIN node = D OBVIOUS
  <2> QED BY <2>1 DEF Adopt
<1>2. ASSUME NEW c \in D
      PROVE  /\ node[c] \in NodeRec /\ node[c].child \in [{0, 1} -> Chunk \union {Null}]
             /\ \A b \in {0, 1} : node[x].child[b] \in Chunk \union {Null}
  BY DEF NodeRec
<1>3. ASSUME NEW c \in D
      PROVE  /\ k(c) \in [{0, 1} -> Chunk \union {Null}]
             /\ \A b \in {0, 1} : k(c)[b] = IF node[x].child[b] # Null THEN node[x].child[b]
                                            ELSE node[c].child[b]
  BY <1>2
<1>4. ASSUME NEW c \in D
      PROVE  (\E b \in kids : node[x].child[b] = c) <=> \E b \in {0, 1} : node[x].child[b] = c
  <2>1. c # Null OBVIOUS
  <2> QED BY <2>1
<1> HIDE DEF k, kids
<1>5. ASSUME NEW c \in D
      PROVE  /\ n(c) \in NodeRec
             /\ n(c).size = node[c].size /\ n(c).index = node[c].index
             /\ n(c).fd = node[c].fd /\ n(c).bk = node[c].bk
             /\ n(c).parent = IF c = r THEN p
                              ELSE IF \E b \in kids : node[x].child[b] = c THEN r
                              ELSE node[c].parent
             /\ n(c).child = IF c = r THEN k(c) ELSE node[c].child
  <2>1. node[c] \in NodeRec BY <1>2
  <2>2. CASE c = r
    <3> DEFINE o == [node[c] EXCEPT !.parent = p, !.child = k(c)]
    <3>1. k(c) \in [{0, 1} -> Chunk \union {Null}] BY <1>3
    <3>2. /\ o \in NodeRec /\ o.size = node[c].size /\ o.index = node[c].index
          /\ o.fd = node[c].fd /\ o.bk = node[c].bk /\ o.parent = p /\ o.child = k(c)
      BY <2>1, <3>1 DEF NodeRec
    <3>3. n(c) = o BY <2>2
    <3> HIDE DEF o, n
    <3> QED BY <2>2, <3>2, <3>3
  <2>3. CASE c # r /\ \E b \in kids : node[x].child[b] = c
    <3> DEFINE o == [node[c] EXCEPT !.parent = r]
    <3>1. r \in Chunk OBVIOUS
    <3>2. /\ o \in NodeRec /\ o.size = node[c].size /\ o.index = node[c].index
          /\ o.fd = node[c].fd /\ o.bk = node[c].bk /\ o.parent = r /\ o.child = node[c].child
      BY <2>1, <3>1 DEF NodeRec
    <3>3. n(c) = o BY <2>3
    <3> HIDE DEF o, n
    <3> QED BY <2>3, <3>2, <3>3
  <2>4. CASE c # r /\ ~\E b \in kids : node[x].child[b] = c
    <3>1. n(c) = node[c] BY <2>4
    <3> HIDE DEF n
    <3> QED BY <2>1, <2>4, <3>1
  <2> QED BY <2>2, <2>3, <2>4
<1> HIDE DEF n
<1>6. m \in [D -> NodeRec] /\ \A c \in D : m[c] = n(c)
  BY <1>5
<1> HIDE DEF m
<1>7. Adopted(D, node, m, r, x, p)
  BY <1>3, <1>4, <1>5, <1>6 DEF Adopted
<1> QED BY <1>1, <1>7

(* A chunk alone in its ring is a tree node.                                 *)
LEMMA AloneIsHead ==
  ASSUME NEW w, Rings(w), NEW x \in Nd(w), w.node[x].bk = x
  PROVE  x \in Tr(w)
<1> DEFINE S == {x}
<1>1. S \in SUBSET Nd(w) /\ S # {} /\ \A t \in S : w.node[t].bk \in S
  OBVIOUS
<1>2. S \intersect Tr(w) # {}
  BY <1>1 DEF Rings
<1> QED BY <1>2

(* The nodes once the replacement r of x is taken out of its place.          *)
Detached(w, node, x, r) ==
  /\ node \in [Nd(w) -> NodeRec]
  /\ \A c \in Nd(w) :
       /\ node[c].size = w.node[c].size /\ node[c].index = w.node[c].index
       /\ node[c].parent = w.node[c].parent
       /\ c # x => /\ node[c].fd = IF c = w.node[x].bk THEN w.node[x].fd ELSE w.node[c].fd
                   /\ node[c].bk = IF c = w.node[x].fd THEN w.node[x].bk ELSE w.node[c].bk
       /\ \A b \in {0, 1} :
            node[c].child[b] = IF w.node[c].child[b] = r THEN Null ELSE w.node[c].child[b]

LEMMA ReplacementFacts ==
  ASSUME NEW w, NEW lev, IsTree(w, lev), NEW x \in Nd(w)
  PROVE  LET new == Replacement(w, x)
             r == IF w.node[x].parent = Null THEN Null ELSE new.r
         IN  Replaces(w, lev, x, r) /\ Detached(w, new.node, x, r)
<1> DEFINE n == w.node[x]
           new == Replacement(w, x)
           r == IF n.parent = Null THEN Null ELSE new.r
           leaf == LeafBelow(w, x)
<1>1. /\ w.node \in [Nd(w) -> NodeRec] /\ Null \notin Nd(w) /\ Tr(w) \subseteq Nd(w)
      /\ Nd(w) \subseteq Chunk /\ Rings(w) /\ Links(w) /\ Heads(w)
  BY Fields DEF IsTree, Shaped, Typed, Nd
<1>2. /\ n.fd \in Nd(w) /\ n.bk \in Nd(w) /\ w.node[n.fd].bk = x /\ w.node[n.bk].fd = x
      /\ w.node[n.bk].size = n.size
  BY <1>1, RingFacts
<1>3. CASE n.bk # x
  <2> DEFINE m == [w.node EXCEPT ![n.fd].bk = n.bk]
             o == [m EXCEPT ![n.bk].fd = n.fd]
  <2>1. new.r = n.bk /\ new.node = o BY <1>3 DEF Replacement
  <2> HIDE DEF new
  <2>2. n.fd \in Chunk /\ n.bk \in Chunk BY <1>1, <1>2
  <2>3. /\ m \in [Nd(w) -> NodeRec]
        /\ \A c \in Nd(w) : /\ m[c].bk = IF c = n.fd THEN n.bk ELSE w.node[c].bk
                            /\ m[c].fd = w.node[c].fd /\ m[c].size = w.node[c].size
                            /\ m[c].index = w.node[c].index /\ m[c].parent = w.node[c].parent
                            /\ m[c].child = w.node[c].child
    <3> DEFINE D == Nd(w)
               k == w.node
               after == n.fd
               before == n.bk
    <3>1. k \in [D -> NodeRec] /\ after \in D /\ before \in Chunk BY <1>1, <1>2, <2>2
    <3> HIDE DEF D, k, after, before
    <3>2. LET l == [k EXCEPT ![after].bk = before]
          IN  /\ l \in [D -> NodeRec]
              /\ \A c \in D : /\ l[c].bk = IF c = after THEN before ELSE k[c].bk
                              /\ l[c].fd = k[c].fd /\ l[c].size = k[c].size
                              /\ l[c].index = k[c].index /\ l[c].parent = k[c].parent
                              /\ l[c].child = k[c].child
      BY <3>1, SetBk
    <3> QED BY <3>2 DEF D, k, after, before
  <2> HIDE DEF m
  <2>4. /\ o \in [Nd(w) -> NodeRec]
        /\ \A c \in Nd(w) : /\ o[c].fd = IF c = n.bk THEN n.fd ELSE m[c].fd
                            /\ o[c].bk = m[c].bk /\ o[c].size = m[c].size
                            /\ o[c].index = m[c].index /\ o[c].parent = m[c].parent
                            /\ o[c].child = m[c].child
    <3> DEFINE D == Nd(w)
               after == n.fd
               before == n.bk
    <3>1. m \in [D -> NodeRec] /\ before \in D /\ after \in Chunk BY <1>2, <2>2, <2>3
    <3> HIDE DEF D, after, before
    <3>2. LET l == [m EXCEPT ![before].fd = after]
          IN  /\ l \in [D -> NodeRec]
              /\ \A c \in D : /\ l[c].fd = IF c = before THEN after ELSE m[c].fd
                              /\ l[c].bk = m[c].bk /\ l[c].size = m[c].size
                              /\ l[c].index = m[c].index /\ l[c].parent = m[c].parent
                              /\ l[c].child = m[c].child
      BY <3>1, SetFd
    <3> QED BY <3>2 DEF D, after, before
  <2> HIDE DEF o
  <2>5. n.parent # Null => r = n.bk /\ r \notin Tr(w) /\ x \in Tr(w)
    <3> SUFFICES ASSUME n.parent # Null PROVE r = n.bk /\ r \notin Tr(w) /\ x \in Tr(w)
      OBVIOUS
    <3>1. x \in Tr(w) /\ r = n.bk BY <2>1 DEF Tr
    <3>2. r \notin Tr(w) BY <3>1, <1>1, <1>2, <1>3 DEF Heads
    <3> QED BY <3>1, <3>2
  <2>6. n.parent = Null => r = Null /\ x \notin Tr(w)
    BY DEF Tr
  <2> HIDE DEF r
  <2>7. Replaces(w, lev, x, r)
    <3>1. CASE n.parent # Null
      <4>1. Childless(w, r) /\ r \in Nd(w) \ {x} BY <3>1, <2>5, <1>1, <1>2, <1>3 DEF Links, Childless
      <4> QED BY <3>1, <4>1, <2>5 DEF Replaces
    <3>2. CASE n.parent = Null
      <4>1. Childless(w, x) BY <3>2, <2>6, <1>1 DEF Links, Childless
      <4> QED BY <3>2, <4>1, <2>6 DEF Replaces
    <3> QED BY <3>1, <3>2
  <2>8. \A c \in Nd(w), b \in {0, 1} :
          w.node[c].child[b] = IF w.node[c].child[b] = r THEN Null ELSE w.node[c].child[b]
    <3> SUFFICES ASSUME NEW c \in Nd(w), NEW b \in {0, 1}, w.node[c].child[b] = r, r # Null
                 PROVE  FALSE
      OBVIOUS
    <3>1. r \in Tr(w) BY Children
    <3> QED BY <3>1, <2>5, <2>6
  <2>9. Detached(w, o, x, r)
    BY <2>3, <2>4, <2>8 DEF Detached
  <2> QED BY <2>1, <2>7, <2>9 DEF r, new
<1>4. CASE n.bk = x
  <2>1. x \in Tr(w) /\ n.parent # Null /\ n.fd = x BY <1>1, <1>2, <1>4, AloneIsHead DEF Tr
  <2>2. leaf \in Sub(w, lev, x) /\ Childless(w, leaf) BY <2>1, LeafFinds
  <2>3. leaf \in Tr(w) /\ leaf \in Nd(w) /\ leaf # Null BY <2>2, <1>1 DEF Sub
  <2>4. \A c \in Nd(w) : c # x => c # n.bk /\ c # n.fd BY <1>4, <2>1
  <2> HIDE DEF leaf
  <2>5. CASE leaf = x
    <3>1. new.r = Null /\ new.node = w.node BY <1>4, <2>5 DEF Replacement, leaf
    <3> HIDE DEF new
    <3>2. r = Null BY <3>1
    <3> HIDE DEF r
    <3>3. Replaces(w, lev, x, r) BY <3>2, <2>2, <2>5, <1>4 DEF Replaces
    <3>4. Detached(w, w.node, x, r) BY <3>2, <2>4, <1>1 DEF Detached
    <3> QED BY <3>1, <3>3, <3>4 DEF r, new
  <2>6. CASE leaf # x
    <3> DEFINE p == w.node[leaf].parent
               o == Cut(w.node, p, leaf)
    <3>1. new.r = leaf /\ new.node = o BY <1>4, <2>6 DEF Replacement, leaf
    <3> HIDE DEF new
    <3>2. r = leaf BY <3>1, <2>1
    <3> HIDE DEF r
    <3>3. Replaces(w, lev, x, r) BY <3>2, <2>1, <2>2, <2>3, <2>6, <1>4 DEF Replaces
    <3>4. p \in Nd(w)
      <4>1. \A j \in Index : w.root[j] # leaf BY <3>2, <3>3, <2>3, ReplaceFacts
      <4> QED BY <4>1, <2>3, <1>1 DEF Links
    <3>5. \A c \in Nd(w), b \in {0, 1} : w.node[c].child[b] = leaf => c = p
      BY <2>3, PointedBy
    <3> HIDE DEF p
    <3>6. /\ o \in [Nd(w) -> NodeRec]
          /\ \A c \in Nd(w) : /\ Agree(o[c], w.node[c])
                              /\ \A b \in {0, 1} :
                                   o[c].child[b] = IF c = p /\ w.node[c].child[b] = leaf THEN Null
                                                   ELSE w.node[c].child[b]
      <4> DEFINE m == Redirect(w.node, p, leaf, Null)
      <4>1. o = m BY DEF Cut, Redirect
      <4> HIDE DEF o
      <4>2. /\ m \in [Nd(w) -> NodeRec]
            /\ \A c \in Nd(w) : /\ Agree(m[c], w.node[c])
                                /\ \A b \in {0, 1} :
                                     m[c].child[b] = IF c = p /\ w.node[c].child[b] = leaf THEN Null
                                                     ELSE w.node[c].child[b]
        BY <1>1, <3>4, Redirects
      <4> QED BY <4>1, <4>2
    <3> HIDE DEF o
    <3>7. Detached(w, o, x, r)
      <4> SUFFICES ASSUME NEW c \in Nd(w)
                   PROVE  /\ o[c].size = w.node[c].size /\ o[c].index = w.node[c].index
                          /\ o[c].parent = w.node[c].parent
                          /\ c # x => o[c].fd = w.node[c].fd /\ o[c].bk = w.node[c].bk
                          /\ \A b \in {0, 1} :
                               o[c].child[b] = IF w.node[c].child[b] = r THEN Null
                                               ELSE w.node[c].child[b]
        BY <3>6, <2>4 DEF Detached
      <4>1. \A b \in {0, 1} : o[c].child[b] = IF w.node[c].child[b] = r THEN Null
                                              ELSE w.node[c].child[b]
        BY <3>2, <3>5, <3>6
      <4> QED BY <4>1, <3>6 DEF Agree
    <3> QED BY <3>1, <3>3, <3>7 DEF r, new
  <2> QED BY <2>5, <2>6
<1> QED BY <1>3, <1>4

(* The bins with the chunks of w, and with what v makes of them.  *)
BinRec(w) ==
  [node : [Nd(w) -> NodeRec], root : [Index -> Nd(w) \union {Null}], map : SUBSET Index]

LEMMA Forgotten ==
  ASSUME NEW w, NEW x, NEW u \in BinRec(w), \A j \in Index : u.root[j] # x, Nd(w) \subseteq Chunk
  PROVE  LET v == Forget(u, x)
         IN  /\ Typed(v) /\ Nd(v) = Nd(w) \ {x} /\ v.root = u.root /\ v.map = u.map
             /\ \A c \in Nd(v) : v.node[c] = u.node[c]
<1> DEFINE N == Nd(w) \ {x}
           F == [c \in N |-> u.node[c]]
           v == Forget(u, x)
<1>1. /\ u.node \in [Nd(w) -> NodeRec] /\ u.root \in [Index -> Nd(w) \union {Null}]
      /\ u.map \in SUBSET Index
  BY DEF BinRec
<1>2. v = [u EXCEPT !.node = F]
  <2>1. DOMAIN u.node \ {x} = N BY <1>1
  <2> QED BY <2>1 DEF Forget
<1>3. F \in [N -> NodeRec] /\ DOMAIN F = N /\ \A c \in N : F[c] = u.node[c]
  BY <1>1
<1>4. u.root \in [Index -> N \union {Null}]
  BY <1>1
<1> HIDE DEF F, v
<1>5. v.node = F /\ v.root = u.root /\ v.map = u.map
  BY <1>2 DEF BinRec
<1>6. v \in [node : [N -> NodeRec], root : [Index -> N \union {Null}], map : SUBSET Index]
  BY <1>2, <1>3, <1>4 DEF BinRec
<1>7. N \in SUBSET Chunk
  OBVIOUS
<1>8. Typed(v)
  BY <1>6, <1>7 DEF Typed
<1> QED BY <1>3, <1>5, <1>8 DEF v, Nd

(* The bins once r, if any, hangs where x did.                               *)
Hung(w, node, u, x, r) ==
  /\ u \in BinRec(w)
  /\ \A c \in Nd(w) :
       /\ Agree(u.node[c], node[c])
       /\ \A b \in {0, 1} : u.node[c].child[b] = IF node[c].child[b] = x THEN r
                                                 ELSE node[c].child[b]
  /\ \A j \in Index : u.root[j] = IF w.root[j] = x THEN r ELSE w.root[j]
  /\ \A j \in Index : j \in u.map <=> j \in w.map /\ ~(w.root[j] = x /\ r = Null)

(* x is in the tree of the bin i, and its place is the root of it or a child.*)
LEMMA HangFacts ==
  ASSUME NEW w, NEW lev, IsTree(w, lev), NEW x \in Tr(w), NEW r, Replaces(w, lev, x, r),
         NEW node, Detached(w, node, x, r)
  PROVE  LET p == w.node[x].parent
             i == w.node[x].index
             u == IF x = w.root[i]
                  THEN [w EXCEPT !.root[i] = r, !.node = node,
                                 !.map = IF r = Null THEN @ \ {i} ELSE @]
                  ELSE [w EXCEPT !.node = [node EXCEPT
                          ![p].child = [b \in {0, 1} |-> IF @[b] = x THEN r ELSE @[b]]]]
         IN  Hung(w, node, u, x, r)
<1> DEFINE p == w.node[x].parent
           i == w.node[x].index
           m == [node EXCEPT ![p].child = [b \in {0, 1} |-> IF @[b] = x THEN r ELSE @[b]]]
           u1 == [w EXCEPT !.root[i] = r, !.node = node, !.map = IF r = Null THEN @ \ {i} ELSE @]
           u2 == [w EXCEPT !.node = m]
<1>1. /\ w \in BinRec(w) /\ node \in [Nd(w) -> NodeRec] /\ x \in Nd(w) /\ x # Null
      /\ w.root \in [Index -> Nd(w) \union {Null}] /\ i \in Index
      /\ \A j \in Index : treebin_at(j) \notin Nd(w)
      /\ r \in Nd(w) \union {Null} /\ Nd(w) \subseteq Chunk
  <2>1. PICK N \in SUBSET Chunk :
          w \in [node : [N -> NodeRec], root : [Index -> N \union {Null}], map : SUBSET Index]
    BY DEF IsTree, Shaped, Typed
  <2>2. N = Nd(w) BY <2>1 DEF Nd
  <2>3. x \in Nd(w) BY Fields DEF IsTree, Shaped
  <2>4. i \in Index /\ Nd(w) \subseteq Chunk /\ \A j \in Index : treebin_at(j) \notin Nd(w)
    BY <2>3, Fields DEF IsTree, Shaped
  <2>5. x # Null BY <2>3, Fields DEF IsTree, Shaped
  <2>6. r \in Nd(w) \union {Null} BY <2>3, ReplaceFacts
  <2> QED BY <2>1, <2>2, <2>3, <2>4, <2>5, <2>6 DEF BinRec, Detached
<1>2. ASSUME NEW c \in Nd(w), NEW b \in {0, 1}, node[c].child[b] = x
      PROVE  c = p /\ p \in Nd(w)
  <2>1. w.node[c].child[b] = x BY <1>1, <1>2 DEF Detached
  <2> QED BY <2>1, <1>1, PointedBy
<1>3. CASE x = w.root[i]
  <2>1. p = treebin_at(i) BY <1>1, <1>3, PointedBy
  <2>2. \A j \in Index : w.root[j] = x => j = i BY <1>1, PointedBy
  <2>3. \A c \in Nd(w), b \in {0, 1} : node[c].child[b] # x BY <2>1, <1>1, <1>2
  <2>4. /\ u1 \in BinRec(w) /\ u1.node = node /\ u1.root = [w.root EXCEPT ![i] = r]
        /\ u1.map = IF r = Null THEN w.map \ {i} ELSE w.map
    BY <1>1 DEF BinRec
  <2> HIDE DEF u1
  <2>5. \A j \in Index : u1.root[j] = IF w.root[j] = x THEN r ELSE w.root[j]
    BY <2>2, <2>4, <1>1, <1>3
  <2>6. \A j \in Index : j \in u1.map <=> j \in w.map /\ ~(w.root[j] = x /\ r = Null)
    BY <2>2, <2>4, <1>1, <1>3
  <2>7. Hung(w, node, u1, x, r)
    BY <2>3, <2>4, <2>5, <2>6 DEF Hung, Agree
  <2> QED BY <2>7, <1>3 DEF u1
<1>4. CASE x # w.root[i]
  <2>1. p \in Nd(w) BY <1>1, <1>4 DEF IsTree, Shaped, Links
  <2>2. \A j \in Index : w.root[j] # x BY <1>1, <1>4, PointedBy
  <2>3. /\ m \in [Nd(w) -> NodeRec]
        /\ \A c \in Nd(w) : /\ Agree(m[c], node[c])
                            /\ \A b \in {0, 1} :
                                 m[c].child[b] = IF c = p /\ node[c].child[b] = x THEN r
                                                 ELSE node[c].child[b]
    <3>1. r \in Chunk \union {Null} BY <1>1
    <3>2. m = Redirect(node, p, x, r) BY DEF Redirect
    <3> HIDE DEF p, m
    <3> QED BY <2>1, <3>1, <3>2, <1>1, Redirects
  <2> HIDE DEF m
  <2>4. u2 \in BinRec(w) /\ u2.node = m /\ u2.root = w.root /\ u2.map = w.map
    BY <2>3, <1>1 DEF BinRec
  <2> HIDE DEF u2
  <2>5. \A c \in Nd(w), b \in {0, 1} : m[c].child[b] = IF node[c].child[b] = x THEN r
                                                      ELSE node[c].child[b]
    BY <2>3, <1>2
  <2>6. Hung(w, node, u2, x, r)
    BY <2>2, <2>3, <2>4, <2>5 DEF Hung
  <2> QED BY <2>6, <1>4 DEF u2, m
<1> QED BY <1>3, <1>4

(* The bins once r, if any, has the parent and the children of x.            *)
Settled(w, u, z, x, r) ==
  /\ z \in BinRec(w) /\ z.root = u.root /\ z.map = u.map
  /\ Adopted(Nd(w), u.node, z.node, r, x, w.node[x].parent)

LEMMA Settles ==
  ASSUME NEW w, NEW lev, IsTree(w, lev), NEW x \in Nd(w), NEW r, Replaces(w, lev, x, r),
         NEW node, Detached(w, node, x, r), NEW u, Hung(w, node, u, x, r)
  PROVE  LET z == IF r = Null THEN u
                  ELSE [u EXCEPT !.node = Adopt(@, r, w.node[x].parent, x)]
         IN  Settled(w, u, z, x, r)
<1> DEFINE p == w.node[x].parent
           m == Adopt(u.node, r, p, x)
           z == [u EXCEPT !.node = m]
<1>1. /\ u \in BinRec(w) /\ u.node \in [Nd(w) -> NodeRec] /\ Null \notin Nd(w)
      /\ Nd(w) \subseteq Chunk /\ w.node[x] \in NodeRec
  BY Fields DEF Hung, BinRec, IsTree, Shaped
<1>2. CASE r = Null
  <2>1. ASSUME NEW b \in {0, 1} PROVE u.node[x].child[b] = Null
    <3>1. w.node[x].child[b] = Null BY <1>1, <1>2, ReplaceFacts DEF Replaces, Childless
    <3>2. node[x].child[b] = Null BY <3>1, <1>2 DEF Detached
    <3> QED BY <3>2, <1>1, <1>2 DEF Hung
  <2>2. Settled(w, u, u, x, r)
    BY <2>1, <1>1, <1>2 DEF Settled, Adopted
  <2> QED BY <2>2, <1>2
<1>3. CASE r # Null
  <2>1. r \in Nd(w) BY <1>3, ReplaceFacts
  <2>2. p \in Chunk \union {Null} \union Bins BY <1>1 DEF NodeRec
  <2> HIDE DEF p
  <2>3. Adopted(Nd(w), u.node, m, r, x, p)
    BY <2>1, <2>2, <1>1, Adopts
  <2> HIDE DEF m
  <2>4. z \in BinRec(w) /\ z.node = m /\ z.root = u.root /\ z.map = u.map
    BY <2>3, <1>1 DEF BinRec, Adopted
  <2> HIDE DEF z
  <2>5. Settled(w, u, z, x, r)
    BY <2>3, <2>4 DEF Settled, p
  <2> QED BY <2>5, <1>3 DEF z, m, p
<1> QED BY <1>2, <1>3

LEMMA SettledUnlinks ==
  ASSUME NEW w, NEW lev, IsTree(w, lev), NEW x \in Nd(w), NEW r, Replaces(w, lev, x, r),
         NEW node, Detached(w, node, x, r), NEW u, Hung(w, node, u, x, r),
         NEW z, Settled(w, u, z, x, r)
  PROVE  LET v == Forget(z, x) IN Typed(v) /\ Unlinked(w, v, x, r) /\ Nd(v) = Nd(w) \ {x}
<1> DEFINE v == Forget(z, x)
<1>1. Null \notin Nd(w) /\ x # Null /\ Nd(w) \subseteq Chunk /\ r # x
  BY Fields, ReplaceFacts DEF IsTree, Shaped
<1>2. /\ \A j \in Index : z.root[j] = IF w.root[j] = x THEN r ELSE w.root[j]
      /\ \A j \in Index : j \in z.map <=> j \in w.map /\ ~(w.root[j] = x /\ r = Null)
  BY DEF Hung, Settled
<1>3. /\ Typed(v) /\ Nd(v) = Nd(w) \ {x} /\ v.root = z.root /\ v.map = z.map
      /\ \A c \in Nd(v) : v.node[c] = z.node[c]
  <2>1. z \in BinRec(w) /\ \A j \in Index : z.root[j] # x BY <1>1, <1>2 DEF Settled
  <2> QED BY <2>1, <1>1, Forgotten
<1> HIDE DEF v
<1>4. \A c \in Nd(w) :
        /\ u.node[c].size = w.node[c].size /\ u.node[c].index = w.node[c].index
        /\ u.node[c].parent = w.node[c].parent
        /\ c # x => /\ u.node[c].fd = IF c = w.node[x].bk THEN w.node[x].fd ELSE w.node[c].fd
                    /\ u.node[c].bk = IF c = w.node[x].fd THEN w.node[x].bk ELSE w.node[c].bk
  BY DEF Hung, Detached, Agree
<1>5. ASSUME NEW c \in Nd(w), NEW b \in {0, 1}
      PROVE  u.node[c].child[b] = LET d == w.node[c].child[b]
                                  IN  IF d = r THEN Null ELSE IF d = x THEN r ELSE d
  <2>1. node[c].child[b] = IF w.node[c].child[b] = r THEN Null ELSE w.node[c].child[b]
    BY DEF Detached
  <2>2. u.node[c].child[b] = IF node[c].child[b] = x THEN r ELSE node[c].child[b]
    BY DEF Hung
  <2> QED BY <2>1, <2>2, <1>1
<1>6. ASSUME NEW b \in {0, 1}
      PROVE  /\ w.node[x].child[b] # x
             /\ u.node[x].child[b] = IF w.node[x].child[b] = r THEN Null ELSE w.node[x].child[b]
  BY <1>5, PointedBy
<1>7. ASSUME NEW c \in Nd(v), c # r
      PROVE  (\E b \in {0, 1} : u.node[x].child[b] = c) <=> w.node[c].parent = x
  <2>1. c \in Nd(w) /\ c # Null BY <1>1, <1>3
  <2>2. ASSUME NEW b \in {0, 1}, u.node[x].child[b] = c PROVE w.node[c].parent = x
    <3>1. w.node[x].child[b] = c BY <2>1, <2>2, <1>6
    <3> QED BY <3>1, <2>1, PointedBy
  <2>3. ASSUME w.node[c].parent = x PROVE \E b \in {0, 1} : u.node[x].child[b] = c
    <3>1. PICK b \in {0, 1} : w.node[x].child[b] = c BY <2>1, <2>3, PointedBy
    <3> QED BY <3>1, <1>6, <1>7
  <2> QED BY <2>2, <2>3
<1>8. ASSUME NEW c \in Nd(v)
      PROVE  v.node[c].parent = IF c = r THEN w.node[x].parent
                                ELSE IF w.node[c].parent = x THEN r ELSE w.node[c].parent
  <2>1. c \in Nd(w) /\ v.node[c] = z.node[c] BY <1>3
  <2>2. z.node[c].parent = IF c = r THEN w.node[x].parent
                           ELSE IF \E b \in {0, 1} : u.node[x].child[b] = c THEN r
                           ELSE w.node[c].parent
    BY <2>1, <1>4 DEF Settled, Adopted
  <2> QED BY <2>1, <2>2, <1>7
<1>9. ASSUME NEW c \in Nd(v), NEW b \in {0, 1}
      PROVE  v.node[c].child[b] =
               LET d == IF c = r THEN w.node[x].child[b] ELSE w.node[c].child[b]
               IN  IF d = r THEN Null ELSE IF d = x THEN r ELSE d
  <2>1. c \in Nd(w) /\ v.node[c] = z.node[c] /\ c # Null BY <1>1, <1>3
  <2>2. z.node[c].child[b] = IF c = r /\ u.node[x].child[b] # Null
                             THEN u.node[x].child[b] ELSE u.node[c].child[b]
    BY <2>1 DEF Settled, Adopted
  <2>3. CASE c = r
    <3>1. w.node[c].child[b] = Null BY <2>1, <2>3, ReplaceFacts DEF Childless
    <3>2. u.node[c].child[b] = Null BY <3>1, <2>1, <1>1, <1>5
    <3> QED BY <3>2, <2>1, <2>2, <2>3, <1>6
  <2>4. CASE c # r
    BY <2>1, <2>2, <2>4, <1>5
  <2> QED BY <2>3, <2>4
<1>10. ASSUME NEW c \in Nd(v)
       PROVE  /\ v.node[c].size = w.node[c].size /\ v.node[c].index = w.node[c].index
              /\ v.node[c].fd = IF c = w.node[x].bk THEN w.node[x].fd ELSE w.node[c].fd
              /\ v.node[c].bk = IF c = w.node[x].fd THEN w.node[x].bk ELSE w.node[c].bk
  <2>1. c \in Nd(w) /\ c # x /\ v.node[c] = z.node[c] BY <1>3
  <2> QED BY <2>1, <1>4 DEF Settled, Adopted
<1>11. Unlinked(w, v, x, r)
  BY <1>2, <1>3, <1>8, <1>9, <1>10 DEF Unlinked
<1> QED BY <1>3, <1>11 DEF v

(* A chunk may be unlinked.                                                  *)
LEMMA UnlinkIsKept ==
  ASSUME NEW w, Well(w), NEW x \in Nd(w)
  PROVE  LET v == unlink_large_chunk(w, x) IN Well(v) /\ Nd(v) = Nd(w) \ {x}
<1>1. PICK lev : IsTree(w, lev)
  BY DEF Well, IsTree
<1> DEFINE p == w.node[x].parent
           i == w.node[x].index
           new == Replacement(w, x)
           r == IF p = Null THEN Null ELSE new.r
           node == new.node
           hung == IF x = w.root[i]
                   THEN [w EXCEPT !.root[i] = new.r, !.node = node,
                                  !.map = IF new.r = Null THEN @ \ {i} ELSE @]
                   ELSE [w EXCEPT !.node = [node EXCEPT
                           ![p].child = [b \in {0, 1} |-> IF @[b] = x THEN new.r ELSE @[b]]]]
           u == IF p = Null THEN [w EXCEPT !.node = node] ELSE hung
           z == IF r = Null THEN u ELSE [u EXCEPT !.node = Adopt(@, r, p, x)]
           v == unlink_large_chunk(w, x)
<1>2. Replaces(w, lev, x, r) /\ Detached(w, node, x, r)
  BY <1>1, ReplacementFacts
<1>3. v = Forget(z, x)
  <2>1. v = Forget(IF p = Null THEN [w EXCEPT !.node = node]
                   ELSE IF new.r = Null THEN hung
                   ELSE [hung EXCEPT !.node = Adopt(@, new.r, p, x)], x)
    BY DEF unlink_large_chunk
  <2> HIDE DEF new, hung, node, p
  <2>2. (IF p = Null THEN [w EXCEPT !.node = node]
         ELSE IF new.r = Null THEN hung
         ELSE [hung EXCEPT !.node = Adopt(@, new.r, p, x)]) = z
    OBVIOUS
  <2> QED BY <2>1, <2>2
<1>4. Hung(w, node, u, x, r)
  <2>1. CASE p # Null
    <3>1. x \in Tr(w) BY <2>1 DEF Tr
    <3>2. new.r = r BY <2>1
    <3> HIDE DEF r, new, node, p, i
    <3>3. Hung(w, node, hung, x, new.r)
      <4>1. Replaces(w, lev, x, new.r) /\ Detached(w, node, x, new.r) BY <3>2, <1>2
      <4> QED BY <4>1, <3>1, <1>1, HangFacts DEF p, i
    <3> HIDE DEF hung
    <3> QED BY <3>2, <3>3, <2>1
  <2>2. CASE p = Null
    <3>1. r = Null /\ x \notin Tr(w) BY <2>2 DEF Tr
    <3>2. \A j \in Index : w.root[j] # x BY <3>1, <1>1, PointedBy
    <3>3. ASSUME NEW c \in Nd(w), NEW b \in {0, 1} PROVE node[c].child[b] # x
      <4>1. node[c].child[b] = IF w.node[c].child[b] = r THEN Null ELSE w.node[c].child[b]
        BY <1>2 DEF Detached
      <4>2. w.node[c].child[b] # x /\ x # Null BY <3>1, <1>1, PointedBy
      <4> QED BY <4>1, <4>2
    <3>4. w \in BinRec(w) /\ node \in [Nd(w) -> NodeRec]
      <4>1. node \in [Nd(w) -> NodeRec] BY <1>2 DEF Detached
      <4>2. PICK N \in SUBSET Chunk :
              w \in [node : [N -> NodeRec], root : [Index -> N \union {Null}], map : SUBSET Index]
        BY <1>1 DEF IsTree, Shaped, Typed
      <4>3. N = Nd(w) BY <4>2 DEF Nd
      <4> QED BY <4>1, <4>2, <4>3 DEF BinRec
    <3> HIDE DEF node, r, p
    <3>5. u = [w EXCEPT !.node = node] BY <2>2
    <3> HIDE DEF u
    <3>6. u \in BinRec(w) /\ u.node = node /\ u.root = w.root /\ u.map = w.map
      BY <3>4, <3>5 DEF BinRec
    <3> QED BY <3>2, <3>3, <3>6 DEF Hung, Agree
  <2> QED BY <2>1, <2>2
<1> HIDE DEF r, node, u
<1>5. Settled(w, u, z, x, r)
  BY <1>1, <1>2, <1>4, Settles
<1> HIDE DEF z
<1>6. Typed(v) /\ Unlinked(w, v, x, r) /\ Nd(v) = Nd(w) \ {x}
  BY <1>1, <1>2, <1>3, <1>4, <1>5, SettledUnlinks
<1> HIDE DEF v
<1>7. Well(v)
  BY <1>1, <1>2, <1>6, UnlinkedKeeps
<1> QED BY <1>6, <1>7 DEF v

-----------------------------------------------------------------------------
(* Theorems.  *)

LEMMA InitWell == Init => Well(bins)
<1> SUFFICES ASSUME Init PROVE Well(bins)
  OBVIOUS
<1>1. bins.node = <<>> /\ bins.root = [i \in Index |-> Null] /\ bins.map = {}
  BY DEF Init
<1>2. DOMAIN <<>> = {} /\ <<>> \in [{} -> NodeRec]
  OBVIOUS
<1>3. Nd(bins) = {} /\ Tr(bins) = {}
  BY <1>1, <1>2 DEF Nd, Tr
<1>4. Typed(bins)
  <2>1. bins \in [node : [{} -> NodeRec], root : [Index -> {} \union {Null}], map : SUBSET Index]
    BY <1>2 DEF Init
  <2>2. {} \in SUBSET Chunk OBVIOUS
  <2> QED BY <2>1, <2>2 DEF Typed
<1>5. Indexed(bins) /\ Rings(bins) /\ Heads(bins) /\ Links(bins)
  BY <1>1, <1>3 DEF Indexed, Rings, Heads, Links
<1>6. \E lev : Levels(bins, lev)
  <2> DEFINE lev == [t \in {} |-> 0]
  <2>1. lev \in [Tr(bins) -> 0 .. W] BY <1>3
  <2> HIDE DEF lev
  <2>2. Levels(bins, lev) BY <2>1, <1>1, <1>3 DEF Levels
  <2> QED BY <2>2
<1> QED BY <1>4, <1>5, <1>6 DEF Well, Shaped

LEMMA NextKeepsWell == Well(bins) /\ [Next]_bins => Well(bins)'
<1> SUFFICES ASSUME Well(bins), [Next]_bins PROVE Well(bins')
  BY DEF Well, Shaped, Typed, Indexed, Rings, Heads, Links, Levels, Nd, Tr
<1>1. PICK lev : IsTree(bins, lev)
  BY DEF Well, IsTree
<1>2. Tr(bins) \subseteq Nd(bins) /\ \A t \in Nd(bins) : bins.node[t].size \in Large
  BY <1>1, Fields DEF IsTree, Shaped
<1>3. ASSUME NEW x \in Chunk, NEW s \in Sizes, Insert(x, s) PROVE Well(bins')
  <2>1. x \in Chunk \ Nd(bins) /\ s \in Large BY <1>3, WidthAssumption DEF Insert, Free, Nd
  <2> QED BY <2>1, <1>3, InsertKeeps DEF Insert
<1>4. ASSUME NEW x \in Nd(bins), Unlink(x) PROVE Well(bins')
  BY <1>4, UnlinkIsKept DEF Unlink
<1>5. ASSUME NEW nb \in Taken, tmalloc_large(nb) PROVE Well(bins')
  <2> DEFINE v == PickLarge(bins, nb)
             rest == bins.node[v].size - nb
             less == unlink_large_chunk(bins, v)
  <2>1. nb \in Large /\ v # Null /\ Split(v, nb) BY <1>5, WidthAssumption DEF tmalloc_large
  <2>2. v \in Tr(bins) /\ bins.node[v].size >= nb BY <2>1, <1>1, PickLargeFits
  <2> HIDE DEF v
  <2>3. v \in Nd(bins) /\ bins.node[v].size \in Large BY <2>2, <1>2
  <2>4. Well(less) /\ Nd(less) = Nd(bins) \ {v} BY <2>3, UnlinkIsKept
  <2>5. CASE rest < Pow2[TREEBIN_SHIFT]
    BY <2>1, <2>4, <2>5 DEF Split
  <2>6. CASE ~(rest < Pow2[TREEBIN_SHIFT])
    <3> HIDE DEF less
    <3>1. PICK r \in Chunk \ DOMAIN less.node : bins' = insert_large_chunk(less, r, rest)
      BY <2>1, <2>6 DEF Split, less
    <3>2. rest \in Large
      <4>1. /\ bins.node[v].size \in Nat /\ bins.node[v].size < Pow2[W]
            /\ nb \in Nat /\ Pow2[W] \in Nat /\ Pow2[T] \in Nat
        <5>1. W \in 0 .. W /\ T \in 0 .. W BY Widths
        <5> QED BY <5>1, <2>1, <2>3, Widths, Powers
      <4> QED BY <4>1, <2>2, <2>6 DEF Large, W, T
    <3>3. r \in Chunk \ Nd(less) BY <3>1 DEF Nd
    <3> QED BY <3>1, <3>2, <3>3, <2>4, InsertKeeps
  <2> QED BY <2>5, <2>6
<1>6. ASSUME tmalloc_small PROVE Well(bins')
  <2>1. bins.map # {} /\ bins' = unlink_large_chunk(bins, PickSmall(bins)) BY <1>6 DEF tmalloc_small
  <2>2. PickSmall(bins) \in Nd(bins) BY <2>1, <1>1, <1>2, PickSmallFits
  <2> QED BY <2>1, <2>2, UnlinkIsKept
<1>7. CASE UNCHANGED bins
  BY <1>7
<1> QED BY <1>3, <1>4, <1>5, <1>6, <1>7 DEF Next, Nd

(* The invariant holds of every state.                                       *)
LEMMA SpecIsWell == Spec => []Well(bins)
<1> QED BY InitWell, NextKeepsWell, PTL DEF Spec

(* Whatever is inserted into the bins and taken out of them, in any order,   *)
(* the trees and rings pass do_check_treebin() (malloc.c), and bin_find()    *)
(* finds every chunk: insert_large_chunk() and unlink_large_chunk() lose no  *)
(* subtree and no ring.                                                      *)
THEOREM TreesStaySound == Spec => []TreesSound
<1> QED BY SpecIsWell, WellIsSound, PTL

(* tmalloc_large() finds a best fit of all the chunks in all the bins, or    *)
(* nothing if none fits, though it follows two paths only; tmalloc_small()   *)
(* finds a smallest chunk.                                                   *)
THEOREM BestFitIsPicked == Spec => []PicksBestFit
<1> QED BY SpecIsWell, WellPicksBestFit, PTL

===============================================================================

------------------------------ MODULE LeastElement ------------------------------
(***************************************************************************)
(* The well-ordering of the naturals, which the other proofs use where an  *)
(* induction would be: the "first" and the "last" of a search exist, and   *)
(* so does the function that a recursion down a chain defines.             *)
(***************************************************************************)
EXTENDS Naturals, Integers, FiniteSetTheorems, TLAPS

(* A set of naturals that is not empty has a least element.                  *)
LEMMA SmallestExists ==
  ASSUME NEW H, H \subseteq Nat, H # {}
  PROVE  \E d \in H : \A e \in H : d <= e
<1> DEFINE T == {1 .. d : d \in H}
           R == StrictSubsetOrdering(Nat)
<1>1. T # {}
  OBVIOUS
<1>2. T \subseteq FiniteSubsetsOf(Nat)
  <2>1. ASSUME NEW d \in H PROVE 1 .. d \in SUBSET Nat /\ IsFiniteSet(1 .. d)
    <3>1. d \in Int OBVIOUS
    <3>2. IsFiniteSet(1 .. d) BY <3>1, FS_Interval
    <3> QED BY <3>2
  <2> QED BY <2>1 DEF FiniteSubsetsOf
<1>3. \E x \in T : \A y \in T : ~ (<<y, x>> \in R)
  <2>1. IsWellFoundedOn(R, FiniteSubsetsOf(Nat)) BY FS_StrictSubsetOrderingWellFounded
  <2> HIDE DEF T, R
  <2> QED BY <2>1, <1>1, <1>2, WFMin
<1>4. PICK d \in H : \A e \in H : ~ (<<1 .. e, 1 .. d>> \in R)
  BY <1>3
<1>5. ASSUME NEW e \in H, ~(d <= e) PROVE FALSE
  <2>1. 1 .. e \subseteq 1 .. d /\ 1 .. e # 1 .. d
    <3>1. e \in Nat /\ d \in Nat /\ e < d BY <1>5
    <3>2. d \in 1 .. d /\ d \notin 1 .. e BY <3>1
    <3> QED BY <3>1, <3>2
  <2>2. 1 .. e \in SUBSET Nat /\ 1 .. d \in SUBSET Nat OBVIOUS
  <2> QED BY <2>1, <2>2, <1>4 DEF StrictSubsetOrdering
<1> QED BY <1>4, <1>5

(* A bounded set of naturals that is not empty has a greatest element.       *)
LEMMA GreatestExists ==
  ASSUME NEW N \in Nat, NEW H, H \subseteq 0 .. N, H # {}
  PROVE  \E d \in H : \A e \in H : e <= d
<1> DEFINE G == {N - d : d \in H}
<1>1. G \subseteq Nat
  <2>1. ASSUME NEW d \in H PROVE N - d \in Nat
    <3>1. d \in 0 .. N OBVIOUS
    <3> QED BY <3>1
  <2> QED BY <2>1
<1>2. G # {}
  OBVIOUS
<1> HIDE DEF G
<1>3. PICK g \in G : \A e \in G : g <= e
  BY <1>1, <1>2, SmallestExists
<1> USE DEF G
<1>4. PICK d \in H : g = N - d
  OBVIOUS
<1>5. ASSUME NEW e \in H PROVE e <= d
  <2>1. N - e \in G OBVIOUS
  <2>2. N - d <= N - e BY <2>1, <1>3, <1>4
  <2>3. d \in Int /\ e \in Int OBVIOUS
  <2> QED BY <2>2, <2>3
<1> QED BY <1>5

(* From the elements of go, nxt leads down, for some rank of those of D.     *)
Descends(D, M, rank, go, nxt) ==
  /\ M \in Nat /\ rank \in [D -> 0 .. M] /\ go \subseteq D
  /\ \A x \in go : nxt[x] \in D /\ rank[nxt[x]] < rank[x]

Steps(D, V, base, step) == base \in [D -> V] /\ step \in [D -> [V -> V]]

IsRecursive(D, V, go, nxt, base, step, f) ==
  /\ f \in [D -> V]
  /\ \A x \in D : f[x] = IF x \in go THEN step[x][f[nxt[x]]] ELSE base[x]

(* A function may be defined by recursion along such an nxt.                 *)
LEMMA RecursionExists ==
  ASSUME NEW D, NEW V, NEW M, NEW rank, NEW go, NEW nxt, NEW base, NEW step,
         Descends(D, M, rank, go, nxt), Steps(D, V, base, step)
  PROVE  \E f : IsRecursive(D, V, go, nxt, base, step, f)
<1> USE DEF Descends, Steps, IsRecursive
<1> DEFINE Below(n) == {x \in D : rank[x] < n}
           Rec(f, x) == f[x] = IF x \in go THEN step[x][f[nxt[x]]] ELSE base[x]
           Good(n) == \E f \in [Below(n) -> V] : \A x \in Below(n) : Rec(f, x)
<1>1. Good(0)
  <2>1. Below(0) = {} OBVIOUS
  <2> DEFINE f == [x \in Below(0) |-> base[x]]
  <2>2. f \in [Below(0) -> V] BY <2>1
  <2>3. \A x \in Below(0) : Rec(f, x) BY <2>1
  <2> QED BY <2>2, <2>3
<1>2. ASSUME NEW n \in Nat, Good(n) PROVE Good(n + 1)
  <2>1. PICK f \in [Below(n) -> V] : \A x \in Below(n) : Rec(f, x)
    BY <1>2
  <2> DEFINE value(x) == IF x \in go THEN step[x][f[nxt[x]]] ELSE base[x]
             g == [x \in Below(n + 1) |-> value(x)]
  <2>2. \A x \in Below(n + 1) : x \in D /\ (x \in go => nxt[x] \in Below(n))
    <3> TAKE x \in Below(n + 1)
    <3>1. x \in D /\ rank[x] < n + 1 /\ rank[x] \in Nat OBVIOUS
    <3>2. ASSUME x \in go PROVE nxt[x] \in D /\ rank[nxt[x]] < n
      <4>1. nxt[x] \in D /\ rank[nxt[x]] < rank[x] BY <3>1, <3>2
      <4>2. rank[nxt[x]] \in Nat BY <4>1
      <4> QED BY <3>1, <4>1, <4>2
    <3> QED BY <3>1, <3>2
  <2>3. \A x \in Below(n) : x \in Below(n + 1) /\ f[x] = value(x)
    <3> TAKE x \in Below(n)
    <3>1. rank[x] \in Nat /\ rank[x] < n + 1 OBVIOUS
    <3> QED BY <3>1, <2>1
  <2>4. \A x \in Below(n + 1) : value(x) \in V
    <3> TAKE x \in Below(n + 1)
    <3> HIDE DEF Below
    <3>1. x \in go => f[nxt[x]] \in V BY <2>2
    <3>2. base[x] \in V /\ step[x] \in [V -> V] BY <2>2
    <3> QED BY <3>1, <3>2
  <2> HIDE DEF Below
  <2>5. \A x \in Below(n) : g[x] = f[x] BY <2>3
  <2>6. g \in [Below(n + 1) -> V] BY <2>4
  <2>7. \A x \in Below(n + 1) : Rec(g, x)
    <3> TAKE x \in Below(n + 1)
    <3>1. g[x] = value(x) OBVIOUS
    <3>2. x \in go => g[nxt[x]] = f[nxt[x]] BY <2>2, <2>5
    <3> HIDE DEF g
    <3> QED BY <3>1, <3>2
  <2> QED BY <2>6, <2>7
<1>3. ASSUME NEW n \in Nat PROVE Good(n)
  <2> DEFINE Bad == {k \in Nat : ~Good(k)}
  <2> HIDE DEF Good
  <2>1. ASSUME Bad # {} PROVE FALSE
    <3>1. PICK b \in Bad : \A c \in Bad : b <= c BY <2>1, SmallestExists
    <3>2. b \in Nat /\ ~Good(b) /\ b # 0 BY <1>1
    <3>3. b - 1 \in Nat /\ ~(b <= b - 1) /\ (b - 1) + 1 = b BY <3>2
    <3>4. Good(b - 1) BY <3>1, <3>3
    <3>5. Good((b - 1) + 1) BY <1>2, <3>3, <3>4
    <3> QED BY <3>2, <3>3, <3>5
  <2> QED BY <2>1
<1>4. Below(M + 1) = D
  <2>1. \A x \in D : rank[x] \in 0 .. M OBVIOUS
  <2>2. \A x \in D : rank[x] < M + 1 BY <2>1
  <2> QED BY <2>2
<1>5. Good(M + 1)
  <2>1. M + 1 \in Nat OBVIOUS
  <2> HIDE DEF Good
  <2> QED BY <1>3, <2>1
<1> HIDE DEF Below
<1> QED BY <1>4, <1>5

(* f[x] is what a loop that starts at x returns: base of where it ends.      *)
IsLoop(D, go, nxt, base, f) ==
  f = [x \in D |-> IF x \in go THEN f[nxt[x]] ELSE base[x]]

(* A loop that descends returns.                                             *)
LEMMA LoopExists ==
  ASSUME NEW D, NEW M, NEW rank, NEW go, NEW nxt, NEW base,
         Descends(D, M, rank, go, nxt)
  PROVE  \E f : IsLoop(D, go, nxt, base, f)
<1> DEFINE V == {base[x] : x \in D}
           first == [x \in D |-> base[x]]
           step == [x \in D |-> [v \in V |-> v]]
<1>1. Steps(D, V, first, step) BY DEF Steps
<1>2. \A x \in D : first[x] = base[x] /\ \A v \in V : step[x][v] = v OBVIOUS
<1> HIDE DEF first, step, V
<1>3. PICK f : IsRecursive(D, V, go, nxt, first, step, f) BY <1>1, RecursionExists
<1>4. \A x \in go : f[nxt[x]] \in V BY <1>3 DEF IsRecursive, Descends
<1>5. \A x \in D : f[x] = IF x \in go THEN f[nxt[x]] ELSE base[x]
  BY <1>2, <1>3, <1>4 DEF IsRecursive
<1>6. f = [x \in D |-> f[x]] BY <1>3 DEF IsRecursive
<1>7. f = [x \in D |-> IF x \in go THEN f[nxt[x]] ELSE base[x]] BY <1>5, <1>6
<1> QED BY <1>7 DEF IsLoop

(* It ends at a state of its invariant S, where it does not go on.           *)
LEMMA LoopRule ==
  ASSUME NEW D, NEW M, NEW rank, NEW go, NEW nxt, NEW base, NEW f,
         Descends(D, M, rank, go, nxt), IsLoop(D, go, nxt, base, f),
         NEW S, S \subseteq D, \A x \in S \intersect go : nxt[x] \in S,
         NEW p \in S
  PROVE  \E q \in S \ go : f[p] = base[q]
<1> DEFINE Ends(x) == \E q \in S \ go : f[x] = base[q]
           Bad == {rank[x] : x \in {y \in S : ~Ends(y)}}
<1>1. ASSUME NEW x \in S, x \in go => Ends(nxt[x]) PROVE Ends(x)
  <2>1. f[x] = IF x \in go THEN f[nxt[x]] ELSE base[x] BY DEF IsLoop
  <2> QED BY <2>1, <1>1
<1> HIDE DEF Ends
<1>2. ASSUME Bad # {} PROVE FALSE
  <2>1. Bad \subseteq Nat BY DEF Descends
  <2> HIDE DEF Bad
  <2>2. PICK d \in Bad : \A e \in Bad : d <= e BY <1>2, <2>1, SmallestExists
  <2> USE DEF Bad
  <2>3. PICK x \in S : ~Ends(x) /\ rank[x] = d OBVIOUS
  <2>4. x \in go BY <2>3, <1>1
  <2>5. nxt[x] \in S /\ rank[nxt[x]] < d /\ ~(d <= rank[nxt[x]])
    <3>1. nxt[x] \in S /\ rank[nxt[x]] < d BY <2>3, <2>4 DEF Descends
    <3>2. rank[nxt[x]] \in Nat /\ d \in Nat BY <3>1, <2>1 DEF Descends
    <3> QED BY <3>1, <3>2
  <2>6. Ends(nxt[x]) BY <2>2, <2>5
  <2> QED BY <2>3, <2>6, <1>1
<1>3. Ends(p) BY <1>2
<1> QED BY <1>3 DEF Ends

(* A set with 0, and with n + 1 for each n in it, holds all the naturals.    *)
LEMMA SetInduction ==
  ASSUME NEW S, 0 \in S, \A n \in Nat : n \in S => n + 1 \in S
  PROVE  \A n \in Nat : n \in S
<1> DEFINE Bad == {n \in Nat : n \notin S}
<1>1. ASSUME Bad # {} PROVE FALSE
  <2>1. PICK b \in Bad : \A c \in Bad : b <= c BY <1>1, SmallestExists
  <2>2. b \in Nat /\ b # 0 /\ b \notin S OBVIOUS
  <2>3. b - 1 \in Nat /\ ~(b <= b - 1) /\ (b - 1) + 1 = b BY <2>2
  <2>4. b - 1 \in S BY <2>1, <2>3
  <2> QED BY <2>2, <2>3, <2>4
<1> QED BY <1>1

===============================================================================

------------------------------ MODULE Libdl_proofs ------------------------------
(***************************************************************************)
(* Proofs about Libdl: for every startup, every set of files and requests  *)
(* and any number of dlopen()s and dlclose()s, the list of link_maps stays *)
(* well formed, no slot of a link_map in use is bound to a closed one,     *)
(* and, with room in the address space, the objects of startup keep their  *)
(* pages and a crash has a known cause.                                    *)
(***************************************************************************)
EXTENDS Libdl, LeastElement, TLAPS

-----------------------------------------------------------------------------

(* l_next leads to link_maps made later.  *)
Forward(M, nxt) ==
  /\ M \in Nat
  /\ nxt \in [1 .. M -> 0 .. M]
  /\ \A x \in 1 .. M : nxt[x] # 0 => nxt[x] > x

(* end[x] is where the walk from x ends.  *)
Walk(M, nxt, end) == end = [x \in 1 .. M |-> IF nxt[x] = 0 THEN x ELSE end[nxt[x]]]

(* S is a set that l_next does not lead out of.  *)
Stays(M, nxt, S) ==
  /\ S \subseteq 1 .. M
  /\ \A x \in S : nxt[x] # 0 => nxt[x] \in S

(* The walk "while (map->l_next) map = map->l_next" is a function of where it *)
(* starts, when l_next leads to link_maps made later.                        *)
LEMMA WalkExists ==
  ASSUME NEW M, NEW nxt, Forward(M, nxt)
  PROVE  \E end : Walk(M, nxt, end)
<1> DEFINE D == 1 .. M
           go == {x \in D : nxt[x] # 0}
           rank == [x \in D |-> M - x]
           base == [x \in D |-> x]
           step == [x \in D |-> [v \in D |-> v]]
<1>1. M \in Nat /\ nxt \in [D -> 0 .. M]
  BY DEF Forward
<1>2. rank \in [D -> 0 .. M] /\ base \in [D -> D] /\ step \in [D -> [D -> D]]
  BY <1>1
<1>3. \A x \in go : nxt[x] \in D /\ rank[nxt[x]] < rank[x]
  <2> SUFFICES ASSUME NEW x \in go PROVE nxt[x] \in D /\ rank[nxt[x]] < rank[x]
    OBVIOUS
  <2>1. nxt[x] \in D /\ x < nxt[x] BY <1>1 DEF Forward
  <2> QED BY <2>1, <1>1
<1>0. go \subseteq D OBVIOUS
<1> HIDE DEF go, rank, base, step, D
<1>4. PICK f : IsRecursive(D, D, go, nxt, base, step, f)
  <2>1. Descends(D, M, rank, go, nxt) BY <1>0, <1>1, <1>2, <1>3 DEF Descends
  <2>2. Steps(D, D, base, step) BY <1>2 DEF Steps
  <2> QED BY <2>1, <2>2, RecursionExists
<1>5. \A x \in D : f[x] = IF nxt[x] = 0 THEN x ELSE f[nxt[x]]
  BY <1>3, <1>4 DEF go, base, step, IsRecursive
<1>6. f = [x \in D |-> f[x]] BY <1>4 DEF IsRecursive
<1>7. f = [x \in D |-> IF nxt[x] = 0 THEN x ELSE f[nxt[x]]] BY <1>5, <1>6
<1> QED BY <1>7 DEF Walk, D

(* So is the list from a link_map on.                                        *)
Collects(M, nxt, from) ==
  from = [x \in 1 .. M |-> IF nxt[x] = 0 THEN <<x>> ELSE <<x>> \o from[nxt[x]]]

LEMMA ListExists ==
  ASSUME NEW M, NEW nxt, Forward(M, nxt)
  PROVE  \E from : Collects(M, nxt, from)
<1> DEFINE D == 1 .. M
           V == Seq(D)
           go == {x \in D : nxt[x] # 0}
           rank == [x \in D |-> M - x]
           base == [x \in D |-> <<x>>]
           step == [x \in D |-> [v \in V |-> <<x>> \o v]]
<1>1. M \in Nat /\ nxt \in [D -> 0 .. M]
  BY DEF Forward
<1>2. rank \in [D -> 0 .. M] /\ base \in [D -> V] /\ step \in [D -> [V -> V]]
  BY <1>1
<1>3. \A x \in go : nxt[x] \in D /\ rank[nxt[x]] < rank[x]
  <2> SUFFICES ASSUME NEW x \in go PROVE nxt[x] \in D /\ rank[nxt[x]] < rank[x]
    OBVIOUS
  <2>1. nxt[x] \in D /\ x < nxt[x] BY <1>1 DEF Forward
  <2> QED BY <2>1, <1>1
<1>0. go \subseteq D OBVIOUS
<1> HIDE DEF go, rank, base, step, D, V
<1>4. PICK f : IsRecursive(D, V, go, nxt, base, step, f)
  <2>1. Descends(D, M, rank, go, nxt) BY <1>0, <1>1, <1>2, <1>3 DEF Descends
  <2>2. Steps(D, V, base, step) BY <1>2 DEF Steps
  <2> QED BY <2>1, <2>2, RecursionExists
<1>5. \A x \in D : f[x] = IF nxt[x] = 0 THEN <<x>> ELSE <<x>> \o f[nxt[x]]
  BY <1>3, <1>4 DEF go, base, step, IsRecursive
<1>6. f = [x \in D |-> f[x]] BY <1>4 DEF IsRecursive
<1>7. f = [x \in D |-> IF nxt[x] = 0 THEN <<x>> ELSE <<x>> \o f[nxt[x]]] BY <1>5, <1>6
<1> QED BY <1>7 DEF Collects, D

(* And the head, to which l_prev leads through link_maps made earlier.       *)
Climbs(M, prv, head) == head = [x \in 1 .. M |-> IF prv[x] = 0 THEN x ELSE head[prv[x]]]

LEMMA HeadExists ==
  ASSUME NEW M \in Nat, NEW prv, \A x \in 1 .. M : prv[x] \in 0 .. (x - 1)
  PROVE  \E head : Climbs(M, prv, head)
<1> DEFINE D == 1 .. M
           go == {x \in D : prv[x] # 0}
           rank == [x \in D |-> x]
           base == [x \in D |-> x]
           step == [x \in D |-> [v \in D |-> v]]
<1>2. rank \in [D -> 0 .. M] /\ base \in [D -> D] /\ step \in [D -> [D -> D]]
  OBVIOUS
<1>3. \A x \in go : prv[x] \in D /\ rank[prv[x]] < rank[x]
  <2> SUFFICES ASSUME NEW x \in go PROVE prv[x] \in D /\ rank[prv[x]] < rank[x]
    OBVIOUS
  <2>1. prv[x] \in 0 .. (x - 1) OBVIOUS
  <2>2. prv[x] \in D /\ prv[x] < x BY <2>1
  <2> QED BY <2>2
<1>0. go \subseteq D OBVIOUS
<1> HIDE DEF go, rank, base, step, D
<1>4. PICK f : IsRecursive(D, D, go, prv, base, step, f)
  <2>1. Descends(D, M, rank, go, prv) BY <1>0, <1>2, <1>3 DEF Descends
  <2>2. Steps(D, D, base, step) BY <1>2 DEF Steps
  <2> QED BY <2>1, <2>2, RecursionExists
<1>5. \A x \in D : f[x] = IF prv[x] = 0 THEN x ELSE f[prv[x]]
  BY <1>3, <1>4 DEF go, base, step, IsRecursive
<1>6. f = [x \in D |-> f[x]] BY <1>4 DEF IsRecursive
<1>7. f = [x \in D |-> IF prv[x] = 0 THEN x ELSE f[prv[x]]] BY <1>5, <1>6
<1> QED BY <1>7 DEF Climbs, D

(* The walk ends at a link_map without l_next, and never leaves a set that    *)
(* l_next does not lead out of.                                              *)
LEMMA WalkStaysIn ==
  ASSUME NEW M, NEW nxt, Forward(M, nxt),
         NEW end, Walk(M, nxt, end),
         NEW S, Stays(M, nxt, S)
  PROVE  \A x \in S : end[x] \in S /\ nxt[end[x]] = 0
<1> USE DEF Forward, Stays
<1> DEFINE Ends(x) == end[x] \in S /\ nxt[end[x]] = 0
           Bad == {x \in S : ~Ends(x)}
<1>1. ASSUME NEW x \in S, nxt[x] # 0 => Ends(nxt[x]) PROVE Ends(x)
  <2>1. end[x] = IF nxt[x] = 0 THEN x ELSE end[nxt[x]] BY DEF Walk
  <2>2. CASE nxt[x] = 0 BY <2>1, <2>2
  <2>3. CASE nxt[x] # 0 BY <2>1, <2>3, <1>1
  <2> QED BY <2>2, <2>3
<1> HIDE DEF Ends
<1>2. ASSUME Bad # {} PROVE FALSE
  <2>1. \A x \in S : x \in 0 .. M OBVIOUS
  <2> HIDE DEF Bad
  <2>2. PICK b \in Bad : \A c \in Bad : c <= b
    <3>1. Bad \subseteq 0 .. M BY <2>1 DEF Bad
    <3> QED BY <3>1, <1>2, GreatestExists
  <2>3. b \in S /\ ~Ends(b) BY DEF Bad
  <2>4. nxt[b] # 0 => nxt[b] \in S /\ ~(nxt[b] <= b)
    <3>1. b \in 1 .. M /\ nxt[b] \in 0 .. M BY <2>3
    <3> QED BY <3>1, <2>3
  <2>5. nxt[b] # 0 => nxt[b] \notin Bad BY <2>4, <2>2
  <2>6. nxt[b] # 0 => Ends(nxt[b]) BY <2>4, <2>5 DEF Bad
  <2> QED BY <2>6, <2>3, <1>1
<1> QED BY <1>2 DEF Ends

-----------------------------------------------------------------------------

(* The part of the type invariant that the list needs, with what holds of a   *)
(* link_map from the moment it is allocated.                                 *)
ListType ==
  /\ startup \in Startups
  /\ nb \in NbStart .. (NbStart + MaxOpen)
  /\ l_prev \in [Node -> 0 .. nb]
  /\ l_next \in [Node -> 0 .. nb]
  /\ opened \subseteq {1} \union (NbStart + 1) .. nb
  /\ l_name \in [Node -> File] /\ l_name[1] = startup[1].name
  /\ l_addr \in [Node -> Nat] /\ l_addr[1] = 0
  /\ \A m \in Node : l_next[m] # 0 => l_next[m] > m

(* While the process runs: later link_maps hang behind startup's, the list is *)
(* linked both ways through the link_maps in use.                            *)
ListShape ==
  /\ \A m \in 2 .. nb : l_prev[m] \in 1 .. (m - 1)
  /\ \A m \in (NbStart + 1) .. nb : l_prev[m] >= NbStart
  /\ \A m \in 1 .. NbStart : l_prev[m] = m - 1 /\ (m < NbStart => l_next[m] = m + 1)
  /\ \A m \in Live : l_next[m] # 0 => l_next[m] \in Live /\ l_prev[l_next[m]] = m

ListInv == ListType /\ (pc = "run" => ListShape)

(* What the assumptions say of the list startup left.                        *)
LEMMA StartupFacts ==
  ASSUME NEW s \in Startups
  PROVE  /\ Len(s) \in Nat /\ Len(s) >= 2
         /\ MaxOpen \in Nat
         /\ \A m \in 1 .. Len(s) : s[m].name \in File /\ s[m].addr \in Nat
         /\ s[1].addr = 0 /\ Info[s[1].name].span > 0
         /\ \A f \in File : Info[f].first \in Nat /\ Info[f].span \in Nat
<1>1. s \in Seq(Entry) BY LibdlAssumption
<1>2. \A f \in File : Info[f].first \in Nat /\ Info[f].span \in Nat
  BY LibdlAssumption DEF FileInfo
<1>3. \A m \in 1 .. Len(s) : s[m].name \in File /\ s[m].addr \in Nat
  <2>1. s \in [1 .. Len(s) -> Entry] BY <1>1
  <2>2. \A m \in 1 .. Len(s) : s[m] \in Entry BY <2>1
  <2> QED BY <2>2 DEF Entry
<1> QED BY <1>1, <1>2, <1>3, LibdlAssumption

LEMMA ListInvInit == Init => ListInv
<1> SUFFICES ASSUME Init PROVE ListInv
  OBVIOUS
<1> USE DEF Init, NbStart, Node
<1>1. startup \in Startups OBVIOUS
<1>2. NbStart \in Nat /\ NbStart >= 2 /\ MaxOpen \in Nat BY <1>1, StartupFacts
<1>3. l_name \in [Node -> File] /\ l_name[1] = startup[1].name
  <2>1. \A m \in 1 .. NbStart : startup[m].name \in File BY <1>1, StartupFacts
  <2> QED BY <1>2, <2>1
<1>4. l_addr \in [Node -> Nat] /\ l_addr[1] = 0
  <2>1. \A m \in 1 .. NbStart : startup[m].addr \in Nat BY <1>1, StartupFacts
  <2>2. startup[1].addr = 0 BY <1>1, StartupFacts
  <2> QED BY <1>2, <2>1, <2>2
<1>5. ListType BY <1>1, <1>2, <1>3, <1>4 DEF ListType
<1>6. ListShape BY <1>2 DEF ListShape, Live
<1> QED BY <1>5, <1>6 DEF ListInv

(* Where dlopen() links a new library: behind the last link_map in use.      *)
LEMMA TailIsLast ==
  ASSUME ListInv, pc = "run"
  PROVE  ListTail \in Live /\ ListTail \in NbStart .. nb /\ l_next[ListTail] = 0
<1> DEFINE M == NbStart + MaxOpen
           end1 == CHOOSE end : Walk(M, l_next, end)
<1>1. ListType /\ ListShape
  BY DEF ListInv
<1>2. startup \in Startups /\ NbStart \in Nat /\ NbStart >= 2 /\ MaxOpen \in Nat
  BY <1>1, StartupFacts DEF ListType, NbStart
<1>3. Forward(M, l_next)
  BY <1>1, <1>2 DEF ListType, Node, Forward
<1>4. Stays(M, l_next, Live) /\ 1 \in Live
  BY <1>1, <1>2 DEF ListType, ListShape, Live, Stays
<1>5. Walk(M, l_next, end1)
  BY <1>3, WalkExists
<1>6. \A x \in Live : end1[x] \in Live /\ l_next[end1[x]] = 0
  <2> HIDE DEF end1, M
  <2> QED BY <1>3, <1>4, <1>5, WalkStaysIn
<1>7. ListTail = end1[1]
  BY DEF ListTail, Node, Walk
<1>8. ListTail \in Live /\ l_next[ListTail] = 0
  BY <1>4, <1>6, <1>7
<1>9. ListTail \in NbStart .. nb
  <2>1. ListTail \in 1 .. nb
    BY <1>1, <1>2, <1>8 DEF ListType, Live
  <2>2. ListTail \in 1 .. NbStart => ListTail = NbStart
    BY <1>1, <1>2, <1>8 DEF ListShape
  <2> QED BY <1>2, <2>1, <2>2
<1> QED BY <1>8, <1>9

(* dlopen(): the new link_map leads back to the tail, and the tail leads to   *)
(* it only if the library is RTLD_GLOBAL and the call succeeds.              *)
LEMMA DlopenKeepsList ==
  ASSUME ListInv, NEW file \in File, NEW flags \in Flag, Dlopen(file, flags)
  PROVE  ListInv'
<1> DEFINE new == nb + 1
           tail == ListTail
<1>1. ListType /\ ListShape /\ pc = "run"
  BY DEF ListInv, Dlopen
<1>2. /\ startup \in Startups /\ NbStart \in Nat /\ NbStart >= 2 /\ MaxOpen \in Nat
      /\ nb \in Nat /\ NbStart <= nb /\ nb < NbStart + MaxOpen
  BY <1>1, StartupFacts DEF ListType, NbStart, Dlopen
<1>3. tail \in Live /\ tail \in NbStart .. nb /\ l_next[tail] = 0
  BY <1>1, TailIsLast
<1> HIDE DEF tail
<1>4. /\ nb' = new /\ startup' = startup
      /\ l_name' = [l_name EXCEPT ![new] = file]
      /\ l_addr' = [l_addr EXCEPT ![new] = NewAddr(tail)]
      /\ l_prev' = [l_prev EXCEPT ![new] = tail]
  BY DEF Dlopen, tail
<1>5. \/ pc' = "run" /\ l_next' = LinkedNext(tail, new, flags) /\ opened' = opened \union {new}
      \/ pc' # "run" /\ l_next' = l_next /\ opened' = opened
  BY DEF Dlopen, tail
<1>6. \/ l_next' = [l_next EXCEPT ![tail] = new, ![new] = 0]
      \/ l_next' = [l_next EXCEPT ![new] = 0]
      \/ l_next' = l_next
  BY <1>5 DEF LinkedNext
<1>7. NewAddr(tail) \in Nat
  <2>1. tail \in 2 .. nb BY <1>2, <1>3
  <2>2. l_prev[tail] \in Node BY <1>1, <1>2, <2>1 DEF ListShape, Node
  <2> QED BY <1>1, <2>2 DEF ListType, NewAddr
<1>8. /\ l_next' \in [Node -> 0 .. new]
      /\ \A m \in Node : m # tail => l_next'[m] = l_next[m] \/ (m = new /\ l_next'[m] = 0)
      /\ l_next'[tail] \in {0, new}
  <2>1. new \in Node /\ tail \in Node /\ tail # new
    BY <1>2, <1>3 DEF Node
  <2>2. l_next \in [Node -> 0 .. new]
    BY <1>1, <1>2 DEF ListType
  <2>3. new \in 0 .. new /\ 0 \in 0 .. new
    BY <1>2
  <2> HIDE DEF new
  <2>4. CASE l_next' = [l_next EXCEPT ![tail] = new, ![new] = 0]
    <3>1. l_next' = [m \in Node |-> IF m = new THEN 0 ELSE IF m = tail THEN new ELSE l_next[m]]
      BY <2>1, <2>2, <2>4
    <3> QED BY <2>1, <2>2, <2>3, <3>1
  <2>5. CASE l_next' = [l_next EXCEPT ![new] = 0]
    BY <2>1, <2>2, <2>3, <2>5, <1>3
  <2>6. CASE l_next' = l_next
    BY <2>1, <2>2, <2>6, <1>3
  <2> QED BY <1>6, <2>4, <2>5, <2>6
<1>9. ListType'
  <2>1. (l_prev \in [Node -> 0 .. nb])' BY <1>1, <1>2, <1>3, <1>4 DEF ListType, Node, NbStart
  <2>2. (l_next \in [Node -> 0 .. nb])' BY <1>4, <1>8 DEF Node, NbStart
  <2>3. (\A m \in Node : l_next[m] # 0 => l_next[m] > m)'
    <3>1. \A m \in Node : l_next'[m] # 0 => l_next'[m] > m
      <4> TAKE m \in Node
      <4>1. CASE m = tail BY <4>1, <1>2, <1>3, <1>8
      <4>2. CASE m # tail BY <4>2, <1>1, <1>8 DEF ListType
      <4> QED BY <4>1, <4>2
    <3> QED BY <3>1, <1>4 DEF Node, NbStart
  <2>4. (opened \subseteq {1} \union (NbStart + 1) .. nb)'
    <3>1. opened \subseteq {1} \union (NbStart + 1) .. new BY <1>1, <1>2 DEF ListType
    <3>2. new \in (NbStart + 1) .. new BY <1>2
    <3>3. opened' \subseteq {1} \union (NbStart + 1) .. new BY <3>1, <3>2, <1>5
    <3> QED BY <3>3, <1>4 DEF NbStart
  <2>5. (l_name \in [Node -> File] /\ l_name[1] = startup[1].name)'
    BY <1>1, <1>2, <1>4 DEF ListType, Node, NbStart
  <2>6. (l_addr \in [Node -> Nat] /\ l_addr[1] = 0)'
    BY <1>1, <1>2, <1>4, <1>7 DEF ListType, Node, NbStart
  <2>7. (startup \in Startups /\ nb \in NbStart .. (NbStart + MaxOpen))'
    BY <1>2, <1>4 DEF NbStart
  <2> QED BY <2>1, <2>2, <2>3, <2>4, <2>5, <2>6, <2>7 DEF ListType
<1>10. ASSUME pc' = "run" PROVE ListShape'
  <2>1. \A m \in 1 .. nb : l_prev'[m] = l_prev[m]
    BY <1>1, <1>2, <1>4 DEF ListType, Node
  <2>2. l_prev'[new] = tail
    BY <1>1, <1>2, <1>4 DEF ListType, Node
  <2>3. (\A m \in 2 .. nb : l_prev[m] \in 1 .. (m - 1))'
    BY <1>1, <1>2, <1>3, <1>4, <2>1, <2>2 DEF ListShape
  <2>4. (\A m \in (NbStart + 1) .. nb : l_prev[m] >= NbStart)'
    BY <1>1, <1>2, <1>3, <1>4, <2>1, <2>2 DEF ListShape, NbStart
  <2>5. \A m \in 1 .. nb : m # tail => l_next'[m] = l_next[m]
    <3>1. \A m \in 1 .. nb : m \in Node /\ m # new BY <1>2 DEF Node
    <3> QED BY <3>1, <1>8
  <2>6. (\A m \in 1 .. NbStart : l_prev[m] = m - 1 /\ (m < NbStart => l_next[m] = m + 1))'
    BY <1>1, <1>2, <1>3, <1>4, <2>1, <2>5 DEF ListShape, NbStart
  <2>7. Live' = Live \union {new}
    BY <1>4, <1>5, <1>10 DEF Live, NbStart
  <2>8. l_next'[new] = 0 /\ l_next'[tail] \in {0, new}
    <3>1. new \in Node /\ tail # new BY <1>2, <1>3 DEF Node
    <3>2. l_next' = LinkedNext(tail, new, flags) BY <1>5, <1>10
    <3>3. l_next'[new] = 0
      <4>1. new \in DOMAIN l_next BY <3>1, <1>1 DEF ListType
      <4> HIDE DEF new
      <4> QED BY <3>1, <3>2, <4>1 DEF LinkedNext
    <3> QED BY <3>3, <1>8
  <2>9. Live \subseteq 1 .. nb
    BY <1>1, <1>2 DEF ListType, Live
  <2>10. ASSUME NEW m \in Live', l_next'[m] # 0
         PROVE  l_next'[m] \in Live' /\ l_prev'[l_next'[m]] = m
    <3>1. CASE m = tail
      BY <3>1, <2>2, <2>7, <2>8, <2>10
    <3>2. CASE m # tail
      <4>1. m \in Live /\ m \in 1 .. nb BY <2>7, <2>8, <2>9, <2>10
      <4>2. l_next'[m] = l_next[m] BY <4>1, <3>2, <2>5
      <4>3. l_next[m] \in Live /\ l_prev[l_next[m]] = m
        BY <4>1, <4>2, <1>1, <2>10 DEF ListShape
      <4> QED BY <4>2, <4>3, <2>1, <2>7, <2>9
    <3> QED BY <3>1, <3>2
  <2> QED BY <2>3, <2>4, <2>6, <2>10 DEF ListShape
<1> QED BY <1>9, <1>10 DEF ListInv

(* dlclose(): the link_maps before and after the closed one are told.  The    *)
(* executable cannot be closed and return, since its own pages are unmapped. *)
LEMMA DlcloseKeepsList ==
  ASSUME ListInv, NEW h \in opened, Dlclose(h)
  PROVE  ListInv'
<1>1. ListType /\ ListShape /\ pc = "run"
  BY DEF ListInv, Dlclose
<1>2. /\ startup \in Startups /\ NbStart \in Nat /\ NbStart >= 2 /\ MaxOpen \in Nat
      /\ nb \in Nat /\ NbStart <= nb /\ nb <= NbStart + MaxOpen
  BY <1>1, StartupFacts DEF ListType, NbStart
<1>3. /\ l_next' = CutNext(h) /\ l_prev' = CutPrev(h) /\ opened' = opened \ {h}
      /\ startup' = startup /\ nb' = nb /\ l_name' = l_name /\ l_addr' = l_addr
  BY DEF Dlclose
<1>4. h \in 1 .. nb /\ h \in Node /\ h \in Live /\ (h = 1 \/ h > NbStart)
  BY <1>1, <1>2 DEF ListType, Node, Live
<1>5. l_prev[h] \in 0 .. (h - 1) /\ (h # 1 => l_prev[h] >= NbStart)
  BY <1>1, <1>2, <1>4 DEF ListShape
<1>6. l_next[h] \in 0 .. nb /\ (l_next[h] # 0 => l_next[h] > h /\ l_next[h] \in Live
                                                  /\ l_prev[l_next[h]] = h)
  BY <1>1, <1>4 DEF ListType, ListShape
<1>7. \A m \in Node : l_next'[m] = IF m = l_prev[h] THEN l_next[h] ELSE l_next[m]
  <2>1. l_next \in [Node -> 0 .. nb] BY <1>1 DEF ListType
  <2>2. l_prev[h] = 0 => l_prev[h] \notin Node BY DEF Node
  <2> QED BY <1>3, <2>1, <2>2 DEF CutNext
<1>8. \A m \in Node : l_prev'[m] = IF m = l_next[h] THEN l_prev[h] ELSE l_prev[m]
  <2>1. l_prev \in [Node -> 0 .. nb] BY <1>1 DEF ListType
  <2>2. l_next[h] = 0 => l_next[h] \notin Node BY DEF Node
  <2> QED BY <1>3, <2>1, <2>2 DEF CutPrev
<1>9. ListType'
  <2>1. (l_prev \in [Node -> 0 .. nb])'
    BY <1>1, <1>2, <1>3, <1>4, <1>5, <1>6 DEF ListType, Node, NbStart, CutPrev
  <2>2. (l_next \in [Node -> 0 .. nb])'
    BY <1>1, <1>2, <1>3, <1>4, <1>5, <1>6 DEF ListType, Node, NbStart, CutNext
  <2>3. (\A m \in Node : l_next[m] # 0 => l_next[m] > m)'
    <3>1. ASSUME NEW m \in Node, l_next'[m] # 0 PROVE l_next'[m] > m
      <4>1. CASE m = l_prev[h]
        <5>1. l_next'[m] = l_next[h] BY <4>1, <1>7
        <5>2. l_next[h] > h /\ l_next[h] \in Int BY <5>1, <3>1, <1>6
        <5>3. m < h /\ m \in Int /\ h \in Int BY <4>1, <1>2, <1>4, <1>5
        <5> QED BY <5>1, <5>2, <5>3
      <4>2. CASE m # l_prev[h]
        <5>1. l_next'[m] = l_next[m] BY <4>2, <1>7
        <5> QED BY <5>1, <3>1, <1>1 DEF ListType
      <4> QED BY <4>1, <4>2
    <3>2. Node' = Node BY <1>3 DEF Node, NbStart
    <3> QED BY <3>1, <3>2
  <2> QED BY <1>1, <1>3, <2>1, <2>2, <2>3 DEF ListType, Node, NbStart
<1>10. ASSUME pc' = "run" PROVE h # 1
  <2>1. Pages(l_name[1], l_addr[1]) \intersect Unmapped(h) = {}
    BY <1>10 DEF Dlclose
  <2>2. l_name[1] \in File /\ l_addr[1] = 0 /\ Info[l_name[1]].span > 0
    <3>1. startup[1].name \in File /\ Info[startup[1].name].span > 0
      <4>1. 1 \in 1 .. Len(startup) BY <1>2, StartupFacts
      <4> QED BY <4>1, <1>2, StartupFacts
    <3>2. l_name[1] = startup[1].name /\ l_addr[1] = 0 BY <1>1 DEF ListType
    <3> QED BY <3>1, <3>2
  <2>3. Info[l_name[1]].first \in Nat /\ Info[l_name[1]].span \in Nat
    BY <1>2, <2>2, StartupFacts
  <2>4. Info[l_name[1]].first \in Pages(l_name[1], 0)
    BY <2>2, <2>3 DEF Pages
  <2> QED BY <2>1, <2>2, <2>4 DEF Unmapped
<1>11. ASSUME pc' = "run" PROVE ListShape'
  <2>1. h > NbStart /\ l_prev[h] >= NbStart
    BY <1>4, <1>5, <1>10, <1>11
  <2>2. (\A m \in 2 .. nb : l_prev[m] \in 1 .. (m - 1))'
    BY <1>1, <1>2, <1>3, <1>5, <1>6, <1>8, <2>1 DEF ListShape, Node
  <2>3. (\A m \in (NbStart + 1) .. nb : l_prev[m] >= NbStart)'
    <3>1. \A m \in (NbStart + 1) .. nb : m \in Node BY <1>2 DEF Node
    <3>2. \A m \in (NbStart + 1) .. nb : l_prev'[m] >= NbStart
      BY <1>1, <1>8, <2>1, <3>1 DEF ListShape
    <3> QED BY <3>2, <1>3 DEF NbStart
  <2>4. (\A m \in 1 .. NbStart : l_prev[m] = m - 1 /\ (m < NbStart => l_next[m] = m + 1))'
    <3>1. \A m \in 1 .. NbStart : m \in Node BY <1>2 DEF Node
    <3>2. l_next[h] \notin 1 .. NbStart BY <1>2, <1>4, <1>6, <2>1
    <3>3. \A m \in 1 .. NbStart : m < NbStart => m # l_prev[h] BY <1>2, <1>5, <2>1
    <3>4. \A m \in 1 .. NbStart : l_prev'[m] = m - 1 /\ (m < NbStart => l_next'[m] = m + 1)
      BY <1>1, <1>7, <1>8, <3>1, <3>2, <3>3 DEF ListShape
    <3> QED BY <3>4, <1>3 DEF NbStart
  <2>5. Live' = Live \ {h}
    BY <1>2, <1>3, <2>1 DEF Live, NbStart
  <2>6. Live \subseteq Node
    BY <1>1, <1>2 DEF ListType, Live, Node
  <2>7. ASSUME NEW m \in Live', l_next'[m] # 0
        PROVE  l_next'[m] \in Live' /\ l_prev'[l_next'[m]] = m
    <3>1. m \in Live /\ m # h /\ m \in Node BY <2>5, <2>6
    <3>2. CASE m = l_prev[h]
      <4>1. l_next'[m] = l_next[h] BY <3>1, <3>2, <1>7
      <4>2. l_next[h] \in Live /\ l_next[h] # h /\ l_next[h] \in Node
        BY <4>1, <2>7, <1>4, <1>6, <2>6
      <4> QED BY <4>1, <4>2, <3>2, <1>8, <2>5
    <3>3. CASE m # l_prev[h]
      <4>1. l_next'[m] = l_next[m] BY <3>1, <3>3, <1>7
      <4>2. l_next[m] \in Live /\ l_prev[l_next[m]] = m
        BY <4>1, <2>7, <3>1, <1>1 DEF ListShape
      <4>3. l_next[m] # h BY <4>2, <3>3
      <4>4. l_next[m] # l_next[h] BY <4>1, <4>2, <2>7, <1>6, <3>1
      <4> QED BY <4>1, <4>2, <4>3, <4>4, <1>8, <2>5, <2>6
    <3> QED BY <3>2, <3>3
  <2> QED BY <2>2, <2>3, <2>4, <2>7 DEF ListShape
<1> QED BY <1>9, <1>11 DEF ListInv

LEMMA ListInvNext == ListInv /\ [Next]_vars => ListInv'
<1> SUFFICES ASSUME ListInv, [Next]_vars PROVE ListInv'
  OBVIOUS
<1>1. CASE DlopenSelf
  <2>1. opened' = opened \union {1} /\ UNCHANGED <<startup, nb, maps, pc>>
    BY <1>1 DEF DlopenSelf
  <2>2. ListType => NbStart \in Nat /\ NbStart >= 2
    BY StartupFacts DEF ListType, NbStart
  <2>3. ListType => ListType'
    BY <2>1 DEF ListType, Node, NbStart, maps
  <2>4. ListType => Live' = Live
    BY <2>1, <2>2 DEF Live, NbStart
  <2>5. ListType /\ ListShape => ListShape'
    BY <2>1, <2>4 DEF ListShape, NbStart, maps
  <2> QED BY <2>1, <2>3, <2>5 DEF ListInv
<1>2. ASSUME NEW q \in Requests, Dlopen(q[1], q[2]) PROVE ListInv'
  <2>1. q[1] \in File /\ q[2] \in Flag BY LibdlAssumption
  <2> QED BY <1>2, <2>1, DlopenKeepsList
<1>3. ASSUME NEW h \in opened, Dlclose(h) PROVE ListInv'
  BY <1>3, DlcloseKeepsList
<1>4. ASSUME UNCHANGED <<startup, nb, maps, opened>>, pc = "run" \/ pc' = pc PROVE ListInv'
  <2>1. (ListType => ListType') /\ (ListShape => ListShape')
    BY <1>4 DEF ListType, ListShape, Live, Node, NbStart, maps
  <2> QED BY <1>4, <2>1 DEF ListInv
<1>5. ASSUME NEW q \in Requests, DlopenMissing(q[1]) PROVE ListInv'
  BY <1>4, <1>5 DEF DlopenMissing
<1>6. ASSUME NEW h \in opened, DlsymWild(h) PROVE ListInv'
  BY <1>4, <1>6 DEF DlsymWild
<1>7. ASSUME NEW m \in Node, NEW r \in DOMAIN slot[m], FirstCall(m, r) PROVE ListInv'
  BY <1>4, <1>7 DEF FirstCall
<1>8. CASE UNCHANGED vars
  BY <1>4, <1>8 DEF vars, maps
<1> QED BY <1>1, <1>2, <1>3, <1>5, <1>6, <1>7, <1>8 DEF Next

LEMMA ListInvariant == Spec => []ListInv
<1> QED BY ListInvInit, ListInvNext, PTL DEF Spec

-----------------------------------------------------------------------------

(* Whatever is opened and closed, the objects of startup stay linked, in      *)
(* order and both ways.                                                      *)
THEOREM StartupStaysLinked == Spec => []StartupPrefix
<1>1. ListInv => StartupPrefix
  BY DEF ListInv, ListShape, StartupPrefix
<1> QED BY <1>1, ListInvariant, PTL

(* No walk of the list, in either direction, can loop.                       *)
THEOREM NoEndlessWalk == Spec => []WalksEnd
<1>1. ListInv => WalksEnd
  <2> SUFFICES ASSUME ListInv, NEW m \in 1 .. nb
               PROVE  /\ l_next[m] # 0 => l_next[m] > m
                      /\ pc = "run" /\ m > 1 => l_prev[m] \in 1 .. (m - 1)
    BY DEF WalksEnd
  <2>1. startup \in Startups /\ NbStart \in Nat /\ nb \in Nat /\ m \in Node
    BY StartupFacts DEF ListInv, ListType, NbStart, Node
  <2> QED BY <2>1 DEF ListInv, ListType, ListShape
<1> QED BY <1>1, ListInvariant, PTL

(* A closed link_map cannot be reached from one in use.                      *)
THEOREM ClosedIsGone == Spec => []ClosedUnreachable
<1>1. ListInv => ClosedUnreachable
  BY DEF ListInv, ListShape, ClosedUnreachable
<1> QED BY <1>1, ListInvariant, PTL

-----------------------------------------------------------------------------

(* The objects a slot may be bound to: those of startup, when the last of     *)
(* them is the vdso, which no search gets past.                              *)
Bindable == IF HasVdso THEN 1 .. NbStart ELSE 1 .. nb

(* The rest of the type invariant, and what the slots are bound to.          *)
SlotInv ==
  /\ mode \in [Node -> Flag]
  /\ DOMAIN slot = Node
  /\ \A m \in Node : m > nb => l_prev[m] = 0 /\ DOMAIN slot[m] = {}
  /\ \A m \in 1 .. nb :
       DOMAIN slot[m] = IF mode[m].noload THEN {} ELSE DOMAIN Info[l_name[m]].plt
  /\ \A m \in 1 .. nb : \A r \in DOMAIN slot[m] : slot[m][r] \in {STUB} \union Bindable
  /\ \A p \in DOMAIN mem : mem[p] \in 1 .. nb
  /\ pc \in {"run", "exit", "trap", "crash"}

BindInv == ListInv /\ SlotInv

(* A search ends in no object or in the first that stops it.                 *)
LEMMA LookupFirst ==
  ASSUME NEW n \in Nat, NEW objs, DOMAIN objs = 1 .. n, NEW name,
         NEW l, l = LinkMapLookup(objs, name)
  PROVE  \/ l.res = "exit" /\ l.at = 0 /\ Stops(objs, name) = {}
         \/ /\ l.at \in Stops(objs, name) /\ \A k \in Stops(objs, name) : l.at <= k
            /\ l.res = Probe(objs[l.at], name)
            /\ l.res \in {"hit", "exit", "trap"}
<1> DEFINE S == Stops(objs, name)
           first == CHOOSE m \in S : \A k \in S : m <= k
<1>1. l = IF S = {} THEN [res |-> "exit", at |-> 0]
          ELSE [res |-> Probe(objs[first], name), at |-> first]
  BY DEF LinkMapLookup
<1>2. CASE S = {}
  BY <1>1, <1>2
<1>3. CASE S # {}
  <2>1. S \subseteq Nat BY DEF Stops
  <2>2. \E m \in S : \A k \in S : m <= k BY <2>1, <1>3, SmallestExists
  <2>3. first \in S /\ \A k \in S : first <= k BY <2>2
  <2>4. Probe(objs[first], name) \in {"hit", "exit", "trap"}
    <3>1. Probe(objs[first], name) # "none" BY <2>3 DEF Stops
    <3>2. Probe(objs[first], name) \in {"hit", "exit", "trap", "none"}
      BY DEF Probe, GnuHashLookup, HashLookup
    <3> QED BY <3>1, <3>2
  <2> HIDE DEF first
  <2>5. l.res = Probe(objs[first], name) /\ l.at = first BY <1>1, <1>3
  <2> QED BY <2>3, <2>4, <2>5
<1> QED BY <1>2, <1>3

(* The list collected from a link_map of S has only link_maps of S.          *)
LEMMA ListStaysIn ==
  ASSUME NEW M, NEW nxt, Forward(M, nxt),
         NEW from, Collects(M, nxt, from),
         NEW S, Stays(M, nxt, S)
  PROVE  \A x \in S : from[x] \in Seq(S)
<1> DEFINE Bad == {x \in S : from[x] \notin Seq(S)}
<1>1. /\ M \in Nat /\ S \subseteq 0 .. M /\ \A x \in S : x \in 1 .. M /\ x \in Int
      /\ \A x \in S : nxt[x] # 0 => nxt[x] \in S /\ nxt[x] > x
  BY DEF Forward, Stays
<1>2. ASSUME NEW x \in S, nxt[x] # 0 => from[nxt[x]] \in Seq(S) PROVE from[x] \in Seq(S)
  <2>1. from[x] = IF nxt[x] = 0 THEN <<x>> ELSE <<x>> \o from[nxt[x]]
    BY <1>1 DEF Collects
  <2>2. CASE nxt[x] = 0 BY <2>1, <2>2
  <2>3. CASE nxt[x] # 0
    <3>1. from[nxt[x]] \in Seq(S) BY <1>2, <2>3
    <3>2. from[x] = <<x>> \o from[nxt[x]] BY <2>1, <2>3
    <3> QED BY <3>1, <3>2
  <2> QED BY <2>2, <2>3
<1>3. ASSUME Bad # {} PROVE FALSE
  <2>1. Bad \subseteq 0 .. M BY <1>1
  <2>2. PICK b \in Bad : \A c \in Bad : c <= b
    <3> HIDE DEF Bad
    <3> QED BY <2>1, <1>1, <1>3, GreatestExists
  <2>3. b \in S /\ from[b] \notin Seq(S) OBVIOUS
  <2>4. nxt[b] # 0 => nxt[b] \in S /\ ~(nxt[b] <= b)
    <3> SUFFICES ASSUME nxt[b] # 0 PROVE nxt[b] \in S /\ ~(nxt[b] <= b)
      OBVIOUS
    <3>1. nxt[b] \in S /\ nxt[b] > b BY <1>1, <2>3
    <3>2. nxt[b] \in Int /\ b \in Int BY <1>1, <2>3, <3>1
    <3> QED BY <3>1, <3>2
  <2>5. nxt[b] # 0 => nxt[b] \notin Bad BY <2>4, <2>2
  <2> QED BY <1>2, <2>3, <2>4, <2>5
<1> QED BY <1>3

(* The first k link_maps are linked in order.                                *)
InARow(M, nxt, k) == k \in 1 .. M /\ \A x \in 1 .. k : x < k => nxt[x] = x + 1

(* A search from the head sees startup's objects first, in order.            *)
LEMMA ListStartsWith ==
  ASSUME NEW M, NEW nxt, Forward(M, nxt),
         NEW from, Collects(M, nxt, from),
         NEW k, InARow(M, nxt, k)
  PROVE  \A i \in 1 .. k : i \in DOMAIN from[1] /\ from[1][i] = i
<1>0. \A x \in 1 .. M : from[x] \in Seq(1 .. M)
  <2>1. Stays(M, nxt, 1 .. M)
    BY DEF Stays, Forward
  <2> QED BY <2>1, ListStaysIn
<1> USE <1>0 DEF InARow
<1> DEFINE Counts(x) == \A i \in x .. k : i - x + 1 \in DOMAIN from[x] /\ from[x][i - x + 1] = i
           Bad == {x \in 1 .. k : ~Counts(x)}
<1>1. M \in Nat /\ k \in Nat /\ k <= M
  BY DEF Forward
<1>2. \A x \in 1 .. M : from[x] = IF nxt[x] = 0 THEN <<x>> ELSE <<x>> \o from[nxt[x]]
  BY DEF Collects
<1>3. \A x \in 1 .. M : 1 \in DOMAIN from[x] /\ from[x][1] = x
  <2> SUFFICES ASSUME NEW x \in 1 .. M PROVE 1 \in DOMAIN from[x] /\ from[x][1] = x
    OBVIOUS
  <2>1. CASE nxt[x] = 0
    <3>1. from[x] = <<x>> BY <1>2, <2>1
    <3> QED BY <3>1
  <2>2. CASE nxt[x] # 0
    <3>1. nxt[x] \in 1 .. M BY <2>2 DEF Forward
    <3>2. from[nxt[x]] \in Seq(1 .. M) BY <3>1
    <3>3. from[x] = <<x>> \o from[nxt[x]] BY <1>2, <2>2
    <3> QED BY <3>2, <3>3
  <2> QED BY <2>1, <2>2
<1>4. Counts(k)
  <2>1. \A i \in k .. k : i = k /\ i - k + 1 = 1 BY <1>1
  <2> QED BY <1>3, <2>1
<1>5. ASSUME NEW x \in 1 .. k, x # k, Counts(x + 1) PROVE Counts(x)
  <2>1. nxt[x] = x + 1 /\ x + 1 \in 1 .. M /\ x \in 1 .. M BY <1>1, <1>5
  <2>2. from[x + 1] \in Seq(1 .. M) BY <2>1
  <2>3. from[x] = <<x>> \o from[x + 1]
    <3>1. nxt[x] # 0 BY <2>1
    <3>2. from[x] = <<x>> \o from[nxt[x]] BY <1>2, <2>1, <3>1
    <3> QED BY <2>1, <3>2
  <2> SUFFICES ASSUME NEW i \in x .. k
               PROVE  i - x + 1 \in DOMAIN from[x] /\ from[x][i - x + 1] = i
    OBVIOUS
  <2>4. CASE i = x
    <3>1. i - x + 1 = 1 BY <2>4
    <3> QED BY <1>3, <2>1, <2>4, <3>1
  <2>5. CASE i # x
    <3> DEFINE j == i - (x + 1) + 1
               s == from[x + 1]
    <3>1. i \in (x + 1) .. k BY <2>5
    <3>2. j \in DOMAIN s /\ s[j] = i BY <3>1, <1>5
    <3>3. i - x + 1 = j + 1 OBVIOUS
    <3> HIDE DEF j, s
    <3>4. s \in Seq(1 .. M) BY <2>2 DEF s
    <3>5. j + 1 \in DOMAIN (<<x>> \o s) /\ (<<x>> \o s)[j + 1] = s[j]
      BY <3>2, <3>4
    <3> QED BY <3>2, <3>3, <3>5, <2>3 DEF s
  <2> QED BY <2>4, <2>5
<1> HIDE DEF Counts
<1>6. ASSUME Bad # {} PROVE FALSE
  <2>1. Bad \subseteq 0 .. k OBVIOUS
  <2>2. PICK b \in Bad : \A c \in Bad : c <= b
    <3> HIDE DEF Bad
    <3> QED BY <2>1, <1>1, <1>6, GreatestExists
  <2>3. b \in 1 .. k /\ ~Counts(b) OBVIOUS
  <2>4. b # k BY <2>3, <1>4
  <2>5. b + 1 \in 1 .. k /\ ~(b + 1 <= b) BY <2>3, <2>4
  <2>6. Counts(b + 1) BY <2>2, <2>5
  <2> QED BY <1>5, <2>3, <2>4, <2>6
<1>7. Counts(1)
  <2>1. 1 \in 1 .. k BY <1>1
  <2> QED BY <1>6, <2>1
<1>8. \A i \in 1 .. k : i - 1 + 1 = i OBVIOUS
<1> QED BY <1>7, <1>8 DEF Counts

(* l_prev leads to the head.                                                 *)
LEMMA HeadIsFirst ==
  ASSUME NEW M \in Nat, NEW prv, NEW head, Climbs(M, prv, head),
         NEW n \in 1 .. M, prv[1] = 0, \A x \in 2 .. n : prv[x] \in 1 .. (x - 1)
  PROVE  \A x \in 1 .. n : head[x] = 1
<1> DEFINE Bad == {x \in 1 .. n : head[x] # 1}
<1>1. \A x \in 1 .. n : x \in 1 .. M /\ head[x] = IF prv[x] = 0 THEN x ELSE head[prv[x]]
  BY DEF Climbs
<1>2. ASSUME Bad # {} PROVE FALSE
  <2>1. Bad \subseteq Nat OBVIOUS
  <2>2. PICK b \in Bad : \A c \in Bad : b <= c
    <3> HIDE DEF Bad
    <3> QED BY <2>1, <1>2, SmallestExists
  <2>3. b \in 1 .. n /\ head[b] # 1 OBVIOUS
  <2>4. b \in 2 .. n
    <3>1. b # 1 BY <1>1, <2>3
    <3> QED BY <2>3, <3>1
  <2>5. prv[b] \in 1 .. n /\ ~(b <= prv[b]) /\ prv[b] # 0
    <3>1. prv[b] \in 1 .. (b - 1) BY <2>4
    <3> QED BY <2>3, <3>1
  <2>6. head[prv[b]] = 1 BY <2>2, <2>5
  <2> QED BY <1>1, <2>3, <2>5, <2>6
<1> QED BY <1>2

(* The list from a link_map in use has only link_maps in use; from the first  *)
(* one, it starts with startup's.                                            *)
LEMMA ListFromFacts ==
  ASSUME ListInv, pc = "run"
  PROVE  /\ \A m \in Live : ListFrom(m) \in Seq(Live)
         /\ \A i \in 1 .. NbStart : i \in DOMAIN ListFrom(1) /\ ListFrom(1)[i] = i
<1> DEFINE M == NbStart + MaxOpen
           from1 == CHOOSE from : Collects(M, l_next, from)
<1>1. ListType /\ ListShape
  BY DEF ListInv
<1>2. startup \in Startups /\ NbStart \in Nat /\ NbStart >= 2 /\ MaxOpen \in Nat
  BY <1>1, StartupFacts DEF ListType, NbStart
<1>3. Forward(M, l_next)
  BY <1>1, <1>2 DEF ListType, Node, Forward
<1>4. Collects(M, l_next, from1)
  BY <1>3, ListExists
<1>5. \A m : ListFrom(m) = from1[m]
  BY DEF ListFrom, Node, Collects
<1> HIDE DEF from1
<1>6. \A m \in Live : from1[m] \in Seq(Live)
  <2>1. Stays(M, l_next, Live)
    BY <1>1, <1>2 DEF ListType, ListShape, Live, Stays
  <2> HIDE DEF M
  <2> QED BY <1>3, <1>4, <2>1, ListStaysIn
<1>7. \A i \in 1 .. NbStart : i \in DOMAIN from1[1] /\ from1[1][i] = i
  <2>1. NbStart \in 1 .. M
    BY <1>2
  <2>2. InARow(M, l_next, NbStart)
    BY <1>1, <2>1 DEF ListShape, InARow
  <2> HIDE DEF M
  <2> QED BY <1>3, <1>4, <2>2, ListStartsWith
<1> QED BY <1>5, <1>6, <1>7

(* What a search of the list ends in.                                        *)
LEMMA LookupFacts ==
  ASSUME ListInv, pc = "run", NEW m \in Live, NEW name
  PROVE  /\ LookupFrom(m, name).res \in {"hit", "exit", "trap"}
         /\ LookupFrom(m, name).res = "hit" => LookupFrom(m, name).at \in Live
<1> DEFINE list == ListFrom(m)
           objs == [x \in DOMAIN list |-> Info[l_name[list[x]]].table]
           l == LinkMapLookup(objs, name)
<1>1. list \in Seq(Live)
  BY ListFromFacts
<1>2. LookupFrom(m, name) = [l EXCEPT !.at = IF l.at = 0 THEN 0 ELSE list[l.at]]
  BY DEF LookupFrom
<1>3. DOMAIN objs = 1 .. Len(list) /\ Len(list) \in Nat
  BY <1>1
<1>4. l \in [res : {"hit", "exit", "trap"}, at : Nat] /\ (l.res = "hit" => l.at \in DOMAIN list)
  <2>1. DOMAIN l = {"res", "at"} /\ l = [res |-> l.res, at |-> l.at]
    BY DEF LinkMapLookup
  <2> HIDE DEF objs
  <2>2. PICK k : k = l OBVIOUS
  <2>3. \/ k.res = "exit" /\ k.at = 0
        \/ k.at \in Stops(objs, name) /\ k.res \in {"hit", "exit", "trap"}
    BY <1>3, <2>2, LookupFirst
  <2>4. Stops(objs, name) \subseteq 1 .. Len(list)
    BY <1>3 DEF Stops
  <2>5. k.res \in {"hit", "exit", "trap"} /\ k.at \in Nat
    BY <2>3, <2>4, <1>3
  <2>6. k.res = "hit" => k.at \in DOMAIN list
    BY <2>3, <2>4, <1>1
  <2> HIDE DEF l
  <2> QED BY <2>1, <2>2, <2>5, <2>6
<1> HIDE DEF l
<1>5. LookupFrom(m, name).res = l.res
  BY <1>2, <1>4
<1>6. LookupFrom(m, name).at = IF l.at = 0 THEN 0 ELSE list[l.at]
  BY <1>2, <1>4
<1>7. l.res = "hit" => l.at # 0 /\ list[l.at] \in Live
  BY <1>1, <1>4
<1> QED BY <1>4, <1>5, <1>6, <1>7

(* A first call searches from the executable, and finds nothing that was not  *)
(* there at startup when the vdso is.                                        *)
LEMMA HeadLookup ==
  ASSUME BindInv, pc = "run", NEW m \in Live, NEW name
  PROVE  /\ HeadOf(m) = 1 /\ 1 \in Live
         /\ LookupFrom(1, name).res = "hit" => LookupFrom(1, name).at \in Bindable
<1>1. ListType /\ ListShape /\ SlotInv
  BY DEF BindInv, ListInv
<1>2. /\ startup \in Startups /\ NbStart \in Nat /\ NbStart >= 2 /\ MaxOpen \in Nat
      /\ nb \in Nat /\ NbStart <= nb /\ nb <= NbStart + MaxOpen
  BY <1>1, StartupFacts DEF ListType, NbStart
<1>3. Live \subseteq 1 .. nb /\ 1 \in Live
  BY <1>1, <1>2 DEF ListType, Live
<1>4. HeadOf(m) = 1
  <2> DEFINE M == NbStart + MaxOpen
             head1 == CHOOSE head : Climbs(M, l_prev, head)
  <2>1. M \in Nat /\ nb \in 1 .. M BY <1>2
  <2>2. l_prev[1] = 0 BY <1>1, <1>2 DEF ListShape
  <2>3. \A x \in 2 .. nb : l_prev[x] \in 1 .. (x - 1) BY <1>1 DEF ListShape
  <2>4. \A x \in 1 .. M : l_prev[x] \in 0 .. (x - 1)
    <3> SUFFICES ASSUME NEW x \in 1 .. M PROVE l_prev[x] \in 0 .. (x - 1)
      OBVIOUS
    <3>1. CASE x = 1 BY <2>2, <3>1
    <3>2. CASE x \in 2 .. nb BY <2>3, <3>2
    <3>3. CASE x > nb
      <4>1. l_prev[x] = 0 BY <3>3, <1>1 DEF SlotInv, Node
      <4> QED BY <4>1
    <3> QED BY <3>1, <3>2, <3>3, <1>2
  <2>5. Climbs(M, l_prev, head1) BY <2>1, <2>4, HeadExists
  <2>6. HeadOf(m) = head1[m] BY DEF HeadOf, Node, Climbs
  <2> HIDE DEF M, head1
  <2>7. \A x \in 1 .. nb : head1[x] = 1 BY <2>1, <2>2, <2>3, <2>5, HeadIsFirst
  <2> QED BY <1>3, <2>6, <2>7
<1>5. ASSUME LookupFrom(1, name).res = "hit" PROVE LookupFrom(1, name).at \in Bindable
  <2>1. CASE ~HasVdso
    <3>1. LookupFrom(1, name).at \in Live
      BY <1>3, <1>5, LookupFacts DEF BindInv
    <3> QED BY <1>3, <2>1, <3>1 DEF Bindable
  <2>2. CASE HasVdso
    <3> DEFINE list == ListFrom(1)
               objs == [x \in DOMAIN list |-> Info[l_name[list[x]]].table]
               l == LinkMapLookup(objs, name)
    <3>1. list \in Seq(Live) /\ \A i \in 1 .. NbStart : i \in DOMAIN list /\ list[i] = i
      BY <1>3, ListFromFacts DEF BindInv
    <3>2. LookupFrom(1, name) = [l EXCEPT !.at = IF l.at = 0 THEN 0 ELSE list[l.at]]
      BY DEF LookupFrom
    <3>3. DOMAIN objs = 1 .. Len(list) /\ Len(list) \in Nat
      BY <3>1
    <3>4. NbStart \in Stops(objs, name) /\ Probe(objs[NbStart], name) = "exit"
      <4>1. NbStart \in DOMAIN objs /\ objs[NbStart] = Info[l_name[NbStart]].table
        BY <1>2, <3>1
      <4>2. ~objs[NbStart].opens BY <2>2, <4>1 DEF HasVdso
      <4> HIDE DEF objs
      <4>3. Probe(objs[NbStart], name) = "exit" BY <4>2 DEF Probe, GnuHashLookup
      <4> QED BY <4>1, <4>3 DEF Stops
    <3> HIDE DEF list
    <3>5. PICK k : k = l OBVIOUS
    <3> HIDE DEF objs
    <3>6. k.at \in Stops(objs, name) /\ k.at <= NbStart /\ k.res = Probe(objs[k.at], name)
      BY <3>3, <3>4, <3>5, LookupFirst
    <3>7. DOMAIN l = {"res", "at"} BY DEF LinkMapLookup
    <3>8. LookupFrom(1, name).res = k.res
      <4> HIDE DEF l
      <4> QED BY <3>2, <3>5, <3>7
    <3>9. LookupFrom(1, name).at = IF k.at = 0 THEN 0 ELSE list[k.at]
      <4> HIDE DEF l
      <4> QED BY <3>2, <3>5, <3>7
    <3> HIDE DEF l
    <3>10. k.at \in 1 .. NbStart
      <4>1. k.at \in 1 .. Len(list) BY <3>3, <3>6 DEF Stops
      <4> QED BY <4>1, <3>3, <3>6, <1>2
    <3>11. LookupFrom(1, name).at = k.at BY <3>1, <3>9, <3>10
    <3> QED BY <2>2, <3>10, <3>11 DEF Bindable
  <2> QED BY <2>1, <2>2
<1> QED BY <1>3, <1>4, <1>5

LEMMA BindInvInit == Init => BindInv
<1> SUFFICES ASSUME Init PROVE BindInv
  OBVIOUS
<1>1. ListInv
  BY ListInvInit
<1>2. NbStart \in Nat /\ NbStart >= 2 /\ MaxOpen \in Nat /\ nb = NbStart
  BY StartupFacts DEF Init, NbStart
<1>3. [bind |-> "lazy", noload |-> FALSE, global |-> TRUE] \in Flag
  BY DEF Flag
<1>4. mode \in [Node -> Flag] /\ \A m \in Node : ~mode[m].noload
  BY <1>3 DEF Init
<1>5. \A m \in 1 .. NbStart : m \in Node
  BY <1>2 DEF Node
<1>6. /\ DOMAIN slot = Node
      /\ \A m \in Node : m > nb => l_prev[m] = 0 /\ DOMAIN slot[m] = {}
  <2>1. DOMAIN slot = Node /\ DOMAIN l_prev = Node BY DEF Init
  <2>2. ASSUME NEW m \in Node, m > nb PROVE l_prev[m] = 0 /\ DOMAIN slot[m] = {}
    <3>1. ~(m <= NbStart) BY <1>2, <2>2 DEF Node
    <3>2. l_prev[m] = 0 BY <3>1 DEF Init
    <3>3. slot[m] = <<>> BY <3>1 DEF Init
    <3>4. DOMAIN <<>> = {} OBVIOUS
    <3> QED BY <3>2, <3>3, <3>4
  <2> QED BY <2>1, <2>2
<1>7. \A m \in 1 .. nb : slot[m] = Stubs(l_name[m])
  BY <1>2, <1>5 DEF Init
<1>8. \A p \in DOMAIN mem : mem[p] \in 1 .. nb
  <2> SUFFICES ASSUME NEW p \in DOMAIN mem PROVE mem[p] \in 1 .. nb
    OBVIOUS
  <2>1. PICK m \in 1 .. NbStart : p \in Pages(l_name[m], l_addr[m])
    BY DEF Init
  <2>2. mem[p] = CHOOSE o \in 1 .. NbStart : p \in Pages(l_name[o], l_addr[o])
    BY DEF Init
  <2> QED BY <2>1, <2>2, <1>2
<1>9. SlotInv
  <2>1. \A m \in 1 .. nb : DOMAIN slot[m] = DOMAIN Info[l_name[m]].plt
    BY <1>7 DEF Stubs
  <2>2. \A m \in 1 .. nb : \A r \in DOMAIN slot[m] : slot[m][r] = STUB
    BY <1>7 DEF Stubs
  <2>3. pc = "run" BY DEF Init
  <2> QED BY <1>2, <1>4, <1>5, <1>6, <1>8, <2>1, <2>2, <2>3 DEF SlotInv
<1> QED BY <1>1, <1>9 DEF BindInv

(* What every step shares: the facts about the list before it.               *)
LEMMA BindFacts ==
  ASSUME BindInv
  PROVE  /\ startup \in Startups /\ NbStart \in Nat /\ NbStart >= 2 /\ MaxOpen \in Nat
         /\ nb \in Nat /\ NbStart <= nb /\ nb <= NbStart + MaxOpen
         /\ \A m \in 1 .. nb : m \in Node
         /\ opened \subseteq 1 .. nb /\ Live \subseteq 1 .. nb
<1>1. ListType
  BY DEF BindInv, ListInv
<1>2. startup \in Startups /\ NbStart \in Nat /\ NbStart >= 2 /\ MaxOpen \in Nat
  BY <1>1, StartupFacts DEF ListType, NbStart
<1> QED BY <1>1, <1>2 DEF ListType, Live, Node

(* dlopen() may end the process, but does not crash by itself.               *)
LEMMA OutcomeType ==
  ASSUME ListInv, pc = "run", NEW tail \in Live, NEW file \in File, NEW flags
  PROVE  Outcome(file, tail, flags) \in {"run", "exit", "trap"}
<1> DEFINE failed == FailedDyn(file, tail)
           first == CHOOSE r \in failed : \A q \in failed : r <= q
<1>1. \A name : LookupFrom(tail, name).res \in {"hit", "exit", "trap"}
  BY LookupFacts
<1>2. failed # {} => first \in failed
  <2>1. Info[file].dyn \in Seq(Symbol)
    BY LibdlAssumption DEF FileInfo
  <2>2. failed \subseteq Nat
    BY <2>1 DEF FailedDyn
  <2> HIDE DEF failed
  <2>3. failed # {} => \E r \in failed : \A q \in failed : r <= q
    BY <2>2, SmallestExists
  <2> QED BY <2>3
<1>3. failed # {} => LookupFrom(tail, Info[file].dyn[first]).res \in {"exit", "trap"}
  BY <1>1, <1>2 DEF FailedDyn
<1> HIDE DEF failed
<1> QED BY <1>3 DEF Outcome, failed

(* dlopen(): the new library's slots are stubs, and no other slot changes.    *)
LEMMA DlopenKeepsSlots ==
  ASSUME BindInv, NEW file \in File, NEW flags \in Flag, Dlopen(file, flags)
  PROVE  SlotInv'
<1> DEFINE new == nb + 1
           tail == ListTail
<1>1. ListInv /\ SlotInv /\ pc = "run" /\ nb < NbStart + MaxOpen
  BY DEF BindInv, Dlopen
<1>2. /\ startup \in Startups /\ NbStart \in Nat /\ NbStart >= 2 /\ MaxOpen \in Nat
      /\ nb \in Nat /\ NbStart <= nb /\ nb <= NbStart + MaxOpen
      /\ (\A m \in 1 .. nb : m \in Node) /\ Live \subseteq 1 .. nb
  BY BindFacts
<1>3. tail \in Live /\ tail \in NbStart .. nb
  BY <1>1, TailIsLast
<1>4. new \in Node /\ new \notin 1 .. nb /\ new \notin 1 .. NbStart
  BY <1>1, <1>2 DEF Node
<1> HIDE DEF tail
<1>5. /\ nb' = new /\ startup' = startup
      /\ l_name' = [l_name EXCEPT ![new] = file]
      /\ l_prev' = [l_prev EXCEPT ![new] = tail]
      /\ mode' = [mode EXCEPT ![new] = flags]
      /\ mem' = IF flags.noload THEN mem
                ELSE Override(mem, [p \in Pages(file, NewAddr(tail)) |-> new])
      /\ slot' = IF flags.noload THEN slot ELSE [slot EXCEPT ![new] = Stubs(file)]
      /\ pc' = Outcome(file, tail, flags)
  BY DEF Dlopen, tail
<1>6. l_name \in [Node -> File] /\ l_prev \in [Node -> 0 .. nb]
  BY <1>1 DEF ListInv, ListType
<1> HIDE DEF new
<1>7. NbStart' = NbStart /\ Node' = Node
  BY <1>5 DEF NbStart, Node
<1>8. HasVdso' = HasVdso
  <2>1. NbStart \in Node /\ NbStart # new BY <1>2, <1>4
  <2> QED BY <2>1, <1>5, <1>6, <1>7 DEF HasVdso
<1>9. Bindable \subseteq Bindable' /\ \A m : m \in 1 .. nb' => m = new \/ m \in 1 .. nb
  BY <1>2, <1>5, <1>7, <1>8 DEF Bindable, new
<1>10. mode' \in [Node -> Flag] /\ mode'[new] = flags /\ \A m \in 1 .. nb : mode'[m] = mode[m]
  BY <1>1, <1>2, <1>4, <1>5 DEF SlotInv
<1>11. l_name'[new] = file /\ \A m \in 1 .. nb : l_name'[m] = l_name[m]
  BY <1>2, <1>4, <1>5, <1>6
<1>12. /\ DOMAIN slot' = Node
       /\ slot'[new] = IF flags.noload THEN slot[new] ELSE Stubs(file)
       /\ \A m \in Node : m # new => slot'[m] = slot[m]
  BY <1>1, <1>4, <1>5 DEF SlotInv
<1>13. DOMAIN slot'[new] = IF flags.noload THEN {} ELSE DOMAIN Info[file].plt
  <2>1. DOMAIN slot[new] = {} BY <1>1, <1>2, <1>4 DEF SlotInv, new
  <2> QED BY <2>1, <1>12 DEF Stubs
<1>14. \A r \in DOMAIN slot'[new] : slot'[new][r] = STUB
  <2>1. DOMAIN slot[new] = {} BY <1>1, <1>2, <1>4 DEF SlotInv, new
  <2> QED BY <2>1, <1>12 DEF Stubs
<1>15. \A m \in Node : m > nb' => l_prev'[m] = 0 /\ DOMAIN slot'[m] = {}
  <2> SUFFICES ASSUME NEW m \in Node, m > nb' PROVE l_prev'[m] = 0 /\ DOMAIN slot'[m] = {}
    OBVIOUS
  <2>1. m \in Int BY <1>2 DEF Node
  <2>2. m > nb /\ m # new BY <2>1, <1>2, <1>5 DEF new
  <2> QED BY <2>2, <1>1, <1>5, <1>6, <1>12 DEF SlotInv
<1>16. \A p \in DOMAIN mem' : mem'[p] \in 1 .. nb'
  <2>1. 1 .. nb \subseteq 1 .. nb' /\ new \in 1 .. nb' BY <1>2, <1>5 DEF new
  <2>2. \A p \in DOMAIN mem : mem[p] \in 1 .. nb BY <1>1 DEF SlotInv
  <2> QED BY <1>5, <2>1, <2>2 DEF Override
<1>17. pc' \in {"run", "exit", "trap"}
  BY <1>1, <1>3, <1>5, OutcomeType
<1>18. SlotInv'
  <2>1. (\A m \in 1 .. nb : DOMAIN slot[m] = IF mode[m].noload THEN {} ELSE DOMAIN Info[l_name[m]].plt)'
    <3> SUFFICES ASSUME NEW m \in 1 .. nb'
                 PROVE  DOMAIN slot'[m] = IF mode'[m].noload THEN {} ELSE DOMAIN Info[l_name'[m]].plt
      OBVIOUS
    <3>1. CASE m = new BY <3>1, <1>10, <1>11, <1>13
    <3>2. CASE m \in 1 .. nb
      <4>1. slot'[m] = slot[m] BY <3>2, <1>2, <1>4, <1>12
      <4>2. mode'[m] = mode[m] /\ l_name'[m] = l_name[m] BY <3>2, <1>10, <1>11
      <4> QED BY <3>2, <4>1, <4>2, <1>1 DEF SlotInv
    <3> QED BY <3>1, <3>2, <1>9
  <2>2. (\A m \in 1 .. nb : \A r \in DOMAIN slot[m] : slot[m][r] \in {STUB} \union Bindable)'
    <3> SUFFICES ASSUME NEW m \in 1 .. nb', NEW r \in DOMAIN slot'[m]
                 PROVE  slot'[m][r] \in {STUB} \union Bindable'
      OBVIOUS
    <3>1. CASE m = new BY <3>1, <1>14
    <3>2. CASE m \in 1 .. nb
      <4>1. slot'[m] = slot[m] BY <3>2, <1>2, <1>4, <1>12
      <4>2. slot[m][r] \in {STUB} \union Bindable BY <3>2, <4>1, <1>1 DEF SlotInv
      <4> QED BY <4>1, <4>2, <1>9
    <3> QED BY <3>1, <3>2, <1>9
  <2> QED BY <2>1, <2>2, <1>7, <1>10, <1>12, <1>15, <1>16, <1>17 DEF SlotInv
<1> QED BY <1>18

(* dlclose() touches no slot, and makes l_prev of one link_map in use what    *)
(* that of the closed one was.                                               *)
LEMMA DlcloseKeepsSlots ==
  ASSUME BindInv, NEW h \in opened, Dlclose(h)
  PROVE  SlotInv'
<1>1. ListInv /\ SlotInv /\ pc = "run"
  BY DEF BindInv, Dlclose
<1>2. nb \in Nat /\ NbStart <= nb /\ NbStart \in Nat /\ opened \subseteq 1 .. nb /\ Live \subseteq 1 .. nb
  BY BindFacts
<1>3. /\ UNCHANGED <<startup, nb, l_name, mode, slot>>
      /\ mem' = [p \in DOMAIN mem \ Unmapped(h) |-> mem[p]]
      /\ l_prev' = CutPrev(h)
      /\ pc' \in {"run", "crash"}
  BY DEF Dlclose
<1>4. NbStart' = NbStart /\ Node' = Node /\ HasVdso' = HasVdso /\ Bindable' = Bindable
  BY <1>3 DEF NbStart, Node, HasVdso, Bindable
<1>5. \A m \in Node : m > nb => l_prev'[m] = 0
  <2> SUFFICES ASSUME NEW m \in Node, m > nb PROVE l_prev'[m] = 0
    OBVIOUS
  <2>1. l_prev[m] = 0 BY <1>1 DEF SlotInv
  <2>2. l_next[h] \in 0 .. nb
    <3>1. h \in Live BY DEF Live
    <3>2. l_next[h] # 0 => l_next[h] \in Live BY <1>1, <3>1 DEF ListInv, ListShape
    <3>3. 0 \in 0 .. nb /\ 1 .. nb \subseteq 0 .. nb BY <1>2
    <3> QED BY <3>2, <3>3, <1>2
  <2>3. m # l_next[h] BY <2>2, <1>2
  <2>4. l_prev \in [Node -> 0 .. nb] BY <1>1 DEF ListInv, ListType
  <2> QED BY <2>1, <2>3, <2>4, <1>3 DEF CutPrev
<1>6. \A p \in DOMAIN mem' : mem'[p] \in 1 .. nb
  BY <1>1, <1>3 DEF SlotInv
<1> QED BY <1>1, <1>3, <1>4, <1>5, <1>6 DEF SlotInv

(* A first call binds one slot to what the search from the head found.        *)
LEMMA FirstCallKeepsSlots ==
  ASSUME BindInv, NEW m \in Node, NEW r \in DOMAIN slot[m], FirstCall(m, r)
  PROVE  SlotInv'
<1> DEFINE l == LookupFrom(HeadOf(m), Info[l_name[m]].plt[r])
<1>1. ListInv /\ SlotInv /\ pc = "run" /\ m \in Live
  BY DEF BindInv, FirstCall, Live
<1>2. /\ UNCHANGED <<startup, nb, maps, mode, mem, opened>>
      /\ \/ l.res = "hit" /\ slot' = [slot EXCEPT ![m][r] = l.at] /\ UNCHANGED pc
         \/ l.res # "hit" /\ pc' = l.res /\ UNCHANGED slot
  BY DEF FirstCall
<1>3. HeadOf(m) = 1 /\ 1 \in Live
  BY <1>1, HeadLookup
<1>4. l.res \in {"hit", "exit", "trap"}
  BY <1>1, <1>3, LookupFacts
<1>5. l.res = "hit" => l.at \in Bindable
  BY <1>1, <1>3, HeadLookup
<1> HIDE DEF l
<1>6. /\ NbStart' = NbStart /\ Node' = Node /\ HasVdso' = HasVdso /\ Bindable' = Bindable
      /\ l_prev' = l_prev /\ l_name' = l_name
  BY <1>2 DEF NbStart, Node, HasVdso, Bindable, maps
<1>7. CASE l.res = "hit"
  <2>1. slot' = [slot EXCEPT ![m] = [slot[m] EXCEPT ![r] = l.at]] /\ pc' = pc
    BY <1>2, <1>7
  <2>2. DOMAIN slot' = Node /\ \A x \in Node : DOMAIN slot'[x] = DOMAIN slot[x]
    BY <1>1, <2>1 DEF SlotInv
  <2>3. \A x \in Node : \A q \in DOMAIN slot[x] : slot'[x][q] \in {slot[x][q], l.at}
    BY <1>1, <2>1 DEF SlotInv
  <2>4. \A x \in 1 .. nb : x \in Node
    BY BindFacts
  <2>5. \A x \in 1 .. nb : \A q \in DOMAIN slot'[x] : slot'[x][q] \in {STUB} \union Bindable
    BY <1>1, <1>5, <1>7, <2>2, <2>3, <2>4 DEF SlotInv
  <2> QED BY <1>1, <1>2, <1>6, <2>1, <2>2, <2>4, <2>5 DEF SlotInv
<1>8. CASE l.res # "hit"
  <2>1. slot' = slot /\ pc' \in {"exit", "trap"}
    BY <1>2, <1>4, <1>8
  <2> QED BY <1>1, <1>2, <1>6, <2>1 DEF SlotInv
<1> QED BY <1>7, <1>8

LEMMA BindInvNext == BindInv /\ [Next]_vars => BindInv'
<1> SUFFICES ASSUME BindInv, [Next]_vars PROVE BindInv'
  OBVIOUS
<1>1. ListInv'
  BY ListInvNext DEF BindInv
<1> SUFFICES SlotInv'
  BY <1>1 DEF BindInv
<1>2. ASSUME UNCHANGED <<startup, nb, maps, mode, slot, mem>>,
             pc' \in {"run", "exit", "trap", "crash"}
      PROVE  SlotInv'
  <2>1. NbStart' = NbStart /\ Node' = Node /\ l_name' = l_name /\ l_prev' = l_prev
    BY <1>2 DEF NbStart, Node, maps
  <2>2. Bindable' = Bindable
    BY <1>2, <2>1 DEF Bindable, HasVdso
  <2> QED BY <1>2, <2>1, <2>2 DEF BindInv, SlotInv
<1>3. pc \in {"run", "exit", "trap", "crash"}
  BY DEF BindInv, SlotInv
<1>4. CASE DlopenSelf
  BY <1>2, <1>3, <1>4 DEF DlopenSelf
<1>5. ASSUME NEW q \in Requests, DlopenMissing(q[1]) PROVE SlotInv'
  BY <1>2, <1>5 DEF DlopenMissing
<1>6. ASSUME NEW q \in Requests, Dlopen(q[1], q[2]) PROVE SlotInv'
  <2>1. q[1] \in File /\ q[2] \in Flag BY LibdlAssumption
  <2> QED BY <1>6, <2>1, DlopenKeepsSlots
<1>7. ASSUME NEW h \in opened, Dlclose(h) PROVE SlotInv'
  BY <1>7, DlcloseKeepsSlots
<1>8. ASSUME NEW h \in opened, DlsymWild(h) PROVE SlotInv'
  BY <1>2, <1>8 DEF DlsymWild
<1>9. ASSUME NEW m \in Node, NEW r \in DOMAIN slot[m], FirstCall(m, r) PROVE SlotInv'
  BY <1>9, FirstCallKeepsSlots
<1>10. CASE UNCHANGED vars
  BY <1>2, <1>3, <1>10 DEF vars, maps
<1> QED BY <1>4, <1>5, <1>6, <1>7, <1>8, <1>9, <1>10 DEF Next

LEMMA BindInvariant == Spec => []BindInv
<1> QED BY BindInvInit, BindInvNext, PTL DEF Spec

(* No slot of a link_map in use is bound to one that was closed.              *)
THEOREM NoSlotDangles == Spec => []NoDanglingBinding
<1>1. BindInv => NoDanglingBinding
  <2> SUFFICES ASSUME BindInv PROVE NoDanglingBinding
    OBVIOUS
  <2>1. /\ NbStart \in Nat /\ NbStart >= 2 /\ nb \in Nat /\ NbStart <= nb /\ MaxOpen \in Nat
        /\ nb <= NbStart + MaxOpen /\ opened \subseteq 1 .. nb /\ Live \subseteq 1 .. nb
    BY BindFacts
  <2>2. ListType /\ SlotInv
    BY DEF BindInv, ListInv
  <2>3. Bindable \subseteq 1 .. nb
    BY <2>1 DEF Bindable
  <2>4. TypeOK
    <3>1. \A m \in 1 .. nb : \A r \in DOMAIN slot[m] : slot[m][r] \in {STUB} \union 1 .. nb
      BY <2>2, <2>3 DEF SlotInv
    <3> QED BY <2>1, <2>2, <3>1 DEF TypeOK, ListType, SlotInv
  <2>5. HasVdso => Bindable \subseteq Live
    BY DEF Bindable, Live
  <2>6. ASSUME HasVdso, NEW m \in Live, NEW r \in DOMAIN slot[m], slot[m][r] # STUB
        PROVE  slot[m][r] \in Live
    <3>1. m \in 1 .. nb BY <2>1
    <3> QED BY <2>2, <2>5, <2>6, <3>1 DEF SlotInv
  <2> QED BY <2>4, <2>6 DEF NoDanglingBinding
<1> QED BY <1>1, BindInvariant, PTL

-----------------------------------------------------------------------------

(* Where a library may be: k times six pages behind one of startup's.        *)
OnShelf(addr, n) == \E b \in Behind : \E k \in 1 .. n : addr = startup[b].addr + 6 * k

Placed ==
  /\ \A m \in 1 .. NbStart : l_name[m] = startup[m].name /\ l_addr[m] = startup[m].addr
  /\ \A m \in (NbStart + 1) .. nb : \E q \in Requests : l_name[m] = q[1]
  /\ \A m \in (NbStart + 1) .. nb : OnShelf(l_addr[m], m - NbStart)

(* No other library was given the address of h.                              *)
Alone(h) == \A o \in (NbStart + 1) .. nb : o # h => l_addr[o] # l_addr[h]

(* The images that are where they were loaded.                               *)
Images ==
  /\ \A m \in 1 .. NbStart : Intact(m)
  /\ \A h \in opened : h > NbStart /\ ~mode[h].noload /\ Alone(h) => Intact(h)

PlaceInv ==
  /\ BindInv
  /\ Placed
  /\ Room /\ pc = "run" => Images
  /\ CrashHasCause

(* A library takes six pages at most, where Room holds.                      *)
LEMMA PagesWithin ==
  ASSUME NEW file \in File, Info[file].first + Info[file].span <= 6, NEW addr \in Nat
  PROVE  Pages(file, addr) \subseteq addr .. (addr + 5)
<1>1. Info[file].first \in Nat /\ Info[file].span \in Nat
  BY LibdlAssumption DEF FileInfo
<1> QED BY <1>1 DEF Pages

(* The pages of a library on a shelf, from what Room says.                   *)
LEMMA ShelfFacts ==
  ASSUME BindInv, Room, NEW q \in Requests, NEW n \in 0 .. MaxOpen, NEW addr, OnShelf(addr, n)
  PROVE  /\ addr \in Nat
         /\ \A m \in 1 .. NbStart : Pages(q[1], addr) \intersect Image(m) = {}
         /\ Pages(q[1], addr) \intersect 0 .. 5 = {}
         /\ \A p \in Requests, l \in 0 .. MaxOpen : \A a :
              OnShelf(a, l) /\ a # addr => Pages(q[1], addr) \intersect Pages(p[1], a) = {}
<1>1. startup \in Startups /\ NbStart \in Nat /\ NbStart >= 2 /\ MaxOpen \in Nat
  BY BindFacts
<1>2. ASSUME NEW b \in Behind PROVE startup[b].addr \in Nat
  <2>1. b \in 1 .. NbStart BY <1>1 DEF Behind
  <2>2. b \in 1 .. Len(startup) BY <2>1 DEF NbStart
  <2> QED BY <1>1, <2>2, StartupFacts
<1>3. ASSUME NEW l \in 0 .. MaxOpen, NEW b \in Behind, NEW k \in 1 .. l, NEW a,
             a = startup[b].addr + 6 * k
      PROVE  a \in Nat /\ a .. (a + 5) \subseteq Shelf(b)
  <2> DEFINE s == startup[b].addr
  <2>1. s \in Nat /\ k \in Nat /\ k >= 1 /\ k <= MaxOpen
    BY <1>1, <1>2
  <2>2. a = s + 6 * k
    BY <1>3
  <2>3. Shelf(b) = (s + 6) .. (s + 6 * MaxOpen + 5)
    BY DEF Shelf
  <2> HIDE DEF s
  <2>4. a \in Nat /\ a >= s + 6 /\ a + 5 <= s + 6 * MaxOpen + 5
    BY <2>1, <2>2, <1>1
  <2> QED BY <2>1, <2>3, <2>4, <1>1
<1>4. ASSUME NEW p \in Requests, NEW a \in Nat PROVE Pages(p[1], a) \subseteq a .. (a + 5)
  <2>1. p[1] \in File /\ Info[p[1]].first + Info[p[1]].span <= 6
    BY LibdlAssumption DEF Room
  <2> QED BY <2>1, PagesWithin
<1>5. PICK b \in Behind : \E k \in 1 .. n : addr = startup[b].addr + 6 * k
  BY DEF OnShelf
<1>6. PICK k \in 1 .. n : addr = startup[b].addr + 6 * k
  BY <1>5
<1>7. addr \in Nat /\ addr .. (addr + 5) \subseteq Shelf(b)
  BY <1>3, <1>6
<1>8. Pages(q[1], addr) \subseteq Shelf(b)
  BY <1>4, <1>7
<1>9. ASSUME NEW p \in Requests, NEW l \in 0 .. MaxOpen, NEW a, OnShelf(a, l), a # addr
      PROVE  Pages(q[1], addr) \intersect Pages(p[1], a) = {}
  <2>1. PICK c \in Behind : \E j \in 1 .. l : a = startup[c].addr + 6 * j
    BY <1>9 DEF OnShelf
  <2>2. PICK j \in 1 .. l : a = startup[c].addr + 6 * j
    BY <2>1
  <2>3. a \in Nat /\ a .. (a + 5) \subseteq Shelf(c)
    BY <1>3, <2>2
  <2>4. Pages(p[1], a) \subseteq a .. (a + 5) /\ Pages(q[1], addr) \subseteq addr .. (addr + 5)
    BY <1>4, <1>7, <2>3
  <2>5. CASE b = c
    <3>1. addr + 5 < a \/ a + 5 < addr
      <4>1. PICK s \in Nat : s = startup[b].addr BY <1>2
      <4>2. addr = s + 6 * k /\ a = s + 6 * j BY <4>1, <1>6, <2>2, <2>5
      <4>3. k \in Int /\ j \in Int /\ k # j BY <4>2, <1>9
      <4> QED BY <4>1, <4>2, <4>3
    <3>2. (addr .. (addr + 5)) \intersect (a .. (a + 5)) = {}
      BY <3>1, <1>7, <2>3
    <3> QED BY <3>2, <2>4
  <2>6. CASE b # c
    <3>1. Shelf(b) \intersect Shelf(c) = {} BY <2>6 DEF Room, Behind
    <3> QED BY <3>1, <2>3, <2>4, <1>8
  <2> QED BY <2>5, <2>6
<1>10. Pages(q[1], addr) \intersect 0 .. 5 = {}
  BY <1>8 DEF Room
<1>11. \A m \in 1 .. NbStart : Pages(q[1], addr) \intersect Image(m) = {}
  BY <1>8 DEF Room
<1> QED BY <1>7, <1>9, <1>10, <1>11

LEMMA PlaceInvInit == Init => PlaceInv
<1> SUFFICES ASSUME Init PROVE PlaceInv
  OBVIOUS
<1>1. BindInv
  BY BindInvInit
<1>2. /\ NbStart \in Nat /\ NbStart >= 2 /\ nb = NbStart /\ pc = "run" /\ opened = {}
      /\ \A m \in 1 .. nb : m \in Node
  BY <1>1, BindFacts DEF Init
<1>3. \A m \in 1 .. NbStart : l_name[m] = startup[m].name /\ l_addr[m] = startup[m].addr
  <2> SUFFICES ASSUME NEW m \in 1 .. NbStart
               PROVE  l_name[m] = startup[m].name /\ l_addr[m] = startup[m].addr
    OBVIOUS
  <2>1. m \in Node /\ m <= NbStart BY <1>2
  <2> QED BY <2>1 DEF Init
<1>4. (NbStart + 1) .. nb = {}
  BY <1>2
<1>5. Placed
  BY <1>3, <1>4 DEF Placed
<1>6. ASSUME Room, NEW m \in 1 .. NbStart PROVE Intact(m)
  <2> SUFFICES ASSUME NEW p \in Pages(l_name[m], l_addr[m])
               PROVE  p \in DOMAIN mem /\ mem[p] = m
    BY DEF Intact
  <2>1. p \in DOMAIN mem /\ mem[p] = CHOOSE o \in 1 .. NbStart : p \in Pages(l_name[o], l_addr[o])
    BY DEF Init
  <2>2. \A o \in 1 .. NbStart : p \in Pages(l_name[o], l_addr[o]) => o = m
    BY <1>3, <1>6 DEF Room, Image
  <2>3. (CHOOSE o \in 1 .. NbStart : p \in Pages(l_name[o], l_addr[o])) = m
    BY <2>2
  <2> QED BY <2>1, <2>3
<1>7. Room => Images
  BY <1>2, <1>6 DEF Images
<1>8. CrashHasCause
  BY <1>2 DEF CrashHasCause
<1> QED BY <1>1, <1>5, <1>7, <1>8 DEF PlaceInv

(* Room speaks of startup only.                                              *)
LEMMA RoomStays ==
  ASSUME startup' = startup
  PROVE  /\ Room' = Room /\ NbStart' = NbStart
         /\ \A addr, n : OnShelf(addr, n)' = OnShelf(addr, n)
BY DEF Room, Image, Shelf, Behind, NbStart, OnShelf

(* dlopen() puts the library on a shelf, where it covers no image but that of *)
(* a library with the same address.                                          *)
LEMMA DlopenKeepsPlaces ==
  ASSUME PlaceInv, NEW q \in Requests, Dlopen(q[1], q[2]), BindInv'
  PROVE  PlaceInv'
<1> DEFINE new == nb + 1
           tail == ListTail
           addr == NewAddr(tail)
           file == q[1]
           flags == q[2]
<1>1. BindInv /\ Placed /\ ListInv /\ ListShape /\ SlotInv /\ pc = "run" /\ nb < NbStart + MaxOpen
  BY DEF PlaceInv, BindInv, ListInv, Dlopen
<1>2. /\ startup \in Startups /\ NbStart \in Nat /\ NbStart >= 2 /\ MaxOpen \in Nat
      /\ nb \in Nat /\ NbStart <= nb /\ \A m \in 1 .. nb : m \in Node
      /\ opened \subseteq 1 .. nb /\ Live \subseteq 1 .. nb
  BY <1>1, BindFacts
<1>3. tail \in Live /\ tail \in NbStart .. nb
  BY <1>1, TailIsLast
<1>4. file \in File /\ flags \in Flag
  BY LibdlAssumption
<1>5. OnShelf(addr, new - NbStart)
  <2> DEFINE p == l_prev[tail]
  <2>1. p \in (NbStart - 1) .. nb
    <3>1. CASE tail = NbStart
      <4>1. p = NbStart - 1 BY <3>1, <1>1, <1>2 DEF ListShape
      <4> QED BY <4>1, <1>2
    <3>2. CASE tail # NbStart
      <4>1. tail \in (NbStart + 1) .. nb /\ tail \in 2 .. nb BY <3>2, <1>2, <1>3
      <4>2. p >= NbStart /\ p \in 1 .. (tail - 1) BY <4>1, <1>1 DEF ListShape
      <4> QED BY <4>1, <4>2, <1>2
    <3> QED BY <3>1, <3>2
  <2>2. addr = l_addr[p] + 6
    BY DEF NewAddr
  <2> HIDE DEF p, tail, addr
  <2>3. CASE p \in Behind
    <3>1. l_addr[p] = startup[p].addr
      <4>1. p \in 1 .. NbStart BY <2>3, <1>2 DEF Behind
      <4> QED BY <4>1, <1>1 DEF Placed
    <3>2. addr = startup[p].addr + 6 * 1 BY <2>2, <3>1
    <3>3. 1 \in 1 .. (new - NbStart) BY <1>2
    <3> QED BY <2>3, <3>2, <3>3 DEF OnShelf
  <2>4. CASE p \notin Behind
    <3>1. p \in (NbStart + 1) .. nb BY <2>1, <2>4, <1>2 DEF Behind
    <3>2. PICK b \in Behind : \E k \in 1 .. (p - NbStart) : l_addr[p] = startup[b].addr + 6 * k
      BY <3>1, <1>1 DEF Placed, OnShelf
    <3>3. PICK k \in 1 .. (p - NbStart) : l_addr[p] = startup[b].addr + 6 * k
      BY <3>2
    <3>4. k + 1 \in 1 .. (new - NbStart)
      BY <3>1, <1>2
    <3>5. startup[b].addr \in Nat
      <4>1. b \in 1 .. Len(startup) BY <1>2 DEF Behind, NbStart
      <4> QED BY <4>1, <1>2, StartupFacts
    <3>6. addr = startup[b].addr + 6 * (k + 1)
      <4>1. PICK s \in Nat : s = startup[b].addr BY <3>5
      <4>2. k \in Int BY <3>1, <1>2
      <4> QED BY <4>1, <4>2, <3>3, <2>2
    <3> QED BY <3>4, <3>6 DEF OnShelf
  <2> QED BY <2>3, <2>4
<1>6. /\ nb' = new /\ startup' = startup
      /\ l_name' = [l_name EXCEPT ![new] = file]
      /\ l_addr' = [l_addr EXCEPT ![new] = addr]
      /\ mode' = [mode EXCEPT ![new] = flags]
      /\ mem' = IF flags.noload THEN mem
                ELSE Override(mem, [p \in Pages(file, addr) |-> new])
      /\ pc' = Outcome(file, tail, flags)
      /\ opened' \subseteq opened \union {new}
  BY DEF Dlopen
<1>7. pc' # "crash"
  BY <1>1, <1>3, <1>4, <1>6, OutcomeType
<1> HIDE DEF tail, addr
<1>8. new \in Node /\ new > NbStart /\ new \in Nat
  BY <1>1, <1>2 DEF Node
<1>9. ASSUME NEW m \in 1 .. nb
      PROVE  m # new /\ l_name'[m] = l_name[m] /\ l_addr'[m] = l_addr[m] /\ mode'[m] = mode[m]
  <2>1. m # new BY <1>2
  <2>2. l_name \in [Node -> File] /\ l_addr \in [Node -> Nat] /\ mode \in [Node -> Flag]
    BY <1>1 DEF ListInv, ListType, SlotInv
  <2> HIDE DEF new
  <2> QED BY <2>1, <2>2, <1>6
<1>10. l_name'[new] = file /\ l_addr'[new] = addr /\ mode'[new] = flags
  <2>1. l_name \in [Node -> File] /\ l_addr \in [Node -> Nat] /\ mode \in [Node -> Flag]
    BY <1>1 DEF ListInv, ListType, SlotInv
  <2> HIDE DEF new
  <2> QED BY <2>1, <1>6, <1>8
<1>11. Room' = Room /\ NbStart' = NbStart /\ \A a, n : OnShelf(a, n)' = OnShelf(a, n)
  BY <1>6, RoomStays
<1>12. Placed'
  <2>1. \A m \in 1 .. NbStart : l_name'[m] = startup[m].name /\ l_addr'[m] = startup[m].addr
    <3> SUFFICES ASSUME NEW m \in 1 .. NbStart
                 PROVE  l_name'[m] = startup[m].name /\ l_addr'[m] = startup[m].addr
      OBVIOUS
    <3>1. m \in 1 .. nb BY <1>2
    <3> QED BY <3>1, <1>1, <1>9 DEF Placed
  <2>2. ASSUME NEW m \in (NbStart + 1) .. new
        PROVE  (\E r \in Requests : l_name'[m] = r[1]) /\ OnShelf(l_addr'[m], m - NbStart)
    <3>1. CASE m = new BY <3>1, <1>5, <1>10
    <3>2. CASE m # new
      <4>1. m \in (NbStart + 1) .. nb /\ m \in 1 .. nb BY <3>2, <1>2
      <4> QED BY <4>1, <1>1, <1>9 DEF Placed
    <3> QED BY <3>1, <3>2
  <2>3. (\A m \in (NbStart + 1) .. nb : OnShelf(l_addr[m], m - NbStart))'
    <3>1. \A m \in (NbStart + 1) .. nb' : OnShelf(l_addr'[m], m - NbStart)
      BY <2>2, <1>6
    <3>2. Behind' = Behind BY <1>11 DEF Behind
    <3> QED BY <3>1, <3>2, <1>6, <1>11 DEF OnShelf
  <2> QED BY <2>1, <2>2, <2>3, <1>6, <1>11 DEF Placed
<1>13. ASSUME Room, pc' = "run" PROVE Images'
  <2>1. Images
    BY <1>1, <1>13 DEF PlaceInv
  <2>2. ASSUME NEW m \in 1 .. nb, Intact(m),
               flags.noload \/ Pages(file, addr) \intersect Pages(l_name[m], l_addr[m]) = {}
        PROVE  Intact(m)'
    <3> SUFFICES ASSUME NEW p \in Pages(l_name[m], l_addr[m])
                 PROVE  p \in DOMAIN mem' /\ mem'[p] = m
      BY <1>9 DEF Intact, Pages
    <3>1. p \in DOMAIN mem /\ mem[p] = m BY <2>2 DEF Intact
    <3>2. CASE flags.noload BY <3>1, <3>2, <1>6
    <3>3. CASE ~flags.noload
      <4>1. p \notin Pages(file, addr) BY <2>2, <3>3
      <4> HIDE DEF file, flags
      <4> QED BY <3>1, <3>3, <4>1, <1>6 DEF Override
    <3> QED BY <3>2, <3>3
  <2>3. ASSUME ~flags.noload, NEW m, m = new PROVE Intact(m)'
    <3> SUFFICES ASSUME NEW p \in Pages(file, addr) PROVE p \in DOMAIN mem' /\ mem'[p] = m
      BY <2>3, <1>6, <1>10 DEF Intact, Pages
    <3> HIDE DEF file, flags, new
    <3> QED BY <2>3, <1>6 DEF Override
  <2>4. new - NbStart \in 0 .. MaxOpen
    BY <1>1, <1>2
  <2>5. \A m \in 1 .. NbStart : Intact(m)'
    <3> SUFFICES ASSUME NEW m \in 1 .. NbStart PROVE Intact(m)'
      OBVIOUS
    <3>1. m \in 1 .. nb /\ Intact(m) BY <1>2, <2>1 DEF Images
    <3>2. Pages(file, addr) \intersect Image(m) = {}
      BY <1>1, <1>5, <1>13, <2>4, ShelfFacts
    <3>3. Image(m) = Pages(l_name[m], l_addr[m]) BY <1>1 DEF Image, Placed
    <3> QED BY <3>1, <3>2, <3>3, <2>2
  <2>6. ASSUME NEW h \in opened', h > NbStart, ~mode'[h].noload, Alone(h)'
        PROVE  Intact(h)'
    <3>1. CASE h = new
      <4>1. ~flags.noload BY <3>1, <2>6, <1>10
      <4> QED BY <3>1, <4>1, <2>3
    <3>2. CASE h # new
      <4>1. h \in opened /\ h \in 1 .. nb BY <3>2, <1>2, <1>6
      <4>2. \A o \in (NbStart + 1) .. new : o # h => l_addr'[o] # l_addr'[h]
        BY <2>6, <1>6, <1>11 DEF Alone
      <4>3. l_addr[h] # addr
        <5>1. new \in (NbStart + 1) .. new BY <1>2
        <5> QED BY <5>1, <4>1, <4>2, <3>2, <1>9, <1>10
      <4>4. Alone(h)
        <5>1. \A o \in (NbStart + 1) .. nb : o \in (NbStart + 1) .. new /\ o \in 1 .. nb
          BY <1>2
        <5> QED BY <5>1, <4>1, <4>2, <1>9 DEF Alone
      <4>5. Intact(h) BY <2>1, <2>6, <4>1, <4>4, <1>9 DEF Images
      <4>6. Pages(file, addr) \intersect Pages(l_name[h], l_addr[h]) = {}
        <5>1. h \in (NbStart + 1) .. nb /\ h - NbStart \in 0 .. MaxOpen
          BY <2>6, <4>1, <1>1, <1>2
        <5>2. PICK r \in Requests : l_name[h] = r[1] BY <5>1, <1>1 DEF Placed
        <5>3. OnShelf(l_addr[h], h - NbStart) BY <5>1, <1>1 DEF Placed
        <5> QED BY <5>1, <5>2, <5>3, <4>3, <1>1, <1>5, <1>13, <2>4, ShelfFacts
      <4> QED BY <4>1, <4>5, <4>6, <2>2
    <3> QED BY <3>1, <3>2
  <2> QED BY <2>5, <2>6, <1>11 DEF Images
<1>14. CrashHasCause'
  BY <1>7 DEF CrashHasCause
<1> QED BY <1>11, <1>12, <1>13, <1>14 DEF PlaceInv

(* dlclose() unmaps low pages only, or the executable and so the process.     *)
LEMMA DlcloseKeepsPlaces ==
  ASSUME PlaceInv, NEW h \in opened, Dlclose(h), BindInv'
  PROVE  PlaceInv'
<1>1. BindInv /\ Placed /\ ListType /\ pc = "run"
  BY DEF PlaceInv, BindInv, ListInv, Dlclose
<1>2. /\ startup \in Startups /\ NbStart \in Nat /\ NbStart >= 2 /\ MaxOpen \in Nat
      /\ nb \in Nat /\ NbStart <= nb /\ nb <= NbStart + MaxOpen /\ opened \subseteq 1 .. nb
  BY <1>1, BindFacts
<1>3. /\ UNCHANGED <<startup, nb, l_name, l_addr, mode, slot>>
      /\ opened' = opened \ {h}
      /\ mem' = [p \in DOMAIN mem \ Unmapped(h) |-> mem[p]]
      /\ pc' = IF Pages(l_name[1], l_addr[1]) \intersect Unmapped(h) = {} THEN "run" ELSE "crash"
  BY DEF Dlclose
<1>4. Room' = Room /\ NbStart' = NbStart /\ \A a, n : OnShelf(a, n)' = OnShelf(a, n)
  BY <1>3, RoomStays
<1>5. Placed'
  BY <1>1, <1>3, <1>4 DEF Placed, OnShelf, Behind
<1>6. \A m : Intact(m) /\ Pages(l_name[m], l_addr[m]) \intersect Unmapped(h) = {} => Intact(m)'
  BY <1>3 DEF Intact, Pages
<1>7. ASSUME Room, pc' = "run" PROVE Images'
  <2>1. Images
    BY <1>1, <1>7 DEF PlaceInv
  <2>2. Pages(l_name[1], l_addr[1]) \intersect Unmapped(h) = {}
    BY <1>3, <1>7
  <2>3. h \in (NbStart + 1) .. nb
    <3>1. h \in {1} \union (NbStart + 1) .. nb BY <1>1 DEF ListType
    <3>2. h # 1
      <4> SUFFICES ASSUME h = 1 PROVE FALSE
        OBVIOUS
      <4>1. 1 \in 1 .. Len(startup) /\ l_addr[1] = 0 /\ l_name[1] = startup[1].name
        BY <1>1, <1>2 DEF ListType, NbStart
      <4>2. l_name[1] \in File /\ Info[l_name[1]].span > 0
        BY <4>1, <1>2, StartupFacts
      <4>3. Info[l_name[1]].first \in Nat /\ Info[l_name[1]].span \in Nat
        BY <4>2, <1>2, StartupFacts
      <4>4. Info[l_name[1]].first \in Pages(l_name[1], 0)
        BY <4>2, <4>3 DEF Pages
      <4> QED BY <4>1, <4>4, <2>2 DEF Unmapped
    <3> QED BY <3>1, <3>2
  <2>4. Unmapped(h) \subseteq 0 .. 5
    <3>1. PICK r \in Requests : l_name[h] = r[1] BY <2>3, <1>1 DEF Placed
    <3>2. r[1] \in File /\ Info[r[1]].first + Info[r[1]].span <= 6
      BY <1>7, LibdlAssumption DEF Room
    <3>3. Pages(r[1], 0) \subseteq 0 .. (0 + 5) BY <3>2, PagesWithin
    <3>4. 0 + 5 = 5 OBVIOUS
    <3> QED BY <3>1, <3>3, <3>4 DEF Unmapped
  <2>5. \A m \in 1 .. NbStart : Intact(m)'
    <3> SUFFICES ASSUME NEW m \in 1 .. NbStart PROVE Intact(m)'
      OBVIOUS
    <3>1. Intact(m) BY <2>1 DEF Images
    <3>2. CASE m = 1 BY <3>1, <3>2, <2>2, <1>6
    <3>3. CASE m # 1
      <4>1. m \in 2 .. NbStart BY <3>3, <1>2
      <4>2. Image(m) \intersect 0 .. 5 = {} BY <4>1, <1>7 DEF Room
      <4>3. Image(m) = Pages(l_name[m], l_addr[m]) BY <1>1 DEF Image, Placed
      <4> QED BY <3>1, <4>2, <4>3, <2>4, <1>6
    <3> QED BY <3>2, <3>3
  <2>6. ASSUME NEW g \in opened', g > NbStart, ~mode'[g].noload, Alone(g)'
        PROVE  Intact(g)'
    <3>1. g \in opened /\ g \in (NbStart + 1) .. nb /\ g - NbStart \in 0 .. MaxOpen
      BY <2>6, <1>2, <1>3
    <3>2. Alone(g) BY <2>6, <1>3, <1>4 DEF Alone
    <3>3. Intact(g) BY <2>1, <2>6, <3>1, <3>2, <1>3 DEF Images
    <3>4. PICK r \in Requests : l_name[g] = r[1] BY <3>1, <1>1 DEF Placed
    <3>5. OnShelf(l_addr[g], g - NbStart) BY <3>1, <1>1 DEF Placed
    <3>6. Pages(r[1], l_addr[g]) \intersect 0 .. 5 = {}
      BY <3>1, <3>5, <1>1, <1>7, ShelfFacts
    <3> QED BY <3>3, <3>4, <3>6, <2>4, <1>6
  <2> QED BY <2>5, <2>6, <1>4 DEF Images
<1>8. CrashHasCause'
  <2> SUFFICES ASSUME pc' = "crash" PROVE ~Intact(1)'
    BY DEF CrashHasCause
  <2>1. PICK p \in Pages(l_name[1], l_addr[1]) : p \in Unmapped(h)
    BY <1>3
  <2>2. p \notin DOMAIN mem' BY <2>1, <1>3
  <2> QED BY <2>1, <2>2, <1>3 DEF Intact, Pages
<1> QED BY <1>4, <1>5, <1>7, <1>8 DEF PlaceInv

LEMMA PlaceInvNext == PlaceInv /\ [Next]_vars => PlaceInv'
<1> SUFFICES ASSUME PlaceInv, [Next]_vars PROVE PlaceInv'
  OBVIOUS
<1>1. BindInv'
  BY BindInvNext DEF PlaceInv
<1>2. ASSUME UNCHANGED <<startup, nb, l_name, l_addr, mode, mem>>,
             opened' \subseteq opened \union {1},
             pc' = "run" => pc = "run",
             CrashHasCause'
      PROVE  PlaceInv'
  <2>1. Room' = Room /\ NbStart' = NbStart
    BY <1>2, RoomStays
  <2>2. Placed'
    BY <1>2, <2>1 DEF PlaceInv, Placed, OnShelf, Behind
  <2>3. \A m : Intact(m)' = Intact(m)
    BY <1>2 DEF Intact, Pages
  <2>4. Images => Images'
    <3>1. NbStart \in Nat /\ NbStart >= 2 BY BindFacts DEF PlaceInv
    <3>2. ASSUME Images, NEW h \in opened', h > NbStart, ~mode'[h].noload, Alone(h)'
          PROVE  Intact(h)'
      <4>1. h \in opened BY <3>1, <3>2, <1>2
      <4>2. Alone(h) BY <3>2, <1>2, <2>1 DEF Alone
      <4> QED BY <3>2, <4>1, <4>2, <1>2, <2>3 DEF Images
    <3> QED BY <3>2, <2>1, <2>3 DEF Images
  <2> QED BY <1>1, <1>2, <2>1, <2>2, <2>4 DEF PlaceInv
<1>3. CASE DlopenSelf
  <2>1. pc' = "run" BY <1>3 DEF DlopenSelf
  <2>2. CrashHasCause' BY <2>1 DEF CrashHasCause
  <2> QED BY <1>2, <1>3, <2>2 DEF DlopenSelf, maps
<1>4. ASSUME NEW q \in Requests, DlopenMissing(q[1]) PROVE PlaceInv'
  <2>1. pc' = "exit" BY <1>4 DEF DlopenMissing
  <2>2. CrashHasCause' BY <2>1 DEF CrashHasCause
  <2> QED BY <1>2, <1>4, <2>1, <2>2 DEF DlopenMissing, maps
<1>5. ASSUME NEW q \in Requests, Dlopen(q[1], q[2]) PROVE PlaceInv'
  BY <1>1, <1>5, DlopenKeepsPlaces
<1>6. ASSUME NEW h \in opened, Dlclose(h) PROVE PlaceInv'
  BY <1>1, <1>6, DlcloseKeepsPlaces
<1>7. ASSUME NEW h \in opened, DlsymWild(h) PROVE PlaceInv'
  <2>1. /\ pc = "run" /\ pc' = "crash" /\ ~Intact(h)
        /\ UNCHANGED <<startup, nb, maps, mode, slot, mem, opened>>
    BY <1>7 DEF DlsymWild
  <2>2. Room' = Room /\ NbStart' = NbStart
    BY <2>1, RoomStays
  <2>3. ListType /\ NbStart \in Nat
    BY BindFacts DEF PlaceInv, BindInv, ListInv
  <2>4. CrashHasCause'
    <3> SUFFICES ASSUME Room
                 PROVE  \/ \E m \in 1 .. nb : mode[m].noload
                        \/ \E m, o \in (NbStart + 1) .. nb : m # o /\ l_addr[m] = l_addr[o]
                        \/ ~Intact(1)
      BY <2>1, <2>2 DEF CrashHasCause, Intact, Pages, maps
    <3>1. Images BY <2>1 DEF PlaceInv
    <3>2. CASE h = 1 BY <2>1, <3>2
    <3>3. CASE h # 1
      <4>1. h \in (NbStart + 1) .. nb BY <2>3, <3>3 DEF ListType
      <4>2. h > NbStart /\ h \in 1 .. nb BY <4>1, <2>3
      <4>3. mode[h].noload \/ ~Alone(h) BY <2>1, <3>1, <4>2 DEF Images
      <4> QED BY <4>1, <4>2, <4>3 DEF Alone
    <3> QED BY <3>2, <3>3
  <2> QED BY <1>2, <2>1, <2>4 DEF maps
<1>8. ASSUME NEW m \in Node, NEW r \in DOMAIN slot[m], FirstCall(m, r) PROVE PlaceInv'
  <2>1. pc = "run" /\ m \in Live /\ UNCHANGED <<startup, nb, maps, mode, mem, opened>>
    BY <1>8 DEF FirstCall, Live
  <2>2. HeadOf(m) = 1 /\ 1 \in Live
    BY <2>1, HeadLookup DEF PlaceInv
  <2>3. LookupFrom(HeadOf(m), Info[l_name[m]].plt[r]).res \in {"hit", "exit", "trap"}
    BY <2>1, <2>2, LookupFacts DEF PlaceInv, BindInv
  <2>4. pc' # "crash"
    BY <1>8, <2>1, <2>3 DEF FirstCall
  <2>5. CrashHasCause' BY <2>4 DEF CrashHasCause
  <2> QED BY <1>2, <2>1, <2>5 DEF maps
<1>9. CASE UNCHANGED vars
  <2>1. CrashHasCause'
    BY <1>9, RoomStays DEF PlaceInv, CrashHasCause, Intact, Pages, vars
  <2> QED BY <1>2, <1>9, <2>1 DEF vars
<1> QED BY <1>3, <1>4, <1>5, <1>6, <1>7, <1>8, <1>9 DEF Next

LEMMA PlaceInvariant == Spec => []PlaceInv
<1> QED BY PlaceInvInit, PlaceInvNext, PTL DEF Spec

(* Where there is room, nothing that is opened or closed touches an object of *)
(* startup.                                                                  *)
THEOREM StartupStaysIntact == Spec => []StartupIntact
<1>1. PlaceInv => StartupIntact
  BY DEF PlaceInv, Images, StartupIntact
<1> QED BY <1>1, PlaceInvariant, PTL

(* And a crash has one of three causes.                                      *)
THEOREM CrashesForACause == Spec => []CrashHasCause
<1>1. PlaceInv => CrashHasCause
  BY DEF PlaceInv
<1> QED BY <1>1, PlaceInvariant, PTL

===============================================================================

-------------------------------- MODULE TreeBin --------------------------------
(***************************************************************************)
(* The large bins of libc/malloc.c, node by node: bitwise tries whose      *)
(* nodes head rings of chunks of one size.  Chunks takes them for a set    *)
(* from which malloc() gets a best fit; the properties here say that they  *)
(* are one.                                                                *)
(***************************************************************************)
EXTENDS Integers, FiniteSets, FiniteSetsExt

CONSTANTS
  Chunk, Null,        \* the chunks, and the null pointer
  Sizes,              \* sizes of free chunks
  Requests,           \* sizes that a best fit is looked up for
  Taken,              \* those that malloc() then takes
  SIZE_T_BITSIZE, TREEBIN_SHIFT, NTREEBINS

VARIABLE bins         \* node: the chunks; root and map: treebins and treemap

(* The address of treebins[i], which is the parent of the root.  *)
treebin_at(i) == <<"bin", i>>

Index == 0 .. NTREEBINS - 1

(* 2 ^ k, for the bits of a word.  *)
Pow2[k \in 0 .. SIZE_T_BITSIZE] == IF k = 0 THEN 1 ELSE 2 * Pow2[k - 1]

(* The sizes that belong in a tree.  *)
Large == Pow2[TREEBIN_SHIFT] .. Pow2[SIZE_T_BITSIZE] - 1

(* The last two bins of each power of two fit into a word.  *)
ASSUME WidthAssumption ==
  /\ SIZE_T_BITSIZE \in Nat /\ TREEBIN_SHIFT \in Nat \ {0} /\ NTREEBINS \in Nat \ {0}
  /\ TREEBIN_SHIFT + NTREEBINS \div 2 <= SIZE_T_BITSIZE
  /\ Sizes \cup Requests \cup Taken \subseteq Large

(* Pointers to chunks, to bins and to nothing differ.  *)
ASSUME PointerAssumption ==
  /\ Null \notin Chunk
  /\ \A i \in Index : treebin_at(i) \notin Chunk \cup {Null}

Log2(n) == Max({k \in 0 .. SIZE_T_BITSIZE : Pow2[k] <= n})

Bit(n, k) == (n \div Pow2[k]) % 2

compute_tree_index(s) ==
  LET x == s \div Pow2[TREEBIN_SHIFT]
      k == Log2(x)
  IN  IF x = 0 THEN 0
      ELSE IF x >= Pow2[NTREEBINS \div 2] THEN NTREEBINS - 1
      ELSE 2 * k + Bit(s, k + TREEBIN_SHIFT - 1)

leftshift_for_tree_index(i) ==
  IF i = NTREEBINS - 1 THEN 0
  ELSE SIZE_T_BITSIZE - 1 - (i \div 2 + TREEBIN_SHIFT - 2)

minsize_for_tree_index(i) ==
  Pow2[i \div 2 + TREEBIN_SHIFT] + (i % 2) * Pow2[i \div 2 + TREEBIN_SHIFT - 1]

Shl(n, k) == (n * Pow2[k]) % Pow2[SIZE_T_BITSIZE]

SignBit(n) == Bit(n, SIZE_T_BITSIZE - 1)

SizeBits(s) == Shl(s, leftshift_for_tree_index(compute_tree_index(s)))

-----------------------------------------------------------------------------
(* Insertion.  *)

(* Where the path of size s from t0 on ends: at a node of that size, or at *)
(* one without the child that the next bit of the size asks for.           *)
PathEnd(w, t0, s) ==
  LET walk[p \in [t : DOMAIN w.node, sizebits : Nat]] ==
        LET next == w.node[p.t].child[SignBit(p.sizebits)]
        IN  IF w.node[p.t].size = s \/ next = Null THEN p
            ELSE walk[[t |-> next, sizebits |-> Shl(p.sizebits, 1)]]
  IN  walk[[t |-> t0, sizebits |-> SizeBits(s)]]

(* A node of its own ring.  *)
Single(x, s, parent) ==
  [size |-> s, index |-> compute_tree_index(s), parent |-> parent,
   child |-> [b \in {0, 1} |-> Null], fd |-> x, bk |-> x]

With(w, x, n, node) ==
  [w EXCEPT !.node = [c \in DOMAIN node \cup {x} |-> IF c = x THEN n ELSE node[c]]]

insert_large_chunk(w, x, s) ==
  LET i   == compute_tree_index(s)
      end == PathEnd(w, w.root[i], s)
      t   == end.t
      f   == w.node[t].fd
  IN  IF i \notin w.map
      THEN [With(w, x, Single(x, s, treebin_at(i)), w.node) EXCEPT
              !.map = @ \cup {i}, !.root[i] = x]
      ELSE IF w.node[t].size # s
      THEN With(w, x, Single(x, s, t), [w.node EXCEPT ![t].child[SignBit(end.sizebits)] = x])
      ELSE With(w, x, [Single(x, s, Null) EXCEPT !.fd = f, !.bk = t],
                [[w.node EXCEPT ![t].fd = x] EXCEPT ![f].bk = x])

-----------------------------------------------------------------------------
(* Removal.  *)

(* A leaf below x, found by going right where that is possible.  *)
LeafBelow(w, x) ==
  LET leaf[t \in DOMAIN w.node] ==
        IF w.node[t].child[1] # Null THEN leaf[w.node[t].child[1]]
        ELSE IF w.node[t].child[0] # Null THEN leaf[w.node[t].child[0]]
        ELSE t
  IN  leaf[x]

Cut(node, p, r) == [node EXCEPT ![p].child = [b \in {0, 1} |-> IF @[b] = r THEN Null ELSE @[b]]]

(* What takes the place of x, and the nodes once that is taken out.  *)
Replacement(w, x) ==
  LET n == w.node[x]
      r == LeafBelow(w, x)
  IN  IF n.bk # x
      THEN [r |-> n.bk, node |-> [[w.node EXCEPT ![n.fd].bk = n.bk] EXCEPT ![n.bk].fd = n.fd]]
      ELSE IF r # x THEN [r |-> r, node |-> Cut(w.node, w.node[r].parent, r)]
      ELSE [r |-> Null, node |-> w.node]

(* Mutant: the children of x stay behind.  *)
AdoptNone(node, r, p, x) == [node EXCEPT ![r].parent = p]

(* The replacement r, under parent p, takes over the children of x.  *)
Adopt(node, r, p, x) ==
  LET kids == {b \in {0, 1} : node[x].child[b] # Null}
  IN  [c \in DOMAIN node |->
         IF c = r
         THEN [node[c] EXCEPT !.parent = p,
                 !.child = [b \in {0, 1} |-> IF b \in kids THEN node[x].child[b] ELSE @[b]]]
         ELSE IF \E b \in kids : node[x].child[b] = c
         THEN [node[c] EXCEPT !.parent = r]
         ELSE node[c]]

Forget(w, x) == [w EXCEPT !.node = [c \in DOMAIN @ \ {x} |-> @[c]]]

unlink_large_chunk(w, x) ==
  LET p   == w.node[x].parent
      i   == w.node[x].index
      new == Replacement(w, x)
      hung == IF x = w.root[i]
              THEN [w EXCEPT !.root[i] = new.r, !.node = new.node,
                             !.map = IF new.r = Null THEN @ \ {i} ELSE @]
              ELSE [w EXCEPT !.node = [new.node EXCEPT
                      ![p].child = [b \in {0, 1} |-> IF @[b] = x THEN new.r ELSE @[b]]]]
  IN  Forget(IF p = Null THEN [w EXCEPT !.node = new.node]
             ELSE IF new.r = Null THEN hung
             ELSE [hung EXCEPT !.node = Adopt(@, new.r, p, x)], x)

-----------------------------------------------------------------------------
(* Search.  *)

(* The better fit for nb of the fit v so far and t.  *)
Better(w, nb, v, t) ==
  IF w.node[t].size >= nb /\ (v = Null \/ w.node[t].size < w.node[v].size) THEN t ELSE v

leftmost_child(w, t) ==
  IF w.node[t].child[0] # Null THEN w.node[t].child[0] ELSE w.node[t].child[1]

(* The best fit on the leftmost path from t0 on, if it is better than v0.  *)
Leftmost(w, nb, t0, v0) ==
  LET Ptr == DOMAIN w.node \cup {Null}
      walk[p \in [t : Ptr, v : Ptr]] ==
        IF p.t = Null THEN p
        ELSE walk[[t |-> leftmost_child(w, p.t), v |-> Better(w, nb, p.v, p.t)]]
  IN  walk[[t |-> t0, v |-> v0]].v

(* Mutant: the subtree that the path leaves first is remembered.  *)
RightOf_Shallow(w, t, next, rst) ==
  LET rt == w.node[t].child[1] IN IF rst = Null /\ rt # next THEN rt ELSE rst

(* The subtree to the right of the path, if t has one: the deepest so far. *)
RightOf(w, t, next, rst) ==
  LET rt == w.node[t].child[1] IN IF rt # Null /\ rt # next THEN rt ELSE rst

(* The path of nb in its bin: the fit v, and rst, the deepest subtree to   *)
(* the right of it; a fit of just this size ends the search.               *)
AlongPath(w, nb, t0) ==
  LET Ptr == DOMAIN w.node \cup {Null}
      walk[p \in [t : Ptr, sizebits : Nat, v : Ptr, rst : Ptr]] ==
        LET next == w.node[p.t].child[SignBit(p.sizebits)]
            best == Better(w, nb, p.v, p.t)
        IN  IF p.t = Null THEN p
            ELSE IF w.node[p.t].size = nb THEN [p EXCEPT !.v = best, !.rst = Null]
            ELSE walk[[t |-> next, sizebits |-> Shl(p.sizebits, 1), v |-> best,
                       rst |-> RightOf(w, p.t, next, p.rst)]]
  IN  walk[[t |-> t0, sizebits |-> SizeBits(nb), v |-> Null, rst |-> Null]]

(* The chunk that tmalloc_large() takes for nb, or Null.  *)
PickLarge(w, nb) ==
  LET i      == compute_tree_index(nb)
      path   == AlongPath(w, nb, w.root[i])
      larger == {j \in w.map : j > i}
      start  == IF path.rst = Null /\ path.v = Null /\ larger # {}
                THEN w.root[Min(larger)] ELSE path.rst
  IN  Leftmost(w, nb, start, path.v)

(* The chunk that tmalloc_small() takes.  *)
PickSmall(w) == LET root == w.root[Min(w.map)] IN Leftmost(w, 0, root, root)

(* bin_find() *)
bin_find(w, x, s) ==
  LET i   == compute_tree_index(s)
      end == PathEnd(w, w.root[i], s).t
      ring[u \in DOMAIN w.node] ==
        u = x \/ (w.node[u].fd # end /\ ring[w.node[u].fd])
  IN  i \in w.map /\ w.node[end].size = s /\ ring[end]

-----------------------------------------------------------------------------
(* What free() and malloc() do to the bins.  *)

Free == Chunk \ DOMAIN bins.node

Insert(x, s) == x \in Free /\ bins' = insert_large_chunk(bins, x, s)

(* A neighbour that becomes free, or grows, takes the chunk out.  *)
Unlink(x) == bins' = unlink_large_chunk(bins, x)

(* v is split for nb words; a large rest goes back to the bins.  *)
Split(v, nb) ==
  LET rest == bins.node[v].size - nb
      less == unlink_large_chunk(bins, v)
  IN  IF rest < Pow2[TREEBIN_SHIFT] THEN bins' = less
      ELSE \E r \in Chunk \ DOMAIN less.node : bins' = insert_large_chunk(less, r, rest)

tmalloc_large(nb) ==
  LET v == PickLarge(bins, nb) IN v # Null /\ Split(v, nb)

(* The rest becomes dv, which is not in the bins.  *)
tmalloc_small == bins.map # {} /\ bins' = unlink_large_chunk(bins, PickSmall(bins))

Init == bins = [node |-> <<>>, root |-> [i \in Index |-> Null], map |-> {}]

Next ==
  \/ \E x \in Chunk, s \in Sizes : Insert(x, s)
  \/ \E x \in DOMAIN bins.node : Unlink(x)
  \/ \E nb \in Taken : tmalloc_large(nb)
  \/ tmalloc_small

Spec == Init /\ [][Next]_bins

-----------------------------------------------------------------------------
(* Properties *)

Ref == DOMAIN bins.node \cup {Null}

(* No pointer leads out of the bins: none to a chunk that was taken.  *)
TypeOK ==
  /\ bins.map \subseteq Index
  /\ bins.root \in [Index -> Ref]
  /\ \A x \in DOMAIN bins.node :
       LET n == bins.node[x]
       IN  /\ x \in Chunk /\ n.index \in Index
           /\ {n.fd, n.bk} \subseteq Ref \ {Null}
           /\ {n.child[0], n.child[1]} \subseteq Ref
           /\ n.parent \in Ref \cup {treebin_at(i) : i \in Index}

(* What do_check_tree() asserts of a node t, and of its ring.  *)
CheckNode(t) ==
  LET n == bins.node[t]
      c == n.child
      mates == {u \in DOMAIN bins.node : bins.node[u].size = n.size}
  IN  /\ n.index = compute_tree_index(n.size)
      /\ n.size >= minsize_for_tree_index(n.index)
      /\ n.index # NTREEBINS - 1 => n.size < minsize_for_tree_index(n.index + 1)
      /\ bins.node[n.fd].bk = t /\ bins.node[n.bk].fd = t
      /\ bins.node[n.fd].size = n.size
      /\ Cardinality({u \in mates : bins.node[u].parent # Null}) = 1
      /\ n.parent = Null => c[0] = Null /\ c[1] = Null
      /\ n.parent \in DOMAIN bins.node =>
           \E b \in {0, 1} : bins.node[n.parent].child[b] = t
      /\ n.parent \in {treebin_at(i) : i \in Index} => bins.root[n.index] = t
      /\ \A b \in {0, 1} : c[b] # Null => bins.node[c[b]].parent = t
      /\ c[0] # Null /\ c[1] # Null => bins.node[c[0]].size < bins.node[c[1]].size

(* The bins pass do_check_treebin(), and bin_find() finds each chunk that  *)
(* is in them: no insertion and no removal loses a subtree or a ring.      *)
TreesSound ==
  /\ TypeOK
  /\ \A i \in Index : i \in bins.map <=> bins.root[i] # Null
  /\ \A t \in DOMAIN bins.node : CheckNode(t) /\ bin_find(bins, t, bins.node[t].size)

Fits(nb) == {x \in DOMAIN bins.node : bins.node[x].size >= nb}

IsSmallest(x, S) == x \in S /\ \A y \in S : bins.node[x].size <= bins.node[y].size

(* malloc() gets a best fit of all the chunks in all the bins, or nothing  *)
(* if none fits, although it looks at two paths only ("Use best fit",      *)
(* malloc.c:4428); a small request gets a smallest chunk.                  *)
PicksBestFit ==
  /\ \A nb \in Requests :
       IF Fits(nb) = {} THEN PickLarge(bins, nb) = Null
       ELSE IsSmallest(PickLarge(bins, nb), Fits(nb))
  /\ bins.map # {} => IsSmallest(PickSmall(bins), DOMAIN bins.node)
=============================================================================

-------------------------------- MODULE Chunks --------------------------------
(***************************************************************************)
(* The bookkeeping of libc/malloc.c below its system calls: requests,      *)
(* chunk headers with their boundary tags, the bins, and the checks that   *)
(* the code compiles in under DEBUG.                                       *)
(*                                                                         *)
(* Addresses and sizes are counted in words of SIZE_T_SIZE = 8 bytes; a    *)
(* chunk is aligned to two of them.  Operators take the state m of the     *)
(* allocator (gm, a record) and return the next one; SysAlloc and Malloc   *)
(* compose them.  What the macros of the code assign is what they assign.  *)
(***************************************************************************)
EXTENDS Naturals, Sequences, SequencesExt, FiniteSetsExt, TLC

CONSTANTS
  SIZE_T,       \* size_t counts modulo SIZE_T words
  MIN_LARGE     \* MIN_LARGE_SIZE: chunks below are kept in smallbins

ASSUME SizeAssumption == SIZE_T \in Nat /\ MIN_LARGE \in 6..SIZE_T /\ MIN_LARGE % 2 = 0

MAX_SIZE_T == SIZE_T - 1

Wrap(n) == n % SIZE_T

CHUNK_OVERHEAD      == 1
MMAP_CHUNK_OVERHEAD == 2
MMAP_FOOT_PAD       == 4
MIN_CHUNK_SIZE      == 4
SEGMENT_SIZE        == 6      \* pad_request(sizeof(struct malloc_segment))
TOP_FOOT_SIZE       == SEGMENT_SIZE + MIN_CHUNK_SIZE
SYS_ALLOC_PADDING   == TOP_FOOT_SIZE + 2
MAX_REQUEST         == SIZE_T - 4 * MIN_CHUNK_SIZE
MAX_SMALL_REQUEST   == MIN_LARGE - 3

pad_request(req) == LET n == req + CHUNK_OVERHEAD IN Wrap(n + (n % 2))

(* Mutant: no room for the header.  *)
request2size_bare(req) == IF req < 3 THEN MIN_CHUNK_SIZE ELSE req + (req % 2)

request2size(req) == IF req < 3 THEN MIN_CHUNK_SIZE ELSE pad_request(req)

chunk2mem(p) == p + 2

mem2chunk(mem) == mem - 2

is_small(s) == s < MIN_LARGE

SmallSizes == {s \in MIN_CHUNK_SIZE .. MIN_LARGE - 1 : s % 2 = 0}

-----------------------------------------------------------------------------
(* Headers.  m.chunk maps each address that holds the header of a chunk to *)
(* its head word (size, cinuse, pinuse) and the word before it, foot: the  *)
(* size of the previous chunk if that is free, the offset in its mapping   *)
(* for a chunk of its own mapping, and otherwise payload, written as 0.    *)

NoHead == [size |-> 0, cinuse |-> FALSE, pinuse |-> FALSE, foot |-> 0]

Header(m, p) == IF p \in DOMAIN m.chunk THEN m.chunk[p] ELSE NoHead

(* The header h at p; headers inside the chunk become payload.  *)
SetHead(m, p, h) ==
  [m EXCEPT !.chunk =
     (p :> h) @@ [a \in {a \in DOMAIN @ : a < p \/ a >= p + h.size} |-> @[a]]]

chunksize(m, p) == Header(m, p).size
cinuse(m, p)    == Header(m, p).cinuse
pinuse(m, p)    == Header(m, p).pinuse
prev_foot(m, p) == Header(m, p).foot
next_chunk(m, p) == p + chunksize(m, p)

is_mmapped(m, p) == ~cinuse(m, p) /\ ~pinuse(m, p)

is_inuse(m, p) == cinuse(m, p) \/ ~pinuse(m, p)

overhead_for(m, p) == IF is_mmapped(m, p) THEN MMAP_CHUNK_OVERHEAD ELSE CHUNK_OVERHEAD

MarkPinuse(m, n) == SetHead(m, n, [Header(m, n) EXCEPT !.pinuse = TRUE, !.foot = 0])

(* set_inuse() *)
SetInuse(m, p, s) ==
  MarkPinuse(SetHead(m, p, [Header(m, p) EXCEPT !.size = s, !.cinuse = TRUE]), p + s)

InuseHead(s) == [size |-> s, cinuse |-> TRUE, pinuse |-> TRUE, foot |-> 0]

(* set_size_and_pinuse_of_inuse_chunk() *)
SetInuseChunk(m, p, s) == SetHead(m, p, InuseHead(s))

(* set_inuse_and_pinuse() *)
SetInuseAndPinuse(m, p, s) == MarkPinuse(SetInuseChunk(m, p, s), p + s)

FreeHead(s) == [size |-> s, cinuse |-> FALSE, pinuse |-> TRUE, foot |-> 0]

(* set_size_and_pinuse_of_free_chunk(): head, and foot in the next header *)
SetFreeChunk(m, p, s) ==
  LET m1 == SetHead(m, p, FreeHead(s))
  IN  SetHead(m1, p + s, [Header(m1, p + s) EXCEPT !.foot = s])

(* set_free_with_pinuse() *)
SetFreeWithPinuse(m, p, s, n) ==
  SetFreeChunk(SetHead(m, n, [Header(m, n) EXCEPT !.pinuse = FALSE]), p, s)

-----------------------------------------------------------------------------
(* Bins.  A smallbin is the sequence of its chunks from its fd on; the     *)
(* tree bins are the set of their chunks: TreeBin models their nodes.      *)

smallmap_is_marked(m, i) == i \in m.smallmap

insert_small_chunk(m, p, s) ==
  [m EXCEPT !.smallmap = @ \cup {s},
            !.small[s] = IF smallmap_is_marked(m, s) THEN <<p>> \o @ ELSE <<p>>]

(* Mutant: the bit of a bin that becomes empty stays set.  *)
unlink_small_chunk_marked(m, p, s) ==
  [m EXCEPT !.small[s] = SelectSeq(@, LAMBDA a : a # p)]

unlink_small_chunk(m, p, s) ==
  LET rest == SelectSeq(m.small[s], LAMBDA a : a # p)
  IN  [m EXCEPT !.small[s] = rest, !.smallmap = IF rest = <<>> THEN @ \ {s} ELSE @]

insert_chunk(m, p, s) ==
  IF is_small(s) THEN insert_small_chunk(m, p, s) ELSE [m EXCEPT !.tree = @ \cup {p}]

unlink_chunk(m, p, s) ==
  IF is_small(s) THEN unlink_small_chunk(m, p, s) ELSE [m EXCEPT !.tree = @ \ {p}]

replace_dv(m, p, s) ==
  LET m1 == IF m.dvsize = 0 THEN m ELSE insert_small_chunk(m, m.dv, m.dvsize)
  IN  [m1 EXCEPT !.dv = p, !.dvsize = s]

NoDv(m) == [m EXCEPT !.dv = 0, !.dvsize = 0]

(* The chunks of the trees that fit nb best.  *)
BestFits(m, nb) ==
  LET fits == {t \in m.tree : chunksize(m, t) >= nb}
  IN  {t \in fits : \A u \in fits : chunksize(m, t) <= chunksize(m, u)}

-----------------------------------------------------------------------------
(* Segments: m.seg[1] is the record in malloc_state, of the segment that   *)
(* holds top; the others are stored in the chunk rec, at their own ends.   *)

Holds(sp, a) == a >= sp.base /\ a < sp.base + sp.size

segment_holding(m, a) == {i \in DOMAIN m.seg : Holds(m.seg[i], a)}

has_segment_link(m, sp) ==
  \E i \in DOMAIN m.seg : m.seg[i].rec # 0 /\ Holds(sp, chunk2mem(m.seg[i].rec))

Records(m) == {m.seg[i].rec : i \in DOMAIN m.seg} \ {0}

is_initialized(m) == m.top # 0

(* init_top(): also resets the threshold of trimming.  The code writes the *)
(* header of the space behind top here; nothing in the model reads it.     *)
init_top(m, p, psize, trim_threshold) ==
  [SetHead(m, p, FreeHead(psize)) EXCEPT
     !.top = p, !.topsize = psize, !.trim_check = trim_threshold]

SetTop(m, p, s) == [SetHead(m, p, FreeHead(s)) EXCEPT !.top = p, !.topsize = s]

-----------------------------------------------------------------------------
(* The checks under DEBUG, and bin_find() on the bins above.  *)

bin_find(m, p) ==
  LET s == chunksize(m, p)
  IN  IF is_small(s)
      THEN smallmap_is_marked(m, s) /\ p \in ToSet(m.small[s])
      ELSE p \in m.tree

ok_address(m, a) == a >= m.least_addr

CheckAnyChunk(m, p) == p % 2 = 0 /\ ok_address(m, p)

CheckTopChunk(m, p) ==
  \E i \in segment_holding(m, p) :
    /\ CheckAnyChunk(m, p)
    /\ chunksize(m, p) = m.topsize
    /\ m.topsize > 0
    /\ p + m.topsize + TOP_FOOT_SIZE = m.seg[i].base + m.seg[i].size
    /\ pinuse(m, p)

CheckMmappedChunk(m, p, page) ==
  /\ ~is_small(chunksize(m, p))
  /\ (chunksize(m, p) + prev_foot(m, p) + MMAP_FOOT_PAD) % page = 0

CheckInuseChunk(m, p, page) ==
  LET next == next_chunk(m, p)
  IN  /\ CheckAnyChunk(m, p)
      /\ is_inuse(m, p)
      /\ p \in Records(m) \/ is_mmapped(m, p) \/ pinuse(m, next)
      /\ \/ is_mmapped(m, p)
         \/ pinuse(m, p)
         \/ p - prev_foot(m, p) \in DOMAIN m.chunk /\ next_chunk(m, p - prev_foot(m, p)) = p
      /\ is_mmapped(m, p) => CheckMmappedChunk(m, p, page)

CheckFreeChunk(m, p) ==
  LET s    == chunksize(m, p)
      next == p + s
  IN  /\ CheckAnyChunk(m, p)
      /\ ~is_inuse(m, p)
      /\ s >= MIN_CHUNK_SIZE /\ s % 2 = 0
      /\ pinuse(m, p)
      /\ ~pinuse(m, next)
      /\ prev_foot(m, next) = s
      /\ is_inuse(m, next)

CheckSmallBins(m) ==
  \A s \in SmallSizes :
    /\ m.small[s] # <<>> <=> smallmap_is_marked(m, s)
    /\ IsInjective(m.small[s])
    /\ \A i \in DOMAIN m.small[s] :
         m.small[s][i] \in DOMAIN m.chunk /\ chunksize(m, m.small[s][i]) = s

CheckTrees(m) == \A t \in m.tree : t \in DOMAIN m.chunk /\ ~is_small(chunksize(m, t))

CheckDv(m) ==
  m.dvsize # 0 => /\ m.dvsize = chunksize(m, m.dv)
                  /\ m.dvsize >= MIN_CHUNK_SIZE
                  /\ ~bin_find(m, m.dv)

(* The chunks of segment sp that traverse_and_check() meets: it stops at   *)
(* top and at the fenceposts behind the record of the segment.             *)
Walk(m, sp) == {p \in DOMAIN m.chunk : Holds(sp, p) /\ p # m.top}

(* They tile the segment up to top or to the end of its record.  *)
Tiled(m, sp) ==
  LET all == {p \in DOMAIN m.chunk : Holds(sp, p)}
      end == IF sp.rec = 0 THEN m.top ELSE sp.rec
  IN  /\ sp.base \in all /\ pinuse(m, sp.base)
      /\ \A p \in all \ {end} : next_chunk(m, p) \in all

TraverseAndCheck(m, page) ==
  \A i \in DOMAIN m.seg :
    /\ Tiled(m, m.seg[i])
    /\ \A p \in Walk(m, m.seg[i]) :
         IF is_inuse(m, p)
         THEN ~bin_find(m, p) /\ CheckInuseChunk(m, p, page)
         ELSE (p = m.dv \/ bin_find(m, p)) /\ CheckFreeChunk(m, p)

SegmentTotal(m) ==
  IF is_initialized(m)
  THEN m.topsize + TOP_FOOT_SIZE +
       FoldSet(LAMBDA p, n : n + chunksize(m, p), 0,
                             UNION {Walk(m, m.seg[i]) : i \in DOMAIN m.seg})
  ELSE 0

(* do_check_malloc_state() *)
CheckMallocState(m, page) ==
  /\ CheckSmallBins(m)
  /\ CheckTrees(m)
  /\ CheckDv(m)
  /\ is_initialized(m) => CheckTopChunk(m, m.top) /\ ~bin_find(m, m.top)
  /\ is_initialized(m) => TraverseAndCheck(m, page)
  /\ SegmentTotal(m) <= m.footprint
  /\ m.footprint <= m.max_footprint
=============================================================================

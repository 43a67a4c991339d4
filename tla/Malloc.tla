-------------------------------- MODULE Malloc --------------------------------
(***************************************************************************)
(* The allocator of libc/malloc.c as it is compiled for ld.so and libc.so: *)
(* mmap() only, no locks, no footers, no mspaces.  One client calls it, in *)
(* any order, with pointers that it owns.                                  *)
(***************************************************************************)
EXTENDS SysAlloc

CONSTANTS
  Requests,        \* sizes that the client asks for
  Callocs,         \* pairs that it gives to calloc()
  Aligned,         \* pairs of an alignment and a size that it asks for
  Batches,         \* sequences of sizes that it asks for at once
  Limits,          \* arguments of malloc_set_footprint_limit()
  Options,         \* arguments of mallopt()
  Pads,            \* arguments of malloc_trim()
  CALLOC_SAFE,     \* the product of two sizes below it does not overflow
  MaxLive,         \* bound: blocks that the client owns at once
  MoveAligned      \* whether it reallocs mapped blocks from memalign()

ASSUME CallocAssumption == CALLOC_SAFE * CALLOC_SAFE <= SIZE_T

VARIABLES
  gm,              \* the malloc_state
  live,            \* the blocks that the client owns: size and alignment
  asked            \* the last footprint limit it asked for, if not too early

vars == <<gm, mparams, live, asked>>

-----------------------------------------------------------------------------
(* malloc *)

Got(m, p) == {[m |-> m, mem |-> chunk2mem(p)]}

SetDv(m, p, s) == [m EXCEPT !.dv = p, !.dvsize = s]

Keep(m, p, s, place) ==
  CASE place = "bin" -> insert_chunk(m, p, s)
    [] place = "new dv" -> replace_dv(m, p, s)
    [] place = "dv" -> SetDv(m, p, s)

(* nb words of the free chunk p, which is in no bin: the rest becomes free *)
(* and is kept in place, unless it is too small for a chunk of its own.    *)
Carve(m, p, size, nb, place) ==
  LET rsize == size - nb
      split == SetFreeChunk(SetInuseChunk(m, p, nb), p + nb, rsize)
  IN  Got(IF rsize < MIN_CHUNK_SIZE THEN SetInuseAndPinuse(m, p, size)
          ELSE Keep(split, p + nb, rsize, place), p)

tmalloc_large(m, nb) ==
  UNION {Carve([m EXCEPT !.tree = @ \ {v}], v, chunksize(m, v), nb, "bin")
           : v \in {v \in BestFits(m, nb) : chunksize(m, v) - nb < Wrap(m.dvsize + SIZE_T - nb)}}

tmalloc_small(m, nb) ==
  UNION {Carve([m EXCEPT !.tree = @ \ {v}], v, chunksize(m, v), nb, "new dv")
           : v \in BestFits(m, nb)}

FromSmallBin(m, s, nb) ==
  LET p == m.small[s][1]
  IN  Carve(unlink_small_chunk(m, p, s), p, s, nb, "new dv")

(* From dv, else from top, else from the system.  *)
FromDvTopOrSystem(m, nb) ==
  IF nb <= m.dvsize THEN Carve(NoDv(m), m.dv, m.dvsize, nb, "dv")
  ELSE IF nb < m.topsize THEN {SplitTop(m, nb)}
  ELSE sys_alloc(m, nb)

(* Mutant: a small request does not look into the trees.  *)
MallocSmallNoTree(m, nb) ==
  IF smallmap_is_marked(m, nb) THEN FromSmallBin(m, nb, nb)
  ELSE FromDvTopOrSystem(m, nb)

MallocSmall(m, nb) ==
  LET larger == {s \in m.smallmap : s > nb}
  IN  IF smallmap_is_marked(m, nb) THEN FromSmallBin(m, nb, nb)
      ELSE IF nb > m.dvsize /\ larger # {} THEN FromSmallBin(m, Min(larger), nb)
      ELSE IF nb > m.dvsize /\ m.tree # {} THEN tmalloc_small(m, nb)
      ELSE FromDvTopOrSystem(m, nb)

MallocLarge(m, nb) ==
  LET fits == IF nb = MAX_SIZE_T THEN {} ELSE tmalloc_large(m, nb)
  IN  IF fits # {} THEN fits ELSE FromDvTopOrSystem(m, nb)

dlmalloc(m, bytes) ==
  IF bytes <= MAX_SMALL_REQUEST
  THEN MallocSmall(m, request2size(bytes))
  ELSE MallocLarge(m, IF bytes >= MAX_REQUEST THEN MAX_SIZE_T ELSE pad_request(bytes))

(* dlcalloc(): the size it asks dlmalloc() for.  *)
CallocSize(n, size) ==
  LET req == Wrap(n * size)
  IN  IF n # 0 /\ (n >= CALLOC_SAFE \/ size >= CALLOC_SAFE) /\ req \div n # size
      THEN MAX_SIZE_T ELSE req

-----------------------------------------------------------------------------
(* free *)

(* What dispose_chunk() and dlfree() both do: merge the chunk with its     *)
(* free neighbours, and put the result where it belongs.                   *)
Consolidate(m, p, psize) ==
  LET next  == p + psize
      back  == ~pinuse(m, p)
      q     == IF back THEN p - prev_foot(m, p) ELSE p
      qsize == IF back THEN psize + prev_foot(m, p) ELSE psize
      isdv  == back /\ q = m.dv
      m1    == IF back /\ ~isdv THEN unlink_chunk(m, q, prev_foot(m, p)) ELSE m
      nsize == chunksize(m1, next)
      m2    == SetFreeChunk(unlink_chunk(m1, next, nsize), q, qsize + nsize)
      To(mm, where, s) == {[m |-> mm, where |-> where, size |-> s]}
  IN  IF is_mmapped(m, p)
      THEN UNION {To(mm, "system", 0) : mm \in unmap_chunk(m, p)}
      ELSE IF isdv /\ cinuse(m, next) /\ pinuse(m, next)
      THEN To(SetFreeWithPinuse(SetDv(m, q, qsize), q, qsize, next), "dv", qsize)
      ELSE IF cinuse(m1, next)
      THEN To(insert_chunk(SetFreeWithPinuse(m1, q, qsize, next), q, qsize), "bin", qsize)
      ELSE IF next = m1.top
      THEN To(SetTop(IF isdv THEN NoDv(m1) ELSE m1, q, m1.topsize + qsize), "top", 0)
      ELSE IF next = m1.dv
      THEN To(SetFreeChunk(SetDv(m1, q, m1.dvsize + qsize), q, m1.dvsize + qsize), "dv", 0)
      ELSE IF isdv
      THEN To([m2 EXCEPT !.dvsize = qsize + nsize], "dv", 0)
      ELSE To(insert_chunk(m2, q, qsize + nsize), "bin", qsize + nsize)

dispose_chunk(m, p, psize) == {c.m : c \in Consolidate(m, p, psize)}

(* What dlfree() does besides: trimming top, releasing segments.  *)
AfterFree(c) ==
  LET m1 == [c.m EXCEPT !.release_checks = @ - 1]
  IN  IF c.where = "top" /\ c.m.topsize > c.m.trim_check
      THEN {o.m : o \in sys_trim(c.m, 0)}
      ELSE IF c.where = "bin" /\ ~is_small(c.size)
      THEN IF m1.release_checks = 0
           THEN {o.m : o \in release_unused_segments(m1, 0)} ELSE {m1}
      ELSE {c.m}

dlfree(m, mem) ==
  LET p == mem2chunk(mem)
  IN  UNION {AfterFree(c) : c \in Consolidate(m, p, chunksize(m, p))}

-----------------------------------------------------------------------------
(* realloc *)

(* nb words for the inuse chunk p of size, the rest disposed of.  *)
Shrink(m, p, size, nb) ==
  LET rsize == size - nb
  IN  IF rsize >= MIN_CHUNK_SIZE
      THEN dispose_chunk(SetInuse(SetInuse(m, p, nb), p + nb, rsize), p + nb, rsize)
      ELSE {SetInuse(m, p, size)}

(* Growing the chunk p into dv behind it.  *)
GrowIntoDv(m, p, size, nb) ==
  LET dsize == size - nb
      r     == p + nb
  IN  IF dsize >= MIN_CHUNK_SIZE
      THEN SetDv(SetFreeWithPinuse(SetInuse(m, p, nb), r, dsize, r + dsize), r, dsize)
      ELSE NoDv(SetInuse(m, p, size))

(* try_realloc_chunk(): mem is the new chunk, or 0 *)
try_realloc_chunk(m, p, nb, can_move) ==
  LET oldsize == chunksize(m, p)
      next    == p + oldsize
      nsize   == chunksize(m, next)
      InPlace(ms) == {[m |-> mm, mem |-> p] : mm \in ms}
  IN  IF is_mmapped(m, p) THEN mmap_resize(m, p, nb, can_move)
      ELSE IF oldsize >= nb
      THEN InPlace(IF oldsize - nb >= MIN_CHUNK_SIZE THEN Shrink(m, p, oldsize, nb) ELSE {m})
      ELSE IF next = m.top /\ oldsize + m.topsize > nb
      THEN InPlace({SetTop(SetInuse(m, p, nb), p + nb, oldsize + m.topsize - nb)})
      ELSE IF next # m.top /\ next = m.dv /\ oldsize + m.dvsize >= nb
      THEN InPlace({GrowIntoDv(m, p, oldsize + m.dvsize, nb)})
      ELSE IF next # m.top /\ next # m.dv /\ ~cinuse(m, next) /\ oldsize + nsize >= nb
      THEN InPlace(Shrink(unlink_chunk(m, next, nsize), p, oldsize + nsize, nb))
      ELSE {Fail(m)}

Moved(m, oldmem, bytes) ==
  UNION {IF o.mem = 0 THEN {o} ELSE {[o EXCEPT !.m = mm] : mm \in dlfree(o.m, oldmem)}
           : o \in dlmalloc(m, bytes)}

dlrealloc(m, oldmem, bytes) ==
  IF bytes >= MAX_REQUEST
  THEN {Fail(m)}
  ELSE UNION {IF o.mem # 0 THEN Got(o.m, o.mem) ELSE Moved(o.m, oldmem, bytes)
                : o \in try_realloc_chunk(m, mem2chunk(oldmem), request2size(bytes), TRUE)}

dlrealloc_in_place(m, oldmem, bytes) ==
  IF bytes >= MAX_REQUEST
  THEN {Fail(m)}
  ELSE {IF o.mem = mem2chunk(oldmem) THEN [o EXCEPT !.mem = oldmem] ELSE [o EXCEPT !.mem = 0]
          : o \in try_realloc_chunk(m, mem2chunk(oldmem), request2size(bytes), FALSE)}

-----------------------------------------------------------------------------
(* memalign *)

PowersOfTwo == {2 ^ i : i \in 0 .. 20}

RoundUp(n, unit) == ((n + unit - 1) \div unit) * unit

(* Mutant: the header is aligned and not the memory.  *)
AlignedSpotOfHeader(p, alignment) ==
  IF p % alignment = 0 THEN p ELSE RoundUp(p + MIN_CHUNK_SIZE, alignment)

(* The first place in the chunk p for a chunk whose memory is aligned, with *)
(* a chunk's room in front of it unless p itself is aligned.               *)
AlignedSpot(p, alignment) ==
  LET br == mem2chunk(RoundUp(chunk2mem(p), alignment))
  IN  IF chunk2mem(p) % alignment = 0 THEN p
      ELSE IF br >= p + MIN_CHUNK_SIZE THEN br ELSE br + alignment

(* The chunk p of a request padded for the alignment: the aligned spot in  *)
(* it, with the leader and the spare room at the end given back.           *)
AlignIn(m, p, alignment, nb) ==
  LET pos   == AlignedSpot(p, alignment)
      lead  == pos - p
      size  == chunksize(m, p) - lead
      led   == IF lead = 0 THEN {m}
               ELSE IF is_mmapped(m, p)
               THEN {SetHead(Unhead(m, {p}), pos, MmapHead(size, prev_foot(m, p) + lead))}
               ELSE dispose_chunk(SetInuse(SetInuse(m, pos, size), p, lead), p, lead)
      cut(mm) == IF ~is_mmapped(m, p) /\ size > nb + MIN_CHUNK_SIZE
                 THEN Shrink(mm, pos, size, nb) ELSE {mm}
  IN  UNION {Got(mm, pos) : mm \in UNION {cut(l) : l \in led}}

internal_memalign(m, al, bytes) ==
  LET alignment == Min({a \in PowersOfTwo : a >= Max({al, MIN_CHUNK_SIZE})})
      nb  == request2size(bytes)
      req == nb + alignment + MIN_CHUNK_SIZE - CHUNK_OVERHEAD
  IN  IF bytes >= MAX_REQUEST - alignment
      THEN {Fail(m)}
      ELSE UNION {IF o.mem = 0 THEN {o} ELSE AlignIn(o.m, mem2chunk(o.mem), alignment, nb)
                    : o \in dlmalloc(m, req)}

dlmemalign(m, alignment, bytes) ==
  IF alignment <= 2 THEN dlmalloc(m, bytes) ELSE internal_memalign(m, alignment, bytes)

(* dlposix_memalign(); a word is the size of a pointer.  *)
dlposix_memalign(m, alignment, bytes) ==
  IF alignment = 2 THEN dlmalloc(m, bytes)
  ELSE IF alignment \notin PowersOfTwo \/ bytes > MAX_REQUEST - alignment THEN {Fail(m)}
  ELSE internal_memalign(m, Max({alignment, MIN_CHUNK_SIZE}), bytes)

-----------------------------------------------------------------------------
(* Several blocks at once.  *)

(* ialloc(): the chunks of sizes, split from one chunk that is not mapped  *)
(* on its own, so the flag for that is off meanwhile; without an array of  *)
(* the caller's, the chunk behind them is the array.  Outcomes have the    *)
(* sequence mems.                                                          *)
ialloc(uninitialized, sizes, own_array) ==
  LET m         == ensure_initialization(uninitialized)
      no_mmap   == [m EXCEPT !.mflags = @ \ {"mmap"}]
      padded   == [i \in DOMAIN sizes |-> request2size(sizes[i])]
      contents == FoldLeft(LAMBDA n, s : n + s, 0, padded)
      array    == IF own_array THEN 0 ELSE request2size(Len(sizes))
      offset(i) == FoldLeft(LAMBDA n, s : n + s, 0, SubSeq(padded, 1, i - 1))
      split(mm, p) ==
        LET total == chunksize(mm, p)
            body  == IF own_array THEN total ELSE contents
            cuts  == FoldLeft(LAMBDA x, i : SetInuseChunk(x, p + offset(i),
                                IF i = Len(sizes) THEN body - offset(i) ELSE padded[i]),
                              IF own_array THEN mm
                              ELSE SetInuseChunk(mm, p + contents, total - contents),
                              [i \in DOMAIN sizes |-> i])
        IN  [m |-> cuts,
             mems |-> [i \in 1 .. Len(sizes) + (IF own_array THEN 0 ELSE 1) |->
                         chunk2mem(p + offset(i))]]
      whole == IF sizes = <<>> THEN dlmalloc(m, 0)
               ELSE {[o EXCEPT !.m.mflags = m.mflags]
                       : o \in dlmalloc(no_mmap, contents + array - CHUNK_OVERHEAD)}
  IN  {IF o.mem = 0 THEN [m |-> o.m, mems |-> <<>>]
       ELSE IF sizes = <<>> THEN [m |-> o.m, mems |-> <<o.mem>>]
       ELSE split(o.m, mem2chunk(o.mem)) : o \in whole}

(* One turn of the loop of internal_bulk_free(): o.into is the chunk that  *)
(* the one before was merged with this one into, or 0.                     *)
BulkFreeOne(o, array, i) ==
  LET p     == IF o.into # 0 THEN o.into ELSE mem2chunk(array[i])
      psize == chunksize(o.m, p)
      next  == p + psize
  IN  IF i < Len(array) /\ mem2chunk(array[i + 1]) = next
      THEN {[m |-> SetInuse(o.m, p, chunksize(o.m, next) + psize), into |-> p]}
      ELSE {[m |-> mm, into |-> 0] : mm \in dispose_chunk(o.m, p, psize)}

internal_bulk_free(m, array) ==
  LET ends == FoldLeft(LAMBDA os, i : UNION {BulkFreeOne(o, array, i) : o \in os},
                       {[m |-> m, into |-> 0]}, [i \in DOMAIN array |-> i])
  IN  UNION {IF o.m.topsize > o.m.trim_check
             THEN {t.m : t \in sys_trim(o.m, 0)} ELSE {o.m} : o \in ends}

-----------------------------------------------------------------------------
(* Parameters.  *)

(* dlmalloc_set_footprint_limit(): 0 is meant to be the smallest limit, but *)
(* the second if overwrites what the first one computed.  Nothing has      *)
(* initialized the granularity if no other function was called before.     *)
FootprintLimit(bytes) == IF bytes = MAX_SIZE_T THEN 0 ELSE granularity_align(mparams, bytes)

(* change_mparam() *)
ChangedParams(param, val) ==
  IF param = "granularity" /\ ~(val >= PAGE /\ val \in PowersOfTwo)
  THEN Params ELSE [Params EXCEPT ![param] = val]
-----------------------------------------------------------------------------
(* The client.  It writes to none of the headers, and gives back only what *)
(* it owns.                                                                *)

Room(n) == Cardinality(DOMAIN live) + n <= MaxLive

Own(mem, size, align) == (mem :> [size |-> size, align |-> align]) @@ live

Without(blocks, S) == [a \in DOMAIN blocks \ S |-> blocks[a]]

(* The function called ensure_initialization() or not.  *)
ParamsOf(m) == IF m.mflags = {} THEN mparams ELSE Params

(* The function returned mem, for size words.  *)
Returns(o, size, align) ==
  /\ gm' = o.m
  /\ live' = IF o.mem = 0 THEN live ELSE Own(o.mem, size, align)
  /\ mparams' = ParamsOf(o.m)
  /\ UNCHANGED asked

Malloc(size) ==
  Room(1) /\ \E o \in dlmalloc(gm, size) : Returns(o, size, 2)

Calloc(n, size) ==
  Room(1) /\ \E o \in dlmalloc(gm, CallocSize(n, size)) : Returns(o, n * size, 2)

Memalign(alignment, size) ==
  Room(1) /\ \E o \in dlmemalign(gm, alignment, size) : Returns(o, size, alignment)

PosixMemalign(alignment, size) ==
  Room(1) /\ \E o \in dlposix_memalign(gm, alignment, size) : Returns(o, size, alignment)

Valloc(size) ==
  Room(1) /\ \E o \in dlmemalign(ensure_initialization(gm), PAGE, size) : Returns(o, size, PAGE)

Pvalloc(size) ==
  Room(1) /\ \E o \in dlmemalign(ensure_initialization(gm), PAGE, RoundUp(size, PAGE)) :
               Returns(o, RoundUp(size, PAGE), PAGE)

Dispose(S, m) == gm' = m /\ live' = Without(live, S) /\ UNCHANGED <<mparams, asked>>

FreeBlock(a) == \E m \in dlfree(gm, a) : Dispose({a}, m)

BulkFree(a, b) == a # b /\ \E m \in internal_bulk_free(gm, <<a, b>>) : Dispose({a, b}, m)

(* A null pointer says that the old block is as it was.  *)
Resized(o, a, size) ==
  /\ gm' = o.m
  /\ live' = IF o.mem = 0 THEN live
             ELSE (o.mem :> [size |-> size, align |-> 2]) @@ Without(live, {a})
  /\ UNCHANGED <<mparams, asked>>

MayResize(a) ==
  MoveAligned \/ ~is_mmapped(gm, mem2chunk(a)) \/ prev_foot(gm, mem2chunk(a)) = 0

Realloc(a, size) ==
  MayResize(a) /\ \E o \in dlrealloc(gm, a, size) : Resized(o, a, size)

ReallocInPlace(a, size) ==
  MayResize(a) /\ \E o \in dlrealloc_in_place(gm, a, size) : Resized(o, a, size)

(* independent_calloc() and independent_comalloc(): the sizes of the first  *)
(* are equal.  With no sizes and an array there is nothing to do.          *)
Independent(sizes, own_array) ==
  /\ ~(sizes = <<>> /\ own_array)
  /\ Room(Len(sizes) + IF own_array THEN 0 ELSE 1)
  /\ \E o \in ialloc(gm, sizes, own_array) :
       /\ gm' = o.m
       /\ live' = [a \in ToSet(o.mems) |->
                     LET i == CHOOSE i \in DOMAIN o.mems : o.mems[i] = a
                     IN  [size  |-> IF i <= Len(sizes) THEN sizes[i] ELSE Len(sizes),
                          align |-> 2]] @@ live
       /\ mparams' = ParamsOf(o.m)
       /\ UNCHANGED asked

Trim(pad) ==
  \E o \in sys_trim(gm, pad) : gm' = o.m /\ mparams' = ParamsOf(o.m) /\ UNCHANGED <<live, asked>>

(* The limit that the client may expect is recorded beside, unless it asks  *)
(* before the allocator is initialized.                                    *)
SetFootprintLimit(bytes) ==
  /\ gm' = [gm EXCEPT !.limit = FootprintLimit(bytes)]
  /\ asked' = IF gm.mflags = {} THEN asked ELSE RoundUp(bytes, Params.granularity)
  /\ UNCHANGED <<live, mparams>>

Mallopt(param, val) ==
  /\ mparams' = ChangedParams(param, val)
  /\ gm' = ensure_initialization(gm)
  /\ UNCHANGED <<live, asked>>

Init ==
  /\ gm = [chunk |-> <<>>, small |-> [s \in SmallSizes |-> <<>>], smallmap |-> {},
           tree |-> {}, dv |-> 0, dvsize |-> 0, top |-> 0, topsize |-> 0, seg |-> <<>>,
           footprint |-> 0, max_footprint |-> 0, limit |-> 0, trim_check |-> 0,
           release_checks |-> 0, least_addr |-> 0, mflags |-> {},
           pages |-> {}]
  /\ mparams = [granularity |-> 0, mmap_threshold |-> 0, trim_threshold |-> 0]
  /\ live = <<>>
  /\ asked = MAX_SIZE_T

Next ==
  \/ \E n \in Requests : Malloc(n)
  \/ \E r \in Aligned :
       Memalign(r[1], r[2]) \/ PosixMemalign(r[1], r[2]) \/ Valloc(r[2]) \/ Pvalloc(r[2])
  \/ \E c \in Callocs : Calloc(c[1], c[2])
  \/ \E b \in Batches, own \in BOOLEAN : Independent(b, own)
  \/ \E a \in DOMAIN live :
       \/ FreeBlock(a)
       \/ \E b \in DOMAIN live : BulkFree(a, b)
       \/ \E n \in Requests : Realloc(a, n) \/ ReallocInPlace(a, n)
  \/ \E pad \in Pads : Trim(pad)
  \/ \E n \in Limits : SetFootprintLimit(n)
  \/ \E o \in Options : Mallopt(o.param, o.val)

Spec == Init /\ [][Next]_vars

-----------------------------------------------------------------------------
(* Properties *)

(* The state is well formed: malloc_state, the parameters and the blocks.  *)
TypeOK ==
  /\ \A p \in DOMAIN gm.chunk : gm.chunk[p] \in
       [size : 1 .. MAX_SIZE_T, cinuse : BOOLEAN, pinuse : BOOLEAN, foot : 0 .. MAX_SIZE_T]
  /\ gm.tree \cup {gm.dv, gm.top} \subseteq DOMAIN gm.chunk \cup {0}
  /\ gm.smallmap \subseteq SmallSizes
  /\ gm.trim_check \in 0 .. MAX_SIZE_T
  /\ IF gm.mflags = {} THEN mparams.granularity = 0 ELSE mparams.granularity >= PAGE
  /\ gm.footprint \in 0 .. MAX_SIZE_T /\ gm.limit \in 0 .. MAX_SIZE_T
  /\ \A a \in DOMAIN live : live[a].size \in Nat /\ live[a].align \in Nat

(* What do_check_malloc_state() asserts under DEBUG holds between calls:   *)
(* tiling, boundary tags, no two free neighbours, every free chunk in the  *)
(* one place where it belongs, top and dv, least_addr below everything.    *)
HeapSound == TypeOK /\ CheckMallocState(gm, PAGE)

(* Every block has room for what was asked for: malloc() returns "a chunk  *)
(* of at least n bytes" (malloc.c:842), realloc() one "of size n" (874).   *)
HasRoom ==
  \A a \in DOMAIN live :
    live[a].size <= chunksize(gm, mem2chunk(a)) - overhead_for(gm, mem2chunk(a))

(* Every block that the client owns is an inuse chunk with room for what   *)
(* was asked for, and every inuse chunk is owned or a segment's record: no *)
(* sequence of calls loses memory or hands it out twice.                   *)
InuseIsOwned ==
  /\ HasRoom
  /\ \A a \in DOMAIN live :
       LET p == mem2chunk(a)
       IN  p \in DOMAIN gm.chunk \ Records(gm) /\ CheckInuseChunk(gm, p, PAGE)
  /\ \A p \in DOMAIN gm.chunk :
       is_inuse(gm, p) => p \in Records(gm) \/ chunk2mem(p) \in DOMAIN live

(* The words that the system has mapped for a direct chunk.  *)
MappingOf(p) ==
  PagesOf(p - prev_foot(gm, p), chunksize(gm, p) + prev_foot(gm, p) + MMAP_FOOT_PAD)

(* The segments and the mappings of chunks are apart and mapped, and       *)
(* malloc_footprint() is what the system has mapped: also after an         *)
(* munmap(), mremap() or mmap() that failed on the way.                    *)
FootprintIsMapped ==
  LET segments == UNION {PagesOf(gm.seg[i].base, gm.seg[i].size) : i \in DOMAIN gm.seg}
      direct   == UNION {MappingOf(p) : p \in {p \in DOMAIN gm.chunk : is_mmapped(gm, p)}}
  IN  /\ segments \cup direct \subseteq gm.pages
      /\ segments \cap direct = {}
      /\ gm.footprint = PAGE * Cardinality(gm.pages)

(* malloc() asks the system only when no free chunk can hold the request   *)
(* (the order of its steps, malloc.c:4541-4558).                           *)
CanHold(m, nb) ==
  \/ m.dvsize >= nb \/ m.topsize > nb
  \/ \E s \in m.smallmap : s >= nb
  \/ BestFits(m, nb) # {}

GrowsOnlyWhenFull ==
  [][gm'.footprint > gm.footprint =>
       \A n \in Requests : Malloc(n) => ~CanHold(gm, request2size(n))]_vars

(* What the client relies on: see Allocator.  *)
Promise == INSTANCE Allocator WITH mapped <- gm.pages

KeepsPromise == Promise!Spec

(* Once malloc_set_footprint_limit() was called, nothing is mapped that     *)
(* passes the limit asked for, rounded up to the granularity               *)
(* (malloc.c:1002-1007), be it a direct mapping, a new segment or one that *)
(* grows.  Three cases are left out, in which the code does not keep to    *)
(* that: a limit of 0 is none, and so is one that is asked for before the  *)
(* allocator is initialized, when the granularity is still 0; and          *)
(* mmap_resize() never looks at the limit.                                 *)
ResizesMapping ==
  \E a \in DOMAIN live, n \in Requests :
    /\ is_mmapped(gm, mem2chunk(a))
    /\ \E o \in mmap_resize(gm, mem2chunk(a), request2size(n), TRUE) : gm' = o.m

LimitHolds ==
  [][asked # 0 /\ gm'.footprint > gm.footprint =>
       gm'.footprint <= asked \/ ResizesMapping]_vars
=============================================================================

------------------------------- MODULE SysAlloc -------------------------------
(***************************************************************************)
(* The part of libc/malloc.c that talks to the system: chunks in mappings  *)
(* of their own, segments that grow, shrink and go.                        *)
(*                                                                         *)
(* The kernel maps a free range of its choice or fails, and may fail to    *)
(* unmap or remap; m.pages is the set of pages that it has mapped.  An     *)
(* operator returns the set of its outcomes: records with the next state m *)
(* and the value mem (0 is NULL) or released that the function returns.    *)
(***************************************************************************)
EXTENDS Chunks

CONSTANTS
  PAGE,                   \* page size
  NPAGES,                 \* the address space: pages PAGE .. NPAGES * PAGE
  DefaultParams,          \* what init_mparams() sets
  MAX_RELEASE_CHECK_RATE

ASSUME PageAssumption == PAGE \in Nat \ {0} /\ PAGE % 2 = 0 /\ NPAGES \in Nat
ASSUME ScaleAssumption == PAGE >= TOP_FOOT_SIZE + MIN_LARGE   \* a free segment is large
ASSUME ParamsAssumption == DefaultParams.granularity >= PAGE
ASSUME RateAssumption == MAX_RELEASE_CHECK_RATE \in Nat \ {0}

VARIABLE mparams          \* granularity, mmap_threshold and trim_threshold; 0 at first

(* (n + unit - 1) & ~(unit - 1): 0 if unit is.  *)
Align(n, unit) ==
  IF unit = 0 THEN 0 ELSE Wrap(n + unit - 1) - (Wrap(n + unit - 1) % unit)

page_align(n) == Align(n, PAGE)

granularity_align(params, n) == Align(n, params.granularity)

-----------------------------------------------------------------------------
(* Initialization of the parameters, by the first function that needs them. *)

(* init_mparams() sets the flags of gm together with magic, and mallopt()   *)
(* gives no granularity below a page: neither is 0 from then on.           *)
ensure_initialization(m) ==
  IF m.mflags = {} THEN [m EXCEPT !.mflags = {"mmap", "noncontiguous"}] ELSE m

(* mparams behind ensure_initialization() *)
Params == IF mparams.granularity = 0 THEN DefaultParams ELSE mparams

use_mmap(m) == "mmap" \in m.mflags

-----------------------------------------------------------------------------
(* The kernel.  *)

PagesOf(base, len) == {base + PAGE * i : i \in 0 .. (len \div PAGE) - 1}

Free(pages) == {PAGE * i : i \in 1 .. NPAGES} \ pages

(* Where mmap() can put len words; it may also fail.  *)
Mappable(pages, len) ==
  IF len > PAGE * NPAGES THEN {} ELSE {b \in Free(pages) : PagesOf(b, len) \subseteq Free(pages)}

-----------------------------------------------------------------------------
(* Footprint.  *)

(* Mutant: the limit is compared with what there is already.  *)
LimitAllowsPast(m, n) == m.limit = 0 \/ m.footprint <= m.limit

LimitAllows(m, n) ==
  m.limit = 0 \/ (Wrap(m.footprint + n) > m.footprint /\ Wrap(m.footprint + n) <= m.limit)

Grown(m, n) ==
  [m EXCEPT !.footprint = @ + n, !.max_footprint = Max({@, m.footprint + n})]

Lowered(m, base) ==
  [m EXCEPT !.least_addr = IF @ = 0 \/ base < @ THEN base ELSE @]

Fail(m) == [m |-> m, mem |-> 0]

-----------------------------------------------------------------------------
(* Chunks in mappings of their own.  *)

MmapSize(nb) == page_align(nb + 6 + 1)    \* SIX_SIZE_T_SIZES + CHUNK_ALIGN_MASK

MmapHead(s, offset) == [size |-> s, cinuse |-> FALSE, pinuse |-> FALSE, foot |-> offset]

(* mmap_alloc(): the outcomes in which it succeeds.  *)
mmap_alloc(m, nb) ==
  LET mmsize == MmapSize(nb)
      at(b)  == SetHead([m EXCEPT !.pages = @ \cup PagesOf(b, mmsize)],
                        b, MmapHead(mmsize - MMAP_FOOT_PAD, 0))
  IN  IF ~LimitAllows(m, mmsize) \/ mmsize <= nb
      THEN {}
      ELSE {[m |-> Grown(Lowered(at(b), b), mmsize), mem |-> chunk2mem(b)]
              : b \in Mappable(m.pages, mmsize)}

Unhead(m, addrs) == [m EXCEPT !.chunk = [a \in DOMAIN @ \ addrs |-> @[a]]]

(* Where mremap() can put a mapping of newsize that is oldsize long at     *)
(* base: in place if the pages behind it are free, else it moves if it may.*)
(* It fails for a size of 0, as newsize is when the request wraps around.  *)
Remappable(m, base, oldsize, newsize, can_move) ==
  IF newsize = 0 THEN {}
  ELSE IF PagesOf(base, newsize) \subseteq Free(m.pages \ PagesOf(base, oldsize))
  THEN {base}
  ELSE IF can_move THEN Mappable(m.pages, newsize) ELSE {}

(* mmap_resize(): the new chunk in mem, or 0 *)
mmap_resize(m, oldp, nb, can_move) ==
  LET oldsize   == chunksize(m, oldp)
      offset    == prev_foot(m, oldp)
      base      == oldp - offset
      oldmmsize == oldsize + offset + MMAP_FOOT_PAD
      newmmsize == MmapSize(nb)
      psize     == newmmsize - offset - MMAP_FOOT_PAD
      at(b)     == [SetHead(Unhead(m, {oldp}), b + offset, MmapHead(psize, offset)) EXCEPT
                      !.pages = (@ \ PagesOf(base, oldmmsize)) \cup PagesOf(b, newmmsize),
                      !.least_addr = IF b < @ THEN b ELSE @,
                      !.footprint  = @ - oldmmsize + newmmsize,
                      !.max_footprint = Max({@, m.footprint - oldmmsize + newmmsize})]
  IN  IF is_small(nb)
      THEN {Fail(m)}
      ELSE IF oldsize >= nb + 1 /\ oldsize - nb <= 2 * mparams.granularity
      THEN {[m |-> m, mem |-> oldp]}
      ELSE {Fail(m)} \cup
           {[m |-> at(b), mem |-> b + offset]
              : b \in Remappable(m, base, oldmmsize, newmmsize, can_move)}

-----------------------------------------------------------------------------
(* Growing segments.  *)

init_top_here(m, p, psize) == init_top(m, p, psize, Params.trim_threshold)

(* prepend_alloc(): segment i grows down to newbase.  *)
prepend_alloc(m, newbase, oldfirst, nb) ==
  LET q     == newbase + nb
      qsize == oldfirst - newbase - nb
      m1    == SetInuseChunk(m, newbase, nb)
      nsize == chunksize(m1, oldfirst)
      free  == ~is_inuse(m1, oldfirst)
      next  == IF free THEN oldfirst + nsize ELSE oldfirst
      s     == IF free THEN qsize + nsize ELSE qsize
      m2    == IF free THEN unlink_chunk(m1, oldfirst, nsize) ELSE m1
  IN  [mem |-> chunk2mem(newbase),
       m   |-> CASE oldfirst = m.top -> SetTop(m1, q, m.topsize + qsize)
                 [] oldfirst # m.top /\ oldfirst = m.dv ->
                      [SetFreeChunk(m1, q, m.dvsize + qsize) EXCEPT
                         !.dv = q, !.dvsize = m.dvsize + qsize]
                 [] OTHER -> insert_chunk(SetFreeWithPinuse(m2, q, s, next), q, s)]

(* add_segment(): the old top keeps the record of its segment at its end   *)
(* and becomes an ordinary chunk.  The fenceposts behind the record end    *)
(* the walks over the segment; Walk and Tiled end them at the record.      *)
add_segment(m, tbase, tsize) ==
  LET oldsp == m.seg[CHOOSE i \in segment_holding(m, m.top) : TRUE]
      asp   == oldsp.base + oldsp.size - TOP_FOOT_SIZE
      csp   == IF asp < m.top + MIN_CHUNK_SIZE THEN m.top ELSE asp
      m1    == init_top_here(m, tbase, tsize - TOP_FOOT_SIZE)
      m2    == [SetInuseChunk(m1, csp, SEGMENT_SIZE) EXCEPT
                  !.seg = <<[base |-> tbase, size |-> tsize, rec |-> 0],
                            [@[1] EXCEPT !.rec = csp]>> \o Tail(@)]
  IN  IF csp = m.top
      THEN m2
      ELSE insert_chunk(SetFreeWithPinuse(m2, m.top, csp - m.top, csp), m.top, csp - m.top)

(* Allocation from a top that is large enough.  *)
SplitTop(m, nb) ==
  [m   |-> SetInuseChunk(SetTop(m, m.top + nb, m.topsize - nb), m.top, nb),
   mem |-> chunk2mem(m.top)]

FromTop(m, nb) == IF nb < m.topsize THEN SplitTop(m, nb) ELSE Fail(m)

(* The second half of sys_alloc(): what becomes of new space at tbase.  *)
UseSpace(m, tbase, tsize, nb) ==
  LET low    == Lowered(m, tbase)
      behind == {i \in DOMAIN m.seg : m.seg[i].base + m.seg[i].size = tbase}
      before == {i \in DOMAIN m.seg : m.seg[i].base = tbase + tsize}
  IN  CASE ~is_initialized(m) ->
             FromTop(init_top_here([low EXCEPT
                       !.seg = <<[base |-> tbase, size |-> tsize, rec |-> 0]>>,
                       !.release_checks = MAX_RELEASE_CHECK_RATE],
                     tbase, tsize - TOP_FOOT_SIZE), nb)
        [] is_initialized(m) /\ \E i \in behind : Holds(m.seg[i], m.top) ->
             LET i == CHOOSE i \in behind : TRUE
             IN  FromTop(init_top_here([m EXCEPT !.seg[i].size = @ + tsize],
                                       m.top, m.topsize + tsize), nb)
        [] is_initialized(m) /\ ~(\E i \in behind : Holds(m.seg[i], m.top)) /\ before # {} ->
             LET i == CHOOSE i \in before : TRUE
             IN  prepend_alloc([low EXCEPT !.seg[i].base = tbase, !.seg[i].size = @ + tsize],
                               tbase, m.seg[i].base, nb)
        [] OTHER -> FromTop(add_segment(low, tbase, tsize), nb)

(* New space of asize words, used for nb.  *)
FromNewSpace(m, asize, nb) ==
  LET got(b) == Grown([m EXCEPT !.pages = @ \cup PagesOf(b, asize)], asize)
  IN  {UseSpace(got(b), b, asize, nb) : b \in Mappable(m.pages, asize)}

sys_alloc(uninitialized, nb) ==
  LET m      == ensure_initialization(uninitialized)
      direct == IF use_mmap(m) /\ nb >= Params.mmap_threshold /\ m.topsize # 0
                THEN mmap_alloc(m, nb) ELSE {}
      asize  == granularity_align(Params, nb + SYS_ALLOC_PADDING)
      wraps  == asize <= nb
  IN  direct \cup {Fail(m)} \cup
      (IF wraps \/ ~LimitAllows(m, asize) THEN {} ELSE FromNewSpace(m, asize, nb))

-----------------------------------------------------------------------------
(* Giving memory back.  *)

(* Mutant: the footprint shrinks although munmap() failed.  *)
unmap_chunk_unchecked(m, p) ==
  LET base == p - prev_foot(m, p)
      len  == chunksize(m, p) + prev_foot(m, p) + MMAP_FOOT_PAD
      gone == [Unhead(m, {p}) EXCEPT !.footprint = @ - len]
  IN  {gone, [gone EXCEPT !.pages = @ \ PagesOf(base, len)]}

(* munmap() of a chunk with a mapping of its own, in dlfree() and          *)
(* dispose_chunk(): the footprint keeps what could not be unmapped.        *)
unmap_chunk(m, p) ==
  LET base == p - prev_foot(m, p)
      len  == chunksize(m, p) + prev_foot(m, p) + MMAP_FOOT_PAD
      gone == Unhead(m, {p})
  IN  {gone, [gone EXCEPT !.footprint = @ - len, !.pages = @ \ PagesOf(base, len)]}

(* Segment sp holds no chunk but a free one, from its start to its end.  *)
Releasable(m, sp) ==
  /\ ~is_inuse(m, sp.base)
  /\ sp.base + chunksize(m, sp.base) >= sp.base + sp.size - TOP_FOOT_SIZE

(* One turn of the loop of release_unused_segments(), for segment sp.  *)
ReleaseSegment(o, sp) ==
  LET m     == o.m
      psize == chunksize(m, sp.base)
      m1    == IF sp.base = m.dv THEN NoDv(m) ELSE [m EXCEPT !.tree = @ \ {sp.base}]
      gone  == [Unhead(m1, {a \in DOMAIN m1.chunk : Holds(sp, a)}) EXCEPT
                  !.seg = SelectSeq(@, LAMBDA x : x # sp),
                  !.footprint = @ - sp.size,
                  !.pages = @ \ PagesOf(sp.base, sp.size)]
      back  == [m1 EXCEPT !.tree = @ \cup {sp.base}]
  IN  IF Releasable(m, sp)
      THEN {[m |-> gone, released |-> o.released + sp.size], [o EXCEPT !.m = back]}
      ELSE {o}

release_unused_segments(m, released) ==
  LET ends == FoldLeft(LAMBDA os, sp : UNION {ReleaseSegment(o, sp) : o \in os},
                       {[m |-> m, released |-> released]}, Tail(m.seg))
      nsegs == Len(m.seg) - 1
  IN  {[o EXCEPT !.m.release_checks = Max({nsegs, MAX_RELEASE_CHECK_RATE})] : o \in ends}

(* The part of sys_trim() that shrinks the segment of top, by mremap() or  *)
(* munmap(): with what is released, 0 if both fail.                        *)
ShrinkTop(m, pad) ==
  LET unit  == Params.granularity
      extra == (((m.topsize - pad + unit - 1) \div unit) - 1) * unit
      i     == CHOOSE i \in segment_holding(m, m.top) : TRUE
      sp    == m.seg[i]
      less  == [init_top_here(m, m.top, m.topsize - extra) EXCEPT
                  !.seg[i].size = @ - extra,
                  !.footprint = @ - extra,
                  !.pages = @ \ PagesOf(sp.base + sp.size - extra, extra)]
      kept  == [m |-> m, released |-> 0]
  IN  IF m.topsize > pad /\ extra # 0 /\ sp.size >= extra /\ ~has_segment_link(m, sp)
      THEN {kept, [m |-> less, released |-> extra]}
      ELSE {kept}

sys_trim(uninitialized, pad) ==
  LET m == ensure_initialization(uninitialized)
      outcomes == UNION {release_unused_segments(o.m, o.released)
                           : o \in ShrinkTop(m, pad + TOP_FOOT_SIZE)}
      tried(o) == IF o.released = 0 /\ o.m.topsize > o.m.trim_check
                  THEN [o EXCEPT !.m.trim_check = MAX_SIZE_T] ELSE o
  IN  IF pad < MAX_REQUEST /\ is_initialized(m)
      THEN {tried(o) : o \in outcomes}
      ELSE {[m |-> m, released |-> 0]}
=============================================================================

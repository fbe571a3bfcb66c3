--------------------------------- MODULE MM ---------------------------------
(***************************************************************************)
(* The implicit-list memory allocator of the malloc lab (Malloc/mm.c) and  *)
(* the simulated heap it lives in (Malloc/memlib.c), as operators on the   *)
(* heap: a record of the memory's words and of the break, mem_brk.         *)
(* MallocDriver.tla calls them.                                            *)
(*                                                                         *)
(* A block is a header word, a payload and a footer word; both tags hold   *)
(* the block's size, a multiple of 8, with the allocated bit in bit 0.     *)
(* Free blocks hold no links: every search walks all the blocks, and       *)
(* coalesce reads the neighbours' tags where the sizes say they are.       *)
(*                                                                         *)
(* Addresses are bytes from the start of the heap, so that no payload has  *)
(* the address NULL.  Memory is kept by word: a payload's last word counts *)
(* as written when any byte of it is.                                      *)
(***************************************************************************)
EXTENDS Integers

CONSTANTS
    CHUNKSIZE,  \* bytes the heap is extended by at least (4096 in the code)
    MAX_HEAP,   \* bytes the heap may grow to (20 MB in the code)
    Junk        \* what a word holds that was never written

WSIZE == 4      \* bytes of a word, header or footer
DSIZE == 8      \* bytes of a double word, the unit of block sizes
NULL  == 0

ASSUME ChunkAssumption ==
    CHUNKSIZE \in Nat /\ CHUNKSIZE % DSIZE = 0 /\ CHUNKSIZE >= 2 * DSIZE
ASSUME HeapAssumption ==
    MAX_HEAP \in Nat /\ MAX_HEAP >= 4 * WSIZE + CHUNKSIZE
ASSUME JunkAssumption == Junk \in Nat

Addresses == {WSIZE * k : k \in 0 .. (MAX_HEAP \div WSIZE) - 1}

max(x, y) == IF x > y THEN x ELSE y
min(x, y) == IF x < y THEN x ELSE y

-----------------------------------------------------------------------------
(* Words and tags.  Nothing but Junk is read outside the heap.             *)
GET(h, p) == IF p \in Addresses THEN h.mem[p] ELSE Junk
PUT(h, p, v) == [h EXCEPT !.mem[p] = v]

PACK(size, alloc) == size + alloc
SizeIn(tag)  == tag - (tag % 8)
AllocIn(tag) == tag % 2

GET_SIZE(h, p)  == SizeIn(GET(h, p))
GET_ALLOC(h, p) == AllocIn(GET(h, p))

HDRP(bp)         == bp - WSIZE
FTRP(h, bp)      == bp + GET_SIZE(h, HDRP(bp)) - DSIZE
NEXT_BLKP(h, bp) == bp + GET_SIZE(h, HDRP(bp))
PREV_BLKP(h, bp) == bp - GET_SIZE(h, bp - DSIZE)

(* Both tags of the block at bp.  The header goes first: the footer's place *)
(* is computed from the size just stored.                                   *)
PutTags(h, bp, tag) ==
    LET headed == PUT(h, HDRP(bp), tag)
    IN  PUT(headed, FTRP(headed, bp), tag)

-----------------------------------------------------------------------------
(* Mutant: a block joined with its successor keeps its old footer only. *)
coalesceOldFooter(h, bp) ==
    LET next == NEXT_BLKP(h, bp)
        size == GET_SIZE(h, HDRP(bp)) + GET_SIZE(h, HDRP(next))
    IN  [ptr  |-> bp,
         heap |-> IF GET_ALLOC(h, HDRP(next)) = 0
                  THEN PUT(h, HDRP(bp), PACK(size, 0)) ELSE h]

(* coalesce: joins the free block at bp with its free neighbours.          *)
coalesce(h, bp) ==
    LET prev       == PREV_BLKP(h, bp)
        next       == NEXT_BLKP(h, bp)
        prev_alloc == GET_ALLOC(h, FTRP(h, prev))
        next_alloc == GET_ALLOC(h, HDRP(next))
        size       == GET_SIZE(h, HDRP(bp))
        bigger(at, s) == [ptr |-> at, heap |-> PutTags(h, at, PACK(s, 0))]
    IN  CASE prev_alloc = 1 /\ next_alloc = 1 -> [ptr |-> bp, heap |-> h]
          [] prev_alloc = 1 /\ next_alloc = 0 ->
                 bigger(bp, size + GET_SIZE(h, HDRP(next)))
          [] prev_alloc = 0 /\ next_alloc = 1 ->
                 bigger(prev, size + GET_SIZE(h, HDRP(prev)))
          [] prev_alloc = 0 /\ next_alloc = 0 ->
                 bigger(prev, size + GET_SIZE(h, HDRP(prev))
                                   + GET_SIZE(h, FTRP(h, next)))

(* Mutant: the limit is compared with the old break only. *)
CanGrowLateCheck(h, incr) == h.brk <= MAX_HEAP

(* mem_sbrk: moves the break, or fails when the heap is at its limit.      *)
CanGrow(h, incr)  == h.brk + incr <= MAX_HEAP
mem_sbrk(h, incr) == [h EXCEPT !.brk = @ + incr]

mem_reset_brk(h) == [h EXCEPT !.brk = 0]

(* extend_heap: the old epilogue becomes the header of the new free block. *)
extend_heap(h, words) ==
    LET size == (IF words % 2 = 1 THEN words + 1 ELSE words) * WSIZE
        bp   == h.brk
        freed == PutTags(mem_sbrk(h, size), bp, PACK(size, 0))
    IN  IF CanGrow(h, size)
        THEN coalesce(PUT(freed, HDRP(NEXT_BLKP(freed, bp)), PACK(0, 1)), bp)
        ELSE [ptr |-> NULL, heap |-> h]

heap_listp == 2 * WSIZE      \* the prologue block

(* mm_init, on a heap whose break is at the start.  It cannot fail there,  *)
(* by HeapAssumption.                                                      *)
mm_init(h) ==
    LET grown    == mem_sbrk(h, 4 * WSIZE)
        prologue == PUT(PUT(PUT(grown, 0, 0), WSIZE, PACK(DSIZE, 1)),
                        2 * WSIZE, PACK(DSIZE, 1))
        epilogue == PUT(prologue, 3 * WSIZE, PACK(0, 1))
    IN  extend_heap(epilogue, CHUNKSIZE \div WSIZE).heap

-----------------------------------------------------------------------------
(* The blocks a walk from heap_listp meets before a tag of size 0.         *)
BlocksOf(h) ==
    LET walk[p \in Addresses] ==
            IF GET_SIZE(h, HDRP(p)) = 0
            THEN {}
            ELSE {p} \cup IF NEXT_BLKP(h, p) \in Addresses
                          THEN walk[NEXT_BLKP(h, p)] ELSE {}
    IN  walk[heap_listp]

(* find_fit: the smallest free block that is large enough, the first of    *)
(* them in address order.                                                  *)
find_fit(h, asize) ==
    LET sz(p) == GET_SIZE(h, HDRP(p))
        fits  == {p \in BlocksOf(h) : GET_ALLOC(h, HDRP(p)) = 0 /\ sz(p) >= asize}
    IN  IF fits = {} THEN NULL
        ELSE CHOOSE p \in fits :
                 \A q \in fits : sz(p) < sz(q) \/ (sz(p) = sz(q) /\ p <= q)

(* place: allocates asize bytes of the free block at bp, and splits off    *)
(* the rest when it can hold a block.                                      *)
place(h, bp, asize) ==
    LET block_size == GET_SIZE(h, HDRP(bp))
        front      == PutTags(h, bp, PACK(asize, 1))
    IN  IF block_size - asize >= 2 * DSIZE
        THEN PutTags(front, NEXT_BLKP(front, bp), PACK(block_size - asize, 0))
        ELSE PutTags(h, bp, PACK(block_size, 1))

(* Mutant: the rounding forgets the two tags. *)
AdjustedSizeNoTags(size) ==
    IF size <= DSIZE THEN 2 * DSIZE
    ELSE DSIZE * ((size + (DSIZE - 1)) \div DSIZE)

(* The block size for a request: payload, two tags, rounded up to 8.       *)
AdjustedSize(size) ==
    IF size <= DSIZE THEN 2 * DSIZE
    ELSE DSIZE * ((size + DSIZE + (DSIZE - 1)) \div DSIZE)

mm_malloc(h, size) ==
    LET asize    == AdjustedSize(size)
        fit      == find_fit(h, asize)
        extended == extend_heap(h, max(asize, CHUNKSIZE) \div WSIZE)
        granted(from, bp) == [ptr |-> bp, heap |-> place(from, bp, asize)]
    IN  CASE size = 0 -> [ptr |-> NULL, heap |-> h]
          [] size # 0 /\ fit # NULL -> granted(h, fit)
          [] size # 0 /\ fit = NULL /\ extended.ptr # NULL ->
                 granted(extended.heap, extended.ptr)
          [] OTHER -> [ptr |-> NULL, heap |-> h]

mm_free(h, bp) ==
    coalesce(PutTags(h, bp, PACK(GET_SIZE(h, HDRP(bp)), 0)), bp).heap

memcpy(h, dst, src, n) ==
    [h EXCEPT !.mem = [a \in Addresses |->
        IF a \in dst .. dst + n - 1 THEN GET(h, src + (a - dst)) ELSE @[a]]]

memset(h, dst, v, n) ==
    [h EXCEPT !.mem = [a \in Addresses |->
        IF a \in dst .. dst + n - 1 THEN v ELSE @[a]]]

(* Mutant: a realloc that finds no memory has freed the block already. *)
mm_reallocFreesFirst(h, bp, size) ==
    LET new == mm_malloc(mm_free(h, bp), size)
    IN  IF new.ptr = NULL THEN new
        ELSE [ptr  |-> new.ptr,
              heap |-> memcpy(new.heap, new.ptr, bp, min(size, GET_SIZE(h, HDRP(bp)) - DSIZE))]

(* mm_realloc: always a new block, even to shrink.                         *)
mm_realloc(h, bp, size) ==
    LET new     == mm_malloc(h, size)
        oldsize == GET_SIZE(new.heap, HDRP(bp)) - DSIZE
        copied  == memcpy(new.heap, new.ptr, bp, min(size, oldsize))
    IN  CASE size = 0 -> [ptr |-> NULL, heap |-> mm_free(h, bp)]
          [] size # 0 /\ (bp = NULL \/ new.ptr = NULL) -> new
          [] OTHER -> [ptr |-> new.ptr, heap |-> mm_free(copied, bp)]
=============================================================================

---------------------------- MODULE MallocDriver ----------------------------
(***************************************************************************)
(* The malloc lab's driver (Malloc/mdriver.c) running traces against the   *)
(* allocator of mm.c.  A trace allocates, reallocates and frees blocks by  *)
(* index.  It is run at least three times:                                 *)
(*   valid   eval_mm_valid judges every answer with the list of ranges,    *)
(*           and fills each block with its index, to see at a realloc      *)
(*           whether the data came along;                                  *)
(*   util    eval_mm_util compares the space in use with the heap's size;  *)
(*   speed   eval_mm_speed is only timed, several times over.              *)
(* Each run, and the next trace, starts over in the memory that the last   *)
(* one used.                                                               *)
(*                                                                         *)
(* A request and the memset that follows it are two steps, so that what    *)
(* the allocator itself left in a payload is a state; the assignments to   *)
(* blocks[] and block_sizes[], which follow the memset in the code and are *)
(* not read before it, belong to the first.  The requests of a trace are   *)
(* chosen as it is validated, and it may end anywhere; blocks[] is NULL    *)
(* here for a block that the present run does not hold.                    *)
(***************************************************************************)
EXTENDS MM, RangeList

CONSTANTS
    Indices,        \* block indices of a trace
    Sizes,          \* request sizes in bytes
    MaxRequests,    \* bound of the model on requests and new traces
    MaxReplayed     \* bound: longer traces are only validated

ASSUME IndicesAssumption == Indices \subseteq Nat
ASSUME SizesAssumption   == Sizes \subseteq Nat \ {0}
ASSUME RequestsAssumption == MaxRequests \in Nat \ {0} /\ MaxReplayed \in Nat
ASSUME AlignmentAssumption == ALIGNMENT \in Nat \ {0} /\ DSIZE % ALIGNMENT = 0

VARIABLES
    heap,           \* memory and break
    blocks,         \* address of each block; NULL when the trace has none
    block_sizes,    \* size requested for each block
    filling,        \* the block about to be filled, and what to check first
    verdict,        \* what the driver says of the trace so far
    phase,          \* valid, util, speed, or exit when app_error was called
    ops,            \* the trace, or TooLong
    answers,        \* history: the block, and the break, after each of ops
    at,             \* the next request of a replay
    total,          \* of eval_mm_util: total_size and max_total_size
    requests        \* requests and new traces so far

vars == <<heap, ranges, blocks, block_sizes, filling, verdict, phase, ops, answers, at, total, requests>>

Nobody == [index |-> -1, check |-> 0]

InUse == {i \in Indices : blocks[i] # NULL}

mem_heap_hi(h) == h.brk - 1

(* index & 0xFF, and the word that memset leaves: that in each byte, of    *)
(* which TLC's integers hold three.                                        *)
LowByte(i) == i % 256
Pattern(i) == LowByte(i) * 65793

(* A byte of newp, which is a char * and so has a sign, against the int    *)
(* index & 0xFF, which has none.                                           *)
AsChar(byte) == IF byte < 128 THEN byte ELSE byte - 256
Preserved(word, i) == word = Pattern(i) /\ AsChar(LowByte(i)) = LowByte(i)

FreshMemory == [mem |-> [a \in Addresses |-> Junk], brk |-> 0]

TooLong  == <<[type |-> "too long", index |-> -1, size |-> 0]>>
NoBlocks == [i \in Indices |-> NULL]
NoTotal  == [now |-> 0, max |-> 0]

Init ==
    /\ heap        = mm_init(FreshMemory)
    /\ ranges      = << >>
    /\ blocks      = NoBlocks
    /\ block_sizes = [i \in Indices |-> 0]
    /\ filling     = Nobody
    /\ verdict     = "valid"
    /\ phase       = "valid"
    /\ ops         = << >> /\ answers = << >>
    /\ at          = 1
    /\ total       = NoTotal
    /\ requests    = 0

Counted ==
    /\ requests < MaxRequests
    /\ requests' = requests + 1

Replaying == phase \in {"util", "speed"}
Replayed  == Replaying /\ at > Len(ops)

(* A run starts over: the heap is reset, its memory is not.                *)
Restart(run) ==
    /\ phase'  = run
    /\ heap'   = mm_init(mem_reset_brk(heap))
    /\ blocks' = NoBlocks
    /\ at'     = 1
    /\ total'  = NoTotal

(* main, when a trace has failed or been timed: eval_mm_valid begins with  *)
(* the next one.                                                           *)
NextTrace ==
    /\ verdict # "valid" \/ (phase = "speed" /\ Replayed)
    /\ Counted
    /\ Restart("valid")
    /\ ranges'      = << >>
    /\ block_sizes' = [i \in Indices |-> 0]
    /\ filling'     = Nobody
    /\ verdict'     = "valid"
    /\ ops' = << >> /\ answers' = << >>

Ready == phase = "valid" /\ filling = Nobody /\ verdict = "valid"

(* A request of the trace was answered.                                    *)
Recorded(type, i, size, ptr) ==
    LET kept == ops # TooLong /\ Len(ops) < MaxReplayed
    IN  /\ ops' = IF kept THEN Append(ops, [type |-> type, index |-> i, size |-> size]) ELSE TooLong
        /\ answers' = IF kept THEN Append(answers, [ptr |-> ptr, brk |-> heap'.brk]) ELSE << >>
        /\ UNCHANGED <<phase, at, total>>

Fails(what) ==
    /\ verdict' = what
    /\ UNCHANGED <<ranges, blocks, block_sizes, filling>>

(* The allocator answered block i with p: judge the range, given the list  *)
(* without the block's former one, and remember the block.                 *)
Judged(i, p, size, list, check) ==
    LET r == NewRange(p, size)
    IN  IF Accepts(list, r, mem_heap_hi(heap'))
        THEN /\ ranges'      = Added(list, r)
             /\ blocks'      = [blocks EXCEPT ![i] = p]
             /\ block_sizes' = [block_sizes EXCEPT ![i] = size]
             /\ filling'     = [index |-> i, check |-> check]
             /\ UNCHANGED verdict
        ELSE /\ verdict' = "bad range"
             /\ ranges'  = list
             /\ UNCHANGED <<blocks, block_sizes, filling>>

EvalAlloc(i, size) ==
    LET answer == mm_malloc(heap, size)
    IN  /\ Ready
        /\ Counted
        /\ i \notin InUse
        /\ heap' = answer.heap
        /\ Recorded("ALLOC", i, size, answer.ptr)
        /\ IF answer.ptr = NULL
           THEN Fails("mm_malloc failed")
           ELSE Judged(i, answer.ptr, size, ranges, 0)

EvalRealloc(i, size) ==
    LET answer == mm_realloc(heap, blocks[i], size)
    IN  /\ Ready
        /\ Counted
        /\ i \in InUse
        /\ heap' = answer.heap
        /\ Recorded("REALLOC", i, size, answer.ptr)
        /\ IF answer.ptr = NULL
           THEN Fails("mm_realloc failed")
           ELSE Judged(i, answer.ptr, size, Removed(ranges, blocks[i]),
                       min(size, block_sizes[i]))

EvalFree(i) ==
    /\ Ready
    /\ Counted
    /\ i \in InUse
    /\ ranges' = Removed(ranges, blocks[i])
    /\ heap'   = mm_free(heap, blocks[i])
    /\ blocks' = [blocks EXCEPT ![i] = NULL]
    /\ Recorded("FREE", i, 0, NULL)
    /\ UNCHANGED <<block_sizes, filling, verdict>>

(* The rest of an allocation or reallocation: check, then fill.            *)
Fill ==
    LET i == filling.index
        p == blocks[i]
        kept == \A a \in Addresses :
                    a \in p .. p + filling.check - 1 => Preserved(GET(heap, a), i)
    IN  /\ filling # Nobody /\ verdict = "valid"
        /\ IF kept
           THEN /\ heap' = memset(heap, p, Pattern(i), block_sizes[i])
                /\ filling' = Nobody
                /\ UNCHANGED verdict
           ELSE /\ verdict' = "data not preserved"
                /\ UNCHANGED <<heap, filling>>
        /\ UNCHANGED <<ranges, blocks, block_sizes, phase, ops, answers, at, total, requests>>

-----------------------------------------------------------------------------
(* The replays.                                                            *)

(* eval_mm_valid has returned 1; or eval_mm_util, or a call of             *)
(* eval_mm_speed, has reached the end of the trace.                        *)
NextRun ==
    /\ \/ Ready /\ ops # TooLong /\ Restart("util")
       \/ Replayed /\ Restart("speed")
    /\ UNCHANGED <<ranges, block_sizes, filling, verdict, ops, answers, requests>>

Answer(o) ==
    CASE o.type = "ALLOC"   -> mm_malloc(heap, o.size)
      [] o.type = "REALLOC" -> mm_realloc(heap, blocks[o.index], o.size)
      [] o.type = "FREE"    -> [ptr |-> NULL, heap |-> mm_free(heap, blocks[o.index])]

(* Mutant: a realloc counts its block anew. *)
TotalForgets(o) ==
    CASE o.type \in {"ALLOC", "REALLOC"} -> total.now + o.size
      [] o.type = "FREE" -> total.now - block_sizes[o.index]

(* total_size after a request. *)
TotalAfter(o) ==
    CASE o.type = "ALLOC"   -> total.now + o.size
      [] o.type = "REALLOC" -> total.now + (o.size - block_sizes[o.index])
      [] o.type = "FREE"    -> total.now - block_sizes[o.index]

(* eval_mm_util notes sizes, eval_mm_speed does not.                       *)
Noted(o) ==
    IF phase = "util"
    THEN /\ total' = [now |-> TotalAfter(o), max |-> max(total.max, TotalAfter(o))]
         /\ block_sizes' = IF o.type = "FREE" THEN block_sizes ELSE [block_sizes EXCEPT ![o.index] = o.size]
    ELSE UNCHANGED <<total, block_sizes>>

(* One turn of the loop of eval_mm_util or of eval_mm_speed.               *)
Replay ==
    LET o == ops[at]
        answer == Answer(o)
    IN  /\ Replaying /\ ~ Replayed
        /\ heap' = answer.heap
        /\ IF answer.ptr = NULL /\ o.type # "FREE"
           THEN /\ phase' = "exit"
                /\ UNCHANGED <<blocks, block_sizes, at, total>>
           ELSE /\ blocks' = [blocks EXCEPT ![o.index] = answer.ptr]
                /\ at' = at + 1
                /\ Noted(o)
                /\ UNCHANGED phase
        /\ UNCHANGED <<ranges, filling, verdict, ops, answers, requests>>

Next ==
    \/ NextTrace
    \/ NextRun
    \/ Replay
    \/ \E i \in Indices, size \in Sizes : EvalAlloc(i, size) \/ EvalRealloc(i, size)
    \/ \E i \in Indices : EvalFree(i)
    \/ Fill

Spec == Init /\ [][Next]_vars

-----------------------------------------------------------------------------
(* eval_mm_speed leaves block_sizes alone.                                 *)
RequestedSize(i) ==
    IF phase # "speed" THEN block_sizes[i]
    ELSE LET of == {n \in 1 .. at - 1 : ops[n].index = i}
         IN  ops[CHOOSE n \in of : \A m \in of : m <= n].size

(* What the client may rely on: the payloads in use, read from memory.     *)
Live ==
    [p \in {blocks[i] : i \in InUse} |->
        LET i == CHOOSE j \in InUse : blocks[j] = p
        IN  [size |-> RequestedSize(i),
             data |-> [k \in 0 .. (RequestedSize(i) - 1) \div WSIZE |->
                           GET(heap, p + k * WSIZE)]]]

Abstract == INSTANCE AbstractHeap
    WITH live <- Live, Limit <- MAX_HEAP, Alignment <- ALIGNMENT

(* The answers of mm_malloc, mm_realloc and mm_free are those of a correct *)
(* allocator: payloads are aligned, inside the heap and disjoint, a        *)
(* realloc carries the data over, and no other payload is touched, by tags *)
(* or by copies.                                                           *)
ImplementsHeap == Abstract!SpecHeap

-----------------------------------------------------------------------------
Size(p)      == GET_SIZE(heap, HDRP(p))
Allocated(p) == GET_ALLOC(heap, HDRP(p)) = 1
Blocks       == BlocksOf(heap)

(* The walk every search makes: from the prologue, block after block, each *)
(* with equal tags and a legal size, to the epilogue just below the break. *)
(* A stale tag, or one in the wrong place, would send it astray.  And      *)
(* place, mm_free and extend_heap leave no two free blocks side by side.   *)
HeapTiled ==
    /\ heap.brk <= MAX_HEAP
    /\ \A p \in Blocks :
        /\ Size(p) % DSIZE = 0
        /\ p # heap_listp => Size(p) >= 2 * DSIZE
        /\ GET(heap, HDRP(p)) = GET(heap, FTRP(heap, p))
        /\ NEXT_BLKP(heap, p) \in Blocks \cup {heap.brk}
        /\ Allocated(p) \/ Allocated(NEXT_BLKP(heap, p))
    /\ GET(heap, HDRP(heap.brk)) = PACK(0, 1)
    /\ Size(heap_listp) = DSIZE /\ Allocated(heap_listp)

(* Nothing leaks and nothing in use can be handed out: the allocated       *)
(* blocks are the prologue and the blocks the trace holds, each with room  *)
(* for its payload between its tags.                                       *)
AllocatedAreInUse ==
    /\ {p \in Blocks : Allocated(p)} = {heap_listp} \cup {blocks[i] : i \in InUse}
    /\ \A i \in InUse : Size(blocks[i]) - DSIZE >= RequestedSize(i)

(* The driver faults this allocator for nothing but running out of memory: *)
(* remove_range and add_range keep its list equal to the extents of the    *)
(* blocks in use, whatever the order of the requests, and a realloc whose  *)
(* data it misses is one that carried all of it over, of an index whose    *)
(* low byte is negative as a char.                                         *)
DriverFindsNoFault ==
    /\ verdict # "bad range"
    /\ verdict = "data not preserved" =>
           LET i == filling.index
           IN  /\ LowByte(i) >= 128
               /\ \A a \in Addresses :
                      a \in blocks[i] .. blocks[i] + filling.check - 1 => GET(heap, a) = Pattern(i)
    /\ phase = "valid" =>
           {ranges[k] : k \in DOMAIN ranges} =
               {NewRange(blocks[i], block_sizes[i]) : i \in InUse}

(* eval_mm_util and eval_mm_speed: a trace that was found valid is         *)
(* replayed with the same answers and in a heap of the same size, whatever *)
(* the runs before it left in memory; so app_error is never called, and no *)
(* more space is ever counted in use than the heap has.                    *)
ReplaysAgree ==
    /\ phase # "exit"
    /\ Replaying =>
           /\ \A n \in {at - 1} \ {0} :
                 blocks[ops[n].index] = answers[n].ptr /\ heap.brk = answers[n].brk
           /\ total.max <= heap.brk
=============================================================================

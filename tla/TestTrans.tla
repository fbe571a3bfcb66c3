----------------------------- MODULE TestTrans -----------------------------
(***************************************************************************)
(* The cache lab.  Either csim reads a trace of its user's; or test-trans  *)
(* (Cache/test-trans.c) evaluates the transposes: tracegen                 *)
(* (Cache/tracegen.c) runs each of them on random matrices and validates   *)
(* what it did, and the simulator counts the misses of its accesses in a   *)
(* cache of 32 sets of one line of 32 bytes, beginning empty.  Here the    *)
(* simulator goes along with the transpose instead of reading its trace    *)
(* afterwards; the counts are used only when the transpose is valid.       *)
(*                                                                         *)
(* An element of A is the number of its place.  B holds none of those to   *)
(* begin with.                                                             *)
(***************************************************************************)
EXTENDS CSim, Transpose

CONSTANTS
    Sizes,          \* <<M, N>> that test-trans may be called with
    Address         \* where the linker puts A, B and what the markers enclose

(* test-trans refuses to be called without one of the two.                 *)
ASSUME TestSizesAssumption == Sizes \subseteq (Nat \ {0}) \X (Nat \ {0})

VARIABLES
    size,           \* M and N, or NoTest
    fn,             \* the function evaluated: 0 is transpose_submit, 1 is trans
    pc,
    block, at,      \* the block it works on, and the next access
    x,              \* its local variables
    B,              \* matrix B, row by row
    valid,          \* the functions that were found correct
    results         \* what is reported of transpose_submit

testVars == <<size, fn, pc, block, at, x, B, valid, results>>

NoTest  == <<0, 0>>
INT_MAX == 2147483647
Random  == -1

M == size[1]
N == size[2]

csim_ref == INSTANCE CSim WITH s <- 5, E <- 1, b <- 5

-----------------------------------------------------------------------------
(* The blocks of the function, and the accesses inside one.                *)
Step == IF fn = 1 THEN M + N ELSE transpose_submit_step(M, N)

Height == IF block[1] + Step > N THEN N - block[1] ELSE Step
Width  == IF block[2] + Step > M THEN M - block[2] ELSE Step

NextBlock == IF block[2] + Step < M THEN <<block[1], block[2] + Step>> ELSE <<block[1] + Step, 0>>

(* tracegen's main around the call.                                        *)
Before == <<Store("MARKER_START", 0, 0, 0), Load("func_list", fn, 0, 0), Load("N", 0, 0, 0), Load("M", 0, 0, 0)>>
After  == <<Store("MARKER_END", 0, 0, 0)>>

CodeLength ==
    CASE pc = "before" -> Len(Before)
      [] pc = "after"  -> Len(After)
      [] pc = "run"    -> CASE Step = 8 /\ M = 32 -> Len(Transpose32)
                            [] Step = 8 /\ M = 64 -> Len(Transpose64)
                            [] OTHER -> 2 * Height * Width

Code(n) ==
    CASE pc = "before" -> Before[n]
      [] pc = "after"  -> After[n]
      [] pc = "run"    -> CASE Step = 8 /\ M = 32 -> Transpose32[n]
                            [] Step = 8 /\ M = 64 -> Transpose64[n]
                            [] OTHER -> Copied(Width, n)

(* The place of an element in its matrix.                                  *)
ElementOfA(row, col) == M * (block[1] + row) + block[2] + col
ElementOfB(row, col) == N * (block[2] + row) + block[1] + col

AddressOf(a) ==
    CASE a.of = "A" -> Address.A + 4 * ElementOfA(a.row, a.col)
      [] a.of = "B" -> Address.B + 4 * ElementOfB(a.row, a.col)
      [] a.of = "func_list" -> Address.func_list + 32 * a.row
      [] a.of \in {"M", "N", "MARKER_START", "MARKER_END"} -> Address[a.of]

-----------------------------------------------------------------------------
(* initMatrix *)
RandomMatrix == [place \in 0 .. M * N - 1 |-> Random]

(* tracegen is run for the next function, with the simulator beside it.    *)
Evaluate(f) ==
    /\ fn' = f
    /\ pc' = "before"
    /\ block' = <<0, 0>> /\ at' = 1
    /\ x' = [k \in 0 .. 7 |-> Random]
    /\ B' = RandomMatrix
    /\ cache' = csim_ref!EmptyCache /\ curTimeStamp' = 0
    /\ hit' = 0 /\ miss' = 0 /\ eviction' = 0
    /\ UNCHANGED <<read, exited>>

DataMoves(a) ==
    /\ x' = CASE a.op = "L" /\ a.of = "A" -> [x EXCEPT ![a.x] = ElementOfA(a.row, a.col)]
              [] a.op = "L" /\ a.of = "B" -> [x EXCEPT ![a.x] = B[ElementOfB(a.row, a.col)]]
              [] OTHER -> x
    /\ B' = IF a.op = "S" /\ a.of = "B" THEN [B EXCEPT ![ElementOfB(a.row, a.col)] = x[a.x]] ELSE B

(* What comes after the last access of a block, or around the call.        *)
Onward ==
    CASE pc = "before" -> [pc |-> IF Step = 0 THEN "after" ELSE "run", block |-> <<0, 0>>]
      [] pc = "run" -> [pc |-> IF NextBlock[1] < N THEN "run" ELSE "after", block |-> NextBlock]
      [] pc = "after" -> [pc |-> "validate", block |-> block]

tracegen ==
    /\ pc \in {"before", "run", "after"}
    /\ DataMoves(Code(at))
    /\ csim_ref!accessCache(Code(at).op, AddressOf(Code(at)))
    /\ IF at < CodeLength
       THEN at' = at + 1 /\ UNCHANGED <<pc, block>>
       ELSE at' = 1 /\ pc' = Onward.pc /\ block' = Onward.block
    /\ UNCHANGED <<read, size, fn, valid, results>>

(* correctTrans and the comparison with it.                                *)
validate == \A i \in 0 .. N - 1, j \in 0 .. M - 1 : B[N * j + i] = M * i + j

(* eval_perf, when tracegen has ended: an invalid function is skipped.     *)
eval_perf ==
    /\ pc = "validate"
    /\ valid' = IF validate THEN valid \cup {fn} ELSE valid
    /\ results' = IF validate /\ fn = 0 THEN [correct |-> 1, misses |-> miss] ELSE results
    /\ IF fn = 0 THEN Evaluate(1)
       ELSE /\ pc' = "reported"
            /\ UNCHANGED <<fn, block, at, x, B, cache, curTimeStamp, hit, miss, eviction, read, exited>>
    /\ UNCHANGED size

(* The report of a test that took too long.                                *)
sigalrm_handler ==
    /\ pc \in {"before", "run", "after", "validate"}
    /\ pc' = "timed out"
    /\ results' = [correct |-> 0, misses |-> 0]
    /\ UNCHANGED <<size, fn, block, at, x, B, valid, cache, curTimeStamp, hit, miss, eviction, read, exited>>

(* csim reads a line of its user's trace.                                  *)
csim == size = NoTest /\ Next /\ UNCHANGED testVars

TestInit ==
    /\ fn = 0
    /\ block = <<0, 0>> /\ at = 1
    /\ x = [k \in 0 .. 7 |-> Random]
    /\ valid = {}
    /\ results = [correct |-> 0, misses |-> INT_MAX]
    /\ \/ size = NoTest /\ pc = "csim" /\ B = << >> /\ Init
       \/ size \in Sizes /\ pc = "before" /\ B = RandomMatrix /\ csim_ref!Init

TestNext == csim \/ tracegen \/ eval_perf \/ sigalrm_handler

TestSpec == TestInit /\ [][TestNext]_<<csimVars, testVars>>

-----------------------------------------------------------------------------
(* Properties.                                                             *)

(* lruUpdateSet: each set of a user's cache is a least-recently-used       *)
(* store, though all sets share one clock and a modify stamps twice.       *)
ImplementsLRU ==
    /\ size = NoTest => StoresEmpty
    /\ [][size = NoTest => StoresUsed]_<<csimVars, testVars>>

(* printSummary: the counts of a user's trace are those that its reuse     *)
(* distances give.                                                         *)
CountsRight == size = NoTest => CountsAreReuseDistances

(* transpose_submit: for the three sizes that driver.py tries, it is       *)
(* validated, with few enough misses for full marks; for any other, it is  *)
(* not.  trans is validated for every size.                                *)
FullMisses == (<<32, 32>> :> 300) @@ (<<64, 64>> :> 1300) @@ (<<61, 67>> :> 2000)

FullMarks ==
    pc = "reported" =>
        IF size \in DOMAIN FullMisses
        THEN valid = {0, 1} /\ results.correct = 1 /\ results.misses <= FullMisses[size]
        ELSE valid = {1} /\ results = [correct |-> 0, misses |-> INT_MAX]
=============================================================================

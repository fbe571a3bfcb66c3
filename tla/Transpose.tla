----------------------------- MODULE Transpose -----------------------------
(***************************************************************************)
(* The transposes of the cache lab (Cache/trans.c) as the memory accesses  *)
(* they make, in their order.  An access loads the local variable x from   *)
(* an element of A or B, or stores x there.  A transpose goes through its  *)
(* matrix in blocks; the rows and columns below are those inside a block.  *)
(***************************************************************************)
EXTENDS Integers, SequencesExt, TLC

Access(op, of, row, col, x) == [op |-> op, of |-> of, row |-> row, col |-> col, x |-> x]
Load(of, row, col, x)  == Access("L", of, row, col, x)
Store(of, row, col, x) == Access("S", of, row, col, x)

(* for (k = from; k < to; k++) one access, or a sequence of them.          *)
For(from, to, body(_))  == [n \in 1 .. to - from |-> body(from + n - 1)]
Loop(from, to, body(_)) == FlattenSeq(For(from, to, body))

(* Mutant: every pair of elements is exchanged twice. *)
Transpose32Twice ==
    Loop(0, 8, LAMBDA t : For(0, 8, LAMBDA k : Load("A", t, k, k))
                          \o For(0, 8, LAMBDA k : Store("B", t, k, k)))
    \o Loop(0, 8, LAMBDA t : Loop(0, 8, LAMBDA k :
           <<Load("B", t, k, 0), Load("B", k, t, 1), Store("B", t, k, 1), Store("B", k, t, 0)>>))

(* The block is copied row by row, and transposed where it lies.           *)
Transpose32 ==
    Loop(0, 8, LAMBDA t : For(0, 8, LAMBDA k : Load("A", t, k, k))
                          \o For(0, 8, LAMBDA k : Store("B", t, k, k)))
    \o Loop(0, 8, LAMBDA t : Loop(t + 1, 8, LAMBDA k :
           <<Load("B", t, k, 0), Load("B", k, t, 1), Store("B", t, k, 1), Store("B", k, t, 0)>>))

(* The upper right quarter of the block waits in that of B until its place *)
(* is written.                                                             *)
Transpose64 ==
    Loop(0, 4, LAMBDA m : For(0, 8, LAMBDA k : Load("A", m, k, k))
                          \o For(0, 4, LAMBDA k : Store("B", k, m, k))
                          \o For(0, 4, LAMBDA k : Store("B", k, m + 4, k + 4)))
    \o Loop(0, 4, LAMBDA n : For(0, 4, LAMBDA k : Load("A", k + 4, n, k))
                             \o For(0, 4, LAMBDA k : Load("B", n, k + 4, k + 4))
                             \o For(0, 4, LAMBDA k : Store("B", n, k + 4, k))
                             \o For(0, 4, LAMBDA k : Store("B", n + 4, k, k + 4)))
    \o Loop(4, 8, LAMBDA m : For(0, 4, LAMBDA k : Load("A", m, k + 4, k))
                             \o For(0, 4, LAMBDA k : Store("B", k + 4, m, k)))

(* One element after the other, of w columns.                              *)
Copied(w, n) ==
    LET m == ((n - 1) \div 2) \div w
        k == ((n - 1) \div 2) % w
    IN  IF n % 2 = 1 THEN Load("A", m, k, 0) ELSE Store("B", k, m, 0)

(* The side of a block; 0 where the function does nothing.                 *)
transpose_submit_step(M, N) ==
    CASE <<M, N>> \in {<<32, 32>>, <<64, 64>>} -> 8
      [] <<M, N>> = <<61, 67>> -> 23
      [] OTHER -> 0
=============================================================================

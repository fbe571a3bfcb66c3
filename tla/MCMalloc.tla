------------------------------ MODULE MCMalloc ------------------------------
(* The allocator under its driver: a small heap, three block indices, one  *)
(* of which has a low byte that is negative as a char.                     *)
EXTENDS MallocDriver

MCIndices == {0, 1, 456}
MCSizes == {1,9,40}
=============================================================================

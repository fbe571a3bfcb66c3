----------------------------- MODULE RangeList -----------------------------
(***************************************************************************)
(* The list of payload extents by which the malloc driver                  *)
(* (Malloc/mdriver.c) judges an allocator: add_range refuses a payload     *)
(* that is misaligned, outside the heap or overlaps another, remove_range  *)
(* forgets the payload at an address.  MallocDriver.tla runs it beside     *)
(* the allocator of mm.c.                                                  *)
(***************************************************************************)
EXTENDS Integers, SequencesExt

CONSTANT
    ALIGNMENT       \* of payload addresses (8 in the code)

VARIABLE
    ranges          \* the list, newest first, of [lo |-> , hi |-> ]

NewRange(lo, size) == [lo |-> lo, hi |-> lo + size - 1]

(* The comparison add_range makes with each range on the list: an end of   *)
(* the new range lies in the old one.                                      *)
Collides(r, s) ==
    \/ s.lo <= r.lo /\ r.lo <= s.hi
    \/ s.lo <= r.hi /\ r.hi <= s.hi

InHeap(r, hi) == r.lo >= 0 /\ r.lo <= hi /\ r.hi >= 0 /\ r.hi <= hi

(* add_range accepts r, given the list and the heap's last byte.           *)
Accepts(list, r, hi) ==
    /\ r.lo % ALIGNMENT = 0
    /\ InHeap(r, hi)
    /\ \A k \in DOMAIN list : ~ Collides(r, list[k])

Added(list, r) == <<r>> \o list

(* Mutant: the walk never advances the link to patch, so the list's head   *)
(* goes, up to the range found.                                            *)
RemovedUpTo(list, lo) ==
    LET at == {k \in DOMAIN list : list[k].lo = lo}
    IN  IF at = {} THEN list
        ELSE SubSeq(list, (CHOOSE k \in at : TRUE) + 1, Len(list))

(* remove_range: unlinks the first range that starts at lo, if any.        *)
Removed(list, lo) ==
    LET at == {k \in DOMAIN list : list[k].lo = lo}
    IN  IF at = {} THEN list
        ELSE RemoveAt(list, CHOOSE k \in at : \A j \in at : k <= j)

=============================================================================

---------------------------- MODULE AbstractHeap ----------------------------
(***************************************************************************)
(* What a memory allocator promises its client, whatever its block format: *)
(* payloads that are aligned, lie inside the heap, never share a byte, and *)
(* keep what the client wrote into them until they are freed.              *)
(*                                                                         *)
(* The implicit-list allocator of Malloc/mm.c (MM.tla, driven by           *)
(* MallocDriver.tla) implements it.                                        *)
(***************************************************************************)
EXTENDS Integers

CONSTANTS
    Limit,      \* bytes the heap may grow to
    Alignment   \* of every payload address

VARIABLE
    live        \* the payloads in use: address |-> size in bytes and contents

Extent(p, n) == p .. p + n - 1

(* A payload of n bytes at p is a legal answer while the payloads at the   *)
(* addresses in Others stay in use.                                        *)
Grantable(p, n, Others) ==
    /\ n > 0
    /\ p % Alignment = 0
    /\ Extent(p, n) \subseteq 0 .. Limit - 1
    /\ \A q \in Others : Extent(p, n) \cap Extent(q, live[q].size) = {}

(* The payloads at the addresses in S are those of before, byte for byte.  *)
Kept(S) == \A q \in S : live'[q] = live[q]

InitHeap == live = << >>

Allocate ==
    \E p \in DOMAIN live' \ DOMAIN live :
        /\ DOMAIN live' = DOMAIN live \cup {p}
        /\ Grantable(p, live'[p].size, DOMAIN live)
        /\ Kept(DOMAIN live)

Free ==
    \E p \in DOMAIN live :
        /\ DOMAIN live' = DOMAIN live \ {p}
        /\ Kept(DOMAIN live \ {p})

(* The block moves or stays; what fits into the new one is carried over.   *)
Reallocate ==
    \E p \in DOMAIN live, q \in DOMAIN live' :
        /\ DOMAIN live' = (DOMAIN live \ {p}) \cup {q}
        /\ Grantable(q, live'[q].size, DOMAIN live \ {p})
        /\ \A k \in DOMAIN live[p].data \cap DOMAIN live'[q].data :
               live'[q].data[k] = live[p].data[k]
        /\ Kept(DOMAIN live \ {p})

(* The client writes into one payload. *)
Write ==
    \E p \in DOMAIN live :
        /\ DOMAIN live' = DOMAIN live
        /\ live'[p].size = live[p].size
        /\ DOMAIN live'[p].data = DOMAIN live[p].data
        /\ Kept(DOMAIN live \ {p})

(* The heap is thrown away and started again. *)
Reset == live' = << >>

NextHeap == Allocate \/ Free \/ Reallocate \/ Write \/ Reset

SpecHeap == InitHeap /\ [][NextHeap]_live
=============================================================================

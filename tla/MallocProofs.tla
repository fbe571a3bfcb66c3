---------------------------- MODULE MallocProofs ----------------------------
(***************************************************************************)
(* Proofs about the allocator (MM.tla) and about the allocator under its   *)
(* driver (MallocDriver.tla), for every set of indices and sizes, every    *)
(* trace, every heap limit and chunk size.  Part 1: what each operator of  *)
(* the allocator does to a heap that the blocks tile.  Part 2: the driver. *)
(***************************************************************************)
EXTENDS MallocDriver, WellFoundedInduction, FiniteSetTheorems, SequenceTheorems,
        TLAPS

-----------------------------------------------------------------------------
(* Part 1: the allocator's operators.                                      *)

Heaps == [mem : [Addresses -> Nat], brk : Nat]

(* Size and allocated bit of the block at p, from its header.              *)
Sz(h, p) == GET_SIZE(h, HDRP(p))
Al(h, p) == GET_ALLOC(h, HDRP(p))

(* The blocks of h are B: they begin with the prologue, follow each other  *)
(* without gap or overlap up to the epilogue, and have equal tags.         *)
Tiling(h, B) ==
    /\ h \in Heaps /\ h.brk % 8 = 0 /\ h.brk <= MAX_HEAP
    /\ 8 \in B /\ GET(h, 4) = 9
    /\ \A p \in B : /\ p \in Nat /\ p % 8 = 0 /\ 8 <= p /\ p < h.brk
                    /\ p # 8 => Sz(h, p) >= 16
                    /\ GET(h, p - 4) = GET(h, p + Sz(h, p) - 8)
                    /\ p + Sz(h, p) \in B \cup {h.brk}
    /\ \A p, q \in B : p < q => p + Sz(h, p) <= q
    /\ \A q \in B \cup {h.brk} : q = 8 \/ \E p \in B : p + Sz(h, p) = q
    /\ GET(h, h.brk - 4) = 1

(* No two free blocks lie side by side.                                    *)
Coalesced(h, B) == \A p \in B : Al(h, p) = 1 \/ Al(h, p + Sz(h, p)) = 1

-----------------------------------------------------------------------------
(* Addresses and tags.                                                     *)

LEMMA AddressIs ==
    ASSUME NEW p \in Int
    PROVE  p \in Addresses <=> 0 <= p /\ p % 4 = 0 /\ p + 4 <= MAX_HEAP
<1>1. MAX_HEAP \in Nat
  BY HeapAssumption
<1> DEFINE n == MAX_HEAP \div 4
<1>2. n \in Nat /\ 4 * n <= MAX_HEAP /\ MAX_HEAP < 4 * n + 4
  BY <1>1
<1>3. p \in Addresses => 0 <= p /\ p % 4 = 0 /\ p + 4 <= MAX_HEAP
  <2>1. SUFFICES ASSUME NEW k \in 0 .. n - 1, p = 4 * k
                 PROVE  0 <= p /\ p % 4 = 0 /\ p + 4 <= MAX_HEAP
    BY DEF Addresses, WSIZE
  <2> HIDE DEF n
  <2> QED
    BY <1>1, <1>2, <2>1
<1>4. ASSUME 0 <= p, p % 4 = 0, p + 4 <= MAX_HEAP
      PROVE  p \in Addresses
  <2> DEFINE k == p \div 4
  <2>1. k \in Nat /\ p = 4 * k
    BY <1>4
  <2>2. k \in 0 .. n - 1
    <3> HIDE DEF k, n
    <3> QED
      BY <1>1, <1>2, <1>4, <2>1
  <2> QED
    BY <2>1, <2>2 DEF Addresses, WSIZE
<1> QED
  BY <1>3, <1>4

LEMMA TagIs ==
    ASSUME NEW s \in Nat, s % 8 = 0, NEW a \in {0, 1}
    PROVE  PACK(s, a) \in Nat /\ PACK(s, a) = s + a /\ SizeIn(PACK(s, a)) = s /\ AllocIn(PACK(s, a)) = a
<1>1. s + a \in Nat /\ (s + a) % 8 = a /\ (s + a) % 2 = a
  OBVIOUS
<1> QED
  BY <1>1 DEF PACK, SizeIn, AllocIn

LEMMA SizeInIs ==
    ASSUME NEW t \in Nat
    PROVE  /\ SizeIn(t) \in Nat /\ SizeIn(t) % 8 = 0
           /\ AllocIn(t) \in {0, 1}
<1>1. t % 8 \in 0 .. 7 /\ t % 8 <= t /\ (t - (t % 8)) % 8 = 0 /\ t % 2 \in 0 .. 1
  OBVIOUS
<1> QED
  BY <1>1 DEF SizeIn, AllocIn

LEMMA GetType ==
    ASSUME NEW h \in Heaps, NEW p
    PROVE  /\ GET(h, p) \in Nat
           /\ GET_SIZE(h, p) \in Nat /\ GET_SIZE(h, p) % 8 = 0
           /\ GET_ALLOC(h, p) \in {0, 1}
<1>1. GET(h, p) \in Nat
  BY JunkAssumption DEF GET, Heaps
<1> QED
  BY <1>1, SizeInIs DEF GET_SIZE, GET_ALLOC

LEMMA PutIs ==
    ASSUME NEW h \in Heaps, NEW p \in Addresses, NEW v \in Nat
    PROVE  /\ PUT(h, p, v) \in Heaps
           /\ PUT(h, p, v).brk = h.brk
           /\ \A q : GET(PUT(h, p, v), q) = IF q = p THEN v ELSE GET(h, q)
BY DEF PUT, GET, Heaps

LEMMA PutTagsIs ==
    ASSUME NEW h \in Heaps, NEW p \in Int, NEW s \in Nat, s % 8 = 0, NEW a \in {0, 1},
           p - 4 \in Addresses, p + s - 8 \in Addresses
    PROVE  LET g == PutTags(h, p, PACK(s, a))
           IN  /\ g \in Heaps
               /\ g.brk = h.brk
               /\ \A q : GET(g, q) = IF q \in {p - 4, p + s - 8} THEN s + a ELSE GET(h, q)
<1> DEFINE tag == PACK(s, a)
           headed == PUT(h, p - 4, tag)
<1>1. tag \in Nat /\ tag = s + a /\ SizeIn(tag) = s
  BY TagIs
<1>2. /\ headed \in Heaps /\ headed.brk = h.brk
      /\ \A q : GET(headed, q) = IF q = p - 4 THEN tag ELSE GET(h, q)
  BY <1>1, PutIs
<1>3. FTRP(headed, p) = p + s - 8
  BY <1>1, <1>2 DEF FTRP, GET_SIZE, HDRP, WSIZE, DSIZE
<1>4. PutTags(h, p, tag) = PUT(headed, p + s - 8, tag)
  BY <1>3 DEF PutTags, HDRP, WSIZE
<1>5. /\ PUT(headed, p + s - 8, tag) \in Heaps /\ PUT(headed, p + s - 8, tag).brk = headed.brk
      /\ \A q : GET(PUT(headed, p + s - 8, tag), q) = IF q = p + s - 8 THEN tag ELSE GET(headed, q)
  BY <1>1, <1>2, PutIs
<1> HIDE DEF tag, headed
<1> QED
  BY <1>1, <1>2, <1>4, <1>5 DEF tag

-----------------------------------------------------------------------------
(* What a tiling says of one block.                                        *)

LEMMA SzIs ==
    ASSUME NEW h \in Heaps, NEW p
    PROVE  /\ Sz(h, p) = SizeIn(GET(h, p - 4)) /\ Al(h, p) = AllocIn(GET(h, p - 4))
           /\ Sz(h, p) \in Nat /\ Sz(h, p) % 8 = 0 /\ Al(h, p) \in {0, 1}
  BY GetType DEF Sz, Al, GET_SIZE, GET_ALLOC, HDRP, WSIZE

LEMMA BlockIs ==
    ASSUME NEW h, NEW B, Tiling(h, B), NEW p \in B
    PROVE  /\ p \in Nat /\ p % 8 = 0 /\ 8 <= p /\ p < h.brk
           /\ Sz(h, p) \in Nat /\ Sz(h, p) % 8 = 0 /\ Sz(h, p) >= 8
           /\ p # 8 => Sz(h, p) >= 16
           /\ Al(h, p) \in {0, 1}
           /\ (p + Sz(h, p)) % 8 = 0 /\ p + Sz(h, p) <= h.brk
           /\ p - 4 \in Addresses /\ p + Sz(h, p) - 8 \in Addresses
           /\ GET(h, p - 4) = GET(h, p + Sz(h, p) - 8)
           /\ p + Sz(h, p) \in B \cup {h.brk}
           /\ p = 8 => Sz(h, p) = 8 /\ Al(h, p) = 1
<1>1. /\ h \in Heaps /\ h.brk \in Nat /\ h.brk % 8 = 0 /\ h.brk <= MAX_HEAP /\ MAX_HEAP \in Nat
      /\ p \in Nat /\ p % 8 = 0 /\ 8 <= p /\ p < h.brk
      /\ p # 8 => Sz(h, p) >= 16
      /\ GET(h, p - 4) = GET(h, p + Sz(h, p) - 8)
      /\ p + Sz(h, p) \in B \cup {h.brk}
      /\ GET(h, 4) = 9
  BY HeapAssumption DEF Tiling, Heaps
<1>2. Sz(h, p) \in Nat /\ Sz(h, p) % 8 = 0 /\ Al(h, p) \in {0, 1}
  BY <1>1, SzIs
<1>3. p = 8 => Sz(h, p) = 8 /\ Al(h, p) = 1
  BY <1>1, SzIs DEF SizeIn, AllocIn
<1>4. p + Sz(h, p) <= h.brk
  <2>1. \A q \in B : q \in Nat /\ q < h.brk
    BY DEF Tiling
  <2> QED
    BY <1>1, <1>2, <2>1
<1>5. p - 4 \in Addresses
  BY <1>1, AddressIs
<1>6. p + Sz(h, p) - 8 \in Addresses
  <2>1. p + Sz(h, p) - 8 \in Int /\ (p + Sz(h, p) - 8) % 4 = 0
    BY <1>1, <1>2
  <2>2. 0 <= p + Sz(h, p) - 8 /\ p + Sz(h, p) - 8 + 4 <= MAX_HEAP
    BY <1>1, <1>2, <1>4
  <2> QED
    BY <2>1, <2>2, AddressIs
<1>7. (p + Sz(h, p)) % 8 = 0
  BY <1>1, <1>2
<1> QED
  BY <1>1, <1>2, <1>3, <1>4, <1>5, <1>6, <1>7

LEMMA EndIs ==
    ASSUME NEW h, NEW B, Tiling(h, B)
    PROVE  /\ h \in Heaps /\ h.brk \in Nat /\ h.brk % 8 = 0 /\ h.brk <= MAX_HEAP /\ h.brk >= 16
           /\ h.brk - 4 \in Addresses /\ GET(h, h.brk - 4) = 1
           /\ h.brk \notin B
           /\ Sz(h, h.brk) = 0 /\ Al(h, h.brk) = 1
<1>1. /\ h \in Heaps /\ h.brk \in Nat /\ h.brk % 8 = 0 /\ h.brk <= MAX_HEAP /\ MAX_HEAP \in Nat
      /\ GET(h, h.brk - 4) = 1 /\ 8 \in B
  BY HeapAssumption DEF Tiling, Heaps
<1>2. h.brk >= 16
  <2>1. 8 + Sz(h, 8) <= h.brk /\ Sz(h, 8) = 8
    BY <1>1, BlockIs
  <2> QED
    BY <1>1, <2>1
<1>3. h.brk - 4 \in Addresses
  BY <1>1, <1>2, AddressIs
<1>4. h.brk \notin B
  BY <1>1, BlockIs
<1>5. Sz(h, h.brk) = 0 /\ Al(h, h.brk) = 1
  BY <1>1, SzIs DEF SizeIn, AllocIn
<1> QED
  BY <1>1, <1>2, <1>3, <1>4, <1>5

LEMMA BlocksApart ==
    ASSUME NEW h, NEW B, Tiling(h, B), NEW p \in B, NEW q \in B, p < q
    PROVE  p + Sz(h, p) <= q
  BY DEF Tiling

LEMMA PredecessorIs ==
    ASSUME NEW h, NEW B, Tiling(h, B), NEW q \in B \cup {h.brk}, q # 8
    PROVE  /\ \E p \in B : p + Sz(h, p) = q
           /\ \A p \in B : p + Sz(h, p) = q => p = q - GET_SIZE(h, q - 8)
<1>1. \E p \in B : p + Sz(h, p) = q
  BY DEF Tiling
<1>2. ASSUME NEW p \in B, p + Sz(h, p) = q
      PROVE  p = q - GET_SIZE(h, q - 8)
  <2>1. GET(h, q - 8) = GET(h, p - 4)
    BY <1>2, BlockIs
  <2>2. GET_SIZE(h, q - 8) = Sz(h, p)
    BY <2>1 DEF Sz, GET_SIZE, HDRP, WSIZE
  <2> QED
    BY <1>2, <2>2, BlockIs
<1> QED
  BY <1>1, <1>2

-----------------------------------------------------------------------------
(* New tags for the blocks from p up to n, as one block.  Only words of    *)
(* those blocks change.                                                    *)

Joined(B, p, n) == {q \in B : q <= p \/ n <= q}

JoinsTo(h, B, p, n, a, g) ==
    /\ Tiling(g, Joined(B, p, n)) /\ g.brk = h.brk
    /\ p \in Joined(B, p, n)
    /\ Sz(g, p) = n - p /\ Al(g, p) = a
    /\ \A q \in Joined(B, p, n) \ {p} : Sz(g, q) = Sz(h, q) /\ Al(g, q) = Al(h, q)
    /\ \A w \in Int : w < p - 4 \/ n - 4 <= w => GET(g, w) = GET(h, w)

LEMMA JoinBlocks ==
    ASSUME NEW h, NEW B, Tiling(h, B), NEW p \in B, p # 8,
           NEW n \in B \cup {h.brk}, p < n, NEW a \in {0, 1}
    PROVE  JoinsTo(h, B, p, n, a, PutTags(h, p, PACK(n - p, a)))
<1> DEFINE g == PutTags(h, p, PACK(n - p, a))
           D == Joined(B, p, n)
<1>1. /\ h \in Heaps /\ h.brk \in Nat /\ h.brk % 8 = 0 /\ h.brk <= MAX_HEAP /\ h.brk >= 16
      /\ GET(h, h.brk - 4) = 1 /\ h.brk \notin B
  BY EndIs
<1>2. \A q \in B : /\ q \in Nat /\ q % 8 = 0 /\ 8 <= q /\ q < h.brk
                   /\ Sz(h, q) \in Nat /\ Sz(h, q) % 8 = 0 /\ Sz(h, q) >= 8
                   /\ q # 8 => Sz(h, q) >= 16
                   /\ q + Sz(h, q) \in Nat /\ (q + Sz(h, q)) % 8 = 0 /\ q + Sz(h, q) <= h.brk
                   /\ GET(h, q - 4) = GET(h, q + Sz(h, q) - 8)
                   /\ q + Sz(h, q) \in B \cup {h.brk}
  BY BlockIs
<1>3. \A q, r \in B : q < r => q + Sz(h, q) <= r
  BY DEF Tiling
<1>4. /\ n \in Nat /\ n % 8 = 0 /\ p \in Nat /\ p % 8 = 0 /\ p > 8
      /\ n <= h.brk /\ p + Sz(h, p) <= n /\ n - p >= 16 /\ n - p \in Nat /\ (n - p) % 8 = 0
  <2>1. n \in Nat /\ n % 8 = 0 /\ n <= h.brk
    BY <1>1, <1>2
  <2>2. p + Sz(h, p) <= n
    BY <1>2, <1>3
  <2> QED
    BY <1>2, <2>1, <2>2
<1>5. p - 4 \in Addresses /\ n - 8 \in Addresses
  <2>1. (n - 8) % 4 = 0 /\ (p - 4) % 4 = 0
    BY <1>4
  <2> QED
    BY <1>1, <1>4, <2>1, AddressIs, HeapAssumption
<1>6. /\ g \in Heaps /\ g.brk = h.brk
      /\ \A q : GET(g, q) = IF q \in {p - 4, n - 8} THEN n - p + a ELSE GET(h, q)
  <2>1. p + (n - p) - 8 = n - 8
    BY <1>4
  <2> QED
    BY <1>1, <1>4, <1>5, <2>1, PutTagsIs
<1> HIDE DEF g
<1>7. Sz(g, p) = n - p /\ Al(g, p) = a
  <2>1. GET(g, p - 4) = PACK(n - p, a)
    BY <1>6 DEF PACK
  <2> QED
    BY <1>4, <1>6, <2>1, SzIs, TagIs
<1>8. D \subseteq B /\ p \in D /\ 8 \in D /\ \A q \in D \ {p} : q < p \/ n <= q
  BY <1>2, <1>4 DEF Joined, Tiling
<1>9. ASSUME NEW q \in D \ {p}
      PROVE  /\ GET(g, q - 4) = GET(h, q - 4) /\ Sz(g, q) = Sz(h, q) /\ Al(g, q) = Al(h, q)
             /\ GET(g, q + Sz(g, q) - 8) = GET(h, q + Sz(h, q) - 8)
             /\ q + Sz(h, q) \in D \cup {h.brk} /\ (q + Sz(h, q) <= p \/ n <= q)
  <2>1. q \in B /\ (q < p \/ n <= q)
    BY <1>8
  <2>2. q - 4 # p - 4 /\ q - 4 # n - 8
    BY <1>2, <1>4, <2>1
  <2>3. GET(g, q - 4) = GET(h, q - 4) /\ Sz(g, q) = Sz(h, q) /\ Al(g, q) = Al(h, q)
    BY <1>1, <1>6, <2>2, SzIs
  <2>4. q + Sz(h, q) <= p \/ n <= q
    BY <1>3, <2>1
  <2>5. q + Sz(h, q) - 8 # p - 4 /\ q + Sz(h, q) - 8 # n - 8
    BY <1>2, <1>4, <2>1, <2>4
  <2>6. q + Sz(h, q) <= p \/ n <= q + Sz(h, q)
    BY <1>2, <1>4, <2>1, <2>4
  <2> QED
    BY <1>2, <1>6, <2>1, <2>3, <2>4, <2>5, <2>6 DEF Joined
<1>10. GET(g, p - 4) = GET(g, p + Sz(g, p) - 8) /\ p + Sz(g, p) = n
  <2>1. p + (n - p) - 8 = n - 8 /\ p + (n - p) = n
    BY <1>4
  <2> QED
    BY <1>6, <1>7, <2>1
<1>11. n \in D \cup {h.brk}
  BY <1>4 DEF Joined
<1>12. ASSUME NEW q \in D, NEW r \in D, q < r
       PROVE  q + Sz(g, q) <= r
  <2>1. CASE q = p
    BY <1>2, <1>4, <1>8, <1>10, <1>12, <2>1
  <2>2. CASE q # p
    BY <1>3, <1>8, <1>9, <1>12, <2>2
  <2> QED
    BY <2>1, <2>2
<1>13. ASSUME NEW r \in D \cup {h.brk}, r # 8
       PROVE  \E q \in D : q + Sz(g, q) = r
  <2>1. PICK q \in B : q + Sz(h, q) = r
    BY <1>8, <1>13, PredecessorIs
  <2>2. CASE r = n
    BY <1>8, <1>10, <2>2
  <2>3. CASE r # n
    <3>1. r <= p \/ n < r
      <4>1. r \in Nat /\ (r <= p \/ n <= r)
        BY <1>1, <1>2, <1>4, <1>8 DEF Joined
      <4> QED
        BY <1>4, <2>3, <4>1
    <3>2. q # p
      BY <1>2, <1>4, <2>1, <3>1
    <3>3. q < p \/ n <= q
      <4>1. r <= p => q < p
        BY <1>2, <1>4, <2>1
      <4>2. n < r => n <= q
        <5>1. ASSUME n < r, q < n PROVE FALSE
          <6>1. n \in B
            <7>1. q + Sz(h, q) <= h.brk
              BY <1>2
            <7> QED
              BY <1>1, <1>2, <1>4, <2>1, <5>1, <7>1
          <6> QED
            BY <1>2, <1>3, <1>4, <2>1, <5>1, <6>1
        <5> QED
          BY <1>2, <1>4, <5>1
      <4> QED
        BY <3>1, <4>1, <4>2
    <3>4. q \in D
      BY <1>2, <1>4, <3>3 DEF Joined
    <3> QED
      BY <1>9, <2>1, <3>2, <3>4
  <2> QED
    BY <2>2, <2>3
<1>14. GET(g, 4) = 9 /\ GET(g, h.brk - 4) = 1
  <2>1. 4 # p - 4 /\ 4 # n - 8
    BY <1>4
  <2>2. h.brk - 4 # p - 4 /\ h.brk - 4 # n - 8
    BY <1>1, <1>4
  <2> QED
    BY <1>1, <1>6, <2>1, <2>2 DEF Tiling
<1>15. Tiling(g, D)
  <2>1. \A q \in D : /\ q \in Nat /\ q % 8 = 0 /\ 8 <= q /\ q < g.brk
                     /\ q # 8 => Sz(g, q) >= 16
                     /\ GET(g, q - 4) = GET(g, q + Sz(g, q) - 8)
                     /\ q + Sz(g, q) \in D \cup {g.brk}
    BY <1>2, <1>4, <1>6, <1>7, <1>8, <1>9, <1>10, <1>11
  <2> HIDE DEF D
  <2> QED
    BY <1>1, <1>6, <1>8, <1>12, <1>13, <1>14, <2>1 DEF Tiling
<1>16. \A w \in Int : w < p - 4 \/ n - 4 <= w => GET(g, w) = GET(h, w)
  BY <1>4, <1>6
<1> QED
  BY <1>6, <1>7, <1>8, <1>9, <1>15, <1>16 DEF JoinsTo, g

(* A block that is as it was: its tags, and every word between them.       *)
Kept(h, g, q) ==
    /\ Sz(g, q) = Sz(h, q) /\ Al(g, q) = Al(h, q)
    /\ \A w \in Int : q - 4 <= w /\ w < q + Sz(h, q) - 4 => GET(g, w) = GET(h, w)

InUseOf(h, B) == {q \in B : Al(h, q) = 1}

LEMMA JoinKeeps ==
    ASSUME NEW h, NEW B, Tiling(h, B), NEW p \in B, NEW n \in B \cup {h.brk}, p < n,
           NEW a \in {0, 1}, NEW g, JoinsTo(h, B, p, n, a, g)
    PROVE  /\ \A q \in B : q < p \/ n <= q => Kept(h, g, q)
           /\ InUseOf(g, Joined(B, p, n)) =
                  {q \in InUseOf(h, B) : q < p \/ n <= q} \cup (IF a = 1 THEN {p} ELSE {})
<1>1. \A q \in B : q \in Nat /\ Sz(h, q) \in Nat /\ q < h.brk
  BY BlockIs
<1>2. n \in Nat /\ p \in Nat
  BY <1>1, EndIs
<1>3. ASSUME NEW q \in B, q < p \/ n <= q
      PROVE  Kept(h, g, q)
  <2>1. q \in Joined(B, p, n) \ {p}
    BY <1>1, <1>2, <1>3 DEF Joined
  <2>2. q < p => q + Sz(h, q) <= p
    BY BlocksApart
  <2>3. ASSUME NEW w \in Int, q - 4 <= w, w < q + Sz(h, q) - 4
        PROVE  w < p - 4 \/ n - 4 <= w
    BY <1>1, <1>2, <1>3, <2>2, <2>3
  <2> QED
    BY <2>1, <2>3 DEF Kept, JoinsTo
<1>4. \A q \in Joined(B, p, n) \ {p} : q \in B /\ (q < p \/ n <= q)
  BY <1>1, <1>2 DEF Joined
<1>5. \A q \in B : q < p \/ n <= q => q \in Joined(B, p, n) \ {p}
  BY <1>1, <1>2 DEF Joined
<1> QED
  BY <1>3, <1>4, <1>5 DEF InUseOf, JoinsTo

-----------------------------------------------------------------------------
(* Two heaps with the same blocks, whatever their payloads hold.           *)

SameTags(h, k, B) ==
    /\ Tiling(h, B) /\ Tiling(k, B)
    /\ h.brk = k.brk
    /\ \A p \in B : Sz(h, p) = Sz(k, p) /\ Al(h, p) = Al(k, p)

LEMMA JoinSame ==
    ASSUME NEW h, NEW k, NEW B, SameTags(h, k, B), NEW p, NEW n, NEW a,
           NEW g, NEW f, JoinsTo(h, B, p, n, a, g), JoinsTo(k, B, p, n, a, f)
    PROVE  SameTags(g, f, Joined(B, p, n))
<1>1. \A q \in Joined(B, p, n) : q \in B
  BY DEF Joined
<1> QED
  BY <1>1 DEF SameTags, JoinsTo

-----------------------------------------------------------------------------
(* coalesce.  The free block at bp becomes the one from Lo to Hi.          *)

Lo(h, bp) == IF Al(h, PREV_BLKP(h, bp)) = 1 THEN bp ELSE PREV_BLKP(h, bp)
Hi(h, bp) ==
    LET next == bp + Sz(h, bp)
    IN  IF Al(h, next) = 1 THEN next ELSE next + Sz(h, next)

LEMMA CoalesceCases ==
    ASSUME NEW h, NEW B, Tiling(h, B), NEW bp \in B, bp # 8
    PROVE  coalesce(h, bp) =
               IF Lo(h, bp) = bp /\ Hi(h, bp) = bp + Sz(h, bp)
               THEN [ptr |-> bp, heap |-> h]
               ELSE [ptr |-> Lo(h, bp),
                     heap |-> PutTags(h, Lo(h, bp), PACK(Hi(h, bp) - Lo(h, bp), 0))]
<1>1. PICK p \in B : p + Sz(h, p) = bp
  BY PredecessorIs
<1> DEFINE n == bp + Sz(h, bp)
<1>2. PREV_BLKP(h, bp) = p
  BY <1>1, PredecessorIs DEF PREV_BLKP, DSIZE
<1>3. /\ bp \in Nat /\ p \in Nat /\ Sz(h, p) \in Nat /\ Sz(h, p) >= 8
      /\ Sz(h, bp) \in Nat /\ Sz(h, bp) >= 8
      /\ Al(h, p) \in {0, 1} /\ n \in B \cup {h.brk}
      /\ GET(h, p - 4) = GET(h, bp - 8)
  BY <1>1, BlockIs
<1>4. /\ Al(h, n) \in {0, 1} /\ Sz(h, n) \in Nat
      /\ Al(h, n) = 0 => Sz(h, n) >= 8 /\ GET(h, n - 4) = GET(h, n + Sz(h, n) - 8)
  BY <1>3, BlockIs, EndIs
<1>5. GET_ALLOC(h, FTRP(h, PREV_BLKP(h, bp))) = Al(h, p)
  <2>1. FTRP(h, p) = bp - 8
    BY <1>1, <1>3 DEF FTRP, Sz, DSIZE
  <2> QED
    BY <1>2, <1>3, <2>1 DEF GET_ALLOC, Al, HDRP, WSIZE
<1>6. NEXT_BLKP(h, bp) = n /\ GET_ALLOC(h, HDRP(n)) = Al(h, n)
  BY DEF NEXT_BLKP, Sz, Al
<1>7. Al(h, n) = 0 => GET_SIZE(h, FTRP(h, n)) = Sz(h, n)
  BY <1>4 DEF FTRP, Sz, GET_SIZE, HDRP, DSIZE, WSIZE
<1>8. GET_SIZE(h, HDRP(bp)) = Sz(h, bp) /\ GET_SIZE(h, HDRP(n)) = Sz(h, n)
      /\ GET_SIZE(h, HDRP(p)) = Sz(h, p)
  BY DEF Sz
<1> HIDE DEF n
<1>9. /\ Lo(h, bp) = IF Al(h, p) = 1 THEN bp ELSE p
      /\ Hi(h, bp) = IF Al(h, n) = 1 THEN n ELSE n + Sz(h, n)
  BY <1>2 DEF Lo, Hi, n
<1>10. n = bp + Sz(h, bp) /\ n \in Nat
  BY <1>3 DEF n
<1>11. CASE Al(h, p) = 1 /\ Al(h, n) = 1
  BY <1>5, <1>6, <1>9, <1>10, <1>11 DEF coalesce
<1>12. CASE Al(h, p) = 1 /\ Al(h, n) = 0
  <2>1. Sz(h, bp) + Sz(h, n) = n + Sz(h, n) - bp /\ n + Sz(h, n) # n
    BY <1>3, <1>4, <1>10, <1>12
  <2>2. coalesce(h, bp) = [ptr |-> bp, heap |-> PutTags(h, bp, PACK(Sz(h, bp) + Sz(h, n), 0))]
    BY <1>5, <1>6, <1>8, <1>12 DEF coalesce
  <2>3. Lo(h, bp) = bp /\ Hi(h, bp) = n + Sz(h, n)
    BY <1>9, <1>12
  <2>4. Sz(h, bp) + Sz(h, n) = Hi(h, bp) - Lo(h, bp)
    BY <1>3, <1>4, <1>10, <2>1, <2>3
  <2>5. ~ (Lo(h, bp) = bp /\ Hi(h, bp) = bp + Sz(h, bp))
    BY <1>10, <2>1, <2>3
  <2> QED
    BY <2>2, <2>3, <2>4, <2>5
<1>13. CASE Al(h, p) = 0 /\ Al(h, n) = 1
  <2>1. Sz(h, bp) + Sz(h, p) = n - p /\ p # bp
    BY <1>1, <1>3, <1>10
  <2> QED
    BY <1>2, <1>5, <1>6, <1>8, <1>9, <1>10, <1>13, <2>1 DEF coalesce
<1>14. CASE Al(h, p) = 0 /\ Al(h, n) = 0
  <2>1. Sz(h, bp) + Sz(h, p) + Sz(h, n) = n + Sz(h, n) - p /\ p # bp
    BY <1>1, <1>3, <1>4, <1>10
  <2>2. coalesce(h, bp) =
            [ptr |-> p, heap |-> PutTags(h, p, PACK(Sz(h, bp) + Sz(h, p) + Sz(h, n), 0))]
    BY <1>2, <1>5, <1>6, <1>7, <1>8, <1>14 DEF coalesce
  <2>3. Lo(h, bp) = p /\ Hi(h, bp) = n + Sz(h, n)
    BY <1>9, <1>14
  <2>4. Sz(h, bp) + Sz(h, p) + Sz(h, n) = Hi(h, bp) - Lo(h, bp)
    BY <1>3, <1>4, <1>10, <2>1, <2>3
  <2>5. Lo(h, bp) # bp
    BY <2>1, <2>3
  <2> QED
    BY <2>2, <2>3, <2>4, <2>5
<1> QED
  BY <1>3, <1>4, <1>11, <1>12, <1>13, <1>14

LEMMA CoalesceJoins ==
    ASSUME NEW h, NEW B, Tiling(h, B), NEW bp \in B, bp # 8, Al(h, bp) = 0
    PROVE  /\ Lo(h, bp) \in B /\ Lo(h, bp) # 8 /\ Hi(h, bp) \in B \cup {h.brk}
           /\ Lo(h, bp) <= bp /\ bp + Sz(h, bp) <= Hi(h, bp) /\ Lo(h, bp) < Hi(h, bp)
           /\ coalesce(h, bp).ptr = Lo(h, bp)
           /\ JoinsTo(h, B, Lo(h, bp), Hi(h, bp), 0, coalesce(h, bp).heap)
           /\ \A q \in B : Lo(h, bp) <= q /\ q < Hi(h, bp) => Al(h, q) = 0
<1>1. PICK p \in B : p + Sz(h, p) = bp
  BY PredecessorIs
<1> DEFINE n == bp + Sz(h, bp)
           lo == Lo(h, bp)
           hi == Hi(h, bp)
           g == coalesce(h, bp).heap
<1>2. PREV_BLKP(h, bp) = p
  BY <1>1, PredecessorIs DEF PREV_BLKP, DSIZE
<1>3. /\ bp \in Nat /\ p \in Nat /\ Sz(h, p) \in Nat /\ Sz(h, p) >= 8
      /\ Sz(h, bp) \in Nat /\ Sz(h, bp) >= 8 /\ n \in B \cup {h.brk}
      /\ Al(h, p) \in {0, 1} /\ (p = 8 => Al(h, p) = 1)
  BY <1>1, BlockIs
<1>4. /\ n \in Nat /\ Al(h, n) \in {0, 1} /\ Sz(h, n) \in Nat /\ h.brk \in Nat
      /\ Al(h, n) = 0 => n \in B /\ Sz(h, n) >= 8 /\ n + Sz(h, n) \in B \cup {h.brk}
  BY <1>3, BlockIs, EndIs
<1>5. /\ lo = IF Al(h, p) = 1 THEN bp ELSE p
      /\ hi = IF Al(h, n) = 1 THEN n ELSE n + Sz(h, n)
  BY <1>2 DEF Lo, Hi
<1> HIDE DEF lo, hi, n
<1>6. n = bp + Sz(h, bp)
  BY DEF n
<1>7. /\ lo \in B /\ lo # 8 /\ hi \in B \cup {h.brk} /\ lo \in Nat /\ hi \in Nat
      /\ lo <= bp /\ bp + Sz(h, bp) <= hi /\ lo < hi
  BY <1>1, <1>3, <1>4, <1>5, <1>6
<1>8. ASSUME NEW q \in B, lo <= q, q < hi
      PROVE  Al(h, q) = 0
  <2>1. q \in Nat /\ Sz(h, q) \in Nat
    BY BlockIs
  <2>2. q < p => q + Sz(h, q) <= p
    BY BlocksApart
  <2>3. q < bp /\ p < q => FALSE
    BY <1>1, <1>3, <2>1, BlocksApart
  <2>4. bp < q => n <= q
    BY <1>6, BlocksApart
  <2>5. n < q /\ Al(h, n) = 0 => n + Sz(h, n) <= q
    BY <1>4, BlocksApart
  <2>6. q = p \/ q = bp \/ q = n
    BY <1>3, <1>4, <1>5, <1>6, <1>7, <1>8, <2>1, <2>3, <2>4, <2>5
  <2> QED
    BY <1>1, <1>3, <1>4, <1>5, <1>6, <1>8, <2>1, <2>6
<1>9. CASE lo = bp /\ hi = n
  <2>1. coalesce(h, bp) = [ptr |-> bp, heap |-> h]
    BY <1>6, <1>9, CoalesceCases DEF lo, hi
  <2>2. Joined(B, bp, n) = B
    <3>1. \A q \in B : q <= bp \/ n <= q
      BY <1>3, <1>6, BlocksApart, BlockIs
    <3> QED
      BY <3>1 DEF Joined
  <2>3. Sz(h, bp) = n - bp
    BY <1>3, <1>6
  <2>4. JoinsTo(h, B, bp, n, 0, h)
    BY <2>2, <2>3 DEF JoinsTo
  <2> QED
    BY <1>7, <1>8, <1>9, <2>1, <2>4 DEF lo, hi
<1>10. CASE ~ (lo = bp /\ hi = n)
  <2>1. coalesce(h, bp) = [ptr |-> lo, heap |-> PutTags(h, lo, PACK(hi - lo, 0))]
    BY <1>6, <1>10, CoalesceCases DEF lo, hi
  <2>2. JoinsTo(h, B, lo, hi, 0, PutTags(h, lo, PACK(hi - lo, 0)))
    BY <1>7, JoinBlocks
  <2> QED
    BY <1>7, <1>8, <2>1, <2>2 DEF lo, hi
<1> QED
  BY <1>9, <1>10

(* Free blocks may lie side by side at bp only.                            *)
CoalescedBut(h, B, bp) ==
    \A p \in B : \/ Al(h, p) = 1 \/ Al(h, p + Sz(h, p)) = 1
                 \/ p = bp \/ p + Sz(h, p) = bp

LEMMA CoalesceCoalesces ==
    ASSUME NEW h, NEW B, Tiling(h, B), NEW bp \in B, bp # 8, Al(h, bp) = 0,
           CoalescedBut(h, B, bp)
    PROVE  Coalesced(coalesce(h, bp).heap, Joined(B, Lo(h, bp), Hi(h, bp)))
<1> DEFINE lo == Lo(h, bp)
           hi == Hi(h, bp)
           n == bp + Sz(h, bp)
           g == coalesce(h, bp).heap
           D == Joined(B, lo, hi)
<1>1. /\ lo \in B /\ lo # 8 /\ hi \in B \cup {h.brk}
      /\ lo <= bp /\ bp + Sz(h, bp) <= hi /\ lo < hi
      /\ JoinsTo(h, B, lo, hi, 0, g)
  BY CoalesceJoins
<1>0. lo \in Nat /\ hi \in Nat /\ bp \in Nat /\ bp < hi
  <2>1. \A q \in B : q \in Nat
    BY BlockIs
  <2>2. h.brk \in Nat /\ Sz(h, bp) \in Nat /\ Sz(h, bp) >= 8
    BY BlockIs, EndIs
  <2> HIDE DEF lo, hi
  <2>3. lo \in Nat /\ hi \in Nat /\ bp \in Nat
    BY <1>1, <2>1, <2>2
  <2> QED
    BY <1>1, <2>2, <2>3
<1>2. PICK p \in B : p + Sz(h, p) = bp
  BY PredecessorIs
<1>3. \A q \in B : q + Sz(h, q) = bp => q = p
  BY <1>2, PredecessorIs
<1>4. PREV_BLKP(h, bp) = p
  BY <1>2, PredecessorIs DEF PREV_BLKP, DSIZE
<1>5. /\ lo = IF Al(h, p) = 1 THEN bp ELSE p
      /\ hi = IF Al(h, n) = 1 THEN n ELSE n + Sz(h, n)
  BY <1>4 DEF Lo, Hi
<1>6. \A q \in B : /\ q \in Nat /\ Sz(h, q) \in Nat /\ Sz(h, q) >= 8 /\ q < h.brk
                   /\ Al(h, q) \in {0, 1} /\ q + Sz(h, q) \in B \cup {h.brk}
  BY BlockIs
<1>7. h.brk \in Nat /\ Al(h, h.brk) = 1 /\ Sz(h, h.brk) = 0 /\ h.brk \notin B
  BY EndIs
<1>8. /\ Tiling(g, D) /\ g.brk = h.brk
      /\ Sz(g, lo) = hi - lo
      /\ \A q \in D \ {lo} : Sz(g, q) = Sz(h, q) /\ Al(g, q) = Al(h, q)
  BY <1>1 DEF JoinsTo
<1>9. Al(g, h.brk) = 1
  BY <1>8, EndIs
<1> HIDE DEF lo, hi, g
<1>10. \A q \in D : q \in B /\ q \in Nat /\ (q <= lo \/ hi <= q)
  BY <1>6 DEF Joined
<1>11. Al(h, hi) = 1
  <2>1. CASE Al(h, n) = 1
    BY <1>5, <2>1
  <2>2. CASE Al(h, n) # 1
    <3>1. n \in B /\ hi = n + Sz(h, n)
      BY <1>5, <1>6, <1>7, <2>2
    <3>2. n # bp /\ n + Sz(h, n) # bp
      BY <1>6, <3>1
    <3> QED
      BY <2>2, <3>1, <3>2 DEF CoalescedBut
  <2> QED
    BY <2>1, <2>2
<1>12. Al(g, hi) = 1
  <2>1. hi \in D \ {lo} \/ hi = h.brk
    BY <1>1, <1>6, <1>7 DEF Joined
  <2> QED
    BY <1>8, <1>9, <1>11, <2>1
<1>13. ASSUME NEW q \in D
       PROVE  Al(g, q) = 1 \/ Al(g, q + Sz(g, q)) = 1
  <2>1. CASE q = lo
    <3>1. q + Sz(g, q) = hi
      BY <1>0, <1>8, <2>1
    <3> QED
      BY <1>12, <3>1
  <2>2. CASE q # lo
    <3> DEFINE r == q + Sz(h, q)
    <3>1. q \in B /\ Sz(g, q) = Sz(h, q) /\ Al(g, q) = Al(h, q)
      BY <1>8, <1>10, <2>2
    <3>2. r \in D \cup {h.brk}
      BY <1>8, <3>1, BlockIs
    <3>3. CASE r = lo
      <4>1. CASE lo = bp
        <5>1. q = p
          BY <1>3, <3>1, <3>3, <4>1
        <5>2. Al(h, p) = 1
          BY <1>2, <1>5, <1>6, <4>1
        <5> QED
          BY <3>1, <5>1, <5>2
      <4>2. CASE lo # bp
        <5>1. lo = p /\ Al(h, p) # 1
          BY <1>5, <4>2
        <5>2. q # bp /\ r # bp
          BY <1>6, <1>2, <3>1, <3>3, <4>2, <5>1
        <5> QED
          BY <3>1, <3>3, <5>1, <5>2 DEF CoalescedBut
      <4> QED
        BY <4>1, <4>2
    <3>4. CASE r # lo
      <4>1. bp \in D => bp = lo
        BY <1>0, <1>1, <1>10
      <4>2. q # bp /\ r # bp
        BY <1>7, <2>2, <3>2, <3>4, <4>1
      <4>3. Al(h, q) = 1 \/ Al(h, r) = 1
        BY <3>1, <4>2 DEF CoalescedBut
      <4>4. Al(g, r) = Al(h, r)
        BY <1>7, <1>8, <1>9, <3>2, <3>4
      <4> QED
        BY <3>1, <4>3, <4>4
    <3> QED
      BY <3>3, <3>4
  <2> QED
    BY <2>1, <2>2
<1> QED
  BY <1>13 DEF Coalesced, lo, hi, g

-----------------------------------------------------------------------------
(* The walk from heap_listp meets the blocks of the tiling, so that there  *)
(* is only one.                                                            *)

LEMMA SmallestMember ==
    ASSUME NEW S \in SUBSET Nat, S # {}
    PROVE  \E m \in S : \A j \in S : m <= j
<1>1. PICK m \in S : \A y \in S : ~ (<<y, m>> \in OpToRel(<, Nat))
  BY NatLessThanWellFounded, WFMin
<1>2. \A y \in S : ~ (y < m)
  BY <1>1 DEF OpToRel
<1> QED
  BY <1>2

Step(h, f, p) ==
    IF GET_SIZE(h, HDRP(p)) = 0
    THEN {}
    ELSE {p} \cup IF NEXT_BLKP(h, p) \in Addresses THEN f[NEXT_BLKP(h, p)] ELSE {}

WalkOf(h) == CHOOSE f : f = [p \in Addresses |-> Step(h, f, p)]

LEMMA BlocksByWalk ==
    ASSUME NEW h
    PROVE  BlocksOf(h) = WalkOf(h)[8]
BY DEF BlocksOf, WalkOf, Step, heap_listp, WSIZE

LEMMA WalkExists ==
    ASSUME NEW h
    PROVE  WalkOf(h) = [p \in Addresses |-> Step(h, WalkOf(h), p)]
<1> DEFINE live(p) == GET_SIZE(h, HDRP(p)) # 0
           next(p) == NEXT_BLKP(h, p)
           closed(S) == \A r \in S : live(r) /\ next(r) \in Addresses => next(r) \in S
           Reach(p) == {q \in Addresses : \A S \in SUBSET Addresses : p \in S /\ closed(S) => q \in S}
           f == [p \in Addresses |-> {q \in Reach(p) : live(q)}]
<1>1. ASSUME NEW p \in Addresses
      PROVE  p \in Reach(p) /\ closed(Reach(p)) /\ Reach(p) \in SUBSET Addresses
  OBVIOUS
<1>2. ASSUME NEW p \in Addresses, ~ (live(p) /\ next(p) \in Addresses)
      PROVE  Reach(p) = {p}
  <2>1. closed({p}) /\ {p} \in SUBSET Addresses
    BY <1>2
  <2>2. Reach(p) \subseteq {p}
    BY <2>1
  <2> QED
    BY <1>1, <2>2
<1>3. ASSUME NEW p \in Addresses, live(p), next(p) \in Addresses
      PROVE  Reach(p) = {p} \cup Reach(next(p))
  <2>1. Reach(p) \subseteq {p} \cup Reach(next(p))
    <3>1. closed({p} \cup Reach(next(p)))
      BY <1>1, <1>3
    <3>2. {p} \cup Reach(next(p)) \in SUBSET Addresses /\ p \in {p} \cup Reach(next(p))
      OBVIOUS
    <3> HIDE DEF live, next, closed
    <3> QED
      BY <3>1, <3>2
  <2>2. next(p) \in Reach(p)
    BY <1>1, <1>3
  <2>3. Reach(next(p)) \subseteq Reach(p)
    BY <1>1, <1>3, <2>2
  <2> QED
    BY <1>1, <2>1, <2>3
<1>4. ASSUME NEW p \in Addresses
      PROVE  {q \in Reach(p) : live(q)} = Step(h, f, p)
  <2> HIDE DEF Reach
  <2>1. CASE ~ live(p)
    BY <1>2, <2>1 DEF Step
  <2>2. CASE live(p) /\ next(p) \notin Addresses
    BY <1>2, <2>2 DEF Step
  <2>3. CASE live(p) /\ next(p) \in Addresses
    <3>1. Reach(p) = {p} \cup Reach(next(p))
      BY <1>3, <2>3
    <3>2. Step(h, f, p) = {p} \cup {q \in Reach(next(p)) : live(q)}
      BY <2>3 DEF Step
    <3> HIDE DEF live, next
    <3> QED
      BY <2>3, <3>1, <3>2
  <2> QED
    BY <2>1, <2>2, <2>3
<1>5. f = [p \in Addresses |-> Step(h, f, p)]
  BY <1>4
<1> QED
  BY <1>5 DEF WalkOf

LEMMA BlocksAreThese ==
    ASSUME NEW h, NEW B, Tiling(h, B)
    PROVE  BlocksOf(h) = B
<1> DEFINE f == WalkOf(h)
           from(p) == {q \in B : p <= q}
           left == {h.brk - p : p \in {q \in B : f[q] # from(q)}}
<1>1. /\ h \in Heaps /\ h.brk \in Nat /\ h.brk <= MAX_HEAP /\ Sz(h, h.brk) = 0
      /\ h.brk \notin B /\ h.brk % 8 = 0 /\ MAX_HEAP \in Nat
  BY EndIs, HeapAssumption
<1>2. \A q \in B : /\ q \in Nat /\ 8 <= q /\ q % 8 = 0 /\ q < h.brk /\ Sz(h, q) \in Nat /\ Sz(h, q) >= 8
                   /\ q + Sz(h, q) \in B \cup {h.brk} /\ q + Sz(h, q) <= h.brk
  BY BlockIs
<1>3. \A q \in B : q \in Addresses
  <2>1. ASSUME NEW q \in B PROVE q \in Addresses
    <3>1. q \in Nat /\ q % 8 = 0 /\ Sz(h, q) \in Nat /\ Sz(h, q) >= 8 /\ q + Sz(h, q) <= h.brk
      BY <1>2
    <3>2. q + 4 <= MAX_HEAP
      BY <1>1, <3>1
    <3>3. q % 4 = 0
      BY <3>1
    <3> QED
      BY <3>1, <3>2, <3>3, AddressIs
  <2> QED
    BY <2>1
<1>4. ASSUME NEW p \in Addresses
      PROVE  f[p] = Step(h, f, p)
  BY WalkExists
<1> HIDE DEF f
<1>5. ASSUME left # {}
      PROVE  FALSE
  <2>1. left \in SUBSET Nat
    BY <1>1, <1>2
  <2>2. PICK m \in left : \A j \in left : m <= j
    BY <1>5, <2>1, SmallestMember
  <2>3. PICK p \in B : m = h.brk - p /\ f[p] # from(p)
    BY <2>2
  <2> DEFINE n == p + Sz(h, p)
  <2>4. f[p] = {p} \cup IF n \in Addresses THEN f[n] ELSE {}
    <3>1. f[p] = Step(h, f, p) /\ Sz(h, p) # 0
      BY <1>2, <1>3, <1>4
    <3> QED
      BY <3>1 DEF Step, Sz, NEXT_BLKP
  <2>5. \A q \in B : p < q => n <= q
    BY BlocksApart
  <2>6. CASE n \in B
    <3>1. h.brk - n < m
      BY <1>1, <1>2, <2>3
    <3>2. f[n] = from(n)
      <4>1. f[n] # from(n) => h.brk - n \in left
        BY <2>6
      <4>2. h.brk - n \notin left
        <5> HIDE DEF left, n
        <5>1. \A j \in left : j \in Nat /\ m <= j
          BY <2>1, <2>2
        <5>2. m \in Nat /\ h.brk - n \in Int
          BY <1>1, <1>2, <2>1, <2>2, <2>6
        <5> QED
          BY <3>1, <5>1, <5>2
      <4> QED
        BY <4>1, <4>2
    <3>3. p < n /\ p \in Nat /\ n \in Nat
      BY <1>2, <2>6
    <3>4. \A q \in B : p <= q <=> q = p \/ n <= q
      <4> HIDE DEF n
      <4> QED
        BY <1>2, <2>5, <3>3
    <3>5. from(p) = {p} \cup from(n)
      BY <2>3, <3>4
    <3> QED
      BY <1>3, <2>3, <2>4, <2>6, <3>2, <3>5
  <2>7. CASE n = h.brk
    <3>1. n \in Addresses => f[n] = {}
      BY <1>1, <1>4, <2>7 DEF Step, Sz
    <3>2. ASSUME NEW q \in B PROVE p <= q <=> q = p
      <4>1. p \in Nat /\ q \in Nat /\ q < h.brk /\ (p < q => h.brk <= q)
        BY <1>2, <2>5, <2>7
      <4> QED
        BY <1>1, <4>1
    <3>3. from(p) = {p}
      BY <3>2
    <3> QED
      BY <2>3, <2>4, <3>1, <3>3
  <2> QED
    BY <1>2, <2>6, <2>7
<1>6. f[8] = from(8)
  BY <1>5 DEF Tiling
<1>7. from(8) = B
  BY <1>2
<1> QED
  BY <1>6, <1>7, BlocksByWalk DEF f

-----------------------------------------------------------------------------
(* A sound heap, and its blocks in use.                                    *)

Sound(h) == Tiling(h, BlocksOf(h)) /\ Coalesced(h, BlocksOf(h))

Held(h) == InUseOf(h, BlocksOf(h))

(* Two sound heaps with the same blocks.                                   *)
Alike(h, k) == Sound(h) /\ Sound(k) /\ SameTags(h, k, BlocksOf(h))

LEMMA SoundIs ==
    ASSUME NEW h, NEW B, Tiling(h, B), Coalesced(h, B)
    PROVE  Sound(h) /\ BlocksOf(h) = B /\ Held(h) = InUseOf(h, B)
BY BlocksAreThese DEF Sound, Held

LEMMA AlikeIs ==
    ASSUME NEW h, NEW k, NEW B, SameTags(h, k, B), Coalesced(h, B)
    PROVE  Alike(h, k)
<1>1. Coalesced(k, B)
  <2>1. \A p \in B : p + Sz(h, p) \in B \cup {h.brk}
    BY BlockIs DEF SameTags
  <2>2. Al(h, h.brk) = Al(k, h.brk)
    BY EndIs DEF SameTags
  <2>3. \A p \in B : Sz(h, p) = Sz(k, p) /\ Al(h, p) = Al(k, p)
    BY DEF SameTags
  <2>4. \A p \in B : Al(h, p + Sz(h, p)) = Al(k, p + Sz(k, p))
    BY <2>1, <2>2, <2>3
  <2> QED
    BY <2>3, <2>4 DEF Coalesced
<1>2. Tiling(h, B) /\ Tiling(k, B)
  BY DEF SameTags
<1> QED
  BY <1>1, <1>2, SoundIs DEF Alike

LEMMA KeptOn ==
    ASSUME NEW h, NEW g, NEW f, NEW q, Kept(h, g, q), Kept(g, f, q)
    PROVE  Kept(h, f, q)
BY DEF Kept

LEMMA CoalesceIs ==
    ASSUME NEW h, NEW B, Tiling(h, B), NEW bp \in B, bp # 8, Al(h, bp) = 0,
           CoalescedBut(h, B, bp)
    PROVE  LET c == coalesce(h, bp)
           IN  /\ Sound(c.heap) /\ c.heap.brk = h.brk
               /\ Held(c.heap) = InUseOf(h, B)
               /\ \A q \in InUseOf(h, B) : Kept(h, c.heap, q)
               /\ c.ptr \in BlocksOf(c.heap) /\ c.ptr # 8
               /\ Al(c.heap, c.ptr) = 0 /\ Sz(c.heap, c.ptr) >= Sz(h, bp)
<1> DEFINE lo == Lo(h, bp)
           hi == Hi(h, bp)
           g == coalesce(h, bp).heap
           D == Joined(B, lo, hi)
<1>1. /\ lo \in B /\ lo # 8 /\ hi \in B \cup {h.brk}
      /\ lo <= bp /\ bp + Sz(h, bp) <= hi /\ lo < hi
      /\ coalesce(h, bp).ptr = lo
      /\ JoinsTo(h, B, lo, hi, 0, g)
      /\ \A q \in B : lo <= q /\ q < hi => Al(h, q) = 0
  BY CoalesceJoins
<1>2. Coalesced(g, D)
  BY CoalesceCoalesces
<1>3. /\ \A q \in B : q < lo \/ hi <= q => Kept(h, g, q)
      /\ InUseOf(g, D) = {q \in InUseOf(h, B) : q < lo \/ hi <= q} \cup (IF 0 = 1 THEN {lo} ELSE {})
  <2> HIDE DEF lo, hi, g
  <2> QED
    BY <1>1, JoinKeeps
<1>4. \A q \in B : q \in Nat
  BY BlockIs
<1>5. Sz(h, bp) \in Nat /\ h.brk \in Nat
  BY BlockIs, EndIs
<1> HIDE DEF lo, hi, g
<1>6. hi \in Nat /\ lo \in Nat /\ bp \in Nat
  BY <1>1, <1>4, <1>5
<1>7. \A q \in InUseOf(h, B) : q \in B /\ (q < lo \/ hi <= q)
  BY <1>1, <1>4, <1>6 DEF InUseOf
<1>8. InUseOf(g, D) = InUseOf(h, B)
  BY <1>3, <1>7
<1>9. /\ Tiling(g, D) /\ g.brk = h.brk
      /\ lo \in D /\ Sz(g, lo) = hi - lo /\ Al(g, lo) = 0
  BY <1>1 DEF JoinsTo
<1>10. hi - lo >= Sz(h, bp)
  BY <1>1, <1>5, <1>6
<1>11. Sound(g) /\ BlocksOf(g) = D /\ Held(g) = InUseOf(g, D)
  BY <1>2, <1>9, SoundIs
<1> QED
  BY <1>1, <1>3, <1>7, <1>8, <1>9, <1>10, <1>11 DEF g

LEMMA CoalesceAlike ==
    ASSUME NEW h, NEW k, NEW B, SameTags(h, k, B), NEW bp \in B, bp # 8, Al(h, bp) = 0,
           CoalescedBut(h, B, bp)
    PROVE  /\ coalesce(h, bp).ptr = coalesce(k, bp).ptr
           /\ Alike(coalesce(h, bp).heap, coalesce(k, bp).heap)
<1>1. /\ Tiling(h, B) /\ Tiling(k, B) /\ h.brk = k.brk
      /\ \A p \in B : Sz(h, p) = Sz(k, p) /\ Al(h, p) = Al(k, p)
  BY DEF SameTags
<1>2. PICK p \in B : p + Sz(h, p) = bp
  BY <1>1, PredecessorIs
<1>3. PREV_BLKP(h, bp) = p /\ PREV_BLKP(k, bp) = p
  BY <1>1, <1>2, PredecessorIs DEF PREV_BLKP, DSIZE
<1>4. Lo(h, bp) = Lo(k, bp)
  BY <1>1, <1>3 DEF Lo
<1>5. Hi(h, bp) = Hi(k, bp)
  <2> DEFINE n == bp + Sz(h, bp)
  <2>1. n = bp + Sz(k, bp) /\ n \in B \cup {h.brk}
    BY <1>1, BlockIs
  <2>2. Sz(h, n) = Sz(k, n) /\ Al(h, n) = Al(k, n)
    BY <1>1, <2>1, EndIs
  <2> QED
    BY <2>1, <2>2 DEF Hi
<1> DEFINE lo == Lo(h, bp)
           hi == Hi(h, bp)
<1>6. /\ coalesce(h, bp).ptr = lo /\ JoinsTo(h, B, lo, hi, 0, coalesce(h, bp).heap)
  BY <1>1, CoalesceJoins
<1>7. /\ coalesce(k, bp).ptr = lo /\ JoinsTo(k, B, lo, hi, 0, coalesce(k, bp).heap)
  BY <1>1, <1>4, <1>5, CoalesceJoins
<1>8. SameTags(coalesce(h, bp).heap, coalesce(k, bp).heap, Joined(B, lo, hi))
  BY <1>6, <1>7, JoinSame
<1>9. Coalesced(coalesce(h, bp).heap, Joined(B, lo, hi))
  BY <1>1, CoalesceCoalesces
<1> QED
  BY <1>6, <1>7, <1>8, <1>9, AlikeIs

-----------------------------------------------------------------------------
(* find_fit.                                                               *)

LEMMA FitIs ==
    ASSUME NEW h, NEW B, Tiling(h, B), NEW asize \in Nat
    PROVE  \/ find_fit(h, asize) = NULL
           \/ /\ find_fit(h, asize) \in B /\ find_fit(h, asize) # 8
              /\ Al(h, find_fit(h, asize)) = 0 /\ Sz(h, find_fit(h, asize)) >= asize
<1> DEFINE fits == {p \in B : Al(h, p) = 0 /\ Sz(h, p) >= asize}
           best(p) == \A q \in fits : Sz(h, p) < Sz(h, q) \/ (Sz(h, p) = Sz(h, q) /\ p <= q)
<1>1. BlocksOf(h) = B
  BY BlocksAreThese
<1>2. find_fit(h, asize) = IF fits = {} THEN NULL ELSE CHOOSE p \in fits : best(p)
  BY <1>1 DEF find_fit, Al, Sz
<1>3. ASSUME fits # {}
      PROVE  \E p \in fits : best(p)
  <2>1. \A p \in fits : p \in Nat /\ Sz(h, p) \in Nat
    BY BlockIs
  <2> HIDE DEF fits
  <2> DEFINE sizes == {Sz(h, p) : p \in fits}
  <2>2. PICK m \in sizes : \A s \in sizes : m <= s
    BY <1>3, <2>1, SmallestMember
  <2> DEFINE these == {p \in fits : Sz(h, p) = m}
  <2>3. PICK p \in these : \A q \in these : p <= q
    BY <2>1, <2>2, SmallestMember
  <2>4. ASSUME NEW q \in fits
        PROVE  Sz(h, p) < Sz(h, q) \/ (Sz(h, p) = Sz(h, q) /\ p <= q)
    <3>1. Sz(h, p) <= Sz(h, q)
      BY <2>2
    <3> QED
      BY <2>1, <2>3, <3>1
  <2> QED
    BY <2>4
<1>4. \A p \in fits : p # 8
  BY BlockIs
<1> HIDE DEF best
<1> QED
  BY <1>2, <1>3, <1>4

LEMMA FitAlike ==
    ASSUME NEW h, NEW k, NEW B, SameTags(h, k, B), NEW asize
    PROVE  find_fit(h, asize) = find_fit(k, asize)
<1>1. BlocksOf(h) = B /\ BlocksOf(k) = B
  BY BlocksAreThese DEF SameTags
<1>2. \A p \in B : /\ GET_SIZE(h, HDRP(p)) = GET_SIZE(k, HDRP(p))
                   /\ GET_ALLOC(h, HDRP(p)) = GET_ALLOC(k, HDRP(p))
  BY DEF SameTags, Sz, Al
<1> DEFINE fits(x) == {p \in B : GET_ALLOC(x, HDRP(p)) = 0 /\ GET_SIZE(x, HDRP(p)) >= asize}
           best(x, p) == \A q \in fits(x) :
                             \/ GET_SIZE(x, HDRP(p)) < GET_SIZE(x, HDRP(q))
                             \/ GET_SIZE(x, HDRP(p)) = GET_SIZE(x, HDRP(q)) /\ p <= q
<1>3. fits(h) = fits(k)
  BY <1>2
<1>4. \A p \in fits(h) : best(h, p) <=> best(k, p)
  BY <1>2
<1> DEFINE smallest(x) == CHOOSE p \in fits(x) : best(x, p)
<1>5. smallest(h) = smallest(k)
  <2> HIDE DEF fits, best
  <2> QED
    BY <1>3, <1>4
<1>6. /\ find_fit(h, asize) = IF fits(h) = {} THEN NULL ELSE smallest(h)
      /\ find_fit(k, asize) = IF fits(k) = {} THEN NULL ELSE smallest(k)
  BY <1>1 DEF find_fit
<1> HIDE DEF fits, best, smallest
<1> QED
  BY <1>3, <1>5, <1>6

-----------------------------------------------------------------------------
(* place.  A split makes an allocated block of the first m bytes at p, and *)
(* a free one of the rest.                                                 *)

SplitsTo(h, B, p, m, g) ==
    /\ Tiling(g, B \cup {p + m}) /\ g.brk = h.brk
    /\ Sz(g, p) = m /\ Al(g, p) = 1
    /\ Sz(g, p + m) = Sz(h, p) - m /\ Al(g, p + m) = 0
    /\ \A q \in B \ {p} : Sz(g, q) = Sz(h, q) /\ Al(g, q) = Al(h, q)
    /\ \A w \in Int : w < p - 4 \/ p + Sz(h, p) - 4 <= w => GET(g, w) = GET(h, w)

LEMMA SplitBlock ==
    ASSUME NEW h, NEW B, Tiling(h, B), NEW p \in B, p # 8,
           NEW m \in Nat, m % 8 = 0, m >= 16, Sz(h, p) - m >= 16
    PROVE  SplitsTo(h, B, p, m,
               PutTags(PutTags(h, p, PACK(m, 1)), p + m, PACK(Sz(h, p) - m, 0)))
<1> DEFINE f == PutTags(h, p, PACK(m, 1))
           s == Sz(h, p)
           n == p + s
           g == PutTags(f, p + m, PACK(s - m, 0))
           D == B \cup {p + m}
<1>1. /\ h \in Heaps /\ h.brk \in Nat /\ h.brk % 8 = 0 /\ h.brk <= MAX_HEAP /\ h.brk >= 16
      /\ GET(h, h.brk - 4) = 1 /\ h.brk \notin B /\ MAX_HEAP \in Nat
  BY EndIs, HeapAssumption
<1>2. \A q \in B : /\ q \in Nat /\ q % 8 = 0 /\ 8 <= q /\ q < h.brk
                   /\ Sz(h, q) \in Nat /\ Sz(h, q) % 8 = 0 /\ Sz(h, q) >= 8
                   /\ q # 8 => Sz(h, q) >= 16
                   /\ q + Sz(h, q) \in Nat /\ (q + Sz(h, q)) % 8 = 0 /\ q + Sz(h, q) <= h.brk
                   /\ GET(h, q - 4) = GET(h, q + Sz(h, q) - 8)
                   /\ q + Sz(h, q) \in B \cup {h.brk}
  BY BlockIs
<1>3. \A q, r \in B : q < r => q + Sz(h, q) <= r
  BY DEF Tiling
<1>4. /\ p \in Nat /\ p % 8 = 0 /\ p >= 16 /\ s \in Nat /\ s % 8 = 0 /\ s - m \in Nat /\ (s - m) % 8 = 0
      /\ n \in Nat /\ n % 8 = 0 /\ n <= h.brk /\ n \in B \cup {h.brk}
      /\ p + m \in Nat /\ (p + m) % 8 = 0 /\ p + 16 <= p + m /\ p + m + 16 <= n
  BY <1>2
<1> HIDE DEF s
<1>5. n = p + s
  OBVIOUS
<1> HIDE DEF n
<1>6. p - 4 \in Addresses /\ p + m - 8 \in Addresses /\ p + m - 4 \in Addresses /\ n - 8 \in Addresses
  <2>1. /\ (p - 4) % 4 = 0 /\ (p + m - 8) % 4 = 0 /\ (p + m - 4) % 4 = 0 /\ (n - 8) % 4 = 0
        /\ p - 4 \in Nat /\ p + m - 8 \in Nat /\ p + m - 4 \in Nat /\ n - 8 \in Nat
    BY <1>4
  <2>2. p <= MAX_HEAP /\ p + m <= MAX_HEAP /\ n <= MAX_HEAP
    BY <1>1, <1>4
  <2>3. /\ (p - 4) + 4 <= MAX_HEAP /\ (p + m - 8) + 4 <= MAX_HEAP
        /\ (p + m - 4) + 4 <= MAX_HEAP /\ (n - 8) + 4 <= MAX_HEAP
    BY <1>1, <1>4, <2>2
  <2> QED
    BY <2>1, <2>3, AddressIs
<1>7. /\ f \in Heaps /\ f.brk = h.brk
      /\ \A q : GET(f, q) = IF q \in {p - 4, p + m - 8} THEN m + 1 ELSE GET(h, q)
  BY <1>1, <1>4, <1>6, PutTagsIs
<1> HIDE DEF f
<1>8. /\ g \in Heaps /\ g.brk = h.brk
      /\ \A q : GET(g, q) = IF q \in {p + m - 4, n - 8} THEN s - m
                            ELSE IF q \in {p - 4, p + m - 8} THEN m + 1 ELSE GET(h, q)
  <2>1. (p + m) + (s - m) - 8 = n - 8 /\ (s - m) + 0 = s - m
    BY <1>4, <1>5
  <2> QED
    BY <1>4, <1>6, <1>7, <2>1, PutTagsIs
<1> HIDE DEF g
<1>9. Sz(g, p) = m /\ Al(g, p) = 1 /\ GET(g, p - 4) = m + 1 /\ GET(g, p + m - 8) = m + 1
  <2>1. /\ p - 4 # p + m - 4 /\ p - 4 # n - 8 /\ p + m - 8 # p + m - 4 /\ p + m - 8 # n - 8
    BY <1>4
  <2>2. GET(g, p - 4) = PACK(m, 1) /\ GET(g, p - 4) = m + 1 /\ GET(g, p + m - 8) = m + 1
    BY <1>8, <2>1 DEF PACK
  <2> QED
    BY <1>8, <2>2, SzIs, TagIs
<1>10. Sz(g, p + m) = s - m /\ Al(g, p + m) = 0 /\ GET(g, p + m - 4) = GET(g, n - 8)
  <2>1. GET(g, p + m - 4) = PACK(s - m, 0) /\ GET(g, n - 8) = s - m
    BY <1>4, <1>8 DEF PACK
  <2> QED
    BY <1>4, <1>8, <2>1, SzIs, TagIs
<1>11. ASSUME NEW q \in B, q # p
       PROVE  (q + Sz(h, q) <= p /\ q < p) \/ n <= q
  BY <1>2, <1>3, <1>4, <1>5, <1>11 DEF s
<1>12. ASSUME NEW w \in Int, w < p - 4 \/ n - 4 <= w
       PROVE  GET(g, w) = GET(h, w)
  <2>1. w # p - 4 /\ w # n - 8 /\ w # p + m - 4 /\ w # p + m - 8
    BY <1>4, <1>12
  <2> QED
    BY <1>8, <2>1
<1>13. ASSUME NEW q \in B, q # p
       PROVE  /\ Sz(g, q) = Sz(h, q) /\ Al(g, q) = Al(h, q)
              /\ GET(g, q - 4) = GET(h, q - 4) /\ GET(g, q + Sz(h, q) - 8) = GET(h, q + Sz(h, q) - 8)
  <2>1. q \in Nat /\ Sz(h, q) \in Nat /\ Sz(h, q) >= 8
    BY <1>2
  <2>2. /\ q - 4 \in Int /\ q + Sz(h, q) - 8 \in Int
        /\ q - 4 < p - 4 \/ n - 4 <= q - 4
        /\ q + Sz(h, q) - 8 < p - 4 \/ n - 4 <= q + Sz(h, q) - 8
    BY <1>4, <1>11, <1>13, <2>1
  <2>3. GET(g, q - 4) = GET(h, q - 4)
    BY <1>12, <2>2
  <2>4. GET(g, q + Sz(h, q) - 8) = GET(h, q + Sz(h, q) - 8)
    BY <1>12, <2>2
  <2> QED
    BY <1>1, <1>8, <2>3, <2>4, SzIs
<1>14. p + m \notin B /\ p + m # h.brk /\ p + m # p
  BY <1>4, <1>11
<1>15. \A q \in D : /\ q \in Nat /\ q % 8 = 0 /\ 8 <= q /\ q < g.brk
                    /\ q # 8 => Sz(g, q) >= 16
                    /\ GET(g, q - 4) = GET(g, q + Sz(g, q) - 8)
                    /\ q + Sz(g, q) \in D \cup {g.brk}
  <2>1. ASSUME NEW q \in B, q # p
        PROVE  /\ q \in Nat /\ q % 8 = 0 /\ 8 <= q /\ q < g.brk
               /\ q # 8 => Sz(g, q) >= 16
               /\ GET(g, q - 4) = GET(g, q + Sz(g, q) - 8)
               /\ q + Sz(g, q) \in D \cup {g.brk}
    BY <1>2, <1>8, <1>13, <2>1
  <2>2. /\ p < g.brk /\ 8 <= p /\ Sz(g, p) >= 16
        /\ GET(g, p - 4) = GET(g, p + Sz(g, p) - 8) /\ p + Sz(g, p) \in D
    BY <1>2, <1>4, <1>8, <1>9
  <2>6. s - m >= 16
    BY DEF s
  <2>3. p + m < g.brk /\ 8 <= p + m /\ Sz(g, p + m) >= 16
    BY <1>1, <1>4, <1>8, <1>10, <2>6
  <2>4. p + m + (s - m) = n
    BY <1>4, <1>5
  <2>5. /\ GET(g, (p + m) - 4) = GET(g, (p + m) + Sz(g, p + m) - 8)
        /\ (p + m) + Sz(g, p + m) \in D \cup {g.brk}
    BY <1>4, <1>8, <1>10, <2>4
  <2> QED
    BY <1>4, <2>1, <2>2, <2>3, <2>5
<1>16. ASSUME NEW q \in D, NEW r \in D, q < r
       PROVE  q + Sz(g, q) <= r
  <2>0. /\ \A x \in B : x \in Nat /\ Sz(h, x) \in Nat
        /\ p + m + (s - m) = n
    BY <1>2, <1>4, <1>5
  <2>1. CASE q \in B /\ r \in B
    <3>1. q # p => q + Sz(g, q) <= r
      BY <1>3, <1>13, <1>16, <2>1
    <3>2. q = p => q + Sz(g, q) <= r
      BY <1>4, <1>9, <1>11, <1>16, <2>0, <2>1
    <3> QED
      BY <3>1, <3>2
  <2>2. CASE q \in B /\ r = p + m
    <3>1. q # p => q + Sz(g, q) <= r
      BY <1>4, <1>11, <1>13, <1>16, <2>0, <2>2
    <3>2. q = p => q + Sz(g, q) <= r
      BY <1>4, <1>9, <2>2
    <3> QED
      BY <3>1, <3>2
  <2>3. CASE q = p + m /\ r \in B
    BY <1>4, <1>10, <1>11, <1>16, <2>0, <2>3
  <2> QED
    BY <1>4, <1>16, <2>1, <2>2, <2>3
<1>17. ASSUME NEW r \in D \cup {g.brk}, r # 8
       PROVE  \E q \in D : q + Sz(g, q) = r
  <2>1. CASE r = p + m
    BY <1>9, <2>1
  <2>2. CASE r # p + m
    <3>1. PICK q \in B : q + Sz(h, q) = r
      BY <1>8, <1>17, <2>2, PredecessorIs
    <3>2. CASE q = p
      <4>1. (p + m) + Sz(g, p + m) = r
        BY <1>4, <1>5, <1>10, <3>1, <3>2 DEF s
      <4> QED
        BY <4>1
    <3>3. CASE q # p
      BY <1>13, <3>1, <3>3
    <3> QED
      BY <3>2, <3>3
  <2> QED
    BY <2>1, <2>2
<1>18. GET(g, 4) = 9 /\ GET(g, g.brk - 4) = 1
  <2>1. 4 < p - 4 /\ n - 4 <= g.brk - 4 /\ g.brk - 4 \in Int
    BY <1>1, <1>4, <1>8
  <2> QED
    BY <1>1, <1>8, <1>12, <2>1 DEF Tiling
<1>19. Tiling(g, D)
  <2>1. 8 \in D
    BY DEF Tiling
  <2> HIDE DEF D
  <2> QED
    BY <1>1, <1>8, <1>15, <1>16, <1>17, <1>18, <2>1 DEF Tiling
<1> QED
  BY <1>4, <1>5, <1>8, <1>9, <1>10, <1>12, <1>13, <1>19 DEF SplitsTo, g, f, n, s

LEMMA PlaceCases ==
    ASSUME NEW h, NEW B, Tiling(h, B), NEW p \in B, p # 8,
           NEW m \in Nat, m % 8 = 0, m >= 16, Sz(h, p) >= m
    PROVE  /\ Sz(h, p) - m >= 16 => SplitsTo(h, B, p, m, place(h, p, m))
           /\ Sz(h, p) - m < 16 => JoinsTo(h, B, p, p + Sz(h, p), 1, place(h, p, m))
<1>1. /\ h \in Heaps /\ h.brk \in Nat /\ h.brk <= MAX_HEAP /\ MAX_HEAP \in Nat
      /\ p \in Nat /\ p % 8 = 0 /\ p >= 8 /\ Sz(h, p) \in Nat /\ p + Sz(h, p) <= h.brk
      /\ p - 4 \in Addresses /\ p + Sz(h, p) \in B \cup {h.brk}
  BY BlockIs, EndIs, HeapAssumption
<1>2. p + m - 8 \in Addresses
  <2>1. p + m - 8 \in Int /\ (p + m - 8) % 4 = 0
    BY <1>1
  <2>2. 0 <= p + m - 8 /\ (p + m - 8) + 4 <= MAX_HEAP
    BY <1>1
  <2> QED
    BY <2>1, <2>2, AddressIs
<1> DEFINE front == PutTags(h, p, PACK(m, 1))
<1>3. NEXT_BLKP(front, p) = p + m
  <2>1. front \in Heaps /\ GET(front, p - 4) = m + 1
    BY <1>1, <1>2, PutTagsIs
  <2>2. Sz(front, p) = m
    <3>1. GET(front, p - 4) = PACK(m, 1)
      BY <2>1 DEF PACK
    <3> QED
      BY <2>1, <3>1, SzIs, TagIs
  <2> QED
    BY <2>2 DEF NEXT_BLKP, Sz
<1>4. ASSUME Sz(h, p) - m >= 16
      PROVE  SplitsTo(h, B, p, m, place(h, p, m))
  <2>1. place(h, p, m) = PutTags(front, p + m, PACK(Sz(h, p) - m, 0))
    BY <1>3, <1>4 DEF place, Sz, DSIZE
  <2> QED
    BY <1>4, <2>1, SplitBlock
<1>5. ASSUME Sz(h, p) - m < 16
      PROVE  JoinsTo(h, B, p, p + Sz(h, p), 1, place(h, p, m))
  <2>1. ~ (Sz(h, p) - m >= 2 * DSIZE)
    BY <1>1, <1>5 DEF DSIZE
  <2>2. place(h, p, m) = PutTags(h, p, PACK(Sz(h, p), 1))
    BY <2>1 DEF place, Sz
  <2>3. (p + Sz(h, p)) - p = Sz(h, p) /\ p < p + Sz(h, p)
    BY <1>1
  <2> QED
    BY <1>1, <2>2, <2>3, JoinBlocks
<1> QED
  BY <1>4, <1>5

LEMMA JoinOne ==
    ASSUME NEW h, NEW B, Tiling(h, B), NEW p \in B
    PROVE  Joined(B, p, p + Sz(h, p)) = B
<1>1. \A q \in B : q <= p \/ p + Sz(h, p) <= q
  BY BlocksApart, BlockIs
<1> QED
  BY <1>1 DEF Joined

LEMMA PlaceIs ==
    ASSUME NEW h, NEW B, Tiling(h, B), Coalesced(h, B), NEW p \in B, p # 8, Al(h, p) = 0,
           NEW m \in Nat, m % 8 = 0, m >= 16, Sz(h, p) >= m
    PROVE  LET g == place(h, p, m)
           IN  /\ Sound(g) /\ g.brk = h.brk
               /\ Held(g) = InUseOf(h, B) \cup {p}
               /\ \A q \in InUseOf(h, B) : Kept(h, g, q)
               /\ Sz(g, p) >= m
<1> DEFINE g == place(h, p, m)
           n == p + Sz(h, p)
<1>1. \A q \in B : /\ q \in Nat /\ Sz(h, q) \in Nat /\ Sz(h, q) >= 8 /\ q < h.brk
                   /\ q + Sz(h, q) \in B \cup {h.brk}
  BY BlockIs
<1>2. h.brk \in Nat /\ h.brk \notin B
  BY EndIs
<1>3. \A q \in B : q < p => q + Sz(h, q) <= p
  BY BlocksApart
<1>4. \A q \in B : p < q => n <= q
  BY BlocksApart
<1>5. \A q \in InUseOf(h, B) : q \in B /\ q # p
  BY DEF InUseOf
<1>6. ASSUME NEW D, Tiling(g, D), g.brk = h.brk, B \subseteq D, D \subseteq B \cup {p + m},
             \A q \in B \ {p} : Sz(g, q) = Sz(h, q) /\ Al(g, q) = Al(h, q),
             Al(g, p) = 1, p + m \in D \ B => Al(g, p + m) = 0 /\ p + m + Sz(g, p + m) = n,
             \A w \in Int : w < p - 4 \/ n - 4 <= w => GET(g, w) = GET(h, w),
             Sz(g, p) >= m
      PROVE  /\ Sound(g) /\ g.brk = h.brk
             /\ Held(g) = InUseOf(h, B) \cup {p}
             /\ \A q \in InUseOf(h, B) : Kept(h, g, q)
             /\ Sz(g, p) >= m
  <2>1. Al(g, h.brk) = 1 /\ Al(h, h.brk) = 1
    BY <1>6, EndIs
  <2>2. Al(g, n) = 1
    <3>1. Al(h, n) = 1
      BY DEF Coalesced
    <3>2. n \in (B \ {p}) \cup {h.brk}
      BY <1>1
    <3> QED
      BY <1>6, <2>1, <3>1, <3>2
  <2>3. ASSUME NEW q \in D
        PROVE  Al(g, q) = 1 \/ Al(g, q + Sz(g, q)) = 1
    <3>1. CASE q = p
      BY <1>6, <3>1
    <3>2. CASE q \notin B
      BY <1>6, <2>2, <3>2
    <3>3. CASE q \in B /\ q # p
      <4> DEFINE r == q + Sz(h, q)
      <4>1. CASE Al(h, q) = 1
        BY <1>6, <3>3, <4>1
      <4>2. CASE Al(h, q) # 1
        <5>1. Al(h, r) = 1
          BY <3>3, <4>2 DEF Coalesced
        <5>2. r \in (B \ {p}) \cup {h.brk}
          BY <1>1, <3>3, <5>1
        <5>3. Al(g, r) = 1
          BY <1>6, <2>1, <5>1, <5>2
        <5> QED
          BY <1>6, <3>3, <5>3
      <4> QED
        BY <4>1, <4>2
    <3> QED
      BY <3>1, <3>2, <3>3
  <2>4. Coalesced(g, D)
    BY <2>3 DEF Coalesced
  <2>5. Sound(g) /\ Held(g) = InUseOf(g, D)
    BY <1>6, <2>4, SoundIs
  <2>6. InUseOf(g, D) = InUseOf(h, B) \cup {p}
    BY <1>6 DEF InUseOf
  <2>7. ASSUME NEW q \in InUseOf(h, B)
        PROVE  Kept(h, g, q)
    <3>1. q \in B \ {p} /\ q \in Nat /\ Sz(h, q) \in Nat /\ p \in Nat /\ n \in Nat
      BY <1>1, <1>5
    <3>2. q < p \/ p < q
      BY <3>1
    <3>3. q + Sz(h, q) <= p \/ n <= q
      BY <1>3, <1>4, <3>1, <3>2
    <3> HIDE DEF n, g
    <3>4. ASSUME NEW w \in Int, q - 4 <= w, w < q + Sz(h, q) - 4
          PROVE  w < p - 4 \/ n - 4 <= w
      BY <3>1, <3>3, <3>4
    <3>5. \A w \in Int : q - 4 <= w /\ w < q + Sz(h, q) - 4 => GET(g, w) = GET(h, w)
      BY <1>6, <3>4
    <3> QED
      BY <1>6, <3>1, <3>5 DEF Kept
  <2> QED
    BY <1>6, <2>5, <2>6, <2>7
<1>7. CASE Sz(h, p) - m >= 16
  <2>1. SplitsTo(h, B, p, m, g)
    BY <1>7, PlaceCases
  <2>2. p + m \notin B
    <3>1. p \in Nat /\ Sz(h, p) \in Nat
      BY <1>1
    <3>2. p < p + m /\ p + m < p + Sz(h, p)
      BY <1>7, <3>1
    <3> HIDE DEF g
    <3> QED
      BY <1>4, <3>1, <3>2
  <2>3. p + m + (Sz(h, p) - m) = n
    BY <1>1
  <2> DEFINE D == B \cup {p + m}
  <2>4. /\ Tiling(g, D) /\ g.brk = h.brk /\ Sz(g, p) = m /\ Al(g, p) = 1
        /\ Sz(g, p + m) = Sz(h, p) - m /\ Al(g, p + m) = 0
        /\ \A q \in B \ {p} : Sz(g, q) = Sz(h, q) /\ Al(g, q) = Al(h, q)
    BY <2>1, Zenon DEF SplitsTo
  <2>7. \A w \in Int : w < p - 4 \/ n - 4 <= w => GET(g, w) = GET(h, w)
    <3>1. \A w \in Int : w < p - 4 \/ p + Sz(h, p) - 4 <= w => GET(g, w) = GET(h, w)
      BY <2>1, Zenon DEF SplitsTo
    <3> HIDE DEF g
    <3>2. p \in Nat /\ Sz(h, p) \in Nat
      BY <1>1
    <3> QED
      BY <3>1, <3>2
  <2>5. B \subseteq D /\ D \subseteq B \cup {p + m} /\ Sz(g, p) >= m
    BY <2>4
  <2>6. /\ Sound(g) /\ g.brk = h.brk
        /\ Held(g) = InUseOf(h, B) \cup {p}
        /\ \A q \in InUseOf(h, B) : Kept(h, g, q)
        /\ Sz(g, p) >= m
    <3> HIDE DEF D, g, n
    <3> QED
      BY <1>6, <2>3, <2>4, <2>5, <2>7
  <2> QED
    BY <2>6
<1>8. CASE ~ (Sz(h, p) - m >= 16)
  <2>1. Sz(h, p) - m < 16
    BY <1>1, <1>8
  <2>2. JoinsTo(h, B, p, n, 1, g) /\ Joined(B, p, n) = B
    BY <2>1, PlaceCases, JoinOne
  <2>3. n - p = Sz(h, p)
    BY <1>1
  <2>4. /\ Tiling(g, B) /\ g.brk = h.brk /\ Sz(g, p) = Sz(h, p) /\ Al(g, p) = 1
        /\ \A q \in B \ {p} : Sz(g, q) = Sz(h, q) /\ Al(g, q) = Al(h, q)
        /\ \A w \in Int : w < p - 4 \/ n - 4 <= w => GET(g, w) = GET(h, w)
    BY <2>2, <2>3 DEF JoinsTo
  <2>5. /\ Sound(g) /\ g.brk = h.brk
        /\ Held(g) = InUseOf(h, B) \cup {p}
        /\ \A q \in InUseOf(h, B) : Kept(h, g, q)
        /\ Sz(g, p) >= m
    <3> HIDE DEF g, n
    <3> QED
      BY <1>6, <2>4
  <2> QED
    BY <2>5
<1> QED
  BY <1>7, <1>8

LEMMA PlaceAlike ==
    ASSUME NEW h, NEW k, NEW B, SameTags(h, k, B), Coalesced(h, B), NEW p \in B, p # 8, Al(h, p) = 0,
           NEW m \in Nat, m % 8 = 0, m >= 16, Sz(h, p) >= m
    PROVE  Alike(place(h, p, m), place(k, p, m))
<1>1. /\ Tiling(h, B) /\ Tiling(k, B) /\ h.brk = k.brk
      /\ \A q \in B : Sz(h, q) = Sz(k, q) /\ Al(h, q) = Al(k, q)
  BY DEF SameTags
<1>2. Sz(h, p) \in Nat
  BY <1>1, BlockIs
<1>3. Sound(place(h, p, m))
  BY <1>1, PlaceIs
<1>4. CASE Sz(h, p) - m >= 16
  <2>1. SplitsTo(h, B, p, m, place(h, p, m)) /\ SplitsTo(k, B, p, m, place(k, p, m))
    BY <1>1, <1>4, PlaceCases
  <2>2. SameTags(place(h, p, m), place(k, p, m), B \cup {p + m})
    BY <1>1, <2>1 DEF SplitsTo, SameTags
  <2>3. BlocksOf(place(h, p, m)) = B \cup {p + m}
    BY <2>2, BlocksAreThese DEF SameTags
  <2> QED
    BY <1>3, <2>2, <2>3, AlikeIs DEF Sound
<1>5. CASE ~ (Sz(h, p) - m >= 16)
  <2>1. Sz(h, p) - m < 16 /\ Sz(k, p) - m < 16
    BY <1>1, <1>2, <1>5
  <2>2. /\ JoinsTo(h, B, p, p + Sz(h, p), 1, place(h, p, m))
        /\ JoinsTo(k, B, p, p + Sz(k, p), 1, place(k, p, m))
    BY <1>1, <2>1, PlaceCases
  <2>3. SameTags(place(h, p, m), place(k, p, m), B)
    BY <1>1, <2>2, JoinSame, JoinOne
  <2>4. BlocksOf(place(h, p, m)) = B
    BY <2>3, BlocksAreThese DEF SameTags
  <2> QED
    BY <1>3, <2>3, <2>4, AlikeIs DEF Sound
<1> QED
  BY <1>4, <1>5

-----------------------------------------------------------------------------
(* extend_heap, before it coalesces: a free block of s bytes where the     *)
(* epilogue was.                                                           *)

Extended(h, s) ==
    LET freed == PutTags(mem_sbrk(h, s), h.brk, PACK(s, 0))
    IN  PUT(freed, HDRP(NEXT_BLKP(freed, h.brk)), PACK(0, 1))

ExtendsTo(h, B, s, g) ==
    /\ Tiling(g, B \cup {h.brk}) /\ g.brk = h.brk + s
    /\ Sz(g, h.brk) = s /\ Al(g, h.brk) = 0
    /\ \A q \in B : Sz(g, q) = Sz(h, q) /\ Al(g, q) = Al(h, q)
    /\ \A w \in Int : w < h.brk - 4 => GET(g, w) = GET(h, w)

LEMMA ExtendBlocks ==
    ASSUME NEW h, NEW B, Tiling(h, B), NEW s \in Nat, s % 8 = 0, s >= 16, h.brk + s <= MAX_HEAP
    PROVE  ExtendsTo(h, B, s, Extended(h, s))
<1> DEFINE k == mem_sbrk(h, s)
           p == h.brk
           n == p + s
           f == PutTags(k, p, PACK(s, 0))
           g == PUT(f, n - 4, PACK(0, 1))
           D == B \cup {p}
<1>1. /\ h \in Heaps /\ p \in Nat /\ p % 8 = 0 /\ p <= MAX_HEAP /\ p >= 16
      /\ GET(h, p - 4) = 1 /\ p \notin B /\ MAX_HEAP \in Nat
  BY EndIs, HeapAssumption
<1>2. \A q \in B : /\ q \in Nat /\ q % 8 = 0 /\ 8 <= q /\ q < p
                   /\ Sz(h, q) \in Nat /\ Sz(h, q) % 8 = 0 /\ Sz(h, q) >= 8
                   /\ q # 8 => Sz(h, q) >= 16
                   /\ q + Sz(h, q) \in Nat /\ q + Sz(h, q) <= p
                   /\ GET(h, q - 4) = GET(h, q + Sz(h, q) - 8)
                   /\ q + Sz(h, q) \in B \cup {p}
  BY BlockIs
<1>3. n \in Nat /\ n % 8 = 0 /\ n <= MAX_HEAP /\ p + 16 <= n
  BY <1>1
<1>4. p - 4 \in Addresses /\ n - 8 \in Addresses /\ n - 4 \in Addresses
  <2> HIDE DEF n, p
  <2>1. /\ (p - 4) % 4 = 0 /\ (n - 8) % 4 = 0 /\ (n - 4) % 4 = 0
        /\ p - 4 \in Nat /\ n - 8 \in Nat /\ n - 4 \in Nat
    BY <1>1, <1>3
  <2>2. (p - 4) + 4 <= MAX_HEAP /\ (n - 8) + 4 <= MAX_HEAP /\ (n - 4) + 4 <= MAX_HEAP
    BY <1>1, <1>3
  <2> QED
    BY <2>1, <2>2, AddressIs
<1>5. k \in Heaps /\ k.brk = n /\ \A q : GET(k, q) = GET(h, q)
  BY <1>1, <1>3 DEF mem_sbrk, Heaps, GET
<1> HIDE DEF k
<1>6. /\ f \in Heaps /\ f.brk = n
      /\ \A q : GET(f, q) = IF q \in {p - 4, n - 8} THEN s + 0 ELSE GET(h, q)
  BY <1>1, <1>3, <1>4, <1>5, PutTagsIs
<1> HIDE DEF f
<1>7. PACK(0, 1) = 1 /\ SizeIn(1) = 0 /\ AllocIn(1) = 1
  BY DEF PACK, SizeIn, AllocIn
<1>8. /\ g \in Heaps /\ g.brk = n
      /\ \A q : GET(g, q) = IF q = n - 4 THEN 1
                            ELSE IF q \in {p - 4, n - 8} THEN s ELSE GET(h, q)
  <2>1. PACK(0, 1) \in Nat /\ s + 0 = s
    BY <1>7
  <2> HIDE DEF n, p
  <2>2. /\ g \in Heaps /\ g.brk = f.brk
        /\ \A q : GET(g, q) = IF q = n - 4 THEN PACK(0, 1) ELSE GET(f, q)
    <3>1. n - 4 \in Addresses /\ f \in Heaps
      BY <1>4, <1>6
    <3> DEFINE x == n - 4
               v == PACK(0, 1)
    <3>2. x \in Addresses /\ v \in Nat
      BY <2>1, <3>1
    <3> HIDE DEF x, v
    <3>3. /\ PUT(f, x, v) \in Heaps /\ PUT(f, x, v).brk = f.brk
          /\ \A q : GET(PUT(f, x, v), q) = IF q = x THEN v ELSE GET(f, q)
      BY <3>1, <3>2, PutIs
    <3> QED
      BY <3>3 DEF x, v
  <2> QED
    BY <1>6, <1>7, <2>1, <2>2
<1>9. Extended(h, s) = g
  <2>1. GET(f, p - 4) = PACK(s, 0)
    BY <1>6 DEF PACK
  <2>2. Sz(f, p) = s
    BY <1>6, <2>1, SzIs, TagIs
  <2> QED
    BY <2>2 DEF Extended, NEXT_BLKP, Sz, HDRP, WSIZE, f, k
<1> HIDE DEF g, n, p
<1>10. n = p + s
  BY DEF n
<1>11. /\ Sz(g, p) = s /\ Al(g, p) = 0 /\ GET(g, p - 4) = s /\ GET(g, n - 8) = s
  <2>1. p - 4 # n - 4 /\ n - 8 # n - 4
    BY <1>1, <1>3
  <2>2. GET(g, p - 4) = PACK(s, 0) /\ GET(g, p - 4) = s /\ GET(g, n - 8) = s
    BY <1>8, <2>1 DEF PACK
  <2> QED
    BY <1>8, <2>2, SzIs, TagIs
<1>12. ASSUME NEW w \in Int, w < p - 4
       PROVE  GET(g, w) = GET(h, w)
  <2>1. w # p - 4 /\ w # n - 8 /\ w # n - 4
    BY <1>1, <1>3, <1>12
  <2> QED
    BY <1>8, <2>1
<1>13. ASSUME NEW q \in B
       PROVE  /\ Sz(g, q) = Sz(h, q) /\ Al(g, q) = Al(h, q)
              /\ GET(g, q - 4) = GET(h, q - 4) /\ GET(g, q + Sz(h, q) - 8) = GET(h, q + Sz(h, q) - 8)
  <2>1. q \in Nat /\ q < p /\ Sz(h, q) \in Nat /\ Sz(h, q) >= 8 /\ q + Sz(h, q) <= p
    BY <1>2
  <2>2. q - 4 \in Int /\ q + Sz(h, q) - 8 \in Int /\ q - 4 < p - 4 /\ q + Sz(h, q) - 8 < p - 4
    BY <1>1, <2>1
  <2> QED
    BY <1>1, <1>8, <1>12, <2>2, SzIs
<1>14. \A q \in D : /\ q \in Nat /\ q % 8 = 0 /\ 8 <= q /\ q < g.brk
                    /\ q # 8 => Sz(g, q) >= 16
                    /\ GET(g, q - 4) = GET(g, q + Sz(g, q) - 8)
                    /\ q + Sz(g, q) \in D \cup {g.brk}
  <2>1. ASSUME NEW q \in B
        PROVE  q < g.brk
    <3>1. q \in Nat /\ q < p
      BY <1>2
    <3> QED
      BY <1>1, <1>3, <1>8, <3>1
  <2>2. p < g.brk /\ 8 <= p /\ p + Sz(g, p) = g.brk /\ p + Sz(g, p) - 8 = n - 8
    BY <1>1, <1>3, <1>8, <1>10, <1>11
  <2> QED
    BY <1>1, <1>2, <1>11, <1>13, <2>1, <2>2
<1>15. ASSUME NEW q \in D, NEW r \in D, q < r
       PROVE  q + Sz(g, q) <= r
  <2>1. q \in B
    <3>1. ASSUME q = p, r \in B PROVE FALSE
      BY <1>1, <1>2, <1>15, <3>1
    <3> QED
      BY <1>1, <1>15, <3>1
  <2> QED
    BY <1>2, <1>13, <1>15, <2>1 DEF Tiling
<1>16. ASSUME NEW r \in D \cup {g.brk}, r # 8
       PROVE  \E q \in D : q + Sz(g, q) = r
  <2>1. CASE r = g.brk
    BY <1>8, <1>10, <1>11, <2>1
  <2>2. CASE r # g.brk
    <3>1. PICK q \in B : q + Sz(h, q) = r
      BY <1>16, <2>2, PredecessorIs DEF p
    <3> QED
      BY <1>13, <3>1
  <2> QED
    BY <2>1, <2>2
<1>17. GET(g, 4) = 9 /\ GET(g, g.brk - 4) = 1
  <2>1. 4 \in Int /\ 4 < p - 4
    BY <1>1
  <2> QED
    BY <1>8, <1>12, <2>1 DEF Tiling
<1>18. Tiling(g, D)
  <2>1. 8 \in D
    BY DEF Tiling
  <2> HIDE DEF D
  <2> QED
    BY <1>3, <1>8, <1>14, <1>15, <1>16, <1>17, <2>1 DEF Tiling
<1> QED
  BY <1>8, <1>9, <1>11, <1>12, <1>13, <1>18 DEF ExtendsTo, n, p

LEMMA ExtendCases ==
    ASSUME NEW h, NEW words \in Nat, words % 2 = 0
    PROVE  extend_heap(h, words) =
               IF h.brk + 4 * words <= MAX_HEAP
               THEN coalesce(Extended(h, 4 * words), h.brk)
               ELSE [ptr |-> NULL, heap |-> h]
<1>1. (IF words % 2 = 1 THEN words + 1 ELSE words) * WSIZE = 4 * words
  BY DEF WSIZE
<1> QED
  BY <1>1 DEF extend_heap, Extended, CanGrow

LEMMA ExtendButOne ==
    ASSUME NEW h, NEW B, Tiling(h, B), Coalesced(h, B), NEW s, NEW g, ExtendsTo(h, B, s, g)
    PROVE  CoalescedBut(g, B \cup {h.brk}, h.brk)
<1>1. \A q \in B : /\ q + Sz(h, q) \in B \cup {h.brk}
                   /\ Sz(g, q) = Sz(h, q) /\ Al(g, q) = Al(h, q)
                   /\ Al(h, q) = 1 \/ Al(h, q + Sz(h, q)) = 1
  BY BlockIs DEF Coalesced, ExtendsTo
<1> QED
  BY <1>1 DEF CoalescedBut

LEMMA ExtendIs ==
    ASSUME NEW h, NEW B, Tiling(h, B), Coalesced(h, B), NEW words \in Nat, words % 2 = 0, words >= 4,
           h.brk + 4 * words <= MAX_HEAP
    PROVE  LET c == extend_heap(h, words)
           IN  /\ Sound(c.heap) /\ c.heap.brk = h.brk + 4 * words
               /\ Held(c.heap) = InUseOf(h, B)
               /\ \A q \in InUseOf(h, B) : Kept(h, c.heap, q)
               /\ c.ptr \in BlocksOf(c.heap) /\ c.ptr # 8
               /\ Al(c.heap, c.ptr) = 0 /\ Sz(c.heap, c.ptr) >= 4 * words
<1> DEFINE s == 4 * words
           g == Extended(h, s)
           D == B \cup {h.brk}
           c == coalesce(g, h.brk)
<1>1. s \in Nat /\ s % 8 = 0 /\ s >= 16
  OBVIOUS
<1>2. extend_heap(h, words) = c
  BY ExtendCases
<1> HIDE DEF s
<1>3. ExtendsTo(h, B, s, g)
  BY <1>1, ExtendBlocks DEF s
<1> HIDE DEF g
<1>4. CoalescedBut(g, D, h.brk)
  BY <1>3, ExtendButOne
<1>5. /\ Tiling(g, D) /\ g.brk = h.brk + s /\ Sz(g, h.brk) = s /\ Al(g, h.brk) = 0
      /\ \A q \in B : Sz(g, q) = Sz(h, q) /\ Al(g, q) = Al(h, q)
      /\ \A w \in Int : w < h.brk - 4 => GET(g, w) = GET(h, w)
  BY <1>3 DEF ExtendsTo
<1>6. h.brk \in Nat /\ h.brk # 8
  BY EndIs
<1>7. /\ Sound(c.heap) /\ c.heap.brk = g.brk
      /\ Held(c.heap) = InUseOf(g, D)
      /\ \A q \in InUseOf(g, D) : Kept(g, c.heap, q)
      /\ c.ptr \in BlocksOf(c.heap) /\ c.ptr # 8
      /\ Al(c.heap, c.ptr) = 0 /\ Sz(c.heap, c.ptr) >= Sz(g, h.brk)
  BY <1>4, <1>5, <1>6, CoalesceIs
<1>8. InUseOf(g, D) = InUseOf(h, B)
  BY <1>5 DEF InUseOf
<1>9. ASSUME NEW q \in InUseOf(h, B)
      PROVE  Kept(h, g, q)
  <2>1. q \in B /\ q \in Nat /\ Sz(h, q) \in Nat /\ q + Sz(h, q) <= h.brk
    BY BlockIs DEF InUseOf
  <2>2. ASSUME NEW w \in Int, q - 4 <= w, w < q + Sz(h, q) - 4
        PROVE  w < h.brk - 4
    BY <1>6, <2>1, <2>2
  <2> QED
    BY <1>5, <2>1, <2>2 DEF Kept
<1> HIDE DEF c, D
<1>10. \A q \in InUseOf(h, B) : Kept(h, c.heap, q)
  BY <1>7, <1>8, <1>9, KeptOn
<1> QED
  BY <1>2, <1>5, <1>7, <1>8, <1>10 DEF s

LEMMA ExtendAlike ==
    ASSUME NEW h, NEW k, NEW B, SameTags(h, k, B), Coalesced(h, B), NEW words \in Nat, words % 2 = 0, words >= 4,
           h.brk + 4 * words <= MAX_HEAP
    PROVE  /\ extend_heap(h, words).ptr = extend_heap(k, words).ptr
           /\ Alike(extend_heap(h, words).heap, extend_heap(k, words).heap)
<1> DEFINE s == 4 * words
           g == Extended(h, s)
           f == Extended(k, s)
           D == B \cup {h.brk}
<1>1. s \in Nat /\ s % 8 = 0 /\ s >= 16
  OBVIOUS
<1>2. Tiling(h, B) /\ Tiling(k, B) /\ h.brk = k.brk
  BY DEF SameTags
<1>3. extend_heap(h, words) = coalesce(g, h.brk) /\ extend_heap(k, words) = coalesce(f, h.brk)
  BY <1>2, ExtendCases
<1>4. ExtendsTo(h, B, s, g) /\ ExtendsTo(k, B, s, f)
  <2>1. h.brk + s <= MAX_HEAP /\ k.brk + s <= MAX_HEAP
    BY <1>2
  <2> HIDE DEF s
  <2> QED
    BY <1>1, <1>2, <2>1, ExtendBlocks
<1> HIDE DEF s, g, f
<1>5. SameTags(g, f, D)
  BY <1>2, <1>4 DEF ExtendsTo, SameTags
<1>6. CoalescedBut(g, D, h.brk) /\ Al(g, h.brk) = 0
  BY <1>2, <1>4, ExtendButOne DEF ExtendsTo
<1>7. h.brk # 8
  BY <1>2, EndIs
<1> QED
  BY <1>3, <1>5, <1>6, <1>7, CoalesceAlike

-----------------------------------------------------------------------------
(* mm_init makes a prologue and one free block, wherever it is.            *)

Prologue(h) ==
    PUT(PUT(PUT(PUT(mem_sbrk(h, 16), 0, 0), 4, PACK(8, 1)), 8, PACK(8, 1)), 12, PACK(0, 1))

LEMMA PrologueIs ==
    ASSUME NEW h \in Heaps, h.brk = 0
    PROVE  /\ mm_init(h) = extend_heap(Prologue(h), CHUNKSIZE \div WSIZE).heap
           /\ Tiling(Prologue(h), {8}) /\ Coalesced(Prologue(h), {8})
           /\ Prologue(h).brk = 16 /\ Sz(Prologue(h), 8) = 8 /\ Al(Prologue(h), 8) = 1
<1>1. mm_init(h) = extend_heap(Prologue(h), CHUNKSIZE \div WSIZE).heap
  BY DEF mm_init, Prologue, WSIZE, DSIZE
<1>2. MAX_HEAP \in Nat /\ MAX_HEAP >= 32
  BY HeapAssumption, ChunkAssumption DEF WSIZE, DSIZE
<1>3. 0 \in Addresses /\ 4 \in Addresses /\ 8 \in Addresses /\ 12 \in Addresses
  BY <1>2, AddressIs
<1> DEFINE a == mem_sbrk(h, 16)
           b == PUT(a, 0, 0)
           c == PUT(b, 4, PACK(8, 1))
           d == PUT(c, 8, PACK(8, 1))
           g == PUT(d, 12, PACK(0, 1))
<1>4. PACK(8, 1) = 9 /\ PACK(0, 1) = 1 /\ SizeIn(9) = 8 /\ AllocIn(9) = 1 /\ AllocIn(1) = 1
  BY DEF PACK, SizeIn, AllocIn
<1>5. a \in Heaps /\ a.brk = 16
  BY DEF Heaps, mem_sbrk
<1> HIDE DEF a
<1>0. /\ 0 \in Nat /\ PACK(8, 1) \in Nat /\ PACK(0, 1) \in Nat
      /\ 8 # 4 /\ 12 # 4 /\ 12 # 8
  BY <1>4
<1>6. b \in Heaps /\ b.brk = 16
  BY <1>0, <1>3, <1>5, PutIs, Zenon
<1> HIDE DEF b
<1>7. c \in Heaps /\ c.brk = 16 /\ GET(c, 4) = 9
  BY <1>0, <1>3, <1>4, <1>6, PutIs, Zenon
<1> HIDE DEF c
<1>8. d \in Heaps /\ d.brk = 16 /\ GET(d, 4) = 9 /\ GET(d, 8) = 9
  <2>1. d \in Heaps /\ d.brk = c.brk /\ \A q : GET(d, q) = IF q = 8 THEN PACK(8, 1) ELSE GET(c, q)
    <3>1. c \in Heaps /\ 8 \in Addresses /\ PACK(8, 1) \in Nat
      BY <1>0, <1>3, <1>7
    <3> QED
      BY <3>1, PutIs, ZenonT(60)
  <2> HIDE DEF d
  <2> QED
    BY <1>0, <1>4, <1>7, <2>1
<1> HIDE DEF d
<1>9. g \in Heaps /\ g.brk = 16 /\ GET(g, 4) = 9 /\ GET(g, 8) = 9 /\ GET(g, 12) = 1
  <2>1. g \in Heaps /\ g.brk = d.brk /\ \A q : GET(g, q) = IF q = 12 THEN PACK(0, 1) ELSE GET(d, q)
    <3>1. d \in Heaps /\ 12 \in Addresses /\ PACK(0, 1) \in Nat
      BY <1>0, <1>3, <1>8
    <3> QED
      BY <3>1, PutIs, ZenonT(60)
  <2> HIDE DEF g
  <2> QED
    BY <1>0, <1>4, <1>8, <2>1
<1>10. Prologue(h) = g
  BY DEF Prologue, a, b, c, d
<1> HIDE DEF g
<1>11. Sz(g, 8) = 8 /\ Al(g, 8) = 1
  BY <1>4, <1>9, SzIs
<1>12. Tiling(g, {8})
  BY <1>2, <1>9, <1>11 DEF Tiling
<1>13. Coalesced(g, {8})
  BY <1>11 DEF Coalesced
<1> QED
  BY <1>1, <1>9, <1>10, <1>11, <1>12, <1>13

LEMMA ChunkIs ==
    /\ CHUNKSIZE \div WSIZE \in Nat /\ (CHUNKSIZE \div WSIZE) % 2 = 0
    /\ CHUNKSIZE \div WSIZE >= 4 /\ 4 * (CHUNKSIZE \div WSIZE) = CHUNKSIZE
    /\ CHUNKSIZE \in Nat /\ 16 + CHUNKSIZE <= MAX_HEAP
<1>1. CHUNKSIZE \in Nat /\ CHUNKSIZE % 8 = 0 /\ CHUNKSIZE >= 16
  BY ChunkAssumption DEF DSIZE
<1>2. 16 + CHUNKSIZE <= MAX_HEAP
  BY <1>1, HeapAssumption DEF WSIZE
<1>3. /\ CHUNKSIZE \div 4 \in Nat /\ (CHUNKSIZE \div 4) % 2 = 0
      /\ CHUNKSIZE \div 4 >= 4 /\ 4 * (CHUNKSIZE \div 4) = CHUNKSIZE
  BY <1>1
<1> QED
  BY <1>1, <1>2, <1>3 DEF WSIZE

LEMMA InitIs ==
    ASSUME NEW h \in Heaps, h.brk = 0
    PROVE  Sound(mm_init(h)) /\ Held(mm_init(h)) = {8}
<1>1. InUseOf(Prologue(h), {8}) = {8}
  BY PrologueIs DEF InUseOf
<1> QED
  BY <1>1, PrologueIs, ChunkIs, ExtendIs

LEMMA InitAlike ==
    ASSUME NEW h \in Heaps, h.brk = 0, NEW k \in Heaps, k.brk = 0
    PROVE  Alike(mm_init(h), mm_init(k))
<1>1. SameTags(Prologue(h), Prologue(k), {8})
  BY PrologueIs DEF SameTags
<1> QED
  BY <1>1, PrologueIs, ChunkIs, ExtendAlike

-----------------------------------------------------------------------------
(* mm_malloc.                                                              *)

(* The answer ans to a request for size bytes: NULL and the heap as it     *)
(* was, or a new block that is large enough, the others in use being kept. *)
Grants(h, size, ans) ==
    /\ Sound(ans.heap) /\ h.brk <= ans.heap.brk
    /\ ans.ptr \in BlocksOf(ans.heap) /\ ans.ptr \notin Held(h)
    /\ Held(ans.heap) = Held(h) \cup {ans.ptr}
    /\ \A q \in Held(h) : Kept(h, ans.heap, q)
    /\ Sz(ans.heap, ans.ptr) >= size + 8

LEMMA AdjustedSizeIs ==
    ASSUME NEW size \in Nat
    PROVE  /\ AdjustedSize(size) \in Nat /\ AdjustedSize(size) % 8 = 0
           /\ AdjustedSize(size) >= 16 /\ AdjustedSize(size) >= size + 8
<1>1. CASE size <= 8
  BY <1>1 DEF AdjustedSize, DSIZE
<1>2. CASE size > 8
  <2> DEFINE d == (size + 15) \div 8
  <2>1. d \in Nat /\ 8 * d <= size + 15 /\ size + 15 < 8 * d + 8
    OBVIOUS
  <2>2. AdjustedSize(size) = 8 * d
    BY <1>2 DEF AdjustedSize, DSIZE
  <2> HIDE DEF d
  <2>3. 8 * d \in Nat /\ (8 * d) % 8 = 0 /\ 8 * d >= 16 /\ 8 * d >= size + 8
    BY <1>2, <2>1
  <2> QED
    BY <2>2, <2>3
<1> QED
  BY <1>1, <1>2

LEMMA SoundHas ==
    ASSUME NEW h, Sound(h)
    PROVE  /\ h \in Heaps /\ h.brk \in Nat /\ h.brk <= MAX_HEAP /\ 8 \in Held(h)
           /\ \A p \in BlocksOf(h) : /\ p \in Nat /\ p % 8 = 0 /\ 8 <= p
                                     /\ Sz(h, p) \in Nat /\ Sz(h, p) >= 8 /\ Sz(h, p) % 8 = 0
                                     /\ p + Sz(h, p) <= h.brk
           /\ Held(h) = {p \in BlocksOf(h) : Al(h, p) = 1}
           /\ \A p, q \in BlocksOf(h) : p < q => p + Sz(h, p) <= q
<1> DEFINE B == BlocksOf(h)
<1>1. Tiling(h, B)
  BY DEF Sound
<1>2. 8 \in B
  BY <1>1 DEF Tiling
<1> HIDE DEF B
<1>3. \A p \in B : /\ p \in Nat /\ p % 8 = 0 /\ 8 <= p
                   /\ Sz(h, p) \in Nat /\ Sz(h, p) >= 8 /\ Sz(h, p) % 8 = 0
                   /\ p + Sz(h, p) <= h.brk /\ (p = 8 => Al(h, p) = 1)
  BY <1>1, BlockIs
<1>4. h \in Heaps /\ h.brk \in Nat /\ h.brk <= MAX_HEAP
  BY <1>1, EndIs
<1>5. \A p, q \in B : p < q => p + Sz(h, p) <= q
  BY <1>1, BlocksApart
<1>6. Held(h) = {p \in B : Al(h, p) = 1}
  BY DEF Held, InUseOf, B
<1> QED
  BY <1>2, <1>3, <1>4, <1>5, <1>6 DEF B

(* The bytes that mm_malloc asks extend_heap for.                          *)
ExtensionIs(asize, words) ==
    /\ words = max(asize, CHUNKSIZE) \div WSIZE
    /\ words \in Nat /\ words % 2 = 0 /\ words >= 4 /\ 4 * words >= asize

LEMMA ExtensionFits ==
    ASSUME NEW asize \in Nat, asize % 8 = 0
    PROVE  ExtensionIs(asize, max(asize, CHUNKSIZE) \div WSIZE)
<1> DEFINE m == max(asize, CHUNKSIZE)
<1>1. CHUNKSIZE \in Nat /\ CHUNKSIZE % 8 = 0 /\ CHUNKSIZE >= 16
  BY ChunkAssumption DEF DSIZE
<1>2. m \in Nat /\ m % 8 = 0 /\ m >= 16 /\ m >= asize
  BY <1>1 DEF max
<1> HIDE DEF m
<1>3. m \div 4 \in Nat /\ (m \div 4) % 2 = 0 /\ m \div 4 >= 4 /\ 4 * (m \div 4) = m
  BY <1>2
<1> QED
  BY <1>2, <1>3 DEF ExtensionIs, WSIZE, m

LEMMA MallocCases ==
    ASSUME NEW h, Sound(h), NEW size \in Nat \ {0}
    PROVE  LET asize == AdjustedSize(size)
               fit   == find_fit(h, asize)
               words == max(asize, CHUNKSIZE) \div WSIZE
               c     == extend_heap(h, words)
           IN  mm_malloc(h, size) =
                   IF fit # NULL THEN [ptr |-> fit, heap |-> place(h, fit, asize)]
                   ELSE IF h.brk + 4 * words <= MAX_HEAP
                   THEN [ptr |-> c.ptr, heap |-> place(c.heap, c.ptr, asize)]
                   ELSE [ptr |-> NULL, heap |-> h]
<1> DEFINE asize == AdjustedSize(size)
           fit == find_fit(h, asize)
           words == max(asize, CHUNKSIZE) \div WSIZE
           c == extend_heap(h, words)
<1>1. ExtensionIs(asize, words)
  BY AdjustedSizeIs, ExtensionFits
<1>2. mm_malloc(h, size) =
          CASE fit # NULL -> [ptr |-> fit, heap |-> place(h, fit, asize)]
            [] fit = NULL /\ c.ptr # NULL -> [ptr |-> c.ptr, heap |-> place(c.heap, c.ptr, asize)]
            [] OTHER -> [ptr |-> NULL, heap |-> h]
  BY DEF mm_malloc
<1> HIDE DEF asize, fit, words
<1>3. words \in Nat /\ words % 2 = 0 /\ words >= 4
  BY <1>1 DEF ExtensionIs
<1>4. Tiling(h, BlocksOf(h)) /\ Coalesced(h, BlocksOf(h))
  BY DEF Sound
<1>5. CASE h.brk + 4 * words <= MAX_HEAP
  <2>1. Sound(c.heap) /\ c.ptr \in BlocksOf(c.heap)
    BY <1>3, <1>4, <1>5, ExtendIs
  <2>2. c.ptr \in Nat /\ c.ptr >= 8
    BY <2>1, SoundHas
  <2>3. c.ptr # NULL
    BY <2>2 DEF NULL
  <2> HIDE DEF c
  <2> QED
    BY <1>2, <1>5, <2>3 DEF asize, fit, words, c
<1>6. CASE ~ (h.brk + 4 * words <= MAX_HEAP)
  <2>1. c.ptr = NULL
    BY <1>3, <1>6, ExtendCases
  <2> HIDE DEF c
  <2> QED
    BY <1>2, <1>6, <2>1 DEF asize, fit, words, c
<1> QED
  BY <1>5, <1>6

LEMMA MallocIs ==
    ASSUME NEW h, Sound(h), NEW size \in Nat
    PROVE  \/ mm_malloc(h, size) = [ptr |-> NULL, heap |-> h]
           \/ Grants(h, size, mm_malloc(h, size))
<1>1. CASE size = 0
  BY <1>1 DEF mm_malloc
<1>2. CASE size # 0
  <2> DEFINE asize == AdjustedSize(size)
             fit == find_fit(h, asize)
             words == max(asize, CHUNKSIZE) \div WSIZE
             c == extend_heap(h, words)
             B == BlocksOf(h)
  <2>1. Tiling(h, B) /\ Coalesced(h, B) /\ Held(h) = InUseOf(h, B)
    BY DEF Sound, Held
  <2>2. asize \in Nat /\ asize % 8 = 0 /\ asize >= 16 /\ asize >= size + 8
    BY AdjustedSizeIs
  <2>3. ExtensionIs(asize, words)
    BY <2>2, ExtensionFits
  <2>4. mm_malloc(h, size) =
            IF fit # NULL THEN [ptr |-> fit, heap |-> place(h, fit, asize)]
            ELSE IF h.brk + 4 * words <= MAX_HEAP
            THEN [ptr |-> c.ptr, heap |-> place(c.heap, c.ptr, asize)]
            ELSE [ptr |-> NULL, heap |-> h]
    BY <1>2, MallocCases
  <2>5. h.brk \in Nat /\ \A p \in B : Sz(h, p) \in Nat
    BY SoundHas
  <2>6. fit = NULL \/ (fit \in B /\ fit # 8 /\ Al(h, fit) = 0 /\ Sz(h, fit) >= asize)
    BY <2>1, <2>2, FitIs
  <2> HIDE DEF asize, fit, words, B
  <2>7. CASE fit # NULL
    <3> DEFINE g == place(h, fit, asize)
    <3>1. fit \in B /\ fit # 8 /\ Al(h, fit) = 0 /\ Sz(h, fit) >= asize
      BY <2>6, <2>7
    <3>2. /\ Sound(g) /\ g.brk = h.brk
          /\ Held(g) = InUseOf(h, B) \cup {fit}
          /\ \A q \in InUseOf(h, B) : Kept(h, g, q)
          /\ Sz(g, fit) >= asize
      BY <2>1, <2>2, <3>1, PlaceIs
    <3>3. mm_malloc(h, size).ptr = fit /\ mm_malloc(h, size).heap = g
      BY <2>4, <2>7
    <3> HIDE DEF g
    <3>4. fit \in BlocksOf(g) /\ Sz(g, fit) \in Nat
      BY <3>2, SoundHas
    <3>5. fit \notin Held(h)
      BY <2>1, <3>1 DEF InUseOf
    <3>6. Sz(g, fit) >= size + 8 /\ h.brk <= g.brk
      BY <2>2, <2>5, <3>2, <3>4
    <3> QED
      BY <2>1, <3>2, <3>3, <3>4, <3>5, <3>6 DEF Grants
  <2>8. CASE fit = NULL /\ h.brk + 4 * words <= MAX_HEAP
    <3> DEFINE g == place(c.heap, c.ptr, asize)
               C == BlocksOf(c.heap)
    <3>1. words \in Nat /\ words % 2 = 0 /\ words >= 4 /\ 4 * words >= asize
      BY <2>3 DEF ExtensionIs
    <3>2. /\ Sound(c.heap) /\ c.heap.brk = h.brk + 4 * words
          /\ Held(c.heap) = InUseOf(h, B)
          /\ \A q \in InUseOf(h, B) : Kept(h, c.heap, q)
          /\ c.ptr \in C /\ c.ptr # 8
          /\ Al(c.heap, c.ptr) = 0 /\ Sz(c.heap, c.ptr) >= 4 * words
      BY <2>1, <2>8, <3>1, ExtendIs
    <3>3. mm_malloc(h, size).ptr = c.ptr /\ mm_malloc(h, size).heap = g
      BY <2>4, <2>8
    <3> HIDE DEF c
    <3>4. Sz(c.heap, c.ptr) \in Nat /\ c.heap.brk \in Nat
      BY <3>2, SoundHas
    <3>5. Sz(c.heap, c.ptr) >= asize /\ h.brk <= c.heap.brk
      BY <2>2, <2>5, <3>1, <3>2, <3>4
    <3>6. Tiling(c.heap, C) /\ Coalesced(c.heap, C) /\ Held(c.heap) = InUseOf(c.heap, C)
      BY <3>2 DEF Sound, Held
    <3> HIDE DEF C
    <3>7. /\ Sound(g) /\ g.brk = c.heap.brk
          /\ Held(g) = InUseOf(c.heap, C) \cup {c.ptr}
          /\ \A q \in InUseOf(c.heap, C) : Kept(c.heap, g, q)
          /\ Sz(g, c.ptr) >= asize
      BY <2>2, <3>2, <3>5, <3>6, PlaceIs DEF C
    <3> HIDE DEF g
    <3>8. c.ptr \in BlocksOf(g) /\ Sz(g, c.ptr) \in Nat
      BY <3>7, SoundHas
    <3>9. c.ptr \notin Held(h)
      BY <2>1, <3>2, <3>6 DEF InUseOf
    <3>10. Sz(g, c.ptr) >= size + 8
      BY <2>2, <3>7, <3>8
    <3>11. \A q \in Held(h) : Kept(h, g, q)
      BY <2>1, <3>2, <3>6, <3>7, KeptOn
    <3> QED
      BY <2>1, <3>2, <3>3, <3>5, <3>6, <3>7, <3>8, <3>9, <3>10, <3>11 DEF Grants
  <2>9. CASE fit = NULL /\ ~ (h.brk + 4 * words <= MAX_HEAP)
    BY <2>4, <2>9
  <2> QED
    BY <2>7, <2>8, <2>9
<1> QED
  BY <1>1, <1>2

LEMMA AlikeHas ==
    ASSUME NEW h, NEW k, Alike(h, k)
    PROVE  /\ Sound(h) /\ Sound(k) /\ BlocksOf(k) = BlocksOf(h) /\ Held(k) = Held(h)
           /\ SameTags(h, k, BlocksOf(h)) /\ Coalesced(h, BlocksOf(h)) /\ h.brk = k.brk
           /\ \A p \in BlocksOf(h) : Sz(h, p) = Sz(k, p) /\ Al(h, p) = Al(k, p)
<1> DEFINE B == BlocksOf(h)
<1>1. Sound(h) /\ Sound(k) /\ SameTags(h, k, B)
  BY DEF Alike
<1>2. BlocksOf(k) = B
  BY <1>1, BlocksAreThese DEF SameTags
<1>3. /\ h.brk = k.brk
      /\ \A p \in B : Sz(h, p) = Sz(k, p) /\ Al(h, p) = Al(k, p)
  BY <1>1 DEF SameTags
<1>4. Held(k) = Held(h)
  BY <1>2, <1>3 DEF Held, InUseOf
<1> QED
  BY <1>1, <1>2, <1>3, <1>4 DEF Sound

LEMMA MallocAlike ==
    ASSUME NEW h, NEW k, Alike(h, k), NEW size \in Nat
    PROVE  /\ mm_malloc(h, size).ptr = mm_malloc(k, size).ptr
           /\ Alike(mm_malloc(h, size).heap, mm_malloc(k, size).heap)
<1>1. CASE size = 0
  BY <1>1 DEF mm_malloc
<1>2. CASE size # 0
  <2> DEFINE asize == AdjustedSize(size)
             fit == find_fit(h, asize)
             words == max(asize, CHUNKSIZE) \div WSIZE
             c == extend_heap(h, words)
             e == extend_heap(k, words)
             B == BlocksOf(h)
  <2>1. /\ Sound(h) /\ Sound(k) /\ SameTags(h, k, B) /\ Coalesced(h, B) /\ h.brk = k.brk
        /\ Tiling(h, B)
    BY AlikeHas DEF SameTags
  <2>2. asize \in Nat /\ asize % 8 = 0 /\ asize >= 16
    BY AdjustedSizeIs
  <2>3. ExtensionIs(asize, words)
    BY <2>2, ExtensionFits
  <2>4. mm_malloc(h, size) =
            IF fit # NULL THEN [ptr |-> fit, heap |-> place(h, fit, asize)]
            ELSE IF h.brk + 4 * words <= MAX_HEAP
            THEN [ptr |-> c.ptr, heap |-> place(c.heap, c.ptr, asize)]
            ELSE [ptr |-> NULL, heap |-> h]
    BY <1>2, <2>1, MallocCases
  <2>5. fit = find_fit(k, asize)
    BY <2>1, FitAlike
  <2>6. mm_malloc(k, size) =
            IF fit # NULL THEN [ptr |-> fit, heap |-> place(k, fit, asize)]
            ELSE IF h.brk + 4 * words <= MAX_HEAP
            THEN [ptr |-> e.ptr, heap |-> place(e.heap, e.ptr, asize)]
            ELSE [ptr |-> NULL, heap |-> k]
    BY <1>2, <2>1, <2>5, MallocCases
  <2>7. fit = NULL \/ (fit \in B /\ fit # 8 /\ Al(h, fit) = 0 /\ Sz(h, fit) >= asize)
    BY <2>1, <2>2, FitIs
  <2> HIDE DEF asize, fit, words, B
  <2>8. CASE fit # NULL
    <3>1. Alike(place(h, fit, asize), place(k, fit, asize))
      BY <2>1, <2>2, <2>7, <2>8, PlaceAlike
    <3> QED
      BY <2>4, <2>6, <2>8, <3>1
  <2>9. CASE fit = NULL /\ h.brk + 4 * words <= MAX_HEAP
    <3> DEFINE C == BlocksOf(c.heap)
    <3>1. words \in Nat /\ words % 2 = 0 /\ words >= 4 /\ 4 * words >= asize
      BY <2>3 DEF ExtensionIs
    <3>2. c.ptr = e.ptr /\ Alike(c.heap, e.heap)
      BY <2>1, <2>9, <3>1, ExtendAlike
    <3>3. /\ Sound(c.heap) /\ c.ptr \in C /\ c.ptr # 8
          /\ Al(c.heap, c.ptr) = 0 /\ Sz(c.heap, c.ptr) >= 4 * words
      BY <2>1, <2>9, <3>1, ExtendIs
    <3>4. /\ mm_malloc(h, size) = [ptr |-> c.ptr, heap |-> place(c.heap, c.ptr, asize)]
          /\ mm_malloc(k, size) = [ptr |-> c.ptr, heap |-> place(e.heap, c.ptr, asize)]
      BY <2>4, <2>6, <2>9, <3>2
    <3> HIDE DEF c, e
    <3>5. Sz(c.heap, c.ptr) \in Nat
      BY <3>3, SoundHas
    <3>6. Sz(c.heap, c.ptr) >= asize
      BY <2>2, <3>1, <3>3, <3>5
    <3>7. SameTags(c.heap, e.heap, C) /\ Coalesced(c.heap, C)
      BY <3>2, AlikeHas
    <3> HIDE DEF C
    <3>8. Alike(place(c.heap, c.ptr, asize), place(e.heap, c.ptr, asize))
      BY <2>2, <3>3, <3>6, <3>7, PlaceAlike
    <3> QED
      BY <3>4, <3>8
  <2>10. CASE fit = NULL /\ ~ (h.brk + 4 * words <= MAX_HEAP)
    BY <2>4, <2>6, <2>10
  <2> QED
    BY <2>8, <2>9, <2>10
<1> QED
  BY <1>1, <1>2

-----------------------------------------------------------------------------
(* mm_free.                                                                *)

Freed(h, p) == PutTags(h, p, PACK(Sz(h, p), 0))

LEMMA FreedJoins ==
    ASSUME NEW h, NEW B, Tiling(h, B), NEW p \in B, p # 8
    PROVE  /\ JoinsTo(h, B, p, p + Sz(h, p), 0, Freed(h, p))
           /\ Joined(B, p, p + Sz(h, p)) = B
           /\ mm_free(h, p) = coalesce(Freed(h, p), p).heap
<1>1. /\ p \in Nat /\ Sz(h, p) \in Nat /\ Sz(h, p) >= 8 /\ p + Sz(h, p) \in B \cup {h.brk}
  BY BlockIs
<1>2. (p + Sz(h, p)) - p = Sz(h, p) /\ p < p + Sz(h, p)
  BY <1>1
<1>3. JoinsTo(h, B, p, p + Sz(h, p), 0, Freed(h, p))
  BY <1>1, <1>2, JoinBlocks DEF Freed
<1> QED
  BY <1>3, JoinOne DEF mm_free, Freed, Sz

LEMMA FreedIs ==
    ASSUME NEW h, NEW B, Tiling(h, B), Coalesced(h, B), NEW p \in B, p # 8
    PROVE  /\ Tiling(Freed(h, p), B) /\ Freed(h, p).brk = h.brk
           /\ CoalescedBut(Freed(h, p), B, p) /\ Al(Freed(h, p), p) = 0
           /\ InUseOf(Freed(h, p), B) = InUseOf(h, B) \ {p}
           /\ \A q \in B \ {p} : Kept(h, Freed(h, p), q)
<1> DEFINE f == Freed(h, p)
           n == p + Sz(h, p)
<1>1. JoinsTo(h, B, p, n, 0, f) /\ Joined(B, p, n) = B
  BY FreedJoins
<1>2. \A q \in B : /\ q \in Nat /\ Sz(h, q) \in Nat /\ Sz(h, q) >= 8
                   /\ q + Sz(h, q) \in B \cup {h.brk}
  BY BlockIs
<1>3. \A q \in B : p < q => n <= q
  BY BlocksApart
<1>4. n \in B \cup {h.brk} /\ p < n
  BY <1>2
<1> HIDE DEF f, n
<1>5. /\ Tiling(f, B) /\ f.brk = h.brk /\ Al(f, p) = 0
      /\ \A q \in B \ {p} : Sz(f, q) = Sz(h, q) /\ Al(f, q) = Al(h, q)
  BY <1>1 DEF JoinsTo
<1>6. /\ \A q \in B : q < p \/ n <= q => Kept(h, f, q)
      /\ InUseOf(f, B) = {q \in InUseOf(h, B) : q < p \/ n <= q} \cup (IF 0 = 1 THEN {p} ELSE {})
  BY <1>1, <1>4, JoinKeeps
<1>7. \A q \in B : q # p <=> q < p \/ n <= q
  <2>1. n \in Nat
    BY <1>2, <1>4, EndIs
  <2> QED
    BY <1>2, <1>3, <1>4, <2>1
<1>8. InUseOf(f, B) = InUseOf(h, B) \ {p}
  BY <1>6, <1>7 DEF InUseOf
<1>9. CoalescedBut(f, B, p)
  <2>1. Al(f, h.brk) = 1
    BY <1>5, EndIs
  <2> QED
    BY <1>2, <1>5, <2>1 DEF CoalescedBut, Coalesced
<1> QED
  BY <1>5, <1>6, <1>7, <1>8, <1>9 DEF f

(* The block p was freed, the others in use are kept.                      *)
Releases(h, p, g) ==
    /\ Sound(g) /\ g.brk = h.brk
    /\ Held(g) = Held(h) \ {p}
    /\ \A q \in Held(h) \ {p} : Kept(h, g, q)

LEMMA FreeIs ==
    ASSUME NEW h, Sound(h), NEW p \in Held(h), p # 8
    PROVE  Releases(h, p, mm_free(h, p))
<1> DEFINE B == BlocksOf(h)
           f == Freed(h, p)
<1>1. Tiling(h, B) /\ Coalesced(h, B) /\ Held(h) = InUseOf(h, B) /\ p \in B
  BY DEF Sound, Held, InUseOf
<1> HIDE DEF B
<1>2. mm_free(h, p) = coalesce(f, p).heap
  BY <1>1, FreedJoins
<1>3. /\ Tiling(f, B) /\ f.brk = h.brk /\ CoalescedBut(f, B, p) /\ Al(f, p) = 0
      /\ InUseOf(f, B) = InUseOf(h, B) \ {p}
      /\ \A q \in B \ {p} : Kept(h, f, q)
  BY <1>1, FreedIs
<1> HIDE DEF f
<1>4. LET g == coalesce(f, p).heap
      IN  /\ Sound(g) /\ g.brk = f.brk /\ Held(g) = InUseOf(f, B)
          /\ \A q \in InUseOf(f, B) : Kept(f, g, q)
  BY <1>1, <1>3, CoalesceIs
<1>5. \A q \in InUseOf(h, B) : q \in B
  BY DEF InUseOf
<1> QED
  BY <1>1, <1>2, <1>3, <1>4, <1>5, KeptOn DEF Releases

LEMMA FreeAlike ==
    ASSUME NEW h, NEW k, Alike(h, k), NEW p \in Held(h), p # 8
    PROVE  Alike(mm_free(h, p), mm_free(k, p))
<1> DEFINE B == BlocksOf(h)
<1>1. /\ SameTags(h, k, B) /\ Coalesced(h, B) /\ Coalesced(k, B) /\ p \in B
      /\ Tiling(h, B) /\ Tiling(k, B) /\ Sz(h, p) = Sz(k, p)
  BY AlikeHas DEF Held, InUseOf, SameTags, Sound
<1> HIDE DEF B
<1>2. /\ JoinsTo(h, B, p, p + Sz(h, p), 0, Freed(h, p)) /\ Joined(B, p, p + Sz(h, p)) = B
      /\ JoinsTo(k, B, p, p + Sz(h, p), 0, Freed(k, p))
      /\ mm_free(h, p) = coalesce(Freed(h, p), p).heap
      /\ mm_free(k, p) = coalesce(Freed(k, p), p).heap
  BY <1>1, FreedJoins
<1>3. SameTags(Freed(h, p), Freed(k, p), B)
  BY <1>1, <1>2, JoinSame
<1>4. CoalescedBut(Freed(h, p), B, p) /\ Al(Freed(h, p), p) = 0
  BY <1>1, FreedIs
<1> QED
  BY <1>1, <1>2, <1>3, <1>4, CoalesceAlike

-----------------------------------------------------------------------------
(* Writes into one payload.                                                *)

Writes(h, dst, n, g) ==
    /\ g \in Heaps /\ g.brk = h.brk
    /\ \A w \in Int : w \notin dst .. dst + n - 1 => GET(g, w) = GET(h, w)

LEMMA MemcpyIs ==
    ASSUME NEW h \in Heaps, NEW dst \in Nat, NEW src \in Nat, NEW n \in Nat
    PROVE  /\ Writes(h, dst, n, memcpy(h, dst, src, n))
           /\ \A a \in Addresses : a \in dst .. dst + n - 1 =>
                  GET(memcpy(h, dst, src, n), a) = GET(h, src + (a - dst))
<1> DEFINE new(a) == IF a \in dst .. dst + n - 1 THEN GET(h, src + (a - dst)) ELSE h.mem[a]
<1>1. \A a \in Addresses : new(a) \in Nat
  <2>1. \A p : GET(h, p) \in Nat
    BY GetType
  <2>2. \A a \in Addresses : h.mem[a] \in Nat
    BY DEF Heaps
  <2> QED
    BY <2>1, <2>2
<1> DEFINE mem == [a \in Addresses |-> new(a)]
           g == memcpy(h, dst, src, n)
<1>2. mem \in [Addresses -> Nat]
  BY <1>1
<1>3. g = [h EXCEPT !.mem = mem]
  BY DEF memcpy
<1>4. g \in Heaps /\ g.brk = h.brk /\ g.mem = mem
  <2> HIDE DEF mem, g
  <2> QED
    BY <1>2, <1>3 DEF Heaps
<1>5. \A a \in Addresses : GET(g, a) = new(a)
  <2> HIDE DEF g, new
  <2> QED
    BY <1>4 DEF GET
<1>6. \A w : w \notin Addresses => GET(g, w) = GET(h, w)
  BY DEF GET
<1>7. \A a \in Addresses : h.mem[a] = GET(h, a)
  BY DEF GET
<1> HIDE DEF g
<1> QED
  BY <1>4, <1>5, <1>6, <1>7 DEF Writes, g

LEMMA MemsetIs ==
    ASSUME NEW h \in Heaps, NEW dst \in Nat, NEW v \in Nat, NEW n \in Nat
    PROVE  /\ Writes(h, dst, n, memset(h, dst, v, n))
           /\ \A a \in Addresses : a \in dst .. dst + n - 1 => GET(memset(h, dst, v, n), a) = v
<1> DEFINE new(a) == IF a \in dst .. dst + n - 1 THEN v ELSE h.mem[a]
<1>1. \A a \in Addresses : new(a) \in Nat
  BY DEF Heaps
<1> DEFINE mem == [a \in Addresses |-> new(a)]
           g == memset(h, dst, v, n)
<1>2. mem \in [Addresses -> Nat]
  BY <1>1
<1>3. g = [h EXCEPT !.mem = mem]
  BY DEF memset
<1>4. g \in Heaps /\ g.brk = h.brk /\ g.mem = mem
  <2> HIDE DEF mem, g
  <2> QED
    BY <1>2, <1>3 DEF Heaps
<1>5. \A a \in Addresses : GET(g, a) = new(a)
  <2> HIDE DEF g, new
  <2> QED
    BY <1>4 DEF GET
<1>6. \A w : w \notin Addresses => GET(g, w) = GET(h, w)
  BY DEF GET
<1>7. \A a \in Addresses : h.mem[a] = GET(h, a)
  BY DEF GET
<1> HIDE DEF g
<1> QED
  BY <1>4, <1>5, <1>6, <1>7 DEF Writes, g

LEMMA WriteIs ==
    ASSUME NEW h, Sound(h), NEW p \in Held(h), NEW n \in Nat, n <= Sz(h, p) - 8,
           NEW g, Writes(h, p, n, g)
    PROVE  /\ Alike(h, g)
           /\ \A q \in Held(h) \ {p} : Kept(h, g, q)
<1> DEFINE B == BlocksOf(h)
<1>1. Tiling(h, B) /\ Coalesced(h, B) /\ p \in B /\ \A q \in Held(h) : q \in B
  BY DEF Sound, Held, InUseOf
<1>2. \A q \in B : /\ q \in Nat /\ 8 <= q /\ Sz(h, q) \in Nat /\ Sz(h, q) >= 8 /\ q + Sz(h, q) <= h.brk
  BY SoundHas
<1>3. \A q \in B : (p < q => p + Sz(h, p) <= q) /\ (q < p => q + Sz(h, q) <= p)
  BY <1>1, BlocksApart
<1>4. h.brk \in Nat /\ h.brk >= 16
  BY <1>1, EndIs
<1> HIDE DEF B
<1>5. ASSUME NEW q \in B \cup {h.brk}
      PROVE  /\ GET(g, q - 4) = GET(h, q - 4)
             /\ q \in B => GET(g, q + Sz(h, q) - 8) = GET(h, q + Sz(h, q) - 8)
  <2>1. q \in Nat /\ q >= 8 /\ p \in Nat /\ Sz(h, p) \in Nat /\ p + Sz(h, p) <= h.brk
    BY <1>1, <1>2, <1>4
  <2>2. q - 4 \in Int /\ q - 4 \notin p .. p + n - 1
    <3>1. q < p \/ q = p \/ p + Sz(h, p) <= q
      BY <1>2, <1>3, <2>1
    <3> QED
      BY <2>1, <3>1
  <2>3. ASSUME q \in B
        PROVE  q + Sz(h, q) - 8 \in Int /\ q + Sz(h, q) - 8 \notin p .. p + n - 1
    <3>1. Sz(h, q) \in Nat /\ Sz(h, q) >= 8
      BY <1>2, <2>3
    <3>2. (q < p /\ q + Sz(h, q) <= p) \/ q = p \/ p + Sz(h, p) <= q
      BY <1>2, <1>3, <2>1, <2>3
    <3> QED
      BY <2>1, <3>1, <3>2
  <2> QED
    BY <2>2, <2>3 DEF Writes
<1>6. h \in Heaps /\ g \in Heaps /\ g.brk = h.brk
  BY <1>1, EndIs DEF Writes
<1>7. \A q \in B : Sz(g, q) = Sz(h, q) /\ Al(g, q) = Al(h, q)
  BY <1>5, <1>6, SzIs
<1>8. GET(g, 4) = GET(h, 4)
  <2>1. 4 \in Int /\ 4 \notin p .. p + n - 1
    BY <1>1, <1>2
  <2> QED
    BY <2>1 DEF Writes
<1>9. Tiling(g, B)
  <2> QED
    BY <1>1, <1>5, <1>6, <1>7, <1>8 DEF Tiling
<1>10. Alike(h, g)
  <2>1. SameTags(h, g, B)
    BY <1>1, <1>6, <1>7, <1>9 DEF SameTags
  <2> QED
    BY <1>1, <2>1, AlikeIs
<1>11. ASSUME NEW q \in Held(h) \ {p}
       PROVE  Kept(h, g, q)
  <2>1. q \in B /\ q \in Nat /\ p \in Nat /\ Sz(h, q) \in Nat /\ Sz(h, p) \in Nat
    BY <1>1, <1>2
  <2>2. q + Sz(h, q) <= p \/ p + Sz(h, p) <= q
    <3>1. q < p \/ p < q
      BY <1>11, <2>1
    <3> QED
      BY <1>3, <2>1, <3>1
  <2>3. ASSUME NEW w \in Int, q - 4 <= w, w < q + Sz(h, q) - 4
        PROVE  w \notin p .. p + n - 1
    BY <2>1, <2>2, <2>3
  <2> QED
    BY <1>7, <2>1, <2>3 DEF Kept, Writes
<1> QED
  BY <1>10, <1>11

-----------------------------------------------------------------------------
(* mm_realloc, of a block in use.                                          *)

(* The answer ans to a request to give block p size bytes: NULL and the    *)
(* heap as it was, or a new block with the old one's words, which is freed.*)
Moves(h, p, size, ans) ==
    /\ Sound(ans.heap) /\ h.brk <= ans.heap.brk
    /\ ans.ptr \in BlocksOf(ans.heap) /\ ans.ptr \notin Held(h)
    /\ Held(ans.heap) = (Held(h) \ {p}) \cup {ans.ptr}
    /\ \A q \in Held(h) \ {p} : Kept(h, ans.heap, q)
    /\ Sz(ans.heap, ans.ptr) >= size + 8
    /\ \A a \in Addresses :
           a \in ans.ptr .. ans.ptr + min(size, Sz(h, p) - 8) - 1 =>
               GET(ans.heap, a) = GET(h, p + (a - ans.ptr))

Copied(h, p, size) ==
    LET new == mm_malloc(h, size)
    IN  memcpy(new.heap, new.ptr, p, min(size, Sz(new.heap, p) - 8))

LEMMA ReallocCases ==
    ASSUME NEW h, NEW p \in Nat \ {0}, NEW size \in Nat \ {0}
    PROVE  mm_realloc(h, p, size) =
               IF mm_malloc(h, size).ptr = NULL THEN mm_malloc(h, size)
               ELSE [ptr |-> mm_malloc(h, size).ptr, heap |-> mm_free(Copied(h, p, size), p)]
<1>1. p # NULL
  BY DEF NULL
<1>2. CASE mm_malloc(h, size).ptr = NULL
  BY <1>2 DEF mm_realloc
<1>3. CASE mm_malloc(h, size).ptr # NULL
  BY <1>1, <1>3 DEF mm_realloc, Copied, Sz, DSIZE
<1> QED
  BY <1>2, <1>3

LEMMA CopiedIs ==
    ASSUME NEW h, Sound(h), NEW p \in Held(h), NEW size \in Nat,
           Grants(h, size, mm_malloc(h, size))
    PROVE  LET new == mm_malloc(h, size)
               g == Copied(h, p, size)
           IN  /\ Alike(new.heap, g) /\ Sz(new.heap, p) = Sz(h, p)
               /\ \A q \in Held(h) : Kept(h, g, q)
               /\ \A a \in Addresses :
                      a \in new.ptr .. new.ptr + min(size, Sz(h, p) - 8) - 1 =>
                          GET(g, a) = GET(h, p + (a - new.ptr))
<1> DEFINE new == mm_malloc(h, size)
           g == Copied(h, p, size)
           n == min(size, Sz(h, p) - 8)
<1>1. /\ Sound(new.heap) /\ new.ptr \in BlocksOf(new.heap) /\ new.ptr \notin Held(h)
      /\ Held(new.heap) = Held(h) \cup {new.ptr}
      /\ \A q \in Held(h) : Kept(h, new.heap, q)
      /\ Sz(new.heap, new.ptr) >= size + 8
  BY DEF Grants
<1>2. Sz(new.heap, p) = Sz(h, p)
  BY <1>1 DEF Kept
<1>3. p \in Nat /\ Sz(h, p) \in Nat /\ Sz(h, p) >= 8
  BY SoundHas
<1>4. new.heap \in Heaps /\ new.ptr \in Nat /\ Sz(new.heap, new.ptr) \in Nat
  BY <1>1, SoundHas
<1>5. n \in Nat /\ n <= size /\ n <= Sz(h, p) - 8
  BY <1>3 DEF min
<1> HIDE DEF n, new
<1>6. g = memcpy(new.heap, new.ptr, p, n)
  BY <1>2 DEF Copied, n, new
<1> HIDE DEF g
<1>7. /\ Writes(new.heap, new.ptr, n, g)
      /\ \A a \in Addresses : a \in new.ptr .. new.ptr + n - 1 => GET(g, a) = GET(new.heap, p + (a - new.ptr))
  BY <1>3, <1>4, <1>5, <1>6, MemcpyIs
<1>8. n <= Sz(new.heap, new.ptr) - 8
  BY <1>1, <1>4, <1>5
<1>9. /\ Alike(new.heap, g)
      /\ \A q \in Held(new.heap) \ {new.ptr} : Kept(new.heap, g, q)
  BY <1>1, <1>5, <1>7, <1>8, WriteIs
<1>10. \A q \in Held(h) : Kept(h, g, q)
  BY <1>1, <1>9, KeptOn
<1>11. ASSUME NEW a \in Addresses, a \in new.ptr .. new.ptr + n - 1
       PROVE  GET(g, a) = GET(h, p + (a - new.ptr))
  <2> DEFINE w == p + (a - new.ptr)
  <2>1. a \in Int /\ w \in Int /\ p - 4 <= w /\ w < p + Sz(h, p) - 4
    BY <1>3, <1>4, <1>5, <1>11
  <2> HIDE DEF w
  <2>2. GET(new.heap, w) = GET(h, w)
    BY <1>1, <2>1 DEF Kept
  <2> QED
    BY <1>7, <1>11, <2>2 DEF w
<1> QED
  BY <1>2, <1>9, <1>10, <1>11 DEF n, new, g

LEMMA ReallocIs ==
    ASSUME NEW h, Sound(h), NEW p \in Held(h), p # 8, NEW size \in Nat \ {0}
    PROVE  \/ mm_realloc(h, p, size) = [ptr |-> NULL, heap |-> h]
           \/ Moves(h, p, size, mm_realloc(h, p, size))
<1> DEFINE new == mm_malloc(h, size)
           g == Copied(h, p, size)
           f == mm_free(g, p)
           n == min(size, Sz(h, p) - 8)
<1>1. p \in Nat \ {0} /\ Sz(h, p) \in Nat /\ Sz(h, p) >= 8
  BY SoundHas
<1>2. CASE new = [ptr |-> NULL, heap |-> h]
  BY <1>1, <1>2, ReallocCases
<1>3. CASE Grants(h, size, new)
  <2>1. /\ Sound(new.heap) /\ h.brk <= new.heap.brk
        /\ new.ptr \in BlocksOf(new.heap) /\ new.ptr \notin Held(h)
        /\ Held(new.heap) = Held(h) \cup {new.ptr}
        /\ Sz(new.heap, new.ptr) >= size + 8
    BY <1>3 DEF Grants
  <2>2. /\ Alike(new.heap, g)
        /\ \A q \in Held(h) : Kept(h, g, q)
        /\ \A a \in Addresses : a \in new.ptr .. new.ptr + n - 1 => GET(g, a) = GET(h, p + (a - new.ptr))
    BY <1>3, CopiedIs
  <2>3. new.ptr \in Nat /\ new.ptr >= 8 /\ Sz(new.heap, new.ptr) \in Nat
    BY <2>1, SoundHas
  <2>4. new.ptr # NULL
    BY <2>3 DEF NULL
  <2>5. mm_realloc(h, p, size) = [ptr |-> new.ptr, heap |-> f]
    BY <1>1, <2>4, ReallocCases
  <2>6. n \in Nat /\ n <= size
    BY <1>1 DEF min
  <2> HIDE DEF new, g, n
  <2>7. /\ Sound(g) /\ Held(g) = Held(h) \cup {new.ptr} /\ g.brk = new.heap.brk
        /\ BlocksOf(g) = BlocksOf(new.heap) /\ Sz(g, new.ptr) = Sz(new.heap, new.ptr)
    BY <2>1, <2>2, AlikeHas
  <2>8. Releases(g, p, f)
    BY <2>7, FreeIs
  <2> HIDE DEF f
  <2>9. /\ Sound(f) /\ f.brk = g.brk /\ Held(f) = (Held(h) \cup {new.ptr}) \ {p}
        /\ \A q \in Held(g) \ {p} : Kept(g, f, q)
    BY <2>7, <2>8 DEF Releases
  <2>10. new.ptr # p
    BY <2>1
  <2>11. Held(f) = (Held(h) \ {p}) \cup {new.ptr}
    BY <2>9, <2>10
  <2>12. new.ptr \in BlocksOf(f)
    <3>1. Held(f) \subseteq BlocksOf(f)
      BY DEF Held, InUseOf
    <3> QED
      BY <2>11, <3>1
  <2>13. \A q \in Held(h) \ {p} : Kept(h, f, q)
    BY <2>2, <2>7, <2>9, KeptOn
  <2>14. Kept(g, f, new.ptr)
    BY <2>7, <2>9, <2>10
  <2>15. Sz(f, new.ptr) >= size + 8
    BY <2>1, <2>7, <2>14 DEF Kept
  <2>16. ASSUME NEW a \in Addresses, a \in new.ptr .. new.ptr + n - 1
         PROVE  GET(f, a) = GET(h, p + (a - new.ptr))
    <3>1. a \in Int /\ new.ptr - 4 <= a /\ a < new.ptr + Sz(g, new.ptr) - 4
      BY <2>1, <2>3, <2>6, <2>7, <2>16
    <3> QED
      BY <2>2, <2>14, <2>16, <3>1 DEF Kept
  <2>17. Moves(h, p, size, [ptr |-> new.ptr, heap |-> f])
    BY <2>1, <2>7, <2>9, <2>11, <2>12, <2>13, <2>15, <2>16 DEF Moves, n
  <2> QED
    BY <2>5, <2>17
<1> QED
  BY <1>2, <1>3, MallocIs

LEMMA ReallocAlike ==
    ASSUME NEW h, NEW k, Alike(h, k), NEW p \in Held(h), p # 8, NEW size \in Nat \ {0}
    PROVE  /\ mm_realloc(h, p, size).ptr = mm_realloc(k, p, size).ptr
           /\ Alike(mm_realloc(h, p, size).heap, mm_realloc(k, p, size).heap)
<1> DEFINE new == mm_malloc(h, size)
           old == mm_malloc(k, size)
<1>1. /\ Sound(h) /\ Sound(k) /\ p \in Held(k)
  BY AlikeHas
<1>2. p \in Nat \ {0}
  BY <1>1, SoundHas
<1>3. new.ptr = old.ptr /\ Alike(new.heap, old.heap)
  BY MallocAlike
<1>4. CASE new.ptr = NULL
  <2>1. mm_realloc(h, p, size) = new /\ mm_realloc(k, p, size) = old
    BY <1>2, <1>3, <1>4, ReallocCases
  <2> QED
    BY <1>3, <2>1
<1>5. CASE new.ptr # NULL
  <2>1. /\ mm_realloc(h, p, size) = [ptr |-> new.ptr, heap |-> mm_free(Copied(h, p, size), p)]
        /\ mm_realloc(k, p, size) = [ptr |-> new.ptr, heap |-> mm_free(Copied(k, p, size), p)]
    BY <1>2, <1>3, <1>5, ReallocCases
  <2>2. Grants(h, size, new) /\ Grants(k, size, old)
    BY <1>1, <1>3, <1>5, MallocIs
  <2>3. Alike(new.heap, Copied(h, p, size)) /\ Alike(old.heap, Copied(k, p, size))
    BY <1>1, <2>2, CopiedIs
  <2>4. p \in Held(new.heap)
    BY <2>2 DEF Grants
  <2> HIDE DEF new, old
  <2>5. p \in Held(Copied(h, p, size)) /\ Alike(Copied(h, p, size), Copied(k, p, size))
    <3> DEFINE a == new.heap
               b == old.heap
               c == Copied(h, p, size)
               d == Copied(k, p, size)
               B == BlocksOf(a)
    <3>1. Alike(a, b) /\ Alike(a, c) /\ Alike(b, d) /\ p \in Held(a)
      BY <1>3, <2>3, <2>4
    <3> HIDE DEF a, b, c, d, B
    <3>2. /\ Tiling(c, B) /\ Tiling(d, B) /\ Coalesced(c, B) /\ c.brk = d.brk
          /\ \A q \in B : Sz(c, q) = Sz(d, q) /\ Al(c, q) = Al(d, q)
          /\ p \in Held(c)
      BY <3>1, AlikeHas DEF Sound, B
    <3>3. SameTags(c, d, B)
      BY <3>2 DEF SameTags
    <3> QED
      BY <3>2, <3>3, AlikeIs DEF c, d
  <2>6. Alike(mm_free(Copied(h, p, size), p), mm_free(Copied(k, p, size), p))
    BY <2>5, FreeAlike
  <2> QED
    BY <2>1, <2>6
<1> QED
  BY <1>4, <1>5

-----------------------------------------------------------------------------
(* Part 2: the allocator under its driver.                                 *)

(* The blocks b, of the sizes s, are those in use in the heap h.           *)
Using(b) == {i \in Indices : b[i] # NULL}

Owned(h, b, s) ==
    /\ Sound(h)
    /\ b \in [Indices -> Nat]
    /\ Held(h) = {8} \cup {b[i] : i \in Using(b)}
    /\ \A i \in Using(b) : /\ b[i] # 8
                           /\ s[i] \in Nat \ {0} /\ Sz(h, b[i]) >= s[i] + 8
    /\ \A i, j \in Using(b) : b[i] = b[j] => i = j

LEMMA OwnedHas ==
    ASSUME NEW h, NEW b, NEW s, Owned(h, b, s)
    PROVE  /\ h.brk \in Nat /\ h.brk <= MAX_HEAP
           /\ \A i \in Using(b) :
                /\ b[i] \in Held(h) /\ b[i] \in Nat /\ b[i] >= 16 /\ b[i] % 8 = 0
                /\ s[i] \in Nat \ {0} /\ Sz(h, b[i]) \in Nat /\ Sz(h, b[i]) - 8 >= s[i]
                /\ b[i] + s[i] <= h.brk - 8
           /\ \A i, j \in Using(b) : i # j =>
                  b[i] + s[i] + 8 <= b[j] \/ b[j] + s[j] + 8 <= b[i]
<1>1. Sound(h) /\ Held(h) = {p \in BlocksOf(h) : Al(h, p) = 1}
  BY SoundHas DEF Owned
<1>2. /\ h.brk \in Nat /\ h.brk <= MAX_HEAP
      /\ \A p \in BlocksOf(h) : /\ p \in Nat /\ p % 8 = 0 /\ 8 <= p
                                /\ Sz(h, p) \in Nat /\ Sz(h, p) >= 8 /\ Sz(h, p) % 8 = 0
                                /\ p + Sz(h, p) <= h.brk
      /\ \A p, q \in BlocksOf(h) : p < q => p + Sz(h, p) <= q
  BY <1>1, SoundHas
<1>3. ASSUME NEW i \in Using(b)
      PROVE  /\ b[i] \in Held(h) /\ b[i] \in BlocksOf(h) /\ b[i] \in Nat /\ b[i] >= 16 /\ b[i] % 8 = 0
             /\ s[i] \in Nat \ {0} /\ Sz(h, b[i]) \in Nat /\ Sz(h, b[i]) - 8 >= s[i]
             /\ b[i] + s[i] <= h.brk - 8
  <2>1. b[i] \in Held(h) /\ b[i] # 8 /\ s[i] \in Nat \ {0} /\ Sz(h, b[i]) >= s[i] + 8
    BY DEF Owned
  <2>2. b[i] \in BlocksOf(h)
    BY <1>1, <2>1
  <2>3. b[i] \in Nat /\ b[i] % 8 = 0 /\ 8 <= b[i] /\ Sz(h, b[i]) \in Nat /\ b[i] + Sz(h, b[i]) <= h.brk
    BY <1>2, <2>2
  <2> QED
    BY <1>2, <2>1, <2>2, <2>3
<1>4. ASSUME NEW i \in Using(b), NEW j \in Using(b), i # j
      PROVE  b[i] + s[i] + 8 <= b[j] \/ b[j] + s[j] + 8 <= b[i]
  <2>1. b[i] # b[j]
    BY <1>4 DEF Owned
  <2>2. b[i] + Sz(h, b[i]) <= b[j] \/ b[j] + Sz(h, b[j]) <= b[i]
    BY <1>2, <1>3, <2>1
  <2> QED
    BY <1>3, <2>2
<1> QED
  BY <1>2, <1>3, <1>4

LEMMA OwnedInit ==
    ASSUME NEW h \in Heaps, h.brk = 0, NEW s
    PROVE  Owned(mm_init(h), NoBlocks, s)
<1>1. Using(NoBlocks) = {}
  BY DEF Using, NoBlocks
<1>2. NoBlocks \in [Indices -> Nat]
  BY DEF NoBlocks, NULL
<1> QED
  BY <1>1, <1>2, InitIs DEF Owned

LEMMA OwnedAlike ==
    ASSUME NEW h, NEW b, NEW s, Owned(h, b, s), NEW k, Alike(h, k)
    PROVE  Owned(k, b, s)
<1>1. /\ Sound(k) /\ Held(k) = Held(h)
      /\ \A p \in Held(h) : Sz(k, p) = Sz(h, p)
  BY AlikeHas DEF Held, InUseOf
<1>2. \A i \in Using(b) : b[i] \in Held(h)
  BY OwnedHas
<1> QED
  BY <1>1, <1>2 DEF Owned

(* Block i, not in use before, is at p now; j and the others in use are as *)
(* they were.                                                              *)
Gains(h, b, s, i, p, size, g, c, t) ==
    /\ Sound(g) /\ p \in BlocksOf(g)
    /\ c = [b EXCEPT ![i] = p]
    /\ \A j \in Using(b) \ {i} : t[j] = s[j] /\ Kept(h, g, b[j])
    /\ Held(g) = {8, p} \cup {b[j] : j \in Using(b) \ {i}}
    /\ p # 8 /\ \A j \in Using(b) \ {i} : b[j] # p
    /\ t[i] = size /\ Sz(g, p) >= size + 8

LEMMA GainsIs ==
    ASSUME NEW h, NEW b, NEW s, Owned(h, b, s), NEW i \in Indices, NEW p, NEW size \in Nat \ {0},
           NEW g, NEW c, NEW t, Gains(h, b, s, i, p, size, g, c, t)
    PROVE  Owned(g, c, t) /\ Using(c) = Using(b) \cup {i}
<1>1. b \in [Indices -> Nat]
  BY DEF Owned
<1>2. Sound(g) /\ p \in BlocksOf(g) /\ c = [b EXCEPT ![i] = p]
  BY DEF Gains
<1>3. p \in Nat /\ p # NULL
  <2>1. p \in Nat /\ p >= 8
    BY <1>2, SoundHas
  <2> QED
    BY <2>1 DEF NULL
<1>4. c \in [Indices -> Nat] /\ c[i] = p /\ \A j \in Indices \ {i} : c[j] = b[j]
  BY <1>1, <1>2, <1>3
<1>5. Using(c) = Using(b) \cup {i}
  BY <1>3, <1>4 DEF Using
<1>6. \A j \in Using(b) : j \in Indices
  BY DEF Using
<1>7. Held(g) = {8} \cup {c[j] : j \in Using(c)}
  <2>1. {c[j] : j \in Using(c)} = {p} \cup {b[j] : j \in Using(b) \ {i}}
    BY <1>4, <1>5, <1>6
  <2> QED
    BY <2>1 DEF Gains
<1>8. ASSUME NEW j \in Using(c)
      PROVE  c[j] # 8 /\ t[j] \in Nat \ {0} /\ Sz(g, c[j]) >= t[j] + 8
  <2>1. CASE j = i
    BY <1>4, <2>1 DEF Gains
  <2>2. CASE j # i
    <3>1. j \in Using(b) \ {i} /\ c[j] = b[j]
      BY <1>4, <1>5, <1>6, <2>2
    <3>2. Sz(g, b[j]) = Sz(h, b[j]) /\ t[j] = s[j]
      BY <3>1 DEF Gains, Kept
    <3> QED
      BY <3>1, <3>2 DEF Owned
  <2> QED
    BY <2>1, <2>2
<1>9. ASSUME NEW j \in Using(c), NEW k \in Using(c), c[j] = c[k]
      PROVE  j = k
  <2>1. \A m \in Using(b) \ {i} : b[m] # p /\ c[m] = b[m]
    BY <1>4, <1>6 DEF Gains
  <2> QED
    BY <1>4, <1>5, <1>9, <2>1 DEF Owned
<1> QED
  BY <1>2, <1>4, <1>5, <1>7, <1>8, <1>9 DEF Owned

LEMMA AllocGains ==
    ASSUME NEW h, NEW b, NEW s, Owned(h, b, s), NEW i \in Indices, i \notin Using(b),
           NEW size, NEW ans, Grants(h, size, ans),
           NEW t, t[i] = size, \A j \in Using(b) : t[j] = s[j]
    PROVE  Gains(h, b, s, i, ans.ptr, size, ans.heap, [b EXCEPT ![i] = ans.ptr], t)
<1>1. /\ Sound(ans.heap) /\ ans.ptr \in BlocksOf(ans.heap) /\ ans.ptr \notin Held(h)
      /\ Held(ans.heap) = Held(h) \cup {ans.ptr}
      /\ \A q \in Held(h) : Kept(h, ans.heap, q)
      /\ Sz(ans.heap, ans.ptr) >= size + 8
  BY DEF Grants
<1>2. Held(h) = {8} \cup {b[j] : j \in Using(b)}
  BY DEF Owned
<1>3. Using(b) \ {i} = Using(b)
  OBVIOUS
<1> QED
  BY <1>1, <1>2, <1>3 DEF Gains

LEMMA ReallocGains ==
    ASSUME NEW h, NEW b, NEW s, Owned(h, b, s), NEW i \in Using(b),
           NEW size, NEW ans, Moves(h, b[i], size, ans),
           NEW t, t[i] = size, \A j \in Using(b) \ {i} : t[j] = s[j]
    PROVE  Gains(h, b, s, i, ans.ptr, size, ans.heap, [b EXCEPT ![i] = ans.ptr], t)
<1>1. /\ Sound(ans.heap) /\ ans.ptr \in BlocksOf(ans.heap) /\ ans.ptr \notin Held(h)
      /\ Held(ans.heap) = (Held(h) \ {b[i]}) \cup {ans.ptr}
      /\ \A q \in Held(h) \ {b[i]} : Kept(h, ans.heap, q)
      /\ Sz(ans.heap, ans.ptr) >= size + 8
  BY DEF Moves
<1>2. /\ Held(h) = {8} \cup {b[j] : j \in Using(b)} /\ b[i] # 8
      /\ \A j \in Using(b) : b[j] = b[i] => j = i
  BY DEF Owned
<1>3. Held(h) \ {b[i]} = {8} \cup {b[j] : j \in Using(b) \ {i}}
  BY <1>2
<1> QED
  BY <1>1, <1>2, <1>3 DEF Gains

LEMMA FreeLoses ==
    ASSUME NEW h, NEW b, NEW s, Owned(h, b, s), NEW i \in Using(b),
           NEW g, Releases(h, b[i], g),
           NEW t, \A j \in Using(b) \ {i} : t[j] = s[j]
    PROVE  /\ Owned(g, [b EXCEPT ![i] = NULL], t)
           /\ Using([b EXCEPT ![i] = NULL]) = Using(b) \ {i}
           /\ \A j \in Using(b) \ {i} : Kept(h, g, b[j])
<1> DEFINE c == [b EXCEPT ![i] = NULL]
<1>1. /\ Sound(g) /\ Held(g) = Held(h) \ {b[i]}
      /\ \A q \in Held(h) \ {b[i]} : Kept(h, g, q)
  BY DEF Releases
<1>2. /\ Held(h) = {8} \cup {b[j] : j \in Using(b)} /\ b[i] # 8
      /\ \A j, k \in Using(b) : b[j] = b[k] => j = k
      /\ b \in [Indices -> Nat]
      /\ \A j \in Using(b) : b[j] # 8 /\ s[j] \in Nat \ {0} /\ Sz(h, b[j]) >= s[j] + 8
  BY DEF Owned
<1>3. i \in Indices /\ \A j \in Using(b) : j \in Indices
  BY DEF Using
<1>4. c \in [Indices -> Nat] /\ c[i] = NULL /\ \A j \in Indices \ {i} : c[j] = b[j]
  BY <1>2, <1>3 DEF NULL
<1> HIDE DEF c
<1>5. Using(c) = Using(b) \ {i}
  BY <1>3, <1>4 DEF Using
<1>6. \A j \in Using(b) \ {i} : c[j] = b[j] /\ Kept(h, g, b[j]) /\ Sz(g, b[j]) = Sz(h, b[j])
  BY <1>1, <1>2, <1>3, <1>4 DEF Kept
<1>7. Held(g) = {8} \cup {c[j] : j \in Using(c)}
  <2>1. {c[j] : j \in Using(c)} = {b[j] : j \in Using(b) \ {i}}
    BY <1>5, <1>6
  <2>2. Held(h) \ {b[i]} = {8} \cup {b[j] : j \in Using(b) \ {i}}
    BY <1>2
  <2> QED
    BY <1>1, <2>1, <2>2
<1>8. Owned(g, c, t)
  BY <1>1, <1>2, <1>4, <1>5, <1>6, <1>7 DEF Owned
<1> QED
  BY <1>5, <1>6, <1>8 DEF c

-----------------------------------------------------------------------------
(* The driver's list of ranges.                                            *)

Elems(list) == {list[k] : k \in DOMAIN list}
Ranges == [lo : Nat, hi : Int]
Distinct(list) == \A j, k \in DOMAIN list : list[j].lo = list[k].lo => j = k

LEMMA AddedIs ==
    ASSUME NEW list \in Seq(Ranges), Distinct(list), NEW r \in Ranges,
           \A x \in Elems(list) : x.lo # r.lo
    PROVE  /\ Added(list, r) \in Seq(Ranges) /\ Distinct(Added(list, r))
           /\ Elems(Added(list, r)) = Elems(list) \cup {r}
<1> DEFINE new == <<r>> \o list
           n == Len(list)
<1>1. /\ new \in Seq(Ranges) /\ Len(new) = n + 1 /\ n \in Nat
      /\ DOMAIN new = 1 .. n + 1 /\ DOMAIN list = 1 .. n
      /\ new[1] = r /\ \A k \in 2 .. n + 1 : new[k] = list[k - 1]
  OBVIOUS
<1> HIDE DEF new, n
<1>2. \A k \in 1 .. n : k + 1 \in 2 .. n + 1 /\ new[k + 1] = list[k]
  BY <1>1
<1>3. Elems(new) = Elems(list) \cup {r}
  <2>1. Elems(new) \subseteq Elems(list) \cup {r}
    <3>1. ASSUME NEW k \in 1 .. n + 1 PROVE new[k] \in Elems(list) \cup {r}
      <4>1. CASE k = 1
        BY <1>1, <4>1
      <4>2. CASE k # 1
        <5>1. k \in 2 .. n + 1 /\ k - 1 \in 1 .. n
          BY <1>1, <4>2
        <5> QED
          BY <1>1, <5>1 DEF Elems
      <4> QED
        BY <4>1, <4>2
    <3> QED
      BY <1>1, <3>1 DEF Elems
  <2>2. r \in Elems(new)
    <3>1. 1 \in DOMAIN new
      BY <1>1
    <3> QED
      BY <1>1, <3>1 DEF Elems
  <2>3. Elems(list) \subseteq Elems(new)
    <3>1. ASSUME NEW k \in 1 .. n PROVE list[k] \in Elems(new)
      <4>1. k + 1 \in DOMAIN new /\ new[k + 1] = list[k]
        BY <1>1, <1>2
      <4> QED
        BY <4>1 DEF Elems
    <3> QED
      BY <1>1, <3>1 DEF Elems
  <2> QED
    BY <2>1, <2>2, <2>3
<1>4. ASSUME NEW j \in DOMAIN new, NEW k \in DOMAIN new, new[j].lo = new[k].lo
      PROVE  j = k
  <2>1. \A m \in DOMAIN new : m # 1 => m - 1 \in DOMAIN list /\ new[m] = list[m - 1] /\ m \in Nat
    BY <1>1
  <2>2. \A m \in DOMAIN list : list[m].lo # r.lo
    BY DEF Elems
  <2>3. j # 1 /\ k # 1 => j - 1 = k - 1
    BY <1>4, <2>1 DEF Distinct
  <2> QED
    BY <1>1, <1>4, <2>1, <2>2, <2>3
<1> QED
  BY <1>1, <1>3, <1>4 DEF Added, Distinct, new

LEMMA RemovedIs ==
    ASSUME NEW list \in Seq(Ranges), Distinct(list), NEW lo
    PROVE  /\ Removed(list, lo) \in Seq(Ranges) /\ Distinct(Removed(list, lo))
           /\ Elems(Removed(list, lo)) = {x \in Elems(list) : x.lo # lo}
<1> DEFINE spots == {k \in DOMAIN list : list[k].lo = lo}
           n == Len(list)
<1>1. n \in Nat /\ DOMAIN list = 1 .. n
  OBVIOUS
<1>2. CASE spots = {}
  <2>1. Removed(list, lo) = list
    BY <1>2 DEF Removed
  <2>2. \A x \in Elems(list) : x.lo # lo
    BY <1>2 DEF Elems
  <2> QED
    BY <2>1, <2>2
<1>3. CASE spots # {}
  <2> DEFINE m == CHOOSE k \in spots : \A j \in spots : k <= j
             new == SubSeq(list, 1, m - 1) \o SubSeq(list, m + 1, n)
  <2>1. m \in spots
    <3>1. spots \in SUBSET Nat
      BY <1>1
    <3>2. \E k \in spots : \A j \in spots : k <= j
      BY <1>3, <3>1, SmallestMember
    <3> HIDE DEF spots
    <3> QED
      BY <3>2
  <2>2. Removed(list, lo) = new
    BY <1>3 DEF Removed, RemoveAt
  <2> HIDE DEF m
  <2>3. m \in 1 .. n /\ list[m].lo = lo
    BY <1>1, <2>1
  <2> DEFINE from(k) == IF k < m THEN k ELSE k + 1
  <2>4. /\ new \in Seq(Ranges) /\ Len(new) = n - 1 /\ DOMAIN new = 1 .. n - 1
        /\ \A k \in 1 .. n - 1 : new[k] = list[from(k)]
    <3> DEFINE s == SubSeq(list, 1, m - 1)
               t == SubSeq(list, m + 1, n)
    <3>1. s \in Seq(Ranges) /\ Len(s) = m - 1 /\ \A k \in 1 .. m - 1 : s[k] = list[k]
      BY <1>1, <2>3
    <3>2. t \in Seq(Ranges) /\ Len(t) = n - m /\ \A k \in 1 .. n - m : t[k] = list[m + k]
      <4>1. m + 1 \in 1 .. n + 1 /\ m \in Nat /\ n \in Nat
        BY <1>1, <2>3
      <4>2. t \in Seq(Ranges)
        BY <4>1
      <4>3. Len(t) = n - m
        <5>1. \A k \in m + 1 .. n : list[k] \in Ranges
          BY <1>1, <4>1
        <5>2. Len(t) = IF m + 1 <= n THEN n - (m + 1) + 1 ELSE 0
          BY <4>1, <5>1, SubSeqProperties
        <5> QED
          BY <2>3, <4>1, <5>2
      <4>4. ASSUME NEW k \in 1 .. n - m PROVE t[k] = list[m + k]
        <5>1. (m + 1) + k - 1 = m + k /\ k \in 1 .. Len(t)
          BY <4>1, <4>3
        <5> QED
          BY <1>1, <4>1, <2>3, <5>1
      <4> QED
        BY <4>2, <4>3, <4>4
    <3> HIDE DEF s, t, n
    <3>3. new = s \o t
      BY DEF s, t, n
    <3>4. m \in Nat /\ n \in Nat /\ m >= 1 /\ m <= n
      BY <1>1, <2>3
    <3> HIDE DEF new
    <3>5. new \in Seq(Ranges) /\ Len(new) = n - 1 /\ DOMAIN new = 1 .. n - 1
      <4>1. new \in Seq(Ranges) /\ Len(new) = (m - 1) + (n - m)
        <5>1. s \in Seq(Ranges) /\ t \in Seq(Ranges)
          BY <3>1, <3>2
        <5>2. s \o t \in Seq(Ranges) /\ Len(s \o t) = Len(s) + Len(t)
          BY <5>1, ConcatProperties, Zenon
        <5>3. Len(s) = m - 1 /\ Len(t) = n - m
          BY <3>1, <3>2
        <5> QED
          BY <3>3, <5>2, <5>3, Zenon
      <4>2. (m - 1) + (n - m) = n - 1
        BY <3>4
      <4> QED
        BY <4>1, <4>2
    <3>6. ASSUME NEW k \in 1 .. n - 1
          PROVE  new[k] = list[from(k)]
      <4>1. CASE k < m
        <5>1. k \in 1 .. m - 1
          BY <3>4, <4>1
        <5>2. new[k] = s[k]
          BY <3>1, <3>2, <3>3, <3>4, <5>1
        <5> QED
          BY <3>1, <4>1, <5>1, <5>2
      <4>2. CASE ~ (k < m)
        <5>1. k - (m - 1) \in 1 .. n - m /\ m + (k - (m - 1)) = k + 1
          BY <3>4, <4>2
        <5>2. new[k] = t[k - (m - 1)]
          BY <3>1, <3>2, <3>3, <3>4, <4>2, <5>1
        <5> QED
          BY <3>2, <4>2, <5>1, <5>2
      <4> QED
        BY <4>1, <4>2
    <3> QED
      BY <3>5, <3>6
  <2> HIDE DEF new, n
  <2>5. /\ \A k \in 1 .. n - 1 : from(k) \in 1 .. n /\ from(k) # m
        /\ \A k \in 1 .. n : k # m => \E j \in 1 .. n - 1 : from(j) = k
        /\ \A j, k \in 1 .. n - 1 : from(j) = from(k) => j = k
    <3>1. \A k \in 1 .. n - 1 : from(k) \in 1 .. n /\ from(k) # m
      BY <1>1, <2>3
    <3>2. ASSUME NEW k \in 1 .. n, k # m
          PROVE  \E j \in 1 .. n - 1 : from(j) = k
      <4>1. CASE k < m
        <5>1. k \in 1 .. n - 1 /\ from(k) = k
          BY <1>1, <2>3, <4>1
        <5> QED
          BY <5>1
      <4>2. CASE k > m
        <5>1. k - 1 \in 1 .. n - 1 /\ from(k - 1) = k
          BY <1>1, <2>3, <4>2
        <5> QED
          BY <5>1
      <4> QED
        BY <1>1, <2>3, <3>2, <4>1, <4>2
    <3>3. \A j, k \in 1 .. n - 1 : from(j) = from(k) => j = k
      BY <1>1, <2>3
    <3> QED
      BY <3>1, <3>2, <3>3
  <2> HIDE DEF from
  <2>6. \A k \in 1 .. n : list[k].lo = lo <=> k = m
    BY <1>1, <2>3 DEF Distinct
  <2>7. Distinct(new)
    BY <1>1, <2>4, <2>5 DEF Distinct
  <2>8. Elems(new) = {x \in Elems(list) : x.lo # lo}
    <3>1. \A k \in 1 .. n - 1 : new[k] \in {x \in Elems(list) : x.lo # lo}
      BY <1>1, <2>4, <2>5, <2>6 DEF Elems
    <3>2. ASSUME NEW k \in 1 .. n, list[k].lo # lo PROVE list[k] \in Elems(new)
      <4>1. PICK j \in 1 .. n - 1 : from(j) = k
        BY <2>5, <2>6, <3>2
      <4> QED
        BY <2>4, <4>1 DEF Elems
    <3> QED
      BY <1>1, <2>4, <3>1, <3>2 DEF Elems
  <2> QED
    BY <2>2, <2>4, <2>7, <2>8
<1> QED
  BY <1>2, <1>3

-----------------------------------------------------------------------------
(* The invariant.  First, what holds while a trace is validated: the list  *)
(* of ranges has the extents of the blocks in use, and each of these is    *)
Requested == [i \in Indices |-> RequestedSize(i)]

(* The list has the extents of the blocks J.                               *)
Extents(list, b, s, J) ==
    /\ list \in Seq(Ranges) /\ Distinct(list)
    /\ Elems(list) = {NewRange(b[j], s[j]) : j \in J}

Listed == Extents(ranges, blocks, block_sizes, InUse)

Words(p, n) == {a \in Addresses : a \in p .. p + n - 1}

(* Every word of the n bytes at p holds v.                                 *)
Full(h, p, n, v) == \A a \in Words(p, n) : GET(h, a) = v

(* Every block is full of its index, but for the one about to be filled, of *)
(* which only what mm_realloc carried over is.                              *)
Filled ==
    \A i \in InUse :
        Full(heap, blocks[i], IF i = filling.index THEN filling.check ELSE block_sizes[i], Pattern(i))

(* The run of a trace on fresh memory: L[n] is the heap and the blocks     *)
(* after n requests.                                                       *)
Ops == [type : {"ALLOC", "REALLOC", "FREE"}, index : Indices, size : Nat]
Replies == [ptr : Nat, brk : Nat]

AnswerOn(x, o) ==
    CASE o.type = "ALLOC"   -> mm_malloc(x.heap, o.size)
      [] o.type = "REALLOC" -> mm_realloc(x.heap, x.blocks[o.index], o.size)
      [] o.type = "FREE"    -> [ptr |-> NULL, heap |-> mm_free(x.heap, x.blocks[o.index])]

After(x, o) ==
    [heap   |-> AnswerOn(x, o).heap,
     blocks |-> [x.blocks EXCEPT ![o.index] = AnswerOn(x, o).ptr]]

Legal(x, o) ==
    /\ o \in Ops
    /\ o.type = "ALLOC" => o.index \notin Using(x.blocks)
    /\ o.type # "ALLOC" => o.index \in Using(x.blocks)
    /\ o.type # "FREE" => o.size # 0

Follows(x, o, y, a) ==
    /\ Legal(x, o)
    /\ y = After(x, o)
    /\ o.type # "FREE" => AnswerOn(x, o).ptr # NULL
    /\ a = [ptr |-> AnswerOn(x, o).ptr, brk |-> y.heap.brk]

IsRun(L, os, as) ==
    /\ os \in Seq(Ops)
    /\ as \in Seq(Replies) /\ Len(as) = Len(os)
    /\ L[0] = [heap |-> mm_init(FreshMemory), blocks |-> NoBlocks]
    /\ \A n \in 1 .. Len(os) : Follows(L[n - 1], os[n], L[n], as[n])

(* The present run has come to L[Pos], up to what the payloads hold.       *)
Pos == IF phase = "valid" THEN Len(ops) ELSE at - 1

RunOf(L) ==
    /\ IsRun(L, ops, answers)
    /\ Pos \in 0 .. Len(ops)
    /\ blocks = L[Pos].blocks /\ Alike(heap, L[Pos].heap)

(* eval_mm_util counts the bytes in use.                                   *)
BytesOf(b, s, J) == UNION {b[i] .. b[i] + s[i] - 1 : i \in J}
Bytes(b, s) == BytesOf(b, s, Using(b))

Totals ==
    /\ phase = "util" => total.now = Cardinality(Bytes(blocks, block_sizes))
    /\ phase # "valid" => total.max \in Nat /\ total.max <= heap.brk

FillingIs ==
    filling # Nobody =>
        /\ filling \in [index : Indices, check : Nat]
        /\ filling.index \in InUse /\ filling.check <= block_sizes[filling.index]
        /\ phase = "valid" /\ verdict \in {"valid", "data not preserved"}

DriverInv ==
    /\ block_sizes \in [Indices -> Nat] /\ at \in Nat \ {0}
    /\ phase \in {"valid", "util", "speed"}
    /\ verdict \in {"valid", "mm_malloc failed", "mm_realloc failed", "data not preserved"}
    /\ verdict = "data not preserved" => filling # Nobody /\ LowByte(filling.index) >= 128
    /\ Owned(heap, blocks, Requested)
    /\ phase = "valid" => Listed /\ Filled
    /\ phase # "valid" => verdict = "valid" /\ ops # TooLong
    /\ FillingIs
    /\ verdict = "valid" => ops = TooLong \/ \E L : RunOf(L)
    /\ Totals

-----------------------------------------------------------------------------
(* One request, on any heap and blocks.                                    *)

LEMMA HeldBlock ==
    ASSUME NEW h, NEW b, NEW s, Owned(h, b, s), NEW i \in Using(b)
    PROVE  b[i] \in Held(h) /\ b[i] # 8 /\ b[i] \in Nat
BY OwnedHas DEF Owned

LEMMA AnswerIs ==
    ASSUME NEW x, NEW s, Owned(x.heap, x.blocks, s), NEW o, Legal(x, o)
    PROVE  LET a == AnswerOn(x, o)
           IN  /\ o.type = "ALLOC" => \/ a = [ptr |-> NULL, heap |-> x.heap]
                                      \/ Grants(x.heap, o.size, a) /\ a.ptr # NULL
               /\ o.type = "REALLOC" => \/ a = [ptr |-> NULL, heap |-> x.heap]
                                        \/ Moves(x.heap, x.blocks[o.index], o.size, a) /\ a.ptr # NULL
               /\ o.type = "FREE" => a.ptr = NULL /\ Releases(x.heap, x.blocks[o.index], a.heap)
<1> DEFINE h == x.heap
           b == x.blocks
           i == o.index
           a == AnswerOn(x, o)
<1>1. Sound(h) /\ o \in Ops
  BY DEF Owned, Legal
<1>2. o.size \in Nat /\ o.type \in {"ALLOC", "REALLOC", "FREE"} /\ i \in Indices
  BY <1>1 DEF Ops
<1>3. ASSUME o.type = "ALLOC"
      PROVE  a = [ptr |-> NULL, heap |-> h] \/ (Grants(h, o.size, a) /\ a.ptr # NULL)
  <2>1. a = mm_malloc(h, o.size)
    BY <1>3 DEF AnswerOn
  <2>2. ASSUME Grants(h, o.size, a) PROVE a.ptr # NULL
    <3>1. a.ptr \in Nat /\ a.ptr >= 8
      BY <2>2, SoundHas DEF Grants
    <3> QED
      BY <3>1 DEF NULL
  <2> QED
    BY <1>1, <1>2, <2>1, <2>2, MallocIs
<1>4. ASSUME o.type = "REALLOC"
      PROVE  a = [ptr |-> NULL, heap |-> h] \/ (Moves(h, b[i], o.size, a) /\ a.ptr # NULL)
  <2>1. a = mm_realloc(h, b[i], o.size)
    BY <1>4 DEF AnswerOn
  <2>2. ASSUME Moves(h, b[i], o.size, a) PROVE a.ptr # NULL
    <3>1. a.ptr \in Nat /\ a.ptr >= 8
      BY <2>2, SoundHas DEF Moves
    <3> QED
      BY <3>1 DEF NULL
  <2>3. i \in Using(b) /\ o.size # 0
    BY <1>4 DEF Legal
  <2>4. b[i] \in Held(h) /\ b[i] # 8
    BY <2>3, HeldBlock
  <2>5. o.size \in Nat \ {0}
    BY <1>2, <2>3
  <2> HIDE DEF a, b, h, i
  <2> QED
    BY <1>1, <2>1, <2>2, <2>4, <2>5, ReallocIs
<1>5. ASSUME o.type = "FREE"
      PROVE  a.ptr = NULL /\ Releases(h, b[i], a.heap)
  <2>1. a = [ptr |-> NULL, heap |-> mm_free(h, b[i])]
    BY <1>5 DEF AnswerOn
  <2>2. i \in Using(b)
    BY <1>5 DEF Legal
  <2>3. b[i] \in Held(h) /\ b[i] # 8
    BY <2>2, HeldBlock
  <2> QED
    BY <1>1, <2>1, <2>3, FreeIs
<1> QED
  BY <1>3, <1>4, <1>5

(* The request o succeeds; s and t are the sizes before and after.         *)
Succeeds(x, s, o, t) ==
    /\ Owned(x.heap, x.blocks, s) /\ Legal(x, o)
    /\ o.type # "FREE" => AnswerOn(x, o).ptr # NULL /\ t[o.index] = o.size
    /\ \A j \in Using(x.blocks) \ {o.index} : t[j] = s[j]

(* Before x, after y.                                                      *)
Obeys(x, o, y, t) ==
    /\ Owned(y.heap, y.blocks, t)
    /\ Using(y.blocks) =
           IF o.type = "FREE" THEN Using(x.blocks) \ {o.index} ELSE Using(x.blocks) \cup {o.index}
    /\ x.heap.brk <= y.heap.brk
    /\ \A j \in Using(x.blocks) \ {o.index} : /\ y.blocks[j] = x.blocks[j]
                                              /\ Kept(x.heap, y.heap, x.blocks[j])

LEMMA AnswerOwned ==
    ASSUME NEW x, NEW s, NEW o, NEW t, Succeeds(x, s, o, t)
    PROVE  Obeys(x, o, After(x, o), t)
<1>0. /\ Owned(x.heap, x.blocks, s) /\ Legal(x, o)
      /\ o.type # "FREE" => AnswerOn(x, o).ptr # NULL /\ t[o.index] = o.size
      /\ \A j \in Using(x.blocks) \ {o.index} : t[j] = s[j]
  BY DEF Succeeds
<1> USE <1>0
<1> DEFINE h == x.heap
           b == x.blocks
           i == o.index
           a == AnswerOn(x, o)
           c == [b EXCEPT ![i] = a.ptr]
<1>1. i \in Indices /\ o.size \in Nat /\ o.type \in {"ALLOC", "REALLOC", "FREE"}
  BY DEF Legal, Ops
<1>2. b \in [Indices -> Nat] /\ \A j \in Using(b) : j \in Indices
  BY DEF Owned, Using
<1>3. After(x, o).heap = a.heap /\ After(x, o).blocks = c
  BY DEF After
<1>4. \A j \in Using(b) \ {i} : c[j] = b[j]
  BY <1>2
<1>8. /\ o.type = "ALLOC" => a = [ptr |-> NULL, heap |-> h] \/ (Grants(h, o.size, a) /\ a.ptr # NULL)
      /\ o.type = "REALLOC" => a = [ptr |-> NULL, heap |-> h] \/ (Moves(h, b[i], o.size, a) /\ a.ptr # NULL)
      /\ o.type = "FREE" => a.ptr = NULL /\ Releases(h, b[i], a.heap)
  BY AnswerIs
<1>9. o.type # "FREE" => a.ptr # NULL
  OBVIOUS
<1> HIDE DEF a, c
<1>10. a = [ptr |-> NULL, heap |-> h] => a.ptr = NULL
  OBVIOUS
<1>5. CASE o.type = "ALLOC"
  <2>1. Grants(h, o.size, a) /\ i \notin Using(b) /\ o.size \in Nat \ {0}
    BY <1>1, <1>5, <1>8, <1>9, <1>10 DEF Legal
  <2>2. Gains(h, b, s, i, a.ptr, o.size, a.heap, c, t)
    BY <1>1, <1>5, <2>1, AllocGains DEF c
  <2>3. Owned(a.heap, c, t) /\ Using(c) = Using(b) \cup {i}
    BY <1>1, <2>1, <2>2, GainsIs
  <2> QED
    BY <1>3, <1>4, <1>5, <2>1, <2>2, <2>3 DEF Gains, Grants, Obeys
<1>6. CASE o.type = "REALLOC"
  <2>1. Moves(h, b[i], o.size, a) /\ i \in Using(b) /\ o.size \in Nat \ {0}
    BY <1>1, <1>6, <1>8, <1>9, <1>10 DEF Legal
  <2>2. Gains(h, b, s, i, a.ptr, o.size, a.heap, c, t)
    BY <1>1, <1>6, <2>1, ReallocGains DEF c
  <2> HIDE DEF h, b, i
  <2>4. Owned(h, b, s)
    BY DEF h, b
  <2>5. i \in Indices /\ o.size \in Nat \ {0}
    BY <1>1, <2>1
  <2>3. Owned(a.heap, c, t) /\ Using(c) = Using(b) \cup {i}
    BY <2>2, <2>4, <2>5, GainsIs
  <2> USE DEF h, b, i
  <2> QED
    BY <1>3, <1>4, <1>6, <2>1, <2>2, <2>3 DEF Gains, Moves, Obeys
<1>7. CASE o.type = "FREE"
  <2>1. Releases(h, b[i], a.heap) /\ i \in Using(b) /\ a.ptr = NULL
    BY <1>1, <1>7, <1>8 DEF Legal
  <2>2. c = [b EXCEPT ![i] = NULL]
    BY <2>1 DEF c
  <2>3. /\ Owned(a.heap, c, t) /\ Using(c) = Using(b) \ {i}
        /\ \A j \in Using(b) \ {i} : Kept(h, a.heap, b[j])
    BY <2>1, <2>2, FreeLoses
  <2>4. a.heap.brk = h.brk /\ h.brk \in Nat
    BY <2>1, OwnedHas DEF Releases
  <2> QED
    BY <1>3, <1>4, <1>7, <2>3, <2>4 DEF Obeys
<1> QED
  BY <1>1, <1>5, <1>6, <1>7

LEMMA AnswerAlike ==
    ASSUME NEW x, NEW s, Owned(x.heap, x.blocks, s), NEW o, Legal(x, o),
           NEW y, y.blocks = x.blocks, Alike(x.heap, y.heap)
    PROVE  /\ AnswerOn(x, o).ptr = AnswerOn(y, o).ptr
           /\ Alike(After(x, o).heap, After(y, o).heap)
           /\ After(x, o).blocks = After(y, o).blocks
           /\ Legal(y, o)
<1>1. o.size \in Nat /\ o.type \in {"ALLOC", "REALLOC", "FREE"}
  BY DEF Legal, Ops
<1>2. o.type # "ALLOC" => x.blocks[o.index] \in Held(x.heap) /\ x.blocks[o.index] # 8
  BY HeldBlock DEF Legal
<1>3. o.type # "FREE" => o.size \in Nat \ {0}
  BY <1>1 DEF Legal
<1>4. AnswerOn(x, o).ptr = AnswerOn(y, o).ptr /\ Alike(AnswerOn(x, o).heap, AnswerOn(y, o).heap)
  <2>1. CASE o.type = "ALLOC"
    BY <1>1, <2>1, MallocAlike DEF AnswerOn
  <2>2. CASE o.type = "REALLOC"
    BY <1>2, <1>3, <2>2, ReallocAlike DEF AnswerOn
  <2>3. CASE o.type = "FREE"
    BY <1>2, <2>3, FreeAlike DEF AnswerOn
  <2> QED
    BY <1>1, <2>1, <2>2, <2>3
<1> QED
  BY <1>4 DEF After, Legal

LEMMA AlikeBoth ==
    ASSUME NEW h, NEW k, Alike(h, k)
    PROVE  Alike(k, h) /\ \A g : Alike(k, g) => Alike(h, g)
<1>1. /\ Sound(h) /\ Sound(k) /\ BlocksOf(k) = BlocksOf(h) /\ h.brk = k.brk
      /\ \A p \in BlocksOf(h) : Sz(h, p) = Sz(k, p) /\ Al(h, p) = Al(k, p)
  BY AlikeHas
<1>2. Alike(k, h)
  BY <1>1 DEF Alike, SameTags, Sound
<1>3. ASSUME NEW g, Alike(k, g)
      PROVE  Alike(h, g)
  <2>1. /\ Sound(g) /\ BlocksOf(g) = BlocksOf(k) /\ k.brk = g.brk
        /\ \A p \in BlocksOf(k) : Sz(k, p) = Sz(g, p) /\ Al(k, p) = Al(g, p)
    BY <1>3, AlikeHas
  <2> QED
    BY <1>1, <2>1 DEF Alike, SameTags, Sound
<1> QED
  BY <1>2, <1>3

(* What the driver makes of an answer.                                     *)
LEMMA RangeLeft ==
    ASSUME NEW h, NEW b, NEW s, Owned(h, b, s), NEW i \in Using(b),
           NEW list, Extents(list, b, s, Using(b))
    PROVE  Extents(Removed(list, b[i]), b, s, Using(b) \ {i})
<1>0. /\ list \in Seq(Ranges) /\ Distinct(list)
      /\ Elems(list) = {NewRange(b[j], s[j]) : j \in Using(b)}
  BY DEF Extents
<1>1. \A j \in Using(b) : b[j] = b[i] => j = i
  BY DEF Owned
<1>2. \A j \in Using(b) : NewRange(b[j], s[j]).lo = b[j]
  BY DEF NewRange
<1>3. {x \in Elems(list) : x.lo # b[i]} = {NewRange(b[j], s[j]) : j \in Using(b) \ {i}}
  BY <1>0, <1>1, <1>2
<1> QED
  BY <1>0, <1>3, RemovedIs DEF Extents

LEMMA Aligned == ASSUME NEW p \in Nat, p % 8 = 0 PROVE p % ALIGNMENT = 0
<1> DEFINE q == p \div 8
<1>1. q \in Nat /\ p = 8 * q
  OBVIOUS
<1>2. ALIGNMENT \in Nat \ {0} /\ 8 % ALIGNMENT = 0
  BY AlignmentAssumption DEF DSIZE
<1>3. ALIGNMENT \in {1, 2, 4, 8}
  <2>1. ALIGNMENT <= 8
    <3>1. CASE ALIGNMENT > 8
      BY <1>2, <3>1
    <3> QED
      BY <1>2, <3>1
  <2>2. ALIGNMENT \in 1 .. 8
    BY <1>2, <2>1
  <2> QED
    BY <1>2, <2>2
<1> HIDE DEF q
<1> QED
  BY <1>1, <1>3

LEMMA RangeJudged ==
    ASSUME NEW h, NEW b, NEW s, Owned(h, b, s), NEW i \in Using(b),
           NEW list, Extents(list, b, s, Using(b) \ {i})
    PROVE  /\ Accepts(list, NewRange(b[i], s[i]), mem_heap_hi(h))
           /\ Extents(Added(list, NewRange(b[i], s[i])), b, s, Using(b))
<1> DEFINE r == NewRange(b[i], s[i])
<1>0. /\ list \in Seq(Ranges) /\ Distinct(list)
      /\ Elems(list) = {NewRange(b[j], s[j]) : j \in Using(b) \ {i}}
  BY DEF Extents
<1>1. /\ h.brk \in Nat
      /\ \A j \in Using(b) : /\ b[j] \in Nat /\ b[j] >= 16 /\ b[j] % 8 = 0
                             /\ s[j] \in Nat \ {0} /\ b[j] + s[j] <= h.brk - 8
      /\ \A j \in Using(b) : j # i =>
             b[i] + s[i] + 8 <= b[j] \/ b[j] + s[j] + 8 <= b[i]
  BY OwnedHas
<1>2. \A j \in Using(b) : /\ NewRange(b[j], s[j]) \in Ranges
                          /\ NewRange(b[j], s[j]).lo = b[j]
                          /\ NewRange(b[j], s[j]).hi = b[j] + s[j] - 1
  BY <1>1 DEF NewRange, Ranges
<1>3. r \in Ranges /\ r.lo = b[i] /\ r.hi = b[i] + s[i] - 1
  BY <1>2
<1> HIDE DEF r
<1>4. r.lo % ALIGNMENT = 0
  BY <1>1, <1>3, Aligned
<1>5. InHeap(r, mem_heap_hi(h))
  BY <1>1, <1>3 DEF InHeap, mem_heap_hi
<1>6. \A k \in DOMAIN list : \E j \in Using(b) \ {i} : list[k] = NewRange(b[j], s[j])
  BY <1>0 DEF Elems
<1>7. \A k \in DOMAIN list : ~ Collides(r, list[k])
  <2>1. ASSUME NEW j \in Using(b), j # i
        PROVE  ~ Collides(r, NewRange(b[j], s[j]))
    <3> DEFINE y == NewRange(b[j], s[j])
    <3>1. /\ r.lo = b[i] /\ r.hi = b[i] + s[i] - 1 /\ y.lo = b[j] /\ y.hi = b[j] + s[j] - 1
      BY <1>2, <1>3
    <3>2. /\ b[i] \in Nat /\ b[j] \in Nat /\ s[i] \in Nat \ {0} /\ s[j] \in Nat \ {0}
          /\ b[i] + s[i] + 8 <= b[j] \/ b[j] + s[j] + 8 <= b[i]
      BY <1>1, <2>1
    <3> HIDE DEF y
    <3>3. ~ Collides(r, y)
      BY <3>1, <3>2 DEF Collides
    <3> QED
      BY <3>3 DEF y
  <2> QED
    BY <1>6, <2>1
<1>8. \A x \in Elems(list) : x.lo # r.lo
  <2>1. \A j \in Using(b) \ {i} : b[j] # b[i]
    BY <1>1
  <2> QED
    BY <1>0, <1>2, <1>3, <2>1
<1>9. Elems(list) \cup {r} = {NewRange(b[j], s[j]) : j \in Using(b)}
  BY <1>0 DEF r
<1>10. Accepts(list, r, mem_heap_hi(h))
  BY <1>4, <1>5, <1>7 DEF Accepts
<1>11. /\ Added(list, r) \in Seq(Ranges) /\ Distinct(Added(list, r))
       /\ Elems(Added(list, r)) = {NewRange(b[j], s[j]) : j \in Using(b)}
  BY <1>0, <1>3, <1>8, <1>9, AddedIs
<1> QED
  BY <1>10, <1>11 DEF r, Extents

LEMMA WordsKept ==
    ASSUME NEW h, NEW b, NEW s, Owned(h, b, s), NEW j \in Using(b), NEW g, Kept(h, g, b[j]),
           NEW v, Full(h, b[j], s[j], v)
    PROVE  Full(g, b[j], s[j], v)
<1> DEFINE n == s[j]
<1>1. b[j] \in Nat /\ s[j] \in Nat /\ Sz(h, b[j]) \in Nat /\ Sz(h, b[j]) - 8 >= s[j]
  BY OwnedHas
<1>2. ASSUME NEW a \in Words(b[j], n) PROVE GET(g, a) = GET(h, a)
  <2>1. a \in Int /\ b[j] <= a /\ a <= b[j] + n - 1
    BY <1>1 DEF Words
  <2>2. b[j] - 4 <= a /\ a < b[j] + Sz(h, b[j]) - 4
    BY <1>1, <2>1
  <2> QED
    BY <2>1, <2>2 DEF Kept
<1> QED
  BY <1>2 DEF Full

LEMMA WordsMoved ==
    ASSUME NEW h, NEW b, NEW s, Owned(h, b, s), NEW i \in Using(b),
           NEW size \in Nat \ {0}, NEW ans, Moves(h, b[i], size, ans),
           NEW v, Full(h, b[i], s[i], v)
    PROVE  Full(ans.heap, ans.ptr, min(size, s[i]), v)
<1> DEFINE p == b[i]
           q == ans.ptr
           n == min(size, s[i])
<1>1. /\ p \in Nat /\ p % 8 = 0 /\ s[i] \in Nat \ {0} /\ Sz(h, p) \in Nat /\ Sz(h, p) - 8 >= s[i]
      /\ p + s[i] <= h.brk - 8 /\ h.brk \in Nat /\ h.brk <= MAX_HEAP
  BY OwnedHas
<1>2. q \in Nat /\ q % 8 = 0
  BY SoundHas DEF Moves
<1>3. \A a \in Addresses : a \in q .. q + min(size, Sz(h, p) - 8) - 1 =>
          GET(ans.heap, a) = GET(h, p + (a - q))
  BY DEF Moves
<1>4. n \in Nat /\ n <= s[i] /\ n <= min(size, Sz(h, p) - 8) /\ min(size, Sz(h, p) - 8) \in Nat
  BY <1>1 DEF min
<1> HIDE DEF p, q, n
<1>5. ASSUME NEW a \in Words(q, n) PROVE GET(ans.heap, a) = v
  <2>1. a \in Addresses /\ a \in q .. q + n - 1
    BY <1>5 DEF Words
  <2>2. a \in Int /\ q <= a /\ a <= q + n - 1
    BY <1>2, <1>4, <2>1
  <2>3. a % 4 = 0
    BY <2>1, <2>2, AddressIs
  <2>4. MAX_HEAP \in Nat
    BY HeapAssumption
  <2>5. p + (a - q) \in Int /\ p <= p + (a - q) /\ p + (a - q) <= p + s[i] - 1 /\ (p + (a - q)) % 4 = 0
    BY <1>1, <1>2, <1>4, <2>2, <2>3
  <2>6. p + (a - q) \in Addresses
    BY <1>1, <2>4, <2>5, AddressIs
  <2>7. GET(h, p + (a - q)) = v
    BY <1>1, <2>5, <2>6 DEF Words, p, Full
  <2>8. a \in q .. q + min(size, Sz(h, p) - 8) - 1
    BY <1>1, <1>2, <1>4, <2>2
  <2> QED
    BY <1>3, <2>1, <2>7, <2>8
<1> QED
  BY <1>5 DEF q, n, Full

(* What eval_mm_util makes of an answer.                                   *)
LEMMA BytesFinite ==
    ASSUME NEW h, NEW b, NEW s, Owned(h, b, s), NEW J \in SUBSET Using(b)
    PROVE  /\ IsFiniteSet(BytesOf(b, s, J))
           /\ Cardinality(BytesOf(b, s, J)) \in Nat /\ Cardinality(BytesOf(b, s, J)) <= h.brk
<1>1. /\ h.brk \in Nat
      /\ \A j \in J : b[j] \in Nat /\ s[j] \in Nat \ {0} /\ b[j] + s[j] <= h.brk - 8
  BY OwnedHas
<1>2. BytesOf(b, s, J) \in SUBSET (0 .. h.brk - 1)
  <2>1. ASSUME NEW j \in J, NEW a \in b[j] .. b[j] + s[j] - 1
        PROVE  a \in 0 .. h.brk - 1
    BY <1>1
  <2> QED
    BY <2>1 DEF BytesOf
<1>3. IsFiniteSet(0 .. h.brk - 1) /\ Cardinality(0 .. h.brk - 1) = h.brk
  <2>1. 0 \in Int /\ h.brk - 1 \in Int
    BY <1>1
  <2>2. /\ IsFiniteSet(0 .. h.brk - 1)
        /\ Cardinality(0 .. h.brk - 1) = IF 0 > h.brk - 1 THEN 0 ELSE h.brk - 1 - 0 + 1
    BY <2>1, FS_Interval, Zenon
  <2> QED
    BY <1>1, <2>2
<1>4. /\ IsFiniteSet(BytesOf(b, s, J))
      /\ Cardinality(BytesOf(b, s, J)) <= Cardinality(0 .. h.brk - 1)
  BY <1>2, <1>3, FS_Subset, Zenon
<1>5. Cardinality(BytesOf(b, s, J)) \in Nat
  BY <1>4, FS_CardinalityType
<1> QED
  BY <1>3, <1>4, <1>5

LEMMA BytesMore ==
    ASSUME NEW h, NEW b, NEW s, Owned(h, b, s), NEW J \in SUBSET Using(b),
           NEW i \in Using(b), i \notin J
    PROVE  Cardinality(BytesOf(b, s, J \cup {i})) = Cardinality(BytesOf(b, s, J)) + s[i]
<1> DEFINE S == BytesOf(b, s, J)
           T == b[i] .. b[i] + s[i] - 1
<1>1. BytesOf(b, s, J \cup {i}) = S \cup T
  BY DEF BytesOf
<1>2. \A j \in J : j # i /\ j \in Using(b)
  OBVIOUS
<1>3. /\ \A j \in Using(b) : b[j] \in Nat /\ s[j] \in Nat \ {0}
      /\ \A j, k \in Using(b) : j # k => b[j] + s[j] + 8 <= b[k] \/ b[k] + s[k] + 8 <= b[j]
  BY OwnedHas
<1>4. S \cap T = {}
  <2>1. ASSUME NEW j \in J, NEW a \in b[j] .. b[j] + s[j] - 1
        PROVE  a \notin T
    <3>1. /\ b[j] \in Nat /\ b[i] \in Nat /\ s[i] \in Nat /\ s[j] \in Nat /\ a \in Int
          /\ b[j] + s[j] + 8 <= b[i] \/ b[i] + s[i] + 8 <= b[j]
      BY <1>2, <1>3
    <3> QED
      BY <3>1
  <2> QED
    BY <2>1 DEF BytesOf
<1>5. IsFiniteSet(T) /\ Cardinality(T) = s[i]
  <2>1. b[i] \in Int /\ b[i] + s[i] - 1 \in Int /\ s[i] \in Nat \ {0}
    BY <1>3
  <2>2. /\ IsFiniteSet(T)
        /\ Cardinality(T) = IF b[i] > b[i] + s[i] - 1 THEN 0 ELSE (b[i] + s[i] - 1) - b[i] + 1
    BY <2>1, FS_Interval, Zenon
  <2> QED
    BY <2>1, <2>2
<1>6. IsFiniteSet(S) /\ Cardinality(S) \in Nat
  BY BytesFinite
<1> HIDE DEF S, T
<1>7. Cardinality(S \cup T) = Cardinality(S) + Cardinality(T) - Cardinality(S \cap T)
  BY <1>5, <1>6, FS_Union, Zenon
<1>8. Cardinality(S \cap T) = 0
  BY <1>4, FS_EmptySet
<1>9. s[i] \in Nat
  BY <1>3
<1>10. Cardinality(BytesOf(b, s, J \cup {i})) = Cardinality(S) + s[i]
  <2>1. Cardinality(BytesOf(b, s, J \cup {i})) = Cardinality(S) + s[i] - 0
    BY <1>1, <1>5, <1>7, <1>8, Zenon
  <2>2. Cardinality(S) + s[i] - 0 = Cardinality(S) + s[i]
    BY <1>6, <1>9
  <2> QED
    BY <2>1, <2>2, Zenon
<1> QED
  BY <1>10 DEF S

LEMMA BytesSame ==
    ASSUME NEW b, NEW s, NEW c, NEW t, NEW J, \A j \in J : c[j] = b[j] /\ t[j] = s[j]
    PROVE  BytesOf(c, t, J) = BytesOf(b, s, J)
BY DEF BytesOf

(* The bytes in use change by what TotalAfter adds.                        *)
Change(s, o) ==
    CASE o.type = "ALLOC"   -> o.size
      [] o.type = "REALLOC" -> o.size - s[o.index]
      [] o.type = "FREE"    -> 0 - s[o.index]

LEMMA AnswerBytes ==
    ASSUME NEW x, NEW s, NEW o, NEW t, Succeeds(x, s, o, t)
    PROVE  Cardinality(Bytes(After(x, o).blocks, t)) = Cardinality(Bytes(x.blocks, s)) + Change(s, o)
<1>0. /\ Owned(x.heap, x.blocks, s) /\ Legal(x, o)
      /\ o.type # "FREE" => AnswerOn(x, o).ptr # NULL /\ t[o.index] = o.size
      /\ \A j \in Using(x.blocks) \ {o.index} : t[j] = s[j]
  BY DEF Succeeds
<1> USE <1>0
<1> DEFINE b == x.blocks
           c == After(x, o).blocks
           g == After(x, o).heap
           i == o.index
           J == Using(b) \ {i}
           N == Cardinality(BytesOf(b, s, J))
<1>1. /\ Owned(g, c, t)
      /\ Using(c) = IF o.type = "FREE" THEN Using(b) \ {i} ELSE Using(b) \cup {i}
      /\ \A j \in J : c[j] = b[j]
  BY AnswerOwned DEF Obeys
<1>2. o.type \in {"ALLOC", "REALLOC", "FREE"} /\ o.size \in Nat
  BY DEF Legal, Ops
<1>3. /\ o.type = "ALLOC" => i \notin Using(b)
      /\ o.type # "ALLOC" => i \in Using(b)
  BY DEF Legal
<1>4. \A j \in J : c[j] = b[j] /\ t[j] = s[j]
  BY <1>1
<1>11. Owned(x.heap, b, s)
  OBVIOUS
<1> HIDE DEF c, g
<1>5. BytesOf(c, t, J) = BytesOf(b, s, J)
  BY <1>4, BytesSame
<1>6. N \in Nat
  <2>1. J \in SUBSET Using(b)
    OBVIOUS
  <2> HIDE DEF J, b
  <2> QED
    BY <1>11, <2>1, BytesFinite
<1>7. ASSUME o.type # "ALLOC"
      PROVE  Cardinality(Bytes(b, s)) = N + s[i] /\ s[i] \in Nat
  <2>1. Using(b) = J \cup {i} /\ i \in Using(b) /\ i \notin J /\ J \in SUBSET Using(b)
    BY <1>3, <1>7
  <2>2. s[i] \in Nat
    BY <1>11, <2>1, OwnedHas
  <2> HIDE DEF J, b, i
  <2>3. Cardinality(BytesOf(b, s, J \cup {i})) = N + s[i]
    BY <1>11, <2>1, BytesMore
  <2> QED
    BY <2>1, <2>2, <2>3 DEF Bytes
<1>8. ASSUME o.type # "FREE"
      PROVE  Cardinality(Bytes(c, t)) = N + o.size
  <2>1. Using(c) = J \cup {i} /\ i \in Using(c) /\ i \notin J /\ J \in SUBSET Using(c)
    BY <1>1, <1>8
  <2>2. t[i] = o.size
    BY <1>8
  <2> HIDE DEF J, i
  <2>3. Cardinality(BytesOf(c, t, J \cup {i})) = Cardinality(BytesOf(c, t, J)) + t[i]
    BY <1>1, <2>1, BytesMore
  <2> QED
    BY <1>5, <2>1, <2>2, <2>3 DEF Bytes
<1>9. ASSUME o.type = "FREE"
      PROVE  Cardinality(Bytes(c, t)) = N
  BY <1>1, <1>5, <1>9 DEF Bytes
<1>10. ASSUME o.type = "ALLOC"
       PROVE  Cardinality(Bytes(b, s)) = N
  <2>1. J = Using(b)
    BY <1>3, <1>10
  <2> QED
    BY <2>1 DEF Bytes
<1> HIDE DEF b, i, N
<1>12. Cardinality(Bytes(c, t)) = Cardinality(Bytes(b, s)) + Change(s, o)
  <2>1. CASE o.type = "ALLOC"
    BY <1>2, <1>6, <1>8, <1>10, <2>1 DEF Change
  <2>2. CASE o.type = "REALLOC"
    BY <1>2, <1>6, <1>7, <1>8, <2>2 DEF Change, i
  <2>3. CASE o.type = "FREE"
    BY <1>2, <1>6, <1>7, <1>9, <2>3 DEF Change, i
  <2> QED
    BY <1>2, <2>1, <2>2, <2>3
<1> QED
  BY <1>12 DEF b, c

(* The run of a trace goes on.                                             *)
LEMMA AppendIs ==
    ASSUME NEW S, NEW q \in Seq(S), NEW e \in S
    PROVE  /\ Append(q, e) \in Seq(S) /\ Len(Append(q, e)) = Len(q) + 1
           /\ \A n \in 1 .. Len(q) : Append(q, e)[n] = q[n]
           /\ Append(q, e)[Len(q) + 1] = e
BY AppendProperties

(* A run of os, answered as, that comes to y.                              *)
Reaches(os, as, y) == \E M : IsRun(M, os, as) /\ M[Len(os)] = y

LEMMA RunExtends ==
    ASSUME NEW L, NEW os, NEW as, IsRun(L, os, as),
           NEW o, NEW y, NEW a, Follows(L[Len(os)], o, y, a), a \in Replies
    PROVE  Reaches(Append(os, o), Append(as, a), y)
<1> DEFINE k == Len(os)
           M == [n \in 0 .. k + 1 |-> IF n = k + 1 THEN y ELSE L[n]]
<1>1. os \in Seq(Ops) /\ as \in Seq(Replies) /\ Len(as) = k /\ k \in Nat
  <2>1. os \in Seq(Ops) /\ as \in Seq(Replies) /\ Len(as) = Len(os)
    BY DEF IsRun
  <2>2. Len(os) \in Nat
    BY <2>1, LenProperties, Zenon
  <2> QED
    BY <2>1, <2>2, Zenon
<1>2. o \in Ops
  BY DEF Follows, Legal
<1>3. /\ Append(os, o) \in Seq(Ops) /\ Append(as, a) \in Seq(Replies)
      /\ Len(Append(os, o)) = k + 1 /\ Len(Append(as, a)) = k + 1
      /\ Append(os, o)[k + 1] = o /\ Append(as, a)[k + 1] = a
      /\ \A n \in 1 .. k : Append(os, o)[n] = os[n] /\ Append(as, a)[n] = as[n]
  <2>1. /\ Append(os, o) \in Seq(Ops) /\ Len(Append(os, o)) = k + 1
        /\ \A n \in 1 .. k : Append(os, o)[n] = os[n]
        /\ Append(os, o)[k + 1] = o
    <3>1. os \in Seq(Ops) /\ o \in Ops
      BY <1>1, <1>2
    <3> QED
      BY <3>1, AppendIs
  <2>2. /\ Append(as, a) \in Seq(Replies) /\ Len(Append(as, a)) = k + 1
        /\ \A n \in 1 .. Len(as) : Append(as, a)[n] = as[n]
        /\ Append(as, a)[Len(as) + 1] = a
    <3>1. as \in Seq(Replies) /\ a \in Replies
      BY <1>1
    <3>2. /\ Append(as, a) \in Seq(Replies) /\ Len(Append(as, a)) = Len(as) + 1
          /\ \A n \in 1 .. Len(as) : Append(as, a)[n] = as[n]
          /\ Append(as, a)[Len(as) + 1] = a
      BY <3>1, AppendIs
    <3> QED
      BY <1>1, <3>2
  <2> QED
    BY <1>1, <2>1, <2>2, Zenon
<1> HIDE DEF k
<1>4. M[k + 1] = y /\ \A n \in 0 .. k : M[n] = L[n]
  BY <1>1
<1> HIDE DEF M
<1>5. M[0] = [heap |-> mm_init(FreshMemory), blocks |-> NoBlocks]
  BY <1>1, <1>4 DEF IsRun
<1>6. ASSUME NEW n \in 1 .. k + 1
      PROVE  Follows(M[n - 1], Append(os, o)[n], M[n], Append(as, a)[n])
  <2>1. CASE n = k + 1
    <3>1. n - 1 = k /\ k \in 0 .. k
      BY <1>1, <2>1
    <3>2. M[n - 1] = L[k] /\ M[n] = y
      BY <1>4, <2>1, <3>1
    <3> QED
      BY <1>3, <2>1, <3>2 DEF k
  <2>2. CASE n # k + 1
    <3>1. n \in 1 .. k /\ n - 1 \in 0 .. k /\ n \in 0 .. k
      BY <1>1, <2>2
    <3>2. Follows(L[n - 1], os[n], L[n], as[n])
      BY <3>1 DEF IsRun, k
    <3> QED
      BY <1>3, <1>4, <3>1, <3>2
  <2> QED
    BY <2>1, <2>2
<1>7. IsRun(M, Append(os, o), Append(as, a)) /\ M[k + 1] = y
  BY <1>3, <1>4, <1>5, <1>6 DEF IsRun
<1> QED
  BY <1>3, <1>7 DEF Reaches

-----------------------------------------------------------------------------
(* Every run starts in a fresh heap, up to what memory holds.              *)

LEMMA FreshIs == FreshMemory \in Heaps /\ FreshMemory.brk = 0
<1>1. Junk \in Nat
  BY JunkAssumption
<1>2. [a \in Addresses |-> Junk] \in [Addresses -> Nat]
  BY <1>1
<1> HIDE DEF Addresses
<1> QED
  BY <1>2 DEF FreshMemory, Heaps

LEMMA NoBlocksUsed ==
    /\ Using(NoBlocks) = {}
    /\ \A s : Bytes(NoBlocks, s) = {} /\ Cardinality(Bytes(NoBlocks, s)) = 0
<1>1. Using(NoBlocks) = {}
  BY DEF Using, NoBlocks
<1>2. ASSUME NEW s PROVE Bytes(NoBlocks, s) = {}
  BY <1>1 DEF Bytes, BytesOf
<1>3. Cardinality({}) = 0
  BY FS_EmptySet
<1> QED
  BY <1>1, <1>2, <1>3

LEMMA EmptyRun ==
    \E L : IsRun(L, << >>, << >>) /\ L[0] = [heap |-> mm_init(FreshMemory), blocks |-> NoBlocks]
<1> DEFINE x == [heap |-> mm_init(FreshMemory), blocks |-> NoBlocks]
           L == [n \in {0} |-> x]
<1>1. L[0] = x
  OBVIOUS
<1>2. /\ << >> \in Seq(Ops) /\ << >> \in Seq(Replies) /\ Len(<< >>) = 0
      /\ 1 .. Len(<< >>) = {}
  OBVIOUS
<1> HIDE DEF L
<1>3. IsRun(L, << >>, << >>)
  BY <1>1, <1>2 DEF IsRun
<1> QED
  BY <1>1, <1>3

LEMMA TooLongIsNoTrace == \A os \in Seq(Ops) : os # TooLong
<1>0. 1 \in 1 .. 1
  OBVIOUS
<1> SUFFICES ASSUME TooLong \in Seq(Ops) PROVE FALSE
  OBVIOUS
<1>1. Len(TooLong) = 1 /\ TooLong[1].type = "too long"
  BY DEF TooLong
<1>2. TooLong[1] \in Ops
  <2>2. 1 \in 1 .. Len(TooLong)
    BY <1>0, <1>1, Zenon
  <2> QED
    BY <2>2, ElementOfSeq, Zenon
<1> QED
  BY <1>1, <1>2 DEF Ops

LEMMA DriverInit == ASSUME Init PROVE DriverInv
<1>1. /\ heap = mm_init(FreshMemory) /\ ranges = << >> /\ blocks = NoBlocks
      /\ block_sizes = [i \in Indices |-> 0] /\ filling = Nobody /\ verdict = "valid"
      /\ phase = "valid" /\ ops = << >> /\ answers = << >> /\ at = 1
  BY DEF Init
<1>2. Owned(heap, blocks, Requested) /\ Alike(heap, mm_init(FreshMemory))
  BY <1>1, FreshIs, OwnedInit, InitAlike, Zenon
<1>3. InUse = {}
  BY <1>1, NoBlocksUsed DEF InUse, Using
<1>4. Listed
  <2>1. ranges \in Seq(Ranges) /\ Distinct(ranges) /\ Elems(ranges) = {}
    BY <1>1 DEF Distinct, Elems
  <2> QED
    BY <1>3, <2>1 DEF Listed, Extents
<1>5. Filled
  BY <1>3 DEF Filled
<1>6. \E L : RunOf(L)
  <2>1. PICK L : /\ IsRun(L, << >>, << >>)
                 /\ L[0] = [heap |-> mm_init(FreshMemory), blocks |-> NoBlocks]
    BY EmptyRun
  <2>2. Pos = 0 /\ Len(ops) = 0 /\ Pos \in 0 .. Len(ops)
    BY <1>1 DEF Pos
  <2>3. RunOf(L)
    BY <1>1, <1>2, <2>1, <2>2 DEF RunOf
  <2> QED
    BY <2>3
<1>7. block_sizes \in [Indices -> Nat]
  BY <1>1
<1>8. Totals /\ FillingIs
  BY <1>1 DEF Totals, FillingIs
<1> QED
  BY <1>1, <1>2, <1>4, <1>5, <1>6, <1>7, <1>8 DEF DriverInv

LEMMA RestartIs ==
    ASSUME DriverInv, NEW r, Restart(r)
    PROVE  /\ phase' = r /\ blocks' = NoBlocks /\ at' = 1 /\ total' = NoTotal
           /\ Owned(heap', blocks', Requested') /\ Alike(heap', mm_init(FreshMemory))
           /\ heap'.brk \in Nat /\ InUse' = {}
<1>1. /\ phase' = r /\ blocks' = NoBlocks /\ at' = 1 /\ total' = NoTotal
      /\ heap' = mm_init(mem_reset_brk(heap))
  BY DEF Restart
<1>2. heap \in Heaps
  BY SoundHas DEF DriverInv, Owned
<1>3. mem_reset_brk(heap) \in Heaps /\ mem_reset_brk(heap).brk = 0
  BY <1>2 DEF mem_reset_brk, Heaps
<1>4. Owned(heap', blocks', Requested') /\ Alike(heap', mm_init(FreshMemory))
  BY <1>1, <1>3, FreshIs, OwnedInit, InitAlike, Zenon
<1>5. heap'.brk \in Nat
  BY <1>4, OwnedHas
<1>6. InUse' = {}
  BY <1>1, NoBlocksUsed DEF InUse, Using
<1> QED
  BY <1>1, <1>4, <1>5, <1>6

LEMMA StartsRun ==
    ASSUME DriverInv, NEW r, Restart(r), NEW L, IsRun(L, ops', answers'),
           r # "valid" \/ ops' = << >>
    PROVE  RunOf(L)'
<1>1. /\ phase' = r /\ blocks' = NoBlocks /\ at' = 1
      /\ Alike(heap', mm_init(FreshMemory))
  BY RestartIs
<1>2. L[0] = [heap |-> mm_init(FreshMemory), blocks |-> NoBlocks] /\ ops' \in Seq(Ops)
  BY DEF IsRun
<1>3. Pos' = 0
  BY <1>1 DEF Pos
<1>4. 0 \in 0 .. Len(ops')
  BY <1>2
<1> QED
  BY <1>1, <1>2, <1>3, <1>4 DEF RunOf

LEMMA NextTraceKeeps == ASSUME DriverInv, NextTrace PROVE DriverInv'
<1>1. /\ Restart("valid") /\ ranges' = << >> /\ block_sizes' = [i \in Indices |-> 0]
      /\ verdict' = "valid" /\ ops' = << >> /\ answers' = << >> /\ filling' = Nobody
      /\ verdict # "valid" \/ phase = "speed"
  BY DEF NextTrace
<1>2. /\ phase' = "valid" /\ blocks' = NoBlocks /\ InUse' = {} /\ at' = 1
      /\ Owned(heap', blocks', Requested')
  BY <1>1, RestartIs
<1>3. filling' = Nobody
  BY <1>1
<1>4. Listed'
  <2>1. ranges' \in Seq(Ranges) /\ Distinct(ranges') /\ Elems(ranges') = {}
    BY <1>1 DEF Distinct, Elems
  <2> QED
    BY <1>2, <2>1 DEF Listed, Extents
<1>5. Filled'
  BY <1>2 DEF Filled
<1>6. \E L : RunOf(L)'
  <2>1. PICK L : IsRun(L, << >>, << >>)
    BY EmptyRun
  <2>2. RunOf(L)'
    BY <1>1, <2>1, StartsRun
  <2> QED
    BY <2>2
<1>7. block_sizes' \in [Indices -> Nat]
  BY <1>1
<1>8. Totals' /\ FillingIs'
  BY <1>2, <1>3 DEF Totals, FillingIs
<1>9. at' \in Nat \ {0} /\ phase' = "valid" /\ verdict' = "valid"
  BY <1>1, <1>2
<1>10. Owned(heap', blocks', Requested')
  BY <1>2
<1> QED
  BY <1>4, <1>5, <1>6, <1>7, <1>8, <1>9, <1>10 DEF DriverInv

LEMMA NextRunKeeps == ASSUME DriverInv, NextRun PROVE DriverInv'
<1>1. /\ ranges' = ranges /\ block_sizes' = block_sizes /\ filling' = filling
      /\ verdict' = verdict /\ ops' = ops /\ answers' = answers
  BY DEF NextRun
<1>2. PICK r \in {"util", "speed"} : Restart(r)
  BY DEF NextRun
<1>3. filling = Nobody /\ verdict = "valid" /\ ops # TooLong
  BY DEF NextRun, Ready, Replayed, Replaying, DriverInv, FillingIs
<1>4. /\ phase' = r /\ blocks' = NoBlocks /\ InUse' = {} /\ total' = NoTotal /\ at' = 1
      /\ Owned(heap', blocks', Requested') /\ heap'.brk \in Nat
  BY <1>2, RestartIs
<1>5. \E L : RunOf(L)'
  <2>1. PICK L : RunOf(L)
    BY <1>3 DEF DriverInv
  <2>2. IsRun(L, ops', answers')
    BY <1>1, <2>1 DEF RunOf
  <2>3. RunOf(L)'
    BY <1>2, <2>2, StartsRun
  <2> QED
    BY <2>3
<1>6. Totals'
  <2>1. total'.now = 0 /\ total'.max = 0
    BY <1>4 DEF NoTotal
  <2>2. Cardinality(Bytes(blocks', block_sizes')) = 0
    BY <1>4, NoBlocksUsed
  <2> QED
    BY <1>4, <2>1, <2>2 DEF Totals
<1>7. block_sizes' \in [Indices -> Nat] /\ FillingIs'
  BY <1>1, <1>3 DEF DriverInv, FillingIs
<1> QED
  BY <1>1, <1>3, <1>4, <1>5, <1>6, <1>7 DEF DriverInv

-----------------------------------------------------------------------------
(* The steps of eval_mm_valid.                                             *)

Here == [heap |-> heap, blocks |-> blocks]

LEMMA ValidHas ==
    ASSUME DriverInv, phase = "valid"
    PROVE  /\ Requested = block_sizes /\ Owned(heap, blocks, block_sizes)
           /\ Listed /\ Filled /\ FillingIs
           /\ InUse = Using(blocks)
           /\ blocks \in [Indices -> Nat] /\ block_sizes \in [Indices -> Nat]
<1>1. block_sizes \in [Indices -> Nat] /\ Owned(heap, blocks, Requested)
  BY DEF DriverInv
<1>2. Requested = block_sizes
  BY <1>1 DEF Requested, RequestedSize
<1>3. InUse = Using(blocks)
  BY DEF InUse, Using
<1>4. Listed /\ Filled /\ FillingIs
  BY DEF DriverInv
<1>5. blocks \in [Indices -> Nat]
  BY <1>1 DEF Owned
<1> QED
  BY <1>1, <1>2, <1>3, <1>4, <1>5

LEMMA ReadyHas ==
    ASSUME DriverInv, Ready
    PROVE  /\ phase = "valid" /\ verdict = "valid" /\ filling = Nobody
           /\ \A j \in Using(blocks) : Full(heap, blocks[j], block_sizes[j], Pattern(j))
<1>1. phase = "valid" /\ verdict = "valid" /\ filling = Nobody
  BY DEF Ready
<1>2. Filled /\ InUse = Using(blocks)
  BY <1>1, ValidHas
<1>3. \A j \in Indices : j # filling.index
  BY <1>1, IndicesAssumption DEF Nobody
<1>4. \A j \in InUse : j \in Indices
  BY DEF InUse
<1> QED
  BY <1>1, <1>2, <1>3, <1>4 DEF Filled

LEMMA FillIs ==
    ASSUME DriverInv, Fill, verdict' = "valid"
    PROVE  LET i == filling.index
           IN  /\ i \in Using(blocks) /\ phase = "valid" /\ filling' = Nobody
               /\ verdict' = verdict
               /\ UNCHANGED <<ranges, blocks, block_sizes, phase, ops, answers, at, total, requests>>
               /\ Full(heap', blocks[i], block_sizes[i], Pattern(i))
               /\ Alike(heap, heap')
               /\ \A q \in Held(heap) \ {blocks[i]} : Kept(heap, heap', q)
<1> DEFINE i == filling.index
           p == blocks[i]
<1>1. /\ filling # Nobody /\ filling' = Nobody /\ verdict = "valid"
      /\ UNCHANGED <<ranges, blocks, block_sizes, phase, ops, answers, at, total, requests>>
  BY DEF Fill
<1>2. /\ i \in Indices /\ filling.check \in Nat
      /\ i \in InUse /\ filling.check <= block_sizes[i]
      /\ phase = "valid"
  BY <1>1 DEF DriverInv, FillingIs
<1>3. /\ Owned(heap, blocks, block_sizes) /\ Listed /\ Filled
      /\ InUse = Using(blocks) /\ block_sizes \in [Indices -> Nat]
  BY <1>2, ValidHas
<1>4. /\ heap' = memset(heap, p, Pattern(i), block_sizes[i])
      /\ verdict' = verdict
  BY DEF Fill
<1>5. Sound(heap) /\ heap \in Heaps
  BY <1>3, SoundHas DEF Owned
<1>6. /\ p \in Held(heap) /\ p \in Nat /\ block_sizes[i] \in Nat
      /\ Sz(heap, p) \in Nat /\ block_sizes[i] <= Sz(heap, p) - 8
  BY <1>2, <1>3, OwnedHas
<1>7. Pattern(i) \in Nat
  <2>1. i \in Nat
    <3>1. i \in Indices
      BY <1>2
    <3> HIDE DEF i
    <3> QED
      BY <3>1, IndicesAssumption
  <2> QED
    BY <2>1 DEF Pattern, LowByte
<1> HIDE DEF i, p
<1>8. /\ Writes(heap, p, block_sizes[i], heap')
      /\ Full(heap', p, block_sizes[i], Pattern(i))
  BY <1>4, <1>5, <1>6, <1>7, MemsetIs DEF Words, Full
<1>9. Alike(heap, heap') /\ \A q \in Held(heap) \ {p} : Kept(heap, heap', q)
  BY <1>5, <1>6, <1>8, WriteIs
<1> QED
  BY <1>1, <1>2, <1>3, <1>4, <1>8, <1>9 DEF i, p

(* A word that is not found preserved is the right one all the same.       *)
LEMMA FillMisses ==
    ASSUME DriverInv, Fill, verdict' # "valid"
    PROVE  /\ phase = "valid" /\ verdict' = "data not preserved"
           /\ filling # Nobody /\ LowByte(filling.index) >= 128
           /\ UNCHANGED <<heap, filling, ranges, blocks, block_sizes, phase, ops, answers, at, total, requests>>
<1> DEFINE i == filling.index
           p == blocks[i]
<1>1. /\ filling # Nobody /\ verdict' = "data not preserved"
      /\ UNCHANGED <<heap, filling, ranges, blocks, block_sizes, phase, ops, answers, at, total, requests>>
      /\ \E a \in Addresses : a \in p .. p + filling.check - 1 /\ ~ Preserved(GET(heap, a), i)
  BY DEF Fill
<1>2. i \in Indices /\ i \in InUse /\ phase = "valid"
  BY <1>1 DEF DriverInv, FillingIs
<1>3. Full(heap, p, filling.check, Pattern(i))
  BY <1>2, ValidHas DEF Filled
<1>4. PICK a \in Addresses : a \in p .. p + filling.check - 1 /\ ~ Preserved(GET(heap, a), i)
  BY <1>1
<1>5. GET(heap, a) = Pattern(i)
  BY <1>3, <1>4 DEF Full, Words
<1>6. AsChar(LowByte(i)) # LowByte(i)
  BY <1>4, <1>5 DEF Preserved
<1>7. LowByte(i) \in Nat
  <2>1. i \in Nat
    BY <1>2, IndicesAssumption
  <2> HIDE DEF i
  <2> QED
    BY <2>1 DEF LowByte
<1>8. LowByte(i) >= 128
  BY <1>6, <1>7 DEF AsChar
<1> QED
  BY <1>1, <1>2, <1>8

LEMMA FillFinds == ASSUME DriverInv, Fill, verdict' = "valid" PROVE DriverInv'
<1> DEFINE i == filling.index
           p == blocks[i]
<1>1. /\ filling' = Nobody
      /\ UNCHANGED <<ranges, blocks, block_sizes, phase, ops, answers, at, total, requests>>
  BY FillIs
<1>2. i \in InUse /\ phase = "valid" /\ verdict = "valid"
  BY DEF Fill, DriverInv, FillingIs
<1>3. /\ Owned(heap, blocks, block_sizes) /\ Listed /\ Filled
      /\ InUse = Using(blocks) /\ block_sizes \in [Indices -> Nat]
  BY <1>2, ValidHas
<1>4. verdict' = verdict
  BY FillIs
<1>8. Full(heap', p, block_sizes[i], Pattern(i))
  BY FillIs
<1>9. Alike(heap, heap') /\ \A q \in Held(heap) \ {p} : Kept(heap, heap', q)
  BY FillIs
<1> HIDE DEF i, p
<1>10. Owned(heap', blocks', Requested')
  <2>1. Requested' = block_sizes
    BY <1>1, <1>2, <1>3 DEF Requested, RequestedSize
  <2> QED
    BY <1>1, <1>3, <1>9, <2>1, OwnedAlike
<1>11. Listed' /\ InUse' = InUse
  BY <1>1, <1>3 DEF Listed, InUse
<1>12. Filled'
  <2>1. \A j \in Indices : j # filling'.index
    BY <1>1, IndicesAssumption DEF Nobody
  <2>2. ASSUME NEW j \in InUse
        PROVE  Full(heap', blocks[j], block_sizes[j], Pattern(j))
    <3>1. CASE j = i
      BY <1>8, <3>1 DEF p
    <3>2. CASE j # i
      <4>1. Full(heap, blocks[j], block_sizes[j], Pattern(j))
        BY <1>3, <3>2 DEF Filled, i
      <4>2. Kept(heap, heap', blocks[j])
        <5>1. blocks[j] \in Held(heap) /\ blocks[j] # blocks[i]
          BY <1>2, <1>3, <3>2, OwnedHas DEF Owned
        <5> QED
          BY <1>9, <5>1 DEF p
      <4>3. j \in Using(blocks)
        BY <1>3 DEF InUse
      <4> QED
        BY <1>3, <4>1, <4>2, <4>3, WordsKept
    <3> QED
      BY <3>1, <3>2
  <2>3. \A j \in InUse : j \in Indices
    BY DEF InUse
  <2> QED
    BY <1>1, <1>11, <2>1, <2>2, <2>3 DEF Filled
<1>13. verdict' = "valid" => ops' = TooLong \/ \E L : RunOf(L)'
  <2>1. ASSUME NEW L, RunOf(L) PROVE RunOf(L)'
    <3>1. Alike(heap', L[Pos].heap)
      BY <1>9, <2>1, AlikeBoth DEF RunOf
    <3>2. Pos' = Pos
      BY <1>1, <1>2 DEF Pos
    <3> QED
      BY <1>1, <2>1, <3>1, <3>2 DEF RunOf
  <2> QED
    BY <1>1, <1>2, <2>1 DEF DriverInv
<1>14. Totals' /\ FillingIs'
  BY <1>1, <1>2 DEF Totals, FillingIs
<1> QED
  BY <1>1, <1>2, <1>3, <1>4, <1>10, <1>11, <1>12, <1>13, <1>14 DEF DriverInv

LEMMA FillKeeps == ASSUME DriverInv, Fill PROVE DriverInv'
<1>1. CASE verdict' = "valid"
  BY <1>1, FillFinds
<1>2. CASE verdict' # "valid"
  <2>1. /\ phase = "valid" /\ phase' = "valid" /\ verdict' = "data not preserved"
        /\ filling # Nobody /\ LowByte(filling.index) >= 128
        /\ UNCHANGED <<heap, filling, ranges, blocks, block_sizes, ops, answers, at, total>>
    BY <1>2, FillMisses
  <2>2. Requested' = Requested /\ InUse' = InUse
    BY <2>1 DEF Requested, RequestedSize, InUse
  <2>3. Listed' /\ Filled' /\ FillingIs' /\ Totals'
    BY <2>1, <2>2 DEF DriverInv, Listed, Filled, FillingIs, Totals
  <2> QED
    BY <2>1, <2>2, <2>3 DEF DriverInv
<1> QED
  BY <1>1, <1>2

LEMMA Answered ==
    ASSUME DriverInv, Ready, NEW o, Legal(Here, o),
           o.type # "FREE" => AnswerOn(Here, o).ptr # NULL,
           Recorded(o.type, o.index, o.size, AnswerOn(Here, o).ptr),
           heap' = After(Here, o).heap, blocks' = After(Here, o).blocks
    PROVE  /\ phase' = "valid" /\ at' = at
           /\ ops' = TooLong \/ \E L : RunOf(L)'
<1> DEFINE ptr == AnswerOn(Here, o).ptr
           a == [ptr |-> ptr, brk |-> heap'.brk]
<1>1. /\ phase = "valid" /\ verdict = "valid" /\ Owned(heap, blocks, block_sizes)
  BY ValidHas DEF Ready
<1>2. Here.heap = heap /\ Here.blocks = blocks
  BY DEF Here
<1>3. o \in Ops /\ o = [type |-> o.type, index |-> o.index, size |-> o.size]
  BY DEF Legal, Ops
<1>4. phase' = "valid" /\ at' = at
  BY <1>1 DEF Recorded
<1>5. CASE ~ (ops # TooLong /\ Len(ops) < MaxReplayed)
  BY <1>4, <1>5 DEF Recorded
<1>6. CASE ops # TooLong /\ Len(ops) < MaxReplayed
  <2>1. ops' = Append(ops, o) /\ answers' = Append(answers, a)
    <3>1. ops' = Append(ops, [type |-> o.type, index |-> o.index, size |-> o.size])
      BY <1>6, Zenon DEF Recorded
    <3>2. answers' = Append(answers, a)
      BY <1>6, Zenon DEF Recorded
    <3> QED
      BY <1>3, <3>1, <3>2, Zenon
  <2>2. PICK L : RunOf(L)
    BY <1>1, <1>6 DEF DriverInv
  <2> DEFINE x == L[Len(ops)]
  <2>3. /\ IsRun(L, ops, answers) /\ Pos = Len(ops)
        /\ blocks = x.blocks /\ Alike(heap, x.heap)
    BY <1>1, <2>2 DEF RunOf, Pos
  <2>4. /\ ptr = AnswerOn(x, o).ptr
        /\ Alike(heap', After(x, o).heap)
        /\ blocks' = After(x, o).blocks /\ Legal(x, o)
    <3> HIDE DEF x
    <3> QED
      BY <1>1, <1>2, <2>3, AnswerAlike, Zenon
  <2>5. After(x, o).heap.brk = heap'.brk
    BY <2>4, AlikeHas
  <2>6. a \in Replies
    <3>1. heap'.brk \in Nat
      BY <2>4, AlikeHas, SoundHas
    <3>2. ptr \in Nat
      <4>1. CASE o.type = "FREE"
        BY <4>1 DEF AnswerOn, NULL
      <4>2. CASE o.type # "FREE"
        <5>1. DEFINE t == [block_sizes EXCEPT ![o.index] = o.size]
        <5>2. block_sizes \in [Indices -> Nat] /\ o.index \in Indices
          BY <1>3 DEF DriverInv, Ops
        <5>3. t[o.index] = o.size /\ \A j \in Using(blocks) \ {o.index} : t[j] = block_sizes[j]
          BY <5>2 DEF Using
        <5> HIDE DEF t
        <5>4. Succeeds(Here, block_sizes, o, t)
          BY <1>1, <1>2, <4>2, <5>3 DEF Succeeds
        <5>8. Obeys(Here, o, After(Here, o), t)
          BY <5>4, AnswerOwned
        <5>5. blocks' \in [Indices -> Nat]
          BY <5>8 DEF Obeys, Owned
        <5>6. blocks \in [Indices -> Nat]
          BY <1>1 DEF Owned
        <5>7. blocks'[o.index] = ptr
          BY <1>2, <5>2, <5>6 DEF After
        <5> QED
          BY <5>2, <5>5, <5>7
      <4> QED
        BY <4>1, <4>2
    <3> HIDE DEF ptr
    <3> QED
      BY <3>1, <3>2 DEF Replies
  <2>7. Follows(x, o, After(x, o), a)
    BY <2>4, <2>5 DEF Follows
  <2> HIDE DEF a, ptr
  <2>8. Reaches(ops', answers', After(x, o))
    <3>1. IsRun(L, ops, answers)
      BY <2>3
    <3>2. Reaches(Append(ops, o), Append(answers, a), After(x, o))
      BY <3>1, <2>6, <2>7, RunExtends
    <3> QED
      BY <2>1, <3>2
  <2>9. PICK M : IsRun(M, ops', answers') /\ M[Len(ops')] = After(x, o)
    BY <2>8 DEF Reaches
  <2>10. Len(ops') = Len(ops) + 1 /\ Len(ops') \in Nat
    <3>1. ops \in Seq(Ops)
      BY <2>3 DEF IsRun
    <3> QED
      BY <1>3, <2>1, <3>1
  <2>11. Pos' = Len(ops') /\ Pos' \in 0 .. Len(ops')
    BY <1>4, <2>10 DEF Pos
  <2>12. RunOf(M)'
    <3>1. M[Pos'] = After(x, o)
      BY <2>9, <2>10, <2>11
    <3> QED
      BY <2>4, <2>9, <2>11, <3>1 DEF RunOf
  <2> QED
    BY <1>4, <2>12
<1> QED
  BY <1>5, <1>6

LEMMA GrantKeeps ==
    ASSUME DriverInv, Ready, NEW o, Legal(Here, o), o.type # "FREE",
           AnswerOn(Here, o).ptr # NULL,
           Recorded(o.type, o.index, o.size, AnswerOn(Here, o).ptr),
           heap' = AnswerOn(Here, o).heap,
           NEW list, Extents(list, blocks, block_sizes, Using(blocks) \ {o.index}),
           NEW check \in Nat, check <= o.size,
           Full(heap', AnswerOn(Here, o).ptr, check, Pattern(o.index)),
           Judged(o.index, AnswerOn(Here, o).ptr, o.size, list, check)
    PROVE  DriverInv'
<1> DEFINE i == o.index
           p == AnswerOn(Here, o).ptr
           c == [blocks EXCEPT ![i] = p]
           t == [block_sizes EXCEPT ![i] = o.size]
           r == NewRange(p, o.size)
<1>1. /\ phase = "valid" /\ verdict = "valid" /\ filling = Nobody
      /\ Owned(heap, blocks, block_sizes) /\ InUse = Using(blocks)
      /\ blocks \in [Indices -> Nat] /\ block_sizes \in [Indices -> Nat]
      /\ \A j \in Using(blocks) : Full(heap, blocks[j], block_sizes[j], Pattern(j))
  BY ReadyHas, ValidHas
<1>2. Here.heap = heap /\ Here.blocks = blocks
  BY DEF Here
<1>3. i \in Indices /\ o.size \in Nat /\ \A j \in Using(blocks) : j \in Indices
  BY DEF Legal, Ops, Using
<1>4. After(Here, o).heap = heap' /\ After(Here, o).blocks = c
  BY <1>2 DEF After
<1>5. t[i] = o.size /\ \A j \in Indices \ {i} : t[j] = block_sizes[j] /\ c[j] = blocks[j]
  BY <1>1, <1>3
<1>6. t \in [Indices -> Nat] /\ c[i] = p
  BY <1>1, <1>3
<1> HIDE DEF t, c
<1>7. /\ Owned(heap', c, t) /\ Using(c) = Using(blocks) \cup {i}
      /\ heap.brk <= heap'.brk
      /\ \A j \in Using(blocks) \ {i} : c[j] = blocks[j] /\ Kept(heap, heap', blocks[j])
  <2>1. \A j \in Using(blocks) \ {i} : t[j] = block_sizes[j]
    BY <1>3, <1>5
  <2>2. Succeeds(Here, block_sizes, o, t)
    BY <1>1, <1>2, <1>5, <2>1 DEF Succeeds
  <2>3. Obeys(Here, o, After(Here, o), t)
    BY <2>2, AnswerOwned
  <2> QED
    BY <1>2, <1>4, <2>3 DEF Obeys
<1>8. /\ Accepts(list, r, mem_heap_hi(heap'))
      /\ Extents(Added(list, r), c, t, Using(c))
  <2>1. i \in Using(c) /\ Using(c) \ {i} = Using(blocks) \ {i} /\ Owned(heap', c, t)
    BY <1>7
  <2>2. Extents(list, c, t, Using(c) \ {i})
    <3>1. \A j \in Using(blocks) \ {i} : NewRange(c[j], t[j]) = NewRange(blocks[j], block_sizes[j])
      BY <1>3, <1>5, <1>7
    <3> QED
      BY <2>1, <3>1 DEF Extents
  <2>3. r = NewRange(c[i], t[i])
    BY <1>5, <1>6
  <2>4. /\ Accepts(list, NewRange(c[i], t[i]), mem_heap_hi(heap'))
        /\ Extents(Added(list, NewRange(c[i], t[i])), c, t, Using(c))
    <3> HIDE DEF i
    <3> QED
      BY <2>1, <2>2, RangeJudged
  <2> HIDE DEF r
  <2> QED
    BY <2>3, <2>4
<1>9. /\ ranges' = Added(list, r) /\ blocks' = c /\ block_sizes' = t
      /\ filling' = [index |-> i, check |-> check] /\ verdict' = verdict
  BY <1>8 DEF Judged, c, t
<1>10. phase' = "valid" /\ at' = at /\ (ops' = TooLong \/ \E L : RunOf(L)')
  <2>1. heap' = After(Here, o).heap /\ blocks' = After(Here, o).blocks
    BY <1>4, <1>9
  <2> QED
    BY <2>1, Answered
<1>11. Owned(heap', blocks', Requested')
  <2>1. Requested' = t
    BY <1>6, <1>9, <1>10 DEF Requested, RequestedSize
  <2> QED
    BY <1>7, <1>9, <2>1
<1>12. InUse' = Using(c)
  BY <1>9 DEF InUse, Using
<1>13. Listed'
  BY <1>8, <1>9, <1>12 DEF Listed
<1>14. Filled'
  <2>1. filling'.index = i /\ filling'.check = check
    BY <1>9
  <2>2. Full(heap', c[i], check, Pattern(i))
    BY <1>6
  <2>3. ASSUME NEW j \in Using(c), j # i
        PROVE  Full(heap', c[j], t[j], Pattern(j))
    <3>1. j \in Using(blocks) /\ j \in Indices
      BY <1>3, <1>7, <2>3
    <3>2. /\ c[j] = blocks[j] /\ t[j] = block_sizes[j] /\ Kept(heap, heap', blocks[j])
          /\ Full(heap, blocks[j], block_sizes[j], Pattern(j))
      BY <1>1, <1>5, <1>7, <2>3, <3>1
    <3>3. Full(heap', blocks[j], block_sizes[j], Pattern(j))
      BY <1>1, <3>1, <3>2, WordsKept
    <3> QED
      BY <3>2, <3>3
  <2> HIDE DEF i
  <2> QED
    BY <1>9, <1>12, <2>1, <2>2, <2>3 DEF Filled
<1>15. FillingIs'
  <2>1. i \in InUse'
    BY <1>7, <1>12
  <2> QED
    BY <1>1, <1>3, <1>5, <1>9, <1>10, <2>1 DEF FillingIs
<1>16. Totals'
  BY <1>10 DEF Totals
<1> QED
  BY <1>1, <1>6, <1>9, <1>10, <1>11, <1>13, <1>14, <1>15, <1>16 DEF DriverInv

LEMMA FailIs ==
    ASSUME DriverInv, Ready, NEW o, Legal(Here, o), o.type # "FREE",
           AnswerOn(Here, o).ptr = NULL
    PROVE  AnswerOn(Here, o).heap = heap
<1> DEFINE a == AnswerOn(Here, o)
<1>1. Owned(heap, blocks, block_sizes) /\ Here.heap = heap /\ Here.blocks = blocks
  BY ReadyHas, ValidHas DEF Here
<1>2. o.type \in {"ALLOC", "REALLOC", "FREE"}
  BY DEF Legal, Ops
<1>3. a = [ptr |-> NULL, heap |-> Here.heap]
  <2>1. /\ o.type = "ALLOC" => \/ a = [ptr |-> NULL, heap |-> Here.heap]
                               \/ Grants(Here.heap, o.size, a) /\ a.ptr # NULL
        /\ o.type = "REALLOC" => \/ a = [ptr |-> NULL, heap |-> Here.heap]
                                 \/ Moves(Here.heap, Here.blocks[o.index], o.size, a) /\ a.ptr # NULL
    BY <1>1, AnswerIs
  <2> QED
    BY <1>2, <2>1
<1> HIDE DEF a
<1>4. a.heap = heap
  BY <1>1, <1>3
<1> QED
  BY <1>4 DEF a

LEMMA FailKeeps ==
    ASSUME DriverInv, Ready, NEW o, Legal(Here, o), o.type # "FREE",
           AnswerOn(Here, o).ptr = NULL,
           Recorded(o.type, o.index, o.size, AnswerOn(Here, o).ptr),
           heap' = AnswerOn(Here, o).heap,
           NEW what \in {"mm_malloc failed", "mm_realloc failed"}, Fails(what)
    PROVE  DriverInv'
<1>1. /\ phase = "valid" /\ filling = Nobody
      /\ Owned(heap, blocks, block_sizes) /\ Listed /\ Filled
      /\ block_sizes \in [Indices -> Nat]
  BY ReadyHas, ValidHas
<1>2. Here.heap = heap /\ Here.blocks = blocks
  BY DEF Here
<1>3. heap' = heap
  BY FailIs
<1>4. /\ ranges' = ranges /\ blocks' = blocks /\ block_sizes' = block_sizes
      /\ filling' = filling /\ verdict' = what /\ phase' = phase /\ at' = at
  BY DEF Fails, Recorded
<1>5. Owned(heap', blocks', Requested')
  <2>1. Requested' = block_sizes
    BY <1>1, <1>4 DEF Requested, RequestedSize
  <2> QED
    BY <1>1, <1>3, <1>4, <2>1
<1>6. Listed' /\ Filled'
  BY <1>1, <1>3, <1>4 DEF Listed, Filled, InUse
<1>7. FillingIs' /\ Totals'
  BY <1>1, <1>4 DEF FillingIs, Totals
<1> QED
  BY <1>1, <1>4, <1>5, <1>6, <1>7 DEF DriverInv

LEMMA AllocKeeps ==
    ASSUME DriverInv, NEW i \in Indices, NEW size \in Sizes, EvalAlloc(i, size)
    PROVE  DriverInv'
<1> DEFINE o == [type |-> "ALLOC", index |-> i, size |-> size]
           ans == mm_malloc(heap, size)
<1>1. /\ Ready /\ i \notin InUse /\ heap' = ans.heap
      /\ Recorded("ALLOC", i, size, ans.ptr)
      /\ IF ans.ptr = NULL THEN Fails("mm_malloc failed") ELSE Judged(i, ans.ptr, size, ranges, 0)
  BY DEF EvalAlloc
<1>2. size \in Nat \ {0}
  BY SizesAssumption
<1>3. o.type = "ALLOC" /\ o.index = i /\ o.size = size /\ o \in Ops
  BY <1>2 DEF Ops
<1>4. phase = "valid" /\ Listed /\ InUse = Using(blocks)
  BY <1>1, ReadyHas, ValidHas
<1>5. AnswerOn(Here, o) = ans
  BY <1>3 DEF AnswerOn, Here
<1> HIDE DEF o, ans
<1>6. Legal(Here, o)
  <2>1. Here.blocks = blocks
    BY DEF Here
  <2> QED
    BY <1>1, <1>2, <1>3, <1>4, <2>1 DEF Legal
<1>7. CASE ans.ptr = NULL
  BY <1>1, <1>3, <1>5, <1>6, <1>7, FailKeeps
<1>8. CASE ans.ptr # NULL
  <2>1. Extents(ranges, blocks, block_sizes, Using(blocks) \ {i})
    <3>1. Using(blocks) \ {i} = InUse
      BY <1>1, <1>4
    <3> QED
      BY <1>4, <3>1 DEF Listed
  <2>2. Words(ans.ptr, 0) = {}
    <3>1. ans.ptr \in Int
      <4>1. Owned(Here.heap, Here.blocks, block_sizes)
        BY <1>4, ValidHas DEF Here
      <4>2. Grants(Here.heap, size, ans)
        <5>1. \/ ans = [ptr |-> NULL, heap |-> Here.heap]
              \/ Grants(Here.heap, size, ans)
          BY <1>3, <1>5, <1>6, <4>1, AnswerIs
        <5> QED
          BY <1>8, <5>1
      <4>3. Sound(ans.heap) /\ ans.ptr \in BlocksOf(ans.heap)
        BY <4>2 DEF Grants
      <4> QED
        BY <4>3, SoundHas
    <3> QED
      BY <3>1 DEF Words
  <2>3. /\ Full(heap', ans.ptr, 0, Pattern(i))
        /\ 0 \in Nat /\ 0 <= size
    BY <1>2, <2>2 DEF Full
  <2> QED
    BY <1>1, <1>3, <1>5, <1>6, <1>8, <2>1, <2>3, GrantKeeps
<1> QED
  BY <1>7, <1>8

LEMMA ReallocKeeps ==
    ASSUME DriverInv, NEW i \in Indices, NEW size \in Sizes, EvalRealloc(i, size)
    PROVE  DriverInv'
<1> DEFINE o == [type |-> "REALLOC", index |-> i, size |-> size]
           ans == mm_realloc(heap, blocks[i], size)
           list == Removed(ranges, blocks[i])
           check == min(size, block_sizes[i])
<1>1. /\ Ready /\ i \in InUse /\ heap' = ans.heap
      /\ Recorded("REALLOC", i, size, ans.ptr)
      /\ IF ans.ptr = NULL THEN Fails("mm_realloc failed") ELSE Judged(i, ans.ptr, size, list, check)
  BY DEF EvalRealloc
<1>2. size \in Nat \ {0}
  BY SizesAssumption
<1>3. o.type = "REALLOC" /\ o.index = i /\ o.size = size /\ o \in Ops
  BY <1>2 DEF Ops
<1>4. /\ phase = "valid" /\ Listed /\ InUse = Using(blocks)
      /\ Owned(heap, blocks, block_sizes) /\ block_sizes \in [Indices -> Nat]
      /\ Full(heap, blocks[i], block_sizes[i], Pattern(i))
  BY <1>1, ReadyHas, ValidHas
<1>5. AnswerOn(Here, o) = ans
  BY <1>3 DEF AnswerOn, Here
<1> HIDE DEF o, ans
<1>6. Legal(Here, o)
  <2>1. Here.blocks = blocks
    BY DEF Here
  <2> QED
    BY <1>1, <1>2, <1>3, <1>4, <2>1 DEF Legal
<1>7. CASE ans.ptr = NULL
  BY <1>1, <1>3, <1>5, <1>6, <1>7, FailKeeps
<1>8. CASE ans.ptr # NULL
  <2>1. Extents(list, blocks, block_sizes, Using(blocks) \ {i})
    <3>1. Extents(ranges, blocks, block_sizes, Using(blocks)) /\ i \in Using(blocks)
      BY <1>1, <1>4 DEF Listed
    <3> QED
      BY <1>4, <3>1, RangeLeft
  <2>2. check \in Nat /\ check <= size
    BY <1>2, <1>4 DEF min
  <2>3. Moves(heap, blocks[i], size, ans)
    <3>1. /\ Here.heap = heap /\ Here.blocks = blocks
          /\ Owned(Here.heap, Here.blocks, block_sizes)
      BY <1>4 DEF Here
    <3>2. \/ ans = [ptr |-> NULL, heap |-> Here.heap]
          \/ Moves(Here.heap, Here.blocks[i], size, ans)
      BY <1>3, <1>5, <1>6, <3>1, AnswerIs
    <3> QED
      BY <1>8, <3>1, <3>2
  <2>4. Full(ans.heap, ans.ptr, check, Pattern(i))
    BY <1>1, <1>2, <1>4, <2>3, WordsMoved
  <2> HIDE DEF list, check
  <2> QED
    BY <1>1, <1>3, <1>5, <1>6, <1>8, <2>1, <2>2, <2>4, GrantKeeps
<1> QED
  BY <1>7, <1>8

LEMMA FreeKeeps ==
    ASSUME DriverInv, NEW i \in Indices, EvalFree(i)
    PROVE  DriverInv'
<1> DEFINE o == [type |-> "FREE", index |-> i, size |-> 0]
           c == [blocks EXCEPT ![i] = NULL]
<1>1. /\ Ready /\ i \in InUse /\ ranges' = Removed(ranges, blocks[i])
      /\ heap' = mm_free(heap, blocks[i]) /\ blocks' = c
      /\ Recorded("FREE", i, 0, NULL)
      /\ block_sizes' = block_sizes /\ filling' = filling /\ verdict' = verdict
  BY DEF EvalFree
<1>2. o.type = "FREE" /\ o.index = i /\ o.size = 0 /\ o \in Ops
  BY DEF Ops
<1>3. /\ phase = "valid" /\ filling = Nobody /\ verdict = "valid" /\ Listed
      /\ InUse = Using(blocks)
      /\ Owned(heap, blocks, block_sizes) /\ block_sizes \in [Indices -> Nat]
      /\ \A j \in Using(blocks) : Full(heap, blocks[j], block_sizes[j], Pattern(j))
  BY <1>1, ReadyHas, ValidHas
<1>4. AnswerOn(Here, o).ptr = NULL /\ AnswerOn(Here, o).heap = heap'
  BY <1>1, <1>2 DEF AnswerOn, Here
<1> HIDE DEF o
<1>5. Legal(Here, o)
  <2>1. Here.blocks = blocks
    BY DEF Here
  <2> QED
    BY <1>1, <1>2, <1>3, <2>1 DEF Legal
<1>6. After(Here, o).heap = heap' /\ After(Here, o).blocks = blocks'
  BY <1>1, <1>2, <1>4 DEF After, Here
<1>7. phase' = "valid" /\ at' = at /\ (ops' = TooLong \/ \E L : RunOf(L)')
  BY <1>1, <1>2, <1>4, <1>5, <1>6, Answered
<1>8. Releases(heap, blocks[i], heap')
  <2>1. blocks[i] \in Held(heap) /\ blocks[i] # 8 /\ Sound(heap)
    BY <1>1, <1>3, HeldBlock DEF Owned
  <2> QED
    BY <1>1, <2>1, FreeIs
<1>9. /\ Owned(heap', c, block_sizes) /\ Using(c) = Using(blocks) \ {i}
      /\ \A j \in Using(blocks) \ {i} : Kept(heap, heap', blocks[j])
  <2>1. i \in Using(blocks) /\ \A j \in Using(blocks) \ {i} : block_sizes[j] = block_sizes[j]
    BY <1>1, <1>3
  <2> QED
    BY <1>3, <1>8, <2>1, FreeLoses, Zenon
<1>10. \A j \in Using(c) : c[j] = blocks[j] /\ j \in Indices
  <2>1. blocks \in [Indices -> Nat] /\ \A j \in Using(blocks) : j \in Indices
    BY <1>3 DEF Owned, Using
  <2> QED
    BY <1>9, <2>1
<1> HIDE DEF c
<1>11. Owned(heap', blocks', Requested')
  <2>1. Requested' = block_sizes
    BY <1>1, <1>3, <1>7 DEF Requested, RequestedSize
  <2> QED
    BY <1>1, <1>9, <2>1
<1>12. InUse' = Using(c)
  BY <1>1 DEF InUse, Using
<1>13. Listed'
  <2>1. Extents(ranges', blocks, block_sizes, Using(blocks) \ {i})
    <3>1. Extents(ranges, blocks, block_sizes, Using(blocks)) /\ i \in Using(blocks)
      BY <1>1, <1>3 DEF Listed
    <3> QED
      BY <1>1, <1>3, <3>1, RangeLeft
  <2>2. Extents(ranges', c, block_sizes, Using(c))
    BY <1>9, <1>10, <2>1 DEF Extents
  <2> QED
    BY <1>1, <1>12, <2>2 DEF Listed
<1>14. Filled'
  <2>1. ASSUME NEW j \in Using(c)
        PROVE  Full(heap', c[j], block_sizes[j], Pattern(j))
    <3>1. /\ j \in Using(blocks) /\ c[j] = blocks[j] /\ Kept(heap, heap', blocks[j])
          /\ j \in Indices
      BY <1>9, <1>10, <2>1
    <3>2. Full(heap, blocks[j], block_sizes[j], Pattern(j))
      BY <1>3, <3>1
    <3>3. Full(heap', blocks[j], block_sizes[j], Pattern(j))
      BY <1>3, <3>1, <3>2, WordsKept
    <3> QED
      BY <3>1, <3>3
  <2>2. \A j \in Indices : j # filling'.index
    BY <1>1, <1>3, IndicesAssumption DEF Nobody
  <2> QED
    BY <1>1, <1>10, <1>12, <2>1, <2>2 DEF Filled
<1>15. FillingIs' /\ Totals'
  BY <1>1, <1>3, <1>7 DEF FillingIs, Totals
<1> QED
  BY <1>1, <1>3, <1>7, <1>11, <1>13, <1>14, <1>15 DEF DriverInv

-----------------------------------------------------------------------------
(* The steps of eval_mm_util and eval_mm_speed.                            *)

(* The size last asked for block j in the first n - 1 of the requests os.  *)
LastSize(os, n, j) ==
    LET of == {m \in 1 .. n - 1 : os[m].index = j}
    IN  os[CHOOSE m \in of : \A k \in of : k <= m].size

LEMMA LastSizeIs ==
    ASSUME NEW os, NEW n \in Nat \ {0}, NEW j
    PROVE  LastSize(os, n + 1, j) = IF os[n].index = j THEN os[n].size ELSE LastSize(os, n, j)
<1> DEFINE was == {m \in 1 .. n - 1 : os[m].index = j}
           of == {m \in 1 .. n + 1 - 1 : os[m].index = j}
           last(S) == CHOOSE m \in S : \A k \in S : k <= m
<1>1. LastSize(os, n + 1, j) = os[last(of)].size /\ LastSize(os, n, j) = os[last(was)].size
  BY DEF LastSize
<1>2. CASE os[n].index = j
  <2>1. n \in of /\ \A k \in of : k <= n
    BY <1>2
  <2>2. \A m \in of : m \in Nat
    OBVIOUS
  <2> HIDE DEF of
  <2>3. last(of) = n
    <3>1. \E m \in of : \A k \in of : k <= m
      BY <2>1
    <3>2. last(of) \in of /\ \A k \in of : k <= last(of)
      BY <3>1, Zenon
    <3>3. \A m : m \in of /\ (\A k \in of : k <= m) => m = n
      BY <2>1, <2>2
    <3> QED
      BY <3>2, <3>3, Zenon
  <2> HIDE DEF last
  <2> QED
    BY <1>1, <1>2, <2>3
<1>3. CASE os[n].index # j
  <2>1. of = was
    BY <1>3
  <2> HIDE DEF of, was
  <2> QED
    BY <1>1, <1>3, <2>1
<1> QED
  BY <1>2, <1>3

LEMMA RequestedNext ==
    ASSUME DriverInv, phase \in {"util", "speed"}, NEW o, o = ops[at], o \in Ops,
           phase' = phase, ops' = ops, at' = at + 1, Noted(o)
    PROVE  /\ o.type # "FREE" => Requested'[o.index] = o.size
           /\ \A j \in Indices \ {o.index} : Requested'[j] = Requested[j]
           /\ block_sizes' \in [Indices -> Nat]
           /\ phase = "util" => Requested = block_sizes /\ Requested' = block_sizes'
<1>1. at \in Nat \ {0} /\ block_sizes \in [Indices -> Nat]
  BY DEF DriverInv
<1>2. o.index \in Indices /\ o.size \in Nat
  BY DEF Ops
<1>3. CASE phase = "util"
  <2>1. block_sizes' = IF o.type = "FREE" THEN block_sizes ELSE [block_sizes EXCEPT ![o.index] = o.size]
    BY <1>3 DEF Noted
  <2>2. block_sizes' \in [Indices -> Nat]
    BY <1>1, <1>2, <2>1
  <2>3. Requested = block_sizes /\ Requested' = block_sizes'
    BY <1>1, <1>3, <2>2 DEF Requested, RequestedSize
  <2> QED
    BY <1>1, <1>2, <1>3, <2>1, <2>2, <2>3
<1>4. CASE phase = "speed"
  <2>1. block_sizes' = block_sizes
    BY <1>4 DEF Noted
  <2>2. \A j \in Indices : Requested[j] = LastSize(ops, at, j)
    BY <1>4 DEF Requested, RequestedSize, LastSize
  <2>3. \A j \in Indices : Requested'[j] = LastSize(ops, at + 1, j)
    BY <1>4 DEF Requested, RequestedSize, LastSize
  <2>4. \A j \in Indices : LastSize(ops, at + 1, j) =
            IF ops[at].index = j THEN ops[at].size ELSE LastSize(ops, at, j)
    BY <1>1, LastSizeIs, Zenon
  <2> QED
    BY <1>1, <1>2, <1>4, <2>1, <2>2, <2>3, <2>4
<1> QED
  BY <1>3, <1>4

LEMMA ReplayAnswered ==
    ASSUME DriverInv, Replay
    PROVE  LET o == ops[at]
           IN  /\ o \in Ops /\ Succeeds(Here, Requested, o, Requested')
               /\ heap' = After(Here, o).heap /\ blocks' = After(Here, o).blocks
               /\ block_sizes' \in [Indices -> Nat]
               /\ phase = "util" => Requested = block_sizes /\ Requested' = block_sizes'
               /\ \E M : RunOf(M)'
               /\ at' = at + 1 /\ Noted(o) /\ phase \in {"util", "speed"}
               /\ UNCHANGED <<phase, ranges, filling, verdict, ops, answers>>
<1> DEFINE o == ops[at]
           a == AnswerOn(Here, o)
<1>1. /\ phase \in {"util", "speed"} /\ verdict = "valid" /\ ops # TooLong
      /\ at \in Nat \ {0} /\ block_sizes \in [Indices -> Nat]
      /\ Owned(heap, blocks, Requested)
      /\ ~ (at > Len(ops)) /\ filling = Nobody
  BY DEF Replay, Replaying, Replayed, DriverInv, FillingIs
<1>2. PICK L : RunOf(L)
  BY <1>1 DEF DriverInv
<1> DEFINE x == L[at - 1]
<1>3. /\ IsRun(L, ops, answers) /\ ops \in Seq(Ops) /\ Len(ops) \in Nat
      /\ Pos = at - 1 /\ blocks = x.blocks /\ Alike(heap, x.heap)
      /\ at \in 1 .. Len(ops)
  <2>1. /\ IsRun(L, ops, answers) /\ Pos = at - 1
        /\ blocks = x.blocks /\ Alike(heap, x.heap)
    BY <1>1, <1>2 DEF RunOf, Pos
  <2>2. ops \in Seq(Ops)
    BY <2>1 DEF IsRun
  <2>3. Len(ops) \in Nat
    BY <2>2, LenProperties
  <2>4. at \in 1 .. Len(ops)
    BY <1>1, <2>3
  <2> QED
    BY <2>1, <2>2, <2>3, <2>4
<1>4. Follows(x, o, L[at], answers[at])
  BY <1>3 DEF IsRun
<1>5. /\ Legal(x, o) /\ L[at] = After(x, o) /\ o \in Ops
      /\ o.type # "FREE" => AnswerOn(x, o).ptr # NULL
  BY <1>4 DEF Follows, Legal
<1>6. Here.heap = heap /\ Here.blocks = blocks
  BY DEF Here
<1>7. Owned(x.heap, x.blocks, Requested) /\ Alike(x.heap, Here.heap) /\ Here.blocks = x.blocks
  <2> HIDE DEF x
  <2> QED
    BY <1>1, <1>3, <1>6, OwnedAlike, AlikeBoth
<1> HIDE DEF x, o
<1>8. /\ AnswerOn(x, o).ptr = AnswerOn(Here, o).ptr
      /\ Alike(After(x, o).heap, After(Here, o).heap)
      /\ After(x, o).blocks = After(Here, o).blocks
      /\ Legal(Here, o)
  BY <1>5, <1>7, AnswerAlike, Zenon
<1>9. Answer(o) = a
  BY DEF Answer, AnswerOn, Here
<1>10. o.type # "FREE" => a.ptr # NULL
  BY <1>5, <1>8
<1>11. /\ heap' = a.heap /\ blocks' = [blocks EXCEPT ![o.index] = a.ptr]
       /\ at' = at + 1 /\ Noted(o) /\ phase' = phase
       /\ ranges' = ranges /\ filling' = filling /\ verdict' = verdict
       /\ ops' = ops /\ answers' = answers
  <2> HIDE DEF a
  <2> QED
    BY <1>9, <1>10 DEF Replay, o
<1>12. heap' = After(Here, o).heap /\ blocks' = After(Here, o).blocks
  BY <1>6, <1>11 DEF After
<1>13. /\ o.type # "FREE" => Requested'[o.index] = o.size
       /\ \A j \in Indices \ {o.index} : Requested'[j] = Requested[j]
       /\ block_sizes' \in [Indices -> Nat]
       /\ phase = "util" => Requested = block_sizes /\ Requested' = block_sizes'
  BY <1>1, <1>5, <1>11, RequestedNext DEF o
<1> HIDE DEF a
<1>14. \A j \in Using(blocks) \ {o.index} : Requested'[j] = Requested[j]
  BY <1>13 DEF Using
<1>15. Succeeds(Here, Requested, o, Requested')
  BY <1>1, <1>6, <1>8, <1>10, <1>13, <1>14 DEF Succeeds, a
<1>16. \E M : RunOf(M)'
  <2>1. Pos' = at /\ at \in 0 .. Len(ops)
    BY <1>1, <1>3, <1>11 DEF Pos
  <2>2. Alike(heap', L[at].heap) /\ blocks' = L[at].blocks
    BY <1>5, <1>8, <1>12, AlikeBoth
  <2>3. RunOf(L)'
    BY <1>3, <1>11, <2>1, <2>2 DEF RunOf
  <2> QED
    BY <2>3
<1> QED
  BY <1>1, <1>5, <1>11, <1>12, <1>13, <1>15, <1>16 DEF o

LEMMA ReplayKeeps == ASSUME DriverInv, Replay PROVE DriverInv'
<1> DEFINE o == ops[at]
<1>1. /\ phase \in {"util", "speed"} /\ verdict = "valid" /\ ops # TooLong
      /\ at \in Nat \ {0} /\ block_sizes \in [Indices -> Nat]
      /\ Owned(heap, blocks, Requested) /\ filling = Nobody
  BY DEF Replay, Replaying, Replayed, DriverInv, FillingIs
<1>5. o \in Ops /\ Succeeds(Here, Requested, o, Requested')
  BY ReplayAnswered
<1>6. Here.heap = heap /\ Here.blocks = blocks
  BY DEF Here
<1>11. /\ at' = at + 1 /\ Noted(o) /\ phase' = phase
       /\ ranges' = ranges /\ filling' = filling /\ verdict' = verdict
       /\ ops' = ops /\ answers' = answers
  BY ReplayAnswered
<1>12. heap' = After(Here, o).heap /\ blocks' = After(Here, o).blocks
  BY ReplayAnswered
<1>13. /\ block_sizes' \in [Indices -> Nat]
       /\ phase = "util" => Requested = block_sizes /\ Requested' = block_sizes'
  BY ReplayAnswered
<1>16. \E M : RunOf(M)'
  BY ReplayAnswered
<1> HIDE DEF o
<1>15. /\ Owned(heap', blocks', Requested') /\ heap.brk <= heap'.brk
  <2>1. Obeys(Here, o, After(Here, o), Requested')
    BY <1>5, AnswerOwned
  <2> QED
    BY <1>6, <1>12, <2>1 DEF Obeys
<1>17. Totals'
  <2>1. total.max \in Nat /\ total.max <= heap.brk /\ heap.brk \in Nat /\ heap'.brk \in Nat
    BY <1>1, <1>15, OwnedHas DEF DriverInv, Totals
  <2>2. CASE phase = "util"
    <3> DEFINE N == Cardinality(Bytes(blocks, block_sizes))
               N1 == Cardinality(Bytes(blocks', block_sizes'))
    <3>1. /\ Owned(heap, blocks, block_sizes) /\ Owned(heap', blocks', block_sizes')
          /\ total.now = N
      BY <1>1, <1>13, <1>15, <2>2 DEF DriverInv, Totals
    <3>2. N \in Nat /\ N1 \in Nat /\ N1 <= heap'.brk
      BY <3>1, BytesFinite DEF Bytes
    <3>3. N1 = N + Change(block_sizes, o)
      <4>1. Succeeds(Here, block_sizes, o, block_sizes')
        BY <1>5, <1>13, <2>2
      <4>2. Cardinality(Bytes(After(Here, o).blocks, block_sizes')) =
                Cardinality(Bytes(Here.blocks, block_sizes)) + Change(block_sizes, o)
        BY <4>1, AnswerBytes
      <4> QED
        BY <1>6, <1>12, <4>2
    <3> HIDE DEF N, N1
    <3>4. TotalAfter(o) = N1
      <4>1. /\ o.type \in {"ALLOC", "REALLOC", "FREE"} /\ o.size \in Nat
            /\ block_sizes[o.index] \in Nat
        BY <1>1, <1>5 DEF Ops
      <4> QED
        BY <3>1, <3>2, <3>3, <4>1 DEF TotalAfter, Change
    <3>5. total' = [now |-> N1, max |-> max(total.max, N1)]
      BY <1>11, <2>2, <3>4 DEF Noted
    <3>6. total'.now = N1 /\ total'.max = max(total.max, N1)
      BY <3>5
    <3>7. total'.max \in Nat /\ total'.max <= heap'.brk
      BY <1>15, <2>1, <3>2, <3>6 DEF max
    <3> QED
      BY <3>6, <3>7 DEF Totals, N1
  <2>3. CASE phase = "speed"
    <3>1. total' = total /\ phase' = "speed"
      BY <1>11, <2>3 DEF Noted
    <3>2. total'.max \in Nat /\ total'.max <= heap'.brk
      BY <1>15, <2>1, <3>1
    <3> QED
      BY <3>1, <3>2 DEF Totals
  <2> QED
    BY <1>1, <2>2, <2>3
<1>18. at' \in Nat \ {0}
  BY <1>1, <1>11
<1>19. FillingIs'
  BY <1>1, <1>11 DEF FillingIs
<1> QED
  BY <1>1, <1>11, <1>13, <1>15, <1>16, <1>17, <1>18, <1>19 DEF DriverInv

(* What holds between the steps of the driver, whatever the trace.         *)
LEMMA DriverAlways == Spec => []DriverInv
<1>1. Init => DriverInv
  BY DriverInit
<1>2. DriverInv /\ [Next]_vars => DriverInv'
  <2> SUFFICES ASSUME DriverInv, [Next]_vars PROVE DriverInv'
    OBVIOUS
  <2>1. CASE NextTrace
    BY <2>1, NextTraceKeeps
  <2>2. CASE NextRun
    BY <2>2, NextRunKeeps
  <2>3. CASE Replay
    BY <2>3, ReplayKeeps
  <2>4. ASSUME NEW i \in Indices, NEW size \in Sizes, EvalAlloc(i, size)
        PROVE  DriverInv'
    BY <2>4, AllocKeeps
  <2>5. ASSUME NEW i \in Indices, NEW size \in Sizes, EvalRealloc(i, size)
        PROVE  DriverInv'
    BY <2>5, ReallocKeeps
  <2>6. ASSUME NEW i \in Indices, EvalFree(i)
        PROVE  DriverInv'
    BY <2>6, FreeKeeps
  <2>7. CASE Fill
    BY <2>7, FillKeeps
  <2>8. CASE UNCHANGED vars
    <3>1. /\ heap' = heap /\ ranges' = ranges /\ blocks' = blocks /\ block_sizes' = block_sizes
          /\ filling' = filling /\ verdict' = verdict /\ phase' = phase /\ ops' = ops
          /\ answers' = answers /\ at' = at /\ total' = total
      BY <2>8 DEF vars
    <3>2. Requested' = Requested /\ InUse' = InUse /\ Pos' = Pos
      BY <3>1 DEF Requested, RequestedSize, InUse, Pos
    <3>3. Owned(heap', blocks', Requested')
      BY <3>1, <3>2 DEF DriverInv
    <3>4. phase' = "valid" => Listed' /\ Filled'
      BY <3>1, <3>2 DEF DriverInv, Listed, Filled
    <3>5. FillingIs' /\ Totals'
      BY <3>1, <3>2 DEF DriverInv, FillingIs, Totals
    <3>6. \A L : RunOf(L) => RunOf(L)'
      BY <3>1, <3>2 DEF RunOf
    <3> QED
      BY <3>1, <3>3, <3>4, <3>5, <3>6 DEF DriverInv
  <2> QED
    BY <2>1, <2>2, <2>3, <2>4, <2>5, <2>6, <2>7, <2>8 DEF Next
<1> QED
  BY <1>1, <1>2, PTL DEF Spec

-----------------------------------------------------------------------------
(* The properties.                                                         *)

LEMMA TiledFromInv == ASSUME DriverInv PROVE HeapTiled
<1> DEFINE B == BlocksOf(heap)
<1>1. /\ Tiling(heap, B) /\ Coalesced(heap, B)
  BY DEF DriverInv, Owned, Sound
<1> HIDE DEF B
<1>2. /\ heap.brk \in Nat /\ heap.brk <= MAX_HEAP /\ GET(heap, heap.brk - 4) = 1
  BY <1>1, EndIs
<1>3. heap_listp = 8 /\ 8 \in B
  BY <1>1 DEF heap_listp, WSIZE, Tiling
<1>4. ASSUME NEW p \in B
      PROVE  /\ Size(p) % DSIZE = 0
             /\ p # heap_listp => Size(p) >= 2 * DSIZE
             /\ GET(heap, HDRP(p)) = GET(heap, FTRP(heap, p))
             /\ NEXT_BLKP(heap, p) \in B \cup {heap.brk}
             /\ Allocated(p) \/ Allocated(NEXT_BLKP(heap, p))
  <2>1. /\ p \in Nat /\ Sz(heap, p) \in Nat /\ Sz(heap, p) % 8 = 0
        /\ p # 8 => Sz(heap, p) >= 16
        /\ GET(heap, p - 4) = GET(heap, p + Sz(heap, p) - 8)
        /\ p + Sz(heap, p) \in B \cup {heap.brk}
    BY <1>1, BlockIs
  <2>2. Al(heap, p) = 1 \/ Al(heap, p + Sz(heap, p)) = 1
    BY <1>1 DEF Coalesced
  <2>3. /\ Size(p) = Sz(heap, p) /\ HDRP(p) = p - 4
        /\ FTRP(heap, p) = p + Sz(heap, p) - 8 /\ NEXT_BLKP(heap, p) = p + Sz(heap, p)
    BY DEF Size, Sz, FTRP, HDRP, NEXT_BLKP, WSIZE, DSIZE
  <2>4. \A q : Allocated(q) <=> Al(heap, q) = 1
    BY DEF Allocated, Al
  <2> QED
    BY <1>3, <2>1, <2>2, <2>3, <2>4 DEF DSIZE
<1>5. GET(heap, HDRP(heap.brk)) = PACK(0, 1)
  BY <1>2 DEF HDRP, PACK, WSIZE
<1>6. Size(heap_listp) = DSIZE /\ Allocated(heap_listp)
  <2>1. Sz(heap, 8) = 8 /\ Al(heap, 8) = 1
    BY <1>1, <1>3, BlockIs
  <2> QED
    BY <1>3, <2>1 DEF Size, Allocated, Sz, Al, DSIZE
<1> QED
  BY <1>2, <1>4, <1>5, <1>6 DEF HeapTiled, Blocks, B

LEMMA InUseFromInv == ASSUME DriverInv PROVE AllocatedAreInUse
<1>1. /\ Owned(heap, blocks, Requested) /\ InUse = Using(blocks) /\ heap_listp = 8
  <2>1. Owned(heap, blocks, Requested)
    BY DEF DriverInv
  <2>2. InUse = Using(blocks)
    BY DEF InUse, Using
  <2> QED
    BY <2>1, <2>2 DEF heap_listp, WSIZE
<1>2. {p \in Blocks : Allocated(p)} = Held(heap)
  BY DEF Blocks, Allocated, Held, InUseOf, Al
<1>3. Held(heap) = {8} \cup {blocks[i] : i \in InUse}
  BY <1>1 DEF Owned
<1>4. ASSUME NEW i \in InUse PROVE Size(blocks[i]) - DSIZE >= RequestedSize(i)
  <2>1. i \in Using(blocks) /\ i \in Indices
    BY <1>1 DEF InUse
  <2>2. Sz(heap, blocks[i]) - 8 >= Requested[i]
    BY <1>1, <2>1, OwnedHas
  <2>3. Requested[i] = RequestedSize(i)
    BY <2>1 DEF Requested
  <2>4. Size(blocks[i]) = Sz(heap, blocks[i])
    BY DEF Size, Sz
  <2> QED
    BY <2>2, <2>3, <2>4 DEF DSIZE
<1> QED
  BY <1>1, <1>2, <1>3, <1>4 DEF AllocatedAreInUse

LEMMA NoFaultFromInv == ASSUME DriverInv PROVE DriverFindsNoFault
<1>1. verdict # "bad range"
  BY DEF DriverInv
<1>2. phase = "valid" =>
          {ranges[k] : k \in DOMAIN ranges} = {NewRange(blocks[i], block_sizes[i]) : i \in InUse}
  BY DEF DriverInv, Listed, Extents, Elems
<1>3. ASSUME verdict = "data not preserved"
      PROVE  LET i == filling.index
             IN  /\ LowByte(i) >= 128
                 /\ \A a \in Addresses :
                        a \in blocks[i] .. blocks[i] + filling.check - 1 => GET(heap, a) = Pattern(i)
  <2> DEFINE i == filling.index
  <2>1. LowByte(i) >= 128 /\ i \in InUse /\ phase = "valid"
    BY <1>3 DEF DriverInv, FillingIs
  <2>2. Full(heap, blocks[i], filling.check, Pattern(i))
    BY <2>1, ValidHas DEF Filled
  <2> QED
    BY <2>1, <2>2 DEF Full, Words
<1> QED
  BY <1>1, <1>2, <1>3 DEF DriverFindsNoFault

LEMMA AgreeFromInv == ASSUME DriverInv PROVE ReplaysAgree
<1>1. phase # "exit"
  BY DEF DriverInv
<1>2. ASSUME Replaying
      PROVE  /\ \A n \in {at - 1} \ {0} :
                    blocks[ops[n].index] = answers[n].ptr /\ heap.brk = answers[n].brk
             /\ total.max <= heap.brk
  <2>1. phase # "valid" /\ verdict = "valid" /\ ops # TooLong /\ blocks \in [Indices -> Nat]
    BY <1>2 DEF Replaying, DriverInv, Owned
  <2>2. PICK L : RunOf(L)
    BY <2>1 DEF DriverInv
  <2>3. ASSUME NEW n, n = at - 1, n # 0
        PROVE  blocks[ops[n].index] = answers[n].ptr /\ heap.brk = answers[n].brk
    <3> DEFINE x == L[n - 1]
               o == ops[n]
    <3>1. /\ Pos = n /\ Pos \in 0 .. Len(ops) /\ IsRun(L, ops, answers)
          /\ blocks = L[n].blocks /\ Alike(heap, L[n].heap)
      BY <2>1, <2>2, <2>3 DEF RunOf, Pos
    <3>2. n \in 1 .. Len(ops)
      <4>1. ops \in Seq(Ops)
        BY <3>1 DEF IsRun
      <4>2. Len(ops) \in Nat
        BY <4>1, LenProperties
      <4>3. n \in 0 .. Len(ops)
        BY <3>1
      <4>4. n # 0
        BY <2>3
      <4> DEFINE k == Len(ops)
      <4>5. k \in Nat /\ n \in 0 .. k
        BY <4>2, <4>3
      <4> HIDE DEF k
      <4>6. n \in 1 .. k
        BY <4>4, <4>5
      <4> QED
        BY <4>6 DEF k
    <3>3. Follows(x, o, L[n], answers[n])
      BY <3>1, <3>2 DEF IsRun
    <3>4. /\ o.index \in Indices /\ L[n] = After(x, o)
          /\ answers[n].ptr = AnswerOn(x, o).ptr /\ answers[n].brk = L[n].heap.brk
      BY <3>3 DEF Follows, Legal, Ops
    <3>5. heap.brk = answers[n].brk
      BY <3>1, <3>4, AlikeHas
    <3>6. blocks = [x.blocks EXCEPT ![o.index] = AnswerOn(x, o).ptr]
      BY <3>1, <3>4 DEF After
    <3> HIDE DEF x, o
    <3>7. blocks[o.index] = AnswerOn(x, o).ptr
      BY <2>1, <3>4, <3>6
    <3> QED
      BY <3>4, <3>5, <3>7 DEF o
  <2>4. total.max <= heap.brk
    BY <2>1 DEF DriverInv, Totals
  <2> QED
    BY <2>3, <2>4
<1> QED
  BY <1>1, <1>2 DEF ReplaysAgree

(* The blocks of the heap always follow each other without gap or overlap, *)
(* with equal tags, from the prologue to the epilogue, no two free ones    *)
(* side by side: whatever place, coalesce and extend_heap write, the next  *)
(* walk of find_fit is not led astray.                                     *)
THEOREM AlwaysTiled == Spec => []HeapTiled
<1>1. DriverInv => HeapTiled
  BY TiledFromInv
<1> QED
  BY <1>1, DriverAlways, PTL

(* The allocated blocks are the prologue and those the trace holds, each   *)
(* with room for what was asked: mm_malloc, mm_realloc and mm_free leak    *)
(* none and hand none out twice.                                           *)
THEOREM AllocatedInUse == Spec => []AllocatedAreInUse
<1>1. DriverInv => AllocatedAreInUse
  BY InUseFromInv
<1> QED
  BY <1>1, DriverAlways, PTL

(* eval_mm_valid finds no range of this allocator misaligned, outside the  *)
(* heap or overlapping, and its list of ranges has the extents of the      *)
(* blocks in use; where it misses the data of a realloc, the data is there *)
(* and the index has a low byte that is negative as a char.                *)
THEOREM NeverFaulted == Spec => []DriverFindsNoFault
<1>1. DriverInv => DriverFindsNoFault
  BY NoFaultFromInv
<1> QED
  BY <1>1, DriverAlways, PTL

(* eval_mm_util and eval_mm_speed get the answers eval_mm_valid got, in a  *)
(* heap as large, although the memory they start in is not fresh; so they  *)
(* never call app_error, and never count more bytes than the heap has.     *)
THEOREM ReplaysAlwaysAgree == Spec => []ReplaysAgree
<1>1. DriverInv => ReplaysAgree
  BY AgreeFromInv
<1> QED
  BY <1>1, DriverAlways, PTL

-----------------------------------------------------------------------------
(* What the client sees of a heap: the payloads of the blocks b, of the    *)
(* sizes s, in h.                                                          *)
Payload(h, p, n) ==
    [size |-> n, data |-> [k \in 0 .. (n - 1) \div WSIZE |-> GET(h, p + k * WSIZE)]]

LiveOf(h, b, s) ==
    [p \in {b[i] : i \in Using(b)} |-> Payload(h, p, s[CHOOSE j \in Using(b) : b[j] = p])]

LEMMA LiveIs ==
    /\ Live = LiveOf(heap, blocks, Requested)
    /\ Live' = LiveOf(heap', blocks', Requested')
<1>1. InUse = Using(blocks) /\ InUse' = Using(blocks')
  BY DEF InUse, Using
<1>2. \A i \in Using(blocks) : Requested[i] = RequestedSize(i)
  BY DEF Requested, Using
<1>3. \A i \in Using(blocks') : Requested'[i] = RequestedSize(i)'
  BY DEF Requested, Using
<1>4. \A p \in {blocks[i] : i \in Using(blocks)} :
          (CHOOSE j \in Using(blocks) : blocks[j] = p) \in Using(blocks)
  OBVIOUS
<1>5. \A p \in {blocks'[i] : i \in Using(blocks')} :
          (CHOOSE j \in Using(blocks') : blocks'[j] = p) \in Using(blocks')
  OBVIOUS
<1>6. Live = LiveOf(heap, blocks, Requested)
  <2> DEFINE D == {blocks[i] : i \in Using(blocks)}
             F(p) == Payload(heap, p, RequestedSize(CHOOSE j \in Using(blocks) : blocks[j] = p))
             G(p) == Payload(heap, p, Requested[CHOOSE j \in Using(blocks) : blocks[j] = p])
  <2>1. Live = [p \in D |-> F(p)]
    BY <1>1, Zenon DEF Live, Payload
  <2>2. \A p \in D : F(p) = G(p)
    BY <1>2, <1>4, Zenon
  <2>3. LiveOf(heap, blocks, Requested) = [p \in D |-> G(p)]
    BY Zenon DEF LiveOf
  <2> HIDE DEF D, F, G
  <2> QED
    BY <2>1, <2>2, <2>3
<1>7. Live' = LiveOf(heap', blocks', Requested')
  <2> DEFINE D == {blocks'[i] : i \in Using(blocks')}
             size(p) == RequestedSize(CHOOSE j \in Using(blocks) : blocks[j] = p)'
             F(p) == Payload(heap', p, size(p))
             G(p) == Payload(heap', p, Requested'[CHOOSE j \in Using(blocks') : blocks'[j] = p])
  <2>1. Live' = [p \in D |-> F(p)]
    BY <1>1, Zenon DEF Live, Payload
  <2>2. \A p \in D : F(p) = G(p)
    BY <1>3, <1>5, Zenon
  <2>3. LiveOf(heap', blocks', Requested') = [p \in D |-> G(p)]
    BY Zenon DEF LiveOf
  <2> HIDE DEF D, F, G
  <2> QED
    BY <2>1, <2>2, <2>3
<1> QED
  BY <1>6, <1>7

Shows(u, h, b, s) ==
    /\ DOMAIN u = {b[i] : i \in Using(b)}
    /\ \A i \in Using(b) : u[b[i]] = Payload(h, b[i], s[i])

LEMMA LiveHas ==
    ASSUME NEW h, NEW b, NEW s, Owned(h, b, s)
    PROVE  Shows(LiveOf(h, b, s), h, b, s)
<1>1. \A i, j \in Using(b) : b[i] = b[j] => i = j
  BY DEF Owned
<1>2. ASSUME NEW i \in Using(b)
      PROVE  LiveOf(h, b, s)[b[i]] = Payload(h, b[i], s[i])
  <2>1. (CHOOSE j \in Using(b) : b[j] = b[i]) = i
    BY <1>1
  <2>2. LiveOf(h, b, s)[b[i]] = Payload(h, b[i], s[CHOOSE j \in Using(b) : b[j] = b[i]])
    BY DEF LiveOf
  <2> QED
    BY <2>1, <2>2
<1>3. DOMAIN LiveOf(h, b, s) = {b[i] : i \in Using(b)}
  BY DEF LiveOf
<1> QED
  BY <1>2, <1>3 DEF Shows

LEMMA NothingLive ==
    ASSUME NEW h, NEW b, NEW s, Using(b) = {}
    PROVE  LiveOf(h, b, s) = << >>
<1>1. {b[i] : i \in Using(b)} = {}
  OBVIOUS
<1> QED
  BY <1>1 DEF LiveOf

LEMMA PayloadKept ==
    ASSUME NEW h, NEW b, NEW s, Owned(h, b, s), NEW j \in Using(b), NEW g, Kept(h, g, b[j])
    PROVE  Payload(g, b[j], s[j]) = Payload(h, b[j], s[j])
<1> DEFINE p == b[j]
           n == s[j]
<1>1. p \in Nat /\ n \in Nat \ {0} /\ Sz(h, p) \in Nat /\ Sz(h, p) - 8 >= n
  BY OwnedHas
<1>2. \A w \in Int : p - 4 <= w /\ w < p + Sz(h, p) - 4 => GET(g, w) = GET(h, w)
  BY DEF Kept
<1> HIDE DEF p, n
<1>3. ASSUME NEW k \in 0 .. (n - 1) \div 4
      PROVE  GET(g, p + k * 4) = GET(h, p + k * 4)
  <2>1. k \in Nat /\ k * 4 <= n - 1
    BY <1>1
  <2>2. p + k * 4 \in Int /\ p - 4 <= p + k * 4 /\ p + k * 4 < p + Sz(h, p) - 4
    BY <1>1, <2>1
  <2> QED
    BY <1>2, <2>2
<1>4. [k \in 0 .. (n - 1) \div 4 |-> GET(g, p + k * 4)] = [k \in 0 .. (n - 1) \div 4 |-> GET(h, p + k * 4)]
  BY <1>3
<1> QED
  BY <1>4 DEF Payload, WSIZE, p, n

(* The steps of AbstractHeap, from the payloads u to the payloads v.       *)
Stays(u, v, S) == \A q \in S : v[q] = u[q]

MayHave(u, p, n, S) ==
    /\ n > 0
    /\ p % ALIGNMENT = 0
    /\ p .. p + n - 1 \subseteq 0 .. MAX_HEAP - 1
    /\ \A q \in S : (p .. p + n - 1) \cap (q .. q + u[q].size - 1) = {}

Allocates(u, v) ==
    \E p \in DOMAIN v \ DOMAIN u :
        /\ DOMAIN v = DOMAIN u \cup {p}
        /\ MayHave(u, p, v[p].size, DOMAIN u)
        /\ Stays(u, v, DOMAIN u)

Frees(u, v) ==
    \E p \in DOMAIN u :
        /\ DOMAIN v = DOMAIN u \ {p}
        /\ Stays(u, v, DOMAIN u \ {p})

Carries(u, p, v, q) ==
    \A k \in DOMAIN u[p].data \cap DOMAIN v[q].data : v[q].data[k] = u[p].data[k]

Reallocates(u, v) ==
    \E p \in DOMAIN u, q \in DOMAIN v :
        /\ DOMAIN v = (DOMAIN u \ {p}) \cup {q}
        /\ MayHave(u, q, v[q].size, DOMAIN u \ {p})
        /\ Carries(u, p, v, q)
        /\ Stays(u, v, DOMAIN u \ {p})

Overwrites(u, v) ==
    \E p \in DOMAIN u :
        /\ DOMAIN v = DOMAIN u
        /\ v[p].size = u[p].size
        /\ DOMAIN v[p].data = DOMAIN u[p].data
        /\ Stays(u, v, DOMAIN u \ {p})

AbstractStep(u, v) ==
    Allocates(u, v) \/ Frees(u, v) \/ Reallocates(u, v) \/ Overwrites(u, v) \/ v = << >>

LEMMA AbstractStepIs == AbstractStep(Live, Live') => Abstract!NextHeap
BY DEF AbstractStep, Allocates, Frees, Reallocates, Overwrites, Carries, Stays, MayHave,
   Abstract!NextHeap, Abstract!Allocate, Abstract!Free, Abstract!Reallocate, Abstract!Write,
   Abstract!Reset, Abstract!Kept, Abstract!Grantable, Abstract!Extent

(* From u to v a payload of n bytes at p joins those at S.                 *)
Joins(u, v, S, p, n) ==
    /\ DOMAIN v = S \cup {p} /\ p \notin S
    /\ Stays(u, v, S)
    /\ MayHave(u, p, n, S) /\ v[p].size = n

Places(b, J) == {b[j] : j \in J}

(* Block i of c, in g, is apart from the blocks J, and those are as in h.  *)
LEMMA GrantedIs ==
    ASSUME NEW h, NEW b, NEW s, Owned(h, b, s), NEW i,
           NEW g, NEW c, NEW t, Owned(g, c, t), i \in Using(c),
           NEW J, J = Using(b) \ {i}, Using(c) = J \cup {i},
           \A j \in J : c[j] = b[j] /\ t[j] = s[j] /\ Kept(h, g, b[j]),
           NEW u, u = LiveOf(h, b, s), NEW v, v = LiveOf(g, c, t)
    PROVE  Joins(u, v, Places(b, J), c[i], t[i])
<1>1. /\ DOMAIN u = {b[j] : j \in Using(b)} /\ DOMAIN v = {c[j] : j \in Using(c)}
      /\ \A j \in Using(b) : u[b[j]] = Payload(h, b[j], s[j])
      /\ \A j \in Using(c) : v[c[j]] = Payload(g, c[j], t[j])
  <2>1. Shows(u, h, b, s) /\ Shows(v, g, c, t)
    BY LiveHas
  <2> QED
    BY <2>1 DEF Shows
<1>2. {c[j] : j \in Using(c)} = {b[j] : j \in J} \cup {c[i]}
  OBVIOUS
<1>3. ASSUME NEW j \in J
      PROVE  v[b[j]] = u[b[j]] /\ u[b[j]].size = t[j]
  <2>1. j \in Using(b) /\ j \in Using(c) /\ c[j] = b[j] /\ t[j] = s[j] /\ Kept(h, g, b[j])
    OBVIOUS
  <2>2. Payload(g, b[j], s[j]) = Payload(h, b[j], s[j])
    BY <2>1, PayloadKept
  <2> QED
    BY <1>1, <2>1, <2>2 DEF Payload
<1>4. /\ g.brk \in Nat /\ g.brk <= MAX_HEAP
      /\ \A j \in Using(c) : /\ c[j] \in Nat /\ c[j] >= 16 /\ c[j] % 8 = 0
                             /\ t[j] \in Nat \ {0} /\ c[j] + t[j] <= g.brk - 8
      /\ \A j \in Using(c) : j # i => c[i] + t[i] + 8 <= c[j] \/ c[j] + t[j] + 8 <= c[i]
  BY OwnedHas
<1>5. MAX_HEAP \in Nat
  BY HeapAssumption
<1> DEFINE p == c[i]
           n == t[i]
<1>6. p \in Nat /\ n \in Nat \ {0} /\ p + n <= MAX_HEAP /\ p % ALIGNMENT = 0
  BY <1>4, <1>5, Aligned
<1>7. ASSUME NEW j \in J
      PROVE  p # b[j] /\ (p .. p + n - 1) \cap (b[j] .. b[j] + u[b[j]].size - 1) = {}
  <2>1. /\ b[j] \in Nat /\ t[j] \in Nat \ {0} /\ u[b[j]].size = t[j]
        /\ p + n + 8 <= b[j] \/ b[j] + t[j] + 8 <= p
    BY <1>3, <1>4
  <2> QED
    BY <1>6, <2>1
<1>8. p .. p + n - 1 \subseteq 0 .. MAX_HEAP - 1
  BY <1>5, <1>6
<1>9. v[c[i]].size = t[i]
  <2>1. v[c[i]] = Payload(g, c[i], t[i])
    BY <1>1
  <2>2. Payload(g, c[i], t[i]).size = t[i]
    BY DEF Payload
  <2> QED
    BY <2>1, <2>2
<1>10. MayHave(u, c[i], t[i], {b[j] : j \in J})
  BY <1>6, <1>7, <1>8 DEF MayHave
<1>11. Stays(u, v, {b[j] : j \in J})
  BY <1>3 DEF Stays
<1>12. c[i] \notin {b[j] : j \in J}
  BY <1>7
<1>13. DOMAIN v = {b[j] : j \in J} \cup {c[i]}
  BY <1>1, <1>2
<1> QED
  BY <1>9, <1>10, <1>11, <1>12, <1>13 DEF Joins, Places

LEMMA WordsCarried ==
    ASSUME NEW h, NEW b, NEW s, Owned(h, b, s), NEW i \in Using(b),
           NEW size \in Nat \ {0}, NEW ans, Moves(h, b[i], size, ans),
           NEW k \in Nat, k <= (s[i] - 1) \div 4, k <= (size - 1) \div 4
    PROVE  GET(ans.heap, ans.ptr + k * 4) = GET(h, b[i] + k * 4)
<1> DEFINE p == b[i]
           q == ans.ptr
           n == s[i]
           a == q + k * 4
<1>1. p \in Nat /\ n \in Nat \ {0} /\ Sz(h, p) \in Nat /\ Sz(h, p) - 8 >= n
  BY OwnedHas
<1>2. /\ q \in Nat /\ q % 8 = 0 /\ Sz(ans.heap, q) \in Nat /\ Sz(ans.heap, q) >= size + 8
      /\ q + Sz(ans.heap, q) <= ans.heap.brk /\ ans.heap.brk \in Nat /\ ans.heap.brk <= MAX_HEAP
  BY SoundHas DEF Moves
<1>3. \A w \in Addresses : w \in q .. q + min(size, Sz(h, p) - 8) - 1 =>
          GET(ans.heap, w) = GET(h, p + (w - q))
  BY DEF Moves
<1> HIDE DEF p, q, n
<1>4. k * 4 <= n - 1 /\ k * 4 <= size - 1
  BY <1>1 DEF n
<1>5. MAX_HEAP \in Nat
  BY HeapAssumption
<1>6. a \in Int /\ 0 <= a /\ a % 4 = 0 /\ a + 4 <= MAX_HEAP
  BY <1>2, <1>4, <1>5
<1>7. a \in Addresses
  BY <1>6, AddressIs
<1>8. a \in q .. q + min(size, Sz(h, p) - 8) - 1
  BY <1>1, <1>2, <1>4 DEF min
<1>9. p + (a - q) = p + k * 4
  BY <1>1, <1>2
<1> QED
  BY <1>3, <1>7, <1>8, <1>9 DEF p, q

(* Whatever the driver asks for, when it is answered the client sees a step *)
(* of AbstractHeap.                                                         *)
LEMMA AnswerShown ==
    ASSUME NEW x, NEW s, NEW o, NEW t, Succeeds(x, s, o, t),
           NEW u, u = LiveOf(x.heap, x.blocks, s),
           NEW v, v = LiveOf(After(x, o).heap, After(x, o).blocks, t)
    PROVE  AbstractStep(u, v)
<1> DEFINE h == x.heap
           b == x.blocks
           i == o.index
           g == After(x, o).heap
           c == After(x, o).blocks
           J == Using(b) \ {i}
<1>1. /\ Owned(h, b, s) /\ Legal(x, o)
      /\ o.type # "FREE" => AnswerOn(x, o).ptr # NULL /\ t[i] = o.size
      /\ \A j \in J : t[j] = s[j]
  BY DEF Succeeds
<1>2. Obeys(x, o, After(x, o), t)
  BY AnswerOwned
<1>3. /\ Owned(g, c, t)
      /\ Using(c) = IF o.type = "FREE" THEN J ELSE Using(b) \cup {i}
      /\ \A j \in J : c[j] = b[j] /\ Kept(h, g, b[j])
  BY <1>2 DEF Obeys
<1>4. o.type \in {"ALLOC", "REALLOC", "FREE"} /\ o.size \in Nat /\ i \in Indices
  BY <1>1 DEF Legal, Ops
<1>5. Shows(u, h, b, s) /\ Shows(v, g, c, t)
  BY <1>1, <1>3, LiveHas
<1>6. \A j \in Using(b) : b[j] = b[i] => j = i \/ i \notin Using(b)
  BY <1>1 DEF Owned
<1>13. b \in [Indices -> Nat]
  BY <1>1 DEF Owned
<1>14. /\ o.type = "ALLOC" => i \notin Using(b)
       /\ o.type # "ALLOC" => i \in Using(b)
       /\ o.type # "FREE" => o.size \in Nat \ {0}
  BY <1>1, <1>4 DEF Legal
<1>15. g = AnswerOn(x, o).heap /\ c[i] = AnswerOn(x, o).ptr
  BY <1>4, <1>13 DEF After
<1>16. /\ o.type = "REALLOC" => \/ AnswerOn(x, o) = [ptr |-> NULL, heap |-> h]
                                \/ Moves(h, b[i], o.size, AnswerOn(x, o))
  BY <1>1, AnswerIs
<1> HIDE DEF h, b, i, g, c
<1>7. ASSUME o.type # "FREE"
      PROVE  /\ Joins(u, v, Places(b, J), c[i], t[i])
             /\ i \in Using(c)
  <2>1. i \in Using(c) /\ Using(c) = J \cup {i}
    BY <1>3, <1>7
  <2>2. \A j \in J : c[j] = b[j] /\ t[j] = s[j] /\ Kept(h, g, b[j])
    BY <1>1, <1>3
  <2>3. u = LiveOf(h, b, s) /\ v = LiveOf(g, c, t)
    BY DEF h, b, g, c
  <2>4. J = Using(b) \ {i} /\ Owned(h, b, s) /\ Owned(g, c, t)
    BY <1>1, <1>3
  <2> HIDE DEF J
  <2>5. Joins(u, v, Places(b, J), c[i], t[i])
    BY <2>1, <2>2, <2>3, <2>4, GrantedIs
  <2> QED
    BY <2>1, <2>5
<1>8. CASE o.type = "ALLOC"
  <2>1. J = Using(b)
    BY <1>8, <1>14
  <2>2. DOMAIN u = Places(b, J)
    BY <1>5, <2>1 DEF Shows, Places
  <2>3. Allocates(u, v)
    BY <1>7, <1>8, <2>2 DEF Allocates, Joins
  <2> QED
    BY <2>3 DEF AbstractStep
<1>9. ASSUME i \in Using(b)
      PROVE  b[i] \in DOMAIN u /\ DOMAIN u \ {b[i]} = Places(b, J)
  <2>1. DOMAIN u = {b[j] : j \in Using(b)}
    BY <1>5 DEF Shows
  <2>2. \A j \in Using(b) : b[j] = b[i] => j = i
    BY <1>6, <1>9
  <2> QED
    BY <1>9, <2>1, <2>2 DEF Places
<1>10. CASE o.type = "REALLOC"
  <2>1. i \in Using(b) /\ o.size \in Nat \ {0} /\ t[i] = o.size
    BY <1>1, <1>10, <1>14
  <2>2. Moves(h, b[i], o.size, AnswerOn(x, o))
    <3>1. AnswerOn(x, o) # [ptr |-> NULL, heap |-> h]
      BY <1>1, <1>10
    <3> QED
      BY <1>10, <1>16, <3>1
  <2>3. u[b[i]] = Payload(h, b[i], s[i]) /\ v[c[i]] = Payload(g, c[i], t[i])
    BY <1>5, <1>7, <1>10, <2>1 DEF Shows
  <2>4. Carries(u, b[i], v, c[i])
    <3>1. s[i] \in Nat \ {0}
      BY <1>1, <2>1, OwnedHas
    <3>2. ASSUME NEW k \in Nat, k <= (s[i] - 1) \div 4, k <= (o.size - 1) \div 4
          PROVE  GET(g, c[i] + k * 4) = GET(h, b[i] + k * 4)
      BY <1>1, <1>15, <2>1, <2>2, <3>2, WordsCarried
    <3>3. /\ DOMAIN u[b[i]].data = 0 .. (s[i] - 1) \div 4
          /\ DOMAIN v[c[i]].data = 0 .. (o.size - 1) \div 4
          /\ \A k \in 0 .. (s[i] - 1) \div 4 : u[b[i]].data[k] = GET(h, b[i] + k * 4)
          /\ \A k \in 0 .. (o.size - 1) \div 4 : v[c[i]].data[k] = GET(g, c[i] + k * 4)
      BY <2>1, <2>3 DEF Payload, WSIZE
    <3>4. ASSUME NEW k \in DOMAIN u[b[i]].data \cap DOMAIN v[c[i]].data
          PROVE  v[c[i]].data[k] = u[b[i]].data[k]
      <4>1. k \in 0 .. (s[i] - 1) \div 4 /\ k \in 0 .. (o.size - 1) \div 4
        BY <3>3
      <4>2. k \in Nat /\ k <= (s[i] - 1) \div 4 /\ k <= (o.size - 1) \div 4
        BY <2>1, <3>1, <4>1
      <4> QED
        BY <3>2, <3>3, <4>1, <4>2
    <3> QED
      BY <3>4 DEF Carries
  <2>5. Reallocates(u, v)
    <3>1. b[i] \in DOMAIN u /\ c[i] \in DOMAIN v
      BY <1>7, <1>9, <1>10, <2>1 DEF Joins
    <3>2. DOMAIN v = (DOMAIN u \ {b[i]}) \cup {c[i]}
      BY <1>7, <1>9, <1>10, <2>1 DEF Joins
    <3>3. MayHave(u, c[i], v[c[i]].size, DOMAIN u \ {b[i]}) /\ Stays(u, v, DOMAIN u \ {b[i]})
      BY <1>7, <1>9, <1>10, <2>1 DEF Joins
    <3> QED
      BY <2>4, <3>1, <3>2, <3>3 DEF Reallocates
  <2> QED
    BY <2>5 DEF AbstractStep
<1>11. CASE o.type = "FREE"
  <2>1. i \in Using(b) /\ Using(c) = J
    BY <1>3, <1>11, <1>14
  <2>2. DOMAIN v = Places(b, J)
    <3>1. DOMAIN v = {c[j] : j \in J}
      BY <1>5, <2>1 DEF Shows
    <3> QED
      BY <1>3, <3>1 DEF Places
  <2>3. ASSUME NEW j \in J
        PROVE  v[b[j]] = u[b[j]]
    <3>1. j \in Using(b) /\ j \in Using(c) /\ c[j] = b[j] /\ t[j] = s[j] /\ Kept(h, g, b[j])
      BY <1>1, <1>3, <2>1
    <3>2. Payload(g, b[j], s[j]) = Payload(h, b[j], s[j])
      BY <1>1, <3>1, PayloadKept
    <3>3. u[b[j]] = Payload(h, b[j], s[j]) /\ v[c[j]] = Payload(g, c[j], t[j])
      BY <1>5, <3>1 DEF Shows
    <3> QED
      BY <3>1, <3>2, <3>3
  <2>4. Stays(u, v, DOMAIN u \ {b[i]})
    BY <1>9, <2>1, <2>3 DEF Stays, Places
  <2>5. Frees(u, v)
    BY <1>9, <2>1, <2>2, <2>4 DEF Frees
  <2> QED
    BY <2>5 DEF AbstractStep
<1> QED
  BY <1>4, <1>8, <1>10, <1>11

-----------------------------------------------------------------------------
(* What each step of the driver shows the client.                          *)

LEMMA RestartShown == ASSUME DriverInv, NEW r, Restart(r) PROVE AbstractStep(Live, Live')
<1>1. Using(blocks') = {}
  BY RestartIs DEF InUse, Using
<1>2. Live' = << >>
  BY <1>1, LiveIs, NothingLive
<1> QED
  BY <1>2 DEF AbstractStep

LEMMA ReplayShown == ASSUME DriverInv, Replay PROVE AbstractStep(Live, Live')
<1> DEFINE o == ops[at]
<1>1. /\ Succeeds(Here, Requested, o, Requested')
      /\ heap' = After(Here, o).heap /\ blocks' = After(Here, o).blocks
  BY ReplayAnswered
<1>2. Here.heap = heap /\ Here.blocks = blocks
  BY DEF Here
<1>3. Live = LiveOf(Here.heap, Here.blocks, Requested)
  BY <1>2, LiveIs
<1>4. Live' = LiveOf(After(Here, o).heap, After(Here, o).blocks, Requested')
  BY <1>1, LiveIs
<1> HIDE DEF o
<1> QED
  BY <1>1, <1>3, <1>4, AnswerShown

(* A request of eval_mm_valid that was answered.                           *)
LEMMA ValidShown ==
    ASSUME DriverInv, phase = "valid", phase' = "valid", block_sizes' \in [Indices -> Nat],
           NEW o, Legal(Here, o),
           o.type # "FREE" => AnswerOn(Here, o).ptr # NULL /\ block_sizes'[o.index] = o.size,
           \A j \in Indices \ {o.index} : block_sizes'[j] = block_sizes[j],
           heap' = After(Here, o).heap, blocks' = After(Here, o).blocks
    PROVE  AbstractStep(Live, Live')
<1>1. Requested = block_sizes /\ Owned(heap, blocks, block_sizes)
  BY ValidHas
<1>2. Requested' = block_sizes'
  BY DEF Requested, RequestedSize
<1>3. Here.heap = heap /\ Here.blocks = blocks
  BY DEF Here
<1>4. \A j \in Using(blocks) \ {o.index} : block_sizes'[j] = block_sizes[j]
  BY DEF Using
<1>5. Succeeds(Here, block_sizes, o, block_sizes')
  BY <1>1, <1>3, <1>4 DEF Succeeds
<1>6. Live = LiveOf(Here.heap, Here.blocks, block_sizes)
  BY <1>1, <1>3, LiveIs
<1>7. Live' = LiveOf(After(Here, o).heap, After(Here, o).blocks, block_sizes')
  BY <1>2, LiveIs
<1> QED
  BY <1>5, <1>6, <1>7, AnswerShown

LEMMA GrantShown ==
    ASSUME DriverInv, DriverInv', Ready, NEW o, Legal(Here, o), o.type # "FREE",
           AnswerOn(Here, o).ptr # NULL, phase' = phase,
           heap' = AnswerOn(Here, o).heap, NEW list, NEW check,
           Judged(o.index, AnswerOn(Here, o).ptr, o.size, list, check)
    PROVE  AbstractStep(Live, Live')
<1>1. phase = "valid" /\ block_sizes \in [Indices -> Nat] /\ o.index \in Indices
  BY DEF Ready, DriverInv, Legal, Ops
<1>2. verdict' # "bad range"
  BY DEF DriverInv
<1>3. /\ blocks' = [blocks EXCEPT ![o.index] = AnswerOn(Here, o).ptr]
      /\ block_sizes' = [block_sizes EXCEPT ![o.index] = o.size]
  BY <1>2, Zenon DEF Judged
<1>4. block_sizes' \in [Indices -> Nat]
  BY DEF DriverInv
<1>5. /\ block_sizes'[o.index] = o.size
      /\ \A j \in Indices \ {o.index} : block_sizes'[j] = block_sizes[j]
  BY <1>1, <1>3
<1>6. heap' = After(Here, o).heap /\ blocks' = After(Here, o).blocks
  BY <1>3 DEF After, Here
<1> QED
  BY <1>1, <1>4, <1>5, <1>6, ValidShown

LEMMA NothingShown ==
    ASSUME heap' = heap, blocks' = blocks, Requested' = Requested
    PROVE  Live' = Live
BY LiveIs

LEMMA FillShown == ASSUME DriverInv, Fill, verdict' = "valid" PROVE AbstractStep(Live, Live')
<1> DEFINE i == filling.index
           p == blocks[i]
           b == blocks
           s == block_sizes
<1>1. /\ i \in Using(b) /\ phase = "valid" /\ phase' = "valid" /\ blocks' = b /\ block_sizes' = s
      /\ Alike(heap, heap') /\ \A q \in Held(heap) \ {p} : Kept(heap, heap', q)
  BY FillIs
<1>2. Requested = s /\ Owned(heap, b, s)
  BY <1>1, ValidHas
<1>3. Requested' = s
  BY <1>1, <1>2 DEF Requested, RequestedSize
<1>4. Live = LiveOf(heap, b, s) /\ Live' = LiveOf(heap', b, s)
  BY <1>1, <1>2, <1>3, LiveIs
<1>5. Owned(heap', b, s)
  BY <1>1, <1>2, OwnedAlike
<1>6. Shows(Live, heap, b, s) /\ Shows(Live', heap', b, s)
  BY <1>2, <1>4, <1>5, LiveHas
<1> HIDE DEF i, b, s
<1>7. p \in DOMAIN Live /\ DOMAIN Live' = DOMAIN Live
  BY <1>1, <1>6 DEF Shows, b
<1>8. Live[p] = Payload(heap, p, s[i]) /\ Live'[p] = Payload(heap', p, s[i])
  BY <1>1, <1>6 DEF Shows, b
<1>9. ASSUME NEW j \in Using(b), b[j] # p
      PROVE  Live'[b[j]] = Live[b[j]]
  <2>1. b[j] \in Held(heap) \ {p}
    BY <1>2, <1>9, HeldBlock
  <2>2. Kept(heap, heap', b[j])
    BY <1>1, <2>1
  <2>3. Payload(heap', b[j], s[j]) = Payload(heap, b[j], s[j])
    BY <1>2, <2>2, PayloadKept
  <2> QED
    BY <1>6, <2>3 DEF Shows
<1>10. Stays(Live, Live', DOMAIN Live \ {p})
  <2>1. DOMAIN Live = {b[j] : j \in Using(b)}
    BY <1>6 DEF Shows
  <2> QED
    BY <1>9, <2>1 DEF Stays
<1>11. Live'[p].size = Live[p].size /\ DOMAIN Live'[p].data = DOMAIN Live[p].data
  BY <1>8 DEF Payload
<1>12. Overwrites(Live, Live')
  BY <1>7, <1>10, <1>11 DEF Overwrites
<1> QED
  BY <1>12 DEF AbstractStep

LEMMA FailShown ==
    ASSUME DriverInv, Ready, NEW o, Legal(Here, o), o.type # "FREE",
           AnswerOn(Here, o).ptr = NULL, heap' = AnswerOn(Here, o).heap,
           phase' = phase, NEW what, Fails(what)
    PROVE  Live' = Live
<1>1. heap' = heap
  BY FailIs
<1>2. blocks' = blocks /\ block_sizes' = block_sizes /\ phase = "valid"
  BY DEF Fails, Ready
<1>3. Requested' = Requested
  BY <1>2 DEF Requested, RequestedSize
<1> QED
  BY <1>1, <1>2, <1>3, NothingShown

LEMMA AllocShown ==
    ASSUME DriverInv, DriverInv', NEW i \in Indices, NEW size \in Sizes, EvalAlloc(i, size)
    PROVE  AbstractStep(Live, Live') \/ Live' = Live
<1> DEFINE o == [type |-> "ALLOC", index |-> i, size |-> size]
           ans == mm_malloc(heap, size)
<1>1. /\ Ready /\ i \notin InUse /\ heap' = ans.heap /\ phase' = phase
      /\ IF ans.ptr = NULL THEN Fails("mm_malloc failed") ELSE Judged(i, ans.ptr, size, ranges, 0)
  BY DEF EvalAlloc, Recorded
<1>2. size \in Nat \ {0}
  BY SizesAssumption
<1>3. o.type = "ALLOC" /\ o.index = i /\ o.size = size /\ o \in Ops
  BY <1>2 DEF Ops
<1>4. AnswerOn(Here, o) = ans
  BY <1>3 DEF AnswerOn, Here
<1> HIDE DEF o, ans
<1>5. Legal(Here, o)
  <2>1. Here.blocks = blocks /\ i \notin Using(blocks)
    BY <1>1 DEF Here, InUse, Using
  <2> QED
    BY <1>2, <1>3, <2>1 DEF Legal
<1>6. CASE ans.ptr = NULL
  BY <1>1, <1>3, <1>4, <1>5, <1>6, FailShown
<1>7. CASE ans.ptr # NULL
  BY <1>1, <1>3, <1>4, <1>5, <1>7, GrantShown
<1> QED
  BY <1>6, <1>7

LEMMA ReallocShown ==
    ASSUME DriverInv, DriverInv', NEW i \in Indices, NEW size \in Sizes, EvalRealloc(i, size)
    PROVE  AbstractStep(Live, Live') \/ Live' = Live
<1> DEFINE o == [type |-> "REALLOC", index |-> i, size |-> size]
           ans == mm_realloc(heap, blocks[i], size)
           list == Removed(ranges, blocks[i])
           check == min(size, block_sizes[i])
<1>1. /\ Ready /\ i \in InUse /\ heap' = ans.heap /\ phase' = phase
      /\ IF ans.ptr = NULL THEN Fails("mm_realloc failed") ELSE Judged(i, ans.ptr, size, list, check)
  BY DEF EvalRealloc, Recorded
<1>2. size \in Nat \ {0}
  BY SizesAssumption
<1>3. o.type = "REALLOC" /\ o.index = i /\ o.size = size /\ o \in Ops
  BY <1>2 DEF Ops
<1>4. AnswerOn(Here, o) = ans
  BY <1>3 DEF AnswerOn, Here
<1> HIDE DEF o, ans, list, check
<1>5. Legal(Here, o)
  <2>1. Here.blocks = blocks /\ i \in Using(blocks)
    BY <1>1 DEF Here, InUse, Using
  <2> QED
    BY <1>2, <1>3, <2>1 DEF Legal
<1>6. CASE ans.ptr = NULL
  BY <1>1, <1>3, <1>4, <1>5, <1>6, FailShown
<1>7. CASE ans.ptr # NULL
  BY <1>1, <1>3, <1>4, <1>5, <1>7, GrantShown
<1> QED
  BY <1>6, <1>7

LEMMA FreeShown ==
    ASSUME DriverInv, NEW i \in Indices, EvalFree(i)
    PROVE  AbstractStep(Live, Live')
<1> DEFINE o == [type |-> "FREE", index |-> i, size |-> 0]
<1>1. /\ Ready /\ i \in InUse /\ heap' = mm_free(heap, blocks[i])
      /\ blocks' = [blocks EXCEPT ![i] = NULL]
      /\ block_sizes' = block_sizes /\ phase' = phase
  BY DEF EvalFree, Recorded
<1>2. o.type = "FREE" /\ o.index = i /\ o \in Ops
  BY DEF Ops
<1> HIDE DEF o
<1>3. AnswerOn(Here, o) = [ptr |-> NULL, heap |-> heap']
  BY <1>1, <1>2 DEF AnswerOn, Here
<1>4. Legal(Here, o)
  <2>1. Here.blocks = blocks /\ i \in Using(blocks)
    BY <1>1 DEF Here, InUse, Using
  <2> QED
    BY <1>2, <2>1 DEF Legal
<1>5. heap' = After(Here, o).heap /\ blocks' = After(Here, o).blocks
  <2>1. AnswerOn(Here, o).ptr = NULL /\ AnswerOn(Here, o).heap = heap' /\ Here.blocks = blocks
    BY <1>3 DEF Here
  <2> QED
    BY <1>1, <1>2, <2>1 DEF After
<1>6. phase = "valid" /\ phase' = "valid" /\ block_sizes' \in [Indices -> Nat]
  BY <1>1 DEF Ready, DriverInv
<1> QED
  BY <1>1, <1>2, <1>4, <1>5, <1>6, ValidShown

(* The answers of mm_malloc, mm_realloc and mm_free are those of a correct *)
(* allocator, in every run of every trace, as eval_mm_valid judges it and  *)
(* as the replays repeat it: payloads are aligned, inside the heap and     *)
(* disjoint, a realloc carries the data over, and no other payload is      *)
(* touched by tags, splits, joins or copies.                               *)
THEOREM AllocatorIsCorrect == Spec => ImplementsHeap
<1>1. Init => Abstract!InitHeap
  <2> SUFFICES ASSUME Init PROVE Live = << >>
    BY DEF Abstract!InitHeap
  <2>1. Using(blocks) = {}
    BY NoBlocksUsed DEF Init, Using
  <2> QED
    BY <2>1, LiveIs, NothingLive
<1>2. DriverInv /\ DriverInv' /\ [Next]_vars => [Abstract!NextHeap]_Live
  <2> SUFFICES ASSUME DriverInv, DriverInv', [Next]_vars
               PROVE  AbstractStep(Live, Live') \/ Live' = Live
    BY AbstractStepIs
  <2>1. CASE NextTrace
    BY <2>1, RestartShown DEF NextTrace
  <2>2. CASE NextRun
    BY <2>2, RestartShown DEF NextRun
  <2>3. CASE Replay
    BY <2>3, ReplayShown
  <2>4. ASSUME NEW i \in Indices, NEW size \in Sizes, EvalAlloc(i, size) \/ EvalRealloc(i, size)
        PROVE  AbstractStep(Live, Live') \/ Live' = Live
    BY <2>4, AllocShown, ReallocShown
  <2>5. ASSUME NEW i \in Indices, EvalFree(i)
        PROVE  AbstractStep(Live, Live')
    BY <2>5, FreeShown
  <2>6. CASE Fill
    <3>1. CASE verdict' # "valid"
      <4>1. heap' = heap /\ blocks' = blocks /\ Requested' = Requested
        BY <2>6, <3>1, FillMisses DEF Requested, RequestedSize
      <4> QED
        BY <4>1, NothingShown
    <3> QED
      BY <2>6, <3>1, FillShown
  <2>7. CASE UNCHANGED vars
    <3>1. heap' = heap /\ blocks' = blocks
      BY <2>7 DEF vars
    <3>2. Requested' = Requested
      BY <2>7 DEF vars, Requested, RequestedSize
    <3> QED
      BY <3>1, <3>2, NothingShown
  <2> QED
    BY <2>1, <2>2, <2>3, <2>4, <2>5, <2>6, <2>7 DEF Next
<1> QED
  BY <1>1, <1>2, DriverAlways, PTL DEF Spec, ImplementsHeap, Abstract!SpecHeap
=============================================================================

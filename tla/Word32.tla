------------------------------- MODULE Word32 -------------------------------
(***************************************************************************)
(* C's int and unsigned operators on 32-bit words, as the x86 build of the *)
(* data lab computes them (sums wrap around, >> of an int copies its sign, *)
(* and a shift into the sign bit just sets it).  A word is the set of the  *)
(* positions of its ones.                                                  *)
(***************************************************************************)
EXTENDS Integers, FiniteSetsExt

Bits  == 0 .. 31
Words == SUBSET Bits
Sign == {31}

Zero == {}
One  == {0}
TMin == -2147483647 - 1
TMax == 2147483647

And(x, y) == x \cap y
Or(x, y)  == x \cup y
Not(x)    == Bits \ x
Xor(x, y) == (x \ y) \cup (y \ x)
Lnot(x)   == IF x = Zero THEN One ELSE Zero

Shl(x, n) == {i + k : i \in x, k \in {n}} \cap Bits
Shr(x, n) == {i - k : i \in x, k \in {n}} \cap Bits
Sar(x, n) == Shr(x, n) \cup (IF 31 \in x THEN 32 - n .. 31 ELSE {})

(* A carry comes into position i when one is made below it and everything  *)
(* in between passes it on.                                                *)
Carries(x, y) ==
    {i \in Bits : \E j \in And(x, y) : j < i /\ j + 1 .. i - 1 \subseteq Or(x, y)}

(* A function here, and below where operators would do: TLC evaluates the  *)
(* arguments of a function once.                                           *)
sum[x \in Words, y \in Words] == Xor(Xor(x, y), Carries(x, y))

Plus(x, y) == sum[x, y]

(* Words and the ints they stand for.                                      *)
Natural(x) == MapThenSumSet(LAMBDA i : 2 ^ i, x)
IntOf(x)   == IF 31 \in x THEN -(Natural(Not(x))) - 1 ELSE Natural(x)

Bin(n)  == {i \in 0 .. 30 : (n \div 2 ^ i) % 2 = 1}
Word(n) == IF n >= 0 THEN Bin(n) ELSE Not(Bin(-(n + 1)))
=============================================================================

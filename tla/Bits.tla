-------------------------------- MODULE Bits --------------------------------
(***************************************************************************)
(* The puzzles of the data lab (Data/bits.c), on the words of Word32.  A   *)
(* hexadecimal constant of the code is written as the set of its ones.     *)
(***************************************************************************)
EXTENDS Word32

bitXor(x, y) == And(Not(And(Not(x), Not(y))), Not(And(x, y)))

tmin == Shl(One, 31)

isTmax(x) ==
    LET i == Plus(x, One)
        rest == Not(Plus(x, i))
    IN  Lnot(Plus(rest, Lnot(i)))

allOddBits(x) ==
    LET AA == {1, 3, 5, 7}
        half == Plus(AA, Shl(AA, 8))
        mask == Plus(half, Shl(half, 16))
    IN  Lnot(Xor(And(mask, x), mask))

negate(x) == Plus(Not(x), One)

(* Mutant: the lower bound is not a negative number. *)
isAsciiDigitLow(x) ==
    LET sign == Shl(One, 31)
        upperBound == Not(Or(sign, {0, 3, 4, 5}))
        upper == And(sign, Sar(Plus(upperBound, x), 31))
        lower == And(sign, Sar(Plus(Not({4, 5}), x), 31))
    IN  Lnot(Or(upper, lower))

isAsciiDigit(x) ==
    LET sign == Shl(One, 31)
        upperBound == Not(Or(sign, {0, 3, 4, 5}))
        lowerBound == Not({4, 5})
        upper == And(sign, Sar(Plus(upperBound, x), 31))
        lower == And(sign, Sar(Plus(Plus(lowerBound, One), x), 31))
    IN  Lnot(Or(upper, lower))

conditional(x, y, z) ==
    LET flag == Plus(Not(Lnot(x)), One)
    IN  Or(And(Not(flag), y), And(flag, z))

isLessOrEqual(x, y) ==
    LET xLeft == And(x, tmin)
        yLeft == And(y, tmin)
        differ == And(Sar(Xor(xLeft, yLeft), 31), One)
        addX == Plus(Plus(Not(x), One), y)
        checkSign == And(Sar(addX, 31), One)
    IN  Or(And(Lnot(differ), Lnot(checkSign)), And(differ, Sar(xLeft, 31)))

logicalNeg(x) == Plus(Sar(Or(x, Plus(Not(x), One)), 31), One)

(* Each step keeps the upper half if there is a one in it.                 *)
howManyBits(x) ==
    LET sign == Sar(x, 31)
        Upper(w, k) == Shl(Lnot(Lnot(Sar(w, 2 ^ k))), k)
        kept[w \in Words, k \in 0 .. 4] == Sar(w, IntOf(Upper(w, k)))
        x16 == Or(And(sign, Not(x)), And(Not(sign), x))
        x8 == kept[x16, 4]  x4 == kept[x8, 3]  x2 == kept[x4, 2]  x1 == kept[x2, 1]
        b0 == kept[x1, 0]
    IN  Plus(Plus(Plus(Plus(Plus(Plus(Upper(x16, 4), Upper(x8, 3)), Upper(x4, 2)),
                                 Upper(x2, 1)), Upper(x1, 0)), b0), One)

floatScale2(uf) ==
    LET exp == IntOf(Shr(And(uf, 23 .. 30), 23))
        sign == And(uf, tmin)
    IN  CASE exp = 0   -> Or(Shl(uf, 1), sign)
          [] exp = 255 -> uf
          [] exp = 254 -> Or(23 .. 30, sign)
          [] OTHER     -> Or(Shl(Word(exp + 1), 23), And(uf, (0 .. 22) \cup Sign))

(* s_ is 0 or 1, and the sign of frac_ copied through the word 0 or -1.    *)
floatFloat2Int(uf) ==
    LET s == Shr(uf, 31)
        exp == IntOf(Shr(And(uf, 23 .. 30), 23)) - 127
        frac == Or(And(uf, 0 .. 22), {23})
        moved == IF exp > 23 THEN Shl(frac, exp - 23) ELSE Sar(frac, 23 - exp)
    IN  CASE exp > 31 -> Sign
          [] exp < 0 \/ And(uf, 0 .. 30) = Zero -> Zero
          [] exp \in 0 .. 31 ->
                IF Xor(Sar(moved, 31), s) = Zero THEN moved
                ELSE IF 31 \in moved THEN Sign ELSE Plus(Not(moved), One)

floatPower2(x) ==
    CASE IntOf(x) >= 128 -> 23 .. 30
      [] IntOf(x) \in -126 .. 127  -> Shl(Word(IntOf(x) + 127), 23)
      [] IntOf(x) \in -150 .. -127 -> Shl(One, IntOf(x) + 150)
      [] IntOf(x) < -150 -> Zero
=============================================================================

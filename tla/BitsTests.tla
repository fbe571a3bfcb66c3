----------------------------- MODULE BitsTests -----------------------------
(***************************************************************************)
(* What the puzzles should return: the test functions of Data/tests.c, and *)
(* the meaning of a float as Data/fshow.c takes it apart.  A finite float  *)
(* is mantissa * 2 ^ exp with a sign; the float operations of the test     *)
(* functions are exact but for exponents that are too large or too small.  *)
(***************************************************************************)
EXTENDS Bits

test_bitXor(x, y) == {i \in Bits : (i \in x) # (i \in y)}

test_tmin == Word(TMin)

test_isTmax(x) == IF IntOf(x) = TMax THEN One ELSE Zero

test_allOddBits(x) == IF \A i \in Bits : i % 2 = 1 => i \in x THEN One ELSE Zero

test_negate(x) == IF IntOf(x) = TMin THEN x ELSE Word(-IntOf(x))

test_isAsciiDigit(x) == IF IntOf(x) \in 48 .. 57 THEN One ELSE Zero

test_conditional(x, y, z) == IF IntOf(x) # 0 THEN y ELSE z

test_isLessOrEqual(x, y) == IF IntOf(x) <= IntOf(y) THEN One ELSE Zero

test_logicalNeg(x) == IF IntOf(x) = 0 THEN One ELSE Zero

test_howManyBits(x) ==
    LET a == IF IntOf(x) < 0 THEN Word(-(IntOf(x) + 1)) ELSE x
    IN  Word((CHOOSE cnt \in 0 .. 32 : /\ Shr(a, cnt) = Zero
                                       /\ \A n \in 0 .. cnt - 1 : Shr(a, n) # Zero) + 1)

(* fshow: the parts of a float, and the number they make.                  *)
get_exp(uf)  == Natural(And(Shr(uf, 23), 0 .. 7))
get_frac(uf) == Natural(And(uf, 0 .. 22))
get_sign(uf) == Natural(And(Shr(uf, 31), One))

u2f[uf \in Words] ==
    LET exp == get_exp(uf)
        frac == get_frac(uf)
        denorm == exp = 0
    IN  [kind |-> CASE exp < 255 -> "number"
                    [] exp = 255 /\ frac = 0 -> "infinity"
                    [] exp = 255 /\ frac # 0 -> "nan",
         sign |-> get_sign(uf),
         mantissa |-> IF denorm THEN frac ELSE frac + 2 ^ 23,
         exp |-> (IF denorm THEN 1 - 127 ELSE exp - 127) - 23]

Floats == [kind : {"number", "infinity", "nan"}, sign : {0, 1}, mantissa : Nat, exp : Int]

(* The float of a number: its mantissa made as large as 24 bits and the    *)
(* smallest exponent allow.                                                *)
f2u[f \in Floats] ==
    LET up == CHOOSE n \in 0 .. 24 :
                  /\ f.mantissa * 2 ^ n < 2 ^ 24 /\ f.exp - n >= -149
                  /\ f.mantissa * 2 ^ (n + 1) >= 2 ^ 24 \/ f.exp - n = -149
        mantissa == f.mantissa * 2 ^ up
        exp == f.exp - up
        abs == CASE f.kind = "infinity" -> 23 .. 30
                 [] f.kind = "number" /\ f.mantissa = 0 -> Zero
                 [] f.kind = "number" /\ f.mantissa # 0 /\ exp > 104 -> 23 .. 30
                 [] f.kind = "number" /\ f.mantissa # 0 /\ exp <= 104 ->
                        IF mantissa < 2 ^ 23 THEN Word(mantissa)
                        ELSE Or(Word(mantissa - 2 ^ 23), Shl(Word(exp + 150), 23))
    IN  IF f.sign = 1 THEN Or(abs, Sign) ELSE abs

test_floatScale2(uf) ==
    LET f == u2f[uf] IN IF f.kind = "nan" THEN uf ELSE f2u[[f EXCEPT !.exp = @ + 1]]

(* A value that no int has is converted to the smallest one.               *)
test_floatFloat2Int(uf) ==
    LET f == u2f[uf]
        abs == CASE f.exp < -24 -> 0
                 [] f.exp \in -24 .. -1 -> f.mantissa \div 2 ^ (-f.exp)
                 [] f.exp \in 0 .. 7 -> f.mantissa * 2 ^ f.exp
    IN  IF f.kind # "number" \/ f.exp > 7 THEN Word(TMin)
        ELSE Word(IF f.sign = 1 THEN -abs ELSE abs)

(* Powers of two by their exponents.  128 stands for infinity, and -150    *)
(* for what is rounded to zero.                                            *)
times[p \in Int, q \in Int] ==
    CASE p + q > 127 -> 128
      [] p + q < -149 -> -150
      [] p + q \in -149 .. 127 -> p + q

square[p \in Int] == times[p, p]

(* One turn of the loop for each bit of x.                                 *)
test_floatPower2(x) ==
    LET abs == IF IntOf(x) < 0 THEN Word(-IntOf(x)) ELSE x
        p2[n \in 0 .. 31] ==
            IF n = 0 THEN (IF IntOf(x) < 0 THEN -1 ELSE 1) ELSE square[p2[n - 1]]
        result[n \in 0 .. 31] ==
            IF n = 0 THEN 0
            ELSE IF n - 1 \in abs THEN times[result[n - 1], p2[n - 1]] ELSE result[n - 1]
        exp == result[31]
    IN  IF IntOf(x) = TMin \/ exp = -150 THEN Zero
        ELSE f2u[[kind |-> IF exp = 128 THEN "infinity" ELSE "number",
                  sign |-> 0, mantissa |-> 1, exp |-> exp]]
=============================================================================

------------------------------ MODULE MCBtest ------------------------------
(***************************************************************************)
(* Whole runs, with and without puzzles that never return; runs of one     *)
(* puzzle on the given arguments: the runs of ones between interesting     *)
(* positions, the same in zeros, and the numbers around the ends of        *)
(* floatPower2's ranges; and options that are refused.                     *)
(***************************************************************************)
EXTENDS Btest, TLC

Cuts == {0, 1, 7, 22, 23, 24, 30, 31}
Runs == {i .. j : i \in Cuts, j \in Cuts}
Edges == Runs \cup {Not(x) : x \in Runs}
            \cup {Word(n) : n \in (-152 .. -125) \cup (126 .. 130) \cup (47 .. 58)}
Corners == {Zero, One, Bits, Sign, 0 .. 30, 1 .. 31, {5}, {3, 31}}

Opt(flag, arg) == <<[flag |-> flag, arg |-> arg]>>
Num(w) == [float |-> FALSE, garbage |-> FALSE, word |-> w, upper |-> IF 31 \in w THEN 1 ELSE 0]
Neg(w) == [Num(w) EXCEPT !.upper = -1]
Big    == [Num(Zero) EXCEPT !.upper = 2]
Flt(w) == [Num(w) EXCEPT !.float = TRUE]

On(name) == Opt("f", name)

MCCommandLines ==
    { << >>, Opt("r", 5), Opt("T", 0), Opt("h", ""), Opt("r", -1) }
    \cup {On(name) \o Opt("f1", Num(w)) : name \in {"isTmax", "allOddBits", "negate", "isAsciiDigit", "logicalNeg",
                                                   "howManyBits", "floatScale2", "floatFloat2Int", "floatPower2"},
                                          w \in Edges}
    \cup {On(name) \o Opt("f1", Num(x)) \o Opt("f2", Num(y)) : name \in {"bitXor", "isLessOrEqual"}, x \in Corners, y \in Corners}
    \cup {On("conditional") \o Opt("f1", Num(x)) \o Opt("f2", Num(One)) \o Opt("f3", Num(y)) : x \in Corners, y \in {Zero, Bits}}
    \cup {Opt("T", 0) \o On("negate") \o Opt("f1", x) \o Opt("f1", y) : x \in {Num(Zero), Flt({30}), Neg(Bits)},
              y \in {Num({0, 31}), Big, Flt({29}), [Flt(Zero) EXCEPT !.garbage = TRUE]}}

MCEndless == { {}, {"bitXor", "isTmax", "floatPower2"} }
MCRandoms == {2000000011}
=============================================================================

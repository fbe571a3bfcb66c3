------------------------------- MODULE Btest -------------------------------
(***************************************************************************)
(* The data lab's test program (Data/btest.c): it reads its options, then  *)
(* runs each puzzle of decl.c against its test function on values that it  *)
(* generates, or on those it is given, under an alarm that ends a puzzle   *)
(* which takes too long.  The alarm is never cancelled, so it may go off   *)
(* after the call of test_function that set it, and envbuf with it, has    *)
(* returned.                                                               *)
(*                                                                         *)
(* A text that stands for a number is what strtof or strtoll make of it:   *)
(*   float     it is read as a float                                       *)
(*   garbage   strtof stops before its end                                 *)
(*   upper     the bits above the word's 31 lower ones, as a number        *)
(*   word      the word                                                    *)
(***************************************************************************)
EXTENDS BitsTests, SequencesExt

CONSTANTS
    TEST_RANGE,
    Randoms,        \* what random_val may return
    CommandLines,   \* sequences of options, [flag |-> , arg |-> ]
    Endless,        \* sets of puzzles that some solution never returns from
    MaxLate         \* bound: how often the alarm interrupts a puzzle that returns

ASSUME BtestAssumption == TEST_RANGE \in Nat \ {0} /\ MaxLate \in Nat

VARIABLES
    argv,           \* the options not read yet
    opt,            \* what they set
    loops,          \* the puzzles that never return
    pc,
    run,            \* of test_function: test, values, place in them, errors
    score,          \* of run_tests: errors, points, the lines it printed
    timer,          \* the alarm, and for whom envbuf was saved
    blame           \* history: by whose alarm, and where, a test was ended

vars == <<argv, opt, loops, pc, run, score, timer, blame>>

-----------------------------------------------------------------------------
(* The table of puzzles.                                                   *)
AnyInt == <<TMin, TMax>>
Float  == <<1, 1>>

Puzzle(name, args, rating, range) == [name |-> name, args |-> args, rating |-> rating, range |-> range]

test_set == <<
    Puzzle("bitXor", 2, 1, AnyInt),        Puzzle("tmin", 0, 1, AnyInt),
    Puzzle("isTmax", 1, 1, AnyInt),        Puzzle("allOddBits", 1, 2, AnyInt),
    Puzzle("negate", 1, 2, AnyInt),        Puzzle("isAsciiDigit", 1, 3, AnyInt),
    Puzzle("conditional", 3, 3, AnyInt),   Puzzle("isLessOrEqual", 2, 3, AnyInt),
    Puzzle("logicalNeg", 1, 4, AnyInt),    Puzzle("howManyBits", 1, 4, AnyInt),
    Puzzle("floatScale2", 1, 4, Float),    Puzzle("floatFloat2Int", 1, 4, Float),
    Puzzle("floatPower2", 1, 4, Float) >>

(* The two functions of a puzzle, on its arguments.                        *)
solution_funct(name, a) ==
    CASE name = "bitXor" -> bitXor(a[1], a[2])       [] name = "tmin" -> tmin
      [] name = "isTmax" -> isTmax(a[1])             [] name = "allOddBits" -> allOddBits(a[1])
      [] name = "negate" -> negate(a[1])             [] name = "isAsciiDigit" -> isAsciiDigit(a[1])
      [] name = "conditional" -> conditional(a[1], a[2], a[3])
      [] name = "isLessOrEqual" -> isLessOrEqual(a[1], a[2])
      [] name = "logicalNeg" -> logicalNeg(a[1])     [] name = "howManyBits" -> howManyBits(a[1])
      [] name = "floatScale2" -> floatScale2(a[1])
      [] name = "floatFloat2Int" -> floatFloat2Int(a[1])
      [] name = "floatPower2" -> floatPower2(a[1])

test_funct(name, a) ==
    CASE name = "bitXor" -> test_bitXor(a[1], a[2])  [] name = "tmin" -> test_tmin
      [] name = "isTmax" -> test_isTmax(a[1])        [] name = "allOddBits" -> test_allOddBits(a[1])
      [] name = "negate" -> test_negate(a[1])        [] name = "isAsciiDigit" -> test_isAsciiDigit(a[1])
      [] name = "conditional" -> test_conditional(a[1], a[2], a[3])
      [] name = "isLessOrEqual" -> test_isLessOrEqual(a[1], a[2])
      [] name = "logicalNeg" -> test_logicalNeg(a[1]) [] name = "howManyBits" -> test_howManyBits(a[1])
      [] name = "floatScale2" -> test_floatScale2(a[1])
      [] name = "floatFloat2Int" -> test_floatFloat2Int(a[1])
      [] name = "floatPower2" -> test_floatPower2(a[1])

-----------------------------------------------------------------------------
(* Options.                                                                *)

Small(upper) == upper \in {-1, 0, 1}

(* Mutant: a number with the sign bit set must be negative. *)
get_num_valSigned(text, old) ==
    IF text.float THEN ~ text.garbage ELSE old = Zero /\ text.upper \in {-1, 0}

(* Whether text is taken for a number, given what *valp holds.             *)
get_num_val(text, old) ==
    IF text.float THEN ~ text.garbage ELSE old = Zero /\ Small(text.upper)

get_num_val_fshow(text) == IF text.float THEN ~ text.garbage ELSE Small(text.upper)
get_num_val_ishow(text) == ~ text.float /\ Small(text.upper)

Argument == [f1 |-> 1, f2 |-> 2, f3 |-> 3]

Text == [float : BOOLEAN, garbage : BOOLEAN, upper : Int, word : Words]

(* -1, -2 and -3 are followed by a text that stands for a number.          *)
ASSUME CommandLinesAssumption ==
    \A line \in CommandLines :
        /\ line \in Seq(ToSet(line))
        /\ \A o \in ToSet(line) : /\ o.flag \in {"h", "f", "r", "T"} \cup DOMAIN Argument
                                  /\ o.flag \in DOMAIN Argument => o.arg \in Text

(* One turn of main's loop over the options.                               *)
GetOpt ==
    LET o == Head(argv)
        k == Argument[o.flag]
        exits == \/ o.flag = "h"
                 \/ o.flag = "r" /\ o.arg < 0
                 \/ o.flag \in DOMAIN Argument /\ ~ get_num_val(o.arg, opt.argval[k])
    IN  /\ pc = "options" /\ argv # << >>
        /\ argv' = Tail(argv)
        /\ pc' = IF exits THEN "exit" ELSE "options"
        /\ opt' = CASE exits -> opt
                    [] ~ exits /\ o.flag = "f" -> [opt EXCEPT !.test_fname = o.arg]
                    [] ~ exits /\ o.flag = "r" -> [opt EXCEPT !.global_rating = o.arg]
                    [] ~ exits /\ o.flag = "T" -> [opt EXCEPT !.timeout_limit = o.arg]
                    [] ~ exits /\ o.flag \in DOMAIN Argument ->
                          [opt EXCEPT !.has_arg[k] = TRUE, !.argval[k] = o.arg.word]
        /\ UNCHANGED <<loops, run, score, timer, blame>>

-----------------------------------------------------------------------------
(* The values a puzzle is tested on.                                       *)

(* pow(TEST_RANGE, 0.5) and pow(TEST_RANGE, 0.333), cut off.               *)
arg_test_range(args) ==
    CASE args = 1 -> TEST_RANGE
      [] args = 2 -> CHOOSE n \in 1 .. TEST_RANGE : n * n <= TEST_RANGE /\ (n + 1) * (n + 1) > TEST_RANGE
      [] OTHER -> CHOOSE n \in 1 .. TEST_RANGE : /\ n = 1 \/ n * n * n < TEST_RANGE
                                                 /\ (n + 1) * (n + 1) * (n + 1) >= TEST_RANGE

(* The words near(0), .., near(range - 1), of k each.                      *)
Around(near(_), k, range) == [n \in 1 .. k * range |-> near((n - 1) \div k)[((n - 1) % k) + 1]]

(* Denormals, the smallest normal, one, the largest exponent; inf and nan. *)
FloatVals(range) ==
    LET both(n) == <<Word(n), Or(Sign, Word(n))>>
        near(i) == both(i) \o both(8388608 + i) \o both(8388608 - i) \o both(1065353216 + i)
                   \o both(1065353216 - i) \o both(2130706432 - i)
    IN  Around(near, 12, range) \o <<23 .. 30, 23 .. 31, 22 .. 30, 22 .. 31>>

(* The ends of the range, zero, and anything between.  (No puzzle has a    *)
(* range without zero, or one so small that all of it is tested.)          *)
IntVals(min, max, range, random) ==
    LET near(i) == <<Word(min + i), Word(max - i), Word(i), Word(-i), Word(random[i])>>
    IN  Around(near, 5, range)

gen_vals(t, arg, random) ==
    LET range == arg_test_range(t.args) IN
    CASE opt.has_arg[arg] -> <<opt.argval[arg]>>
      [] ~ opt.has_arg[arg] /\ t.range = Float -> FloatVals(range)
      [] ~ opt.has_arg[arg] /\ t.range # Float -> IntVals(t.range[1], t.range[2], range, random)

-----------------------------------------------------------------------------
Test == test_set[run.test]

Selected == {i \in DOMAIN test_set : opt.test_fname \in {"", test_set[i].name}}

(* The next puzzle of the table behind i, 0 if there is none.              *)
NextTest(i) ==
    LET rest == {j \in Selected : j > i}
    IN  IF rest = {} THEN 0 ELSE CHOOSE j \in rest : \A k \in rest : j <= k

Call(i) ==
    /\ pc' = IF NextTest(i) = 0 THEN "done" ELSE "gen"
    /\ run' = [test |-> NextTest(i), vals |-> << >>, a1 |-> 1, errors |-> 0]

main_run_tests ==
    /\ pc = "options" /\ argv = << >>
    /\ Call(0)
    /\ UNCHANGED <<argv, opt, loops, score, timer, blame>>

(* Mutant: the alarm of the test before is left to run. *)
alarmOnce(pending, i) == IF pending # 0 THEN pending ELSE i

(* alarm(2): whatever was pending is replaced.                             *)
alarm(pending, i) == i

(* The values are generated before sigsetjmp is called again.              *)
test_function_begin ==
    /\ pc = "gen"
    /\ \E random \in [0 .. arg_test_range(Test.args) - 1 -> Randoms] :
           run' = [run EXCEPT !.vals = [arg \in 1 .. Test.args |-> gen_vals(Test, arg, random)]]
    /\ timer' = IF opt.timeout_limit > 0
                THEN [timer EXCEPT !.envbuf = run.test, !.alarm = alarm(@, run.test)]
                ELSE timer
    /\ pc' = "test"
    /\ UNCHANGED <<argv, opt, loops, score, blame>>

(* The arguments with the a1-th value first; a test without arguments has  *)
(* one empty list.                                                         *)
ArgumentLists ==
    LET v == run.vals IN
    CASE Test.args = 0 -> {<< >>}
      [] Test.args = 1 -> {<<v[1][run.a1]>>}
      [] Test.args = 2 -> {<<v[1][run.a1], b>> : b \in ToSet(v[2])}
      [] Test.args = 3 -> {<<v[1][run.a1], b, c>> : b \in ToSet(v[2]), c \in ToSet(v[3])}

(* One turn of the outer loop; the first error ends the test.              *)
test_function_values ==
    LET error == \E a \in ArgumentLists : solution_funct(Test.name, a) # test_funct(Test.name, a)
        last == Test.args = 0 \/ run.a1 = Len(run.vals[1])
    IN  /\ pc = "test" /\ Test.name \notin loops
        /\ run' = [run EXCEPT !.a1 = @ + 1, !.errors = IF error THEN 1 ELSE 0]
        /\ pc' = IF error \/ last THEN "score" ELSE "test"
        /\ UNCHANGED <<argv, opt, loops, score, timer, blame>>

(* run_tests, behind the call of test_function.                            *)
run_tests ==
    LET rating == IF opt.global_rating # 0 THEN opt.global_rating ELSE Test.rating
        right == run.errors = 0
    IN  /\ pc = "score"
        /\ score' = [errors |-> score.errors + run.errors,
                     points |-> score.points + (IF right THEN rating ELSE 0),
                     max_points |-> score.max_points + rating,
                     passed |-> IF right THEN score.passed \cup {Test.name} ELSE score.passed]
        /\ Call(run.test)
        /\ UNCHANGED <<argv, opt, loops, timer, blame>>

Nobody == [by |-> 0, at |-> "nowhere"]

(* Mutant: the mask is not saved with envbuf, and SIGALRM stays blocked. *)
timeout_handlerBlocked ==
    /\ timer.alarm # 0 /\ ~ timer.blocked /\ pc = "test"
    /\ timer' = [timer EXCEPT !.alarm = 0, !.blocked = TRUE]
    /\ pc' = "score"
    /\ run' = [run EXCEPT !.errors = 1]
    /\ blame' = [blame EXCEPT ![Test.name] = [by |-> timer.alarm, at |-> pc]]
    /\ UNCHANGED <<argv, opt, loops, score>>

(* siglongjmp to envbuf restores the signal mask and makes test_function   *)
(* return 1.  The call that saved it may have returned; then its caller    *)
(* goes on behind the latest call all the same (the frames lie at the same *)
(* place), or the process is damaged.                                      *)
timeout_handler ==
    /\ timer.alarm # 0 /\ ~ timer.blocked
    /\ pc \in {"gen", "test", "score"}
    /\ \/ pc = "test" /\ Test.name \in loops
       \/ Cardinality({n \in DOMAIN blame \ loops : blame[n] # Nobody}) < MaxLate
    /\ timer' = [timer EXCEPT !.alarm = 0]
    /\ \E to \in {"score"} \cup (IF pc = "test" /\ timer.envbuf = run.test THEN {} ELSE {"down"}) : pc' = to
    /\ run' = [run EXCEPT !.errors = 1]
    /\ blame' = [blame EXCEPT ![Test.name] = [by |-> timer.alarm, at |-> pc]]
    /\ UNCHANGED <<argv, opt, loops, score>>

Init ==
    /\ argv \in CommandLines
    /\ loops \in Endless
    /\ opt = [test_fname |-> "", has_arg |-> [k \in 1 .. 3 |-> FALSE], argval |-> [k \in 1 .. 3 |-> Zero],
              global_rating |-> 0, timeout_limit |-> 10]
    /\ pc = "options"
    /\ run = [test |-> 0, vals |-> << >>, a1 |-> 1, errors |-> 0]
    /\ score = [errors |-> 0, points |-> 0, max_points |-> 0, passed |-> {}]
    /\ timer = [alarm |-> 0, blocked |-> FALSE, envbuf |-> 0]
    /\ blame = [name \in {test_set[i].name : i \in DOMAIN test_set} |-> Nobody]

main == GetOpt \/ main_run_tests \/ test_function_begin \/ test_function_values \/ run_tests

Next == main \/ timeout_handler

Spec == Init /\ [][Next]_vars

-----------------------------------------------------------------------------
(* Properties.                                                             *)

(* bits.c and the scores: a puzzle gets its points unless the alarm ended  *)
(* it, or it is floatPower2 and was given a power from -150 to -127, where *)
(* it returns twice the right number.  The values that btest makes up for  *)
(* it never lie there, so a full run finds nothing.                        *)
TwiceTheRight == {name \in {"floatPower2"} : opt.has_arg[1] /\ IntOf(opt.argval[1]) \in -150 .. -127}

CreditWhereDue ==
    pc = "done" =>
        LET right == {i \in Selected : blame[test_set[i].name] = Nobody /\ test_set[i].name \notin TwiceTheRight}
            rating(i) == IF opt.global_rating # 0 THEN opt.global_rating ELSE test_set[i].rating
        IN  /\ score.passed = {test_set[i].name : i \in right}
            /\ score.points = MapThenSumSet(rating, right)
            /\ score.max_points = MapThenSumSet(rating, Selected)
            /\ score.errors = Cardinality(Selected \ right)

(* test_function and alarm: a test is ended by the alarm it set itself,    *)
(* while it runs or just after it; or, before it has called a function at  *)
(* all, by the one that the test before it left behind.                    *)
TimeoutsBlamed ==
    \A i \in DOMAIN test_set :
        LET b == blame[test_set[i].name] IN
        b # Nobody => \/ b.by = i /\ b.at \in {"test", "score"}
                      \/ b.by < i /\ b.at = "gen" /\ NextTest(b.by) = i

(* get_num_val: btest tests a number as the word that fshow, and ishow if  *)
(* it is no float, show for it, and gives up where fshow does; but also    *)
(* when an argument that is not zero is given again.                       *)
ArgumentsAsShown ==
    [][pc = "options" /\ argv # << >> /\ Head(argv).flag \in DOMAIN Argument =>
          LET text == Head(argv).arg
              k == Argument[Head(argv).flag]
              shown == get_num_val_fshow(text)
          IN  /\ get_num_val_ishow(text) = (shown /\ ~ text.float)
              /\ pc' = "exit" => ~ shown \/ opt.argval[k] # Zero
              /\ pc' # "exit" => shown /\ opt'.argval[k] = text.word]_vars

(* timeout_handler: an endless puzzle runs under an alarm that can still   *)
(* interrupt it, however many were interrupted before, unless the timeout  *)
(* was switched off; so the run goes on.                                   *)
EndlessUnderAlarm ==
    pc = "test" /\ Test.name \in loops /\ opt.timeout_limit > 0
        => timer.alarm = run.test /\ timer.envbuf = run.test /\ ~ timer.blocked
=============================================================================

---------------------------- MODULE BtestProofs ----------------------------
(***************************************************************************)
(* Proofs about btest's alarms and its reading of numbers, for every       *)
(* command line, every set of puzzles that never return and every range of *)
(* test values.                                                            *)
(***************************************************************************)
EXTENDS Btest, TLAPS, WellFoundedInduction, SequenceTheorems

Options == UNION {ToSet(line) : line \in CommandLines}

Tests == DOMAIN test_set
Names == {test_set[i].name : i \in Tests}

-----------------------------------------------------------------------------
(* The table.                                                              *)

LEMMA TestsAre == Tests = 1 .. 13
  BY DEF Tests, test_set

(* No two puzzles of the table have the same name.                         *)
LEMMA NamesDiffer ==
    ASSUME NEW i \in Tests, NEW j \in Tests, test_set[i].name = test_set[j].name
    PROVE  i = j
  BY TestsAre DEF test_set, Puzzle

LEMMA SmallestOf ==
    ASSUME NEW S \in SUBSET Nat, S # {}
    PROVE  \E m \in S : \A j \in S : m <= j
<1>1. PICK m \in S : \A y \in S : ~ (<<y, m>> \in OpToRel(<, Nat))
  BY NatLessThanWellFounded, WFMin
<1>2. \A y \in S : ~ (y < m)
  BY <1>1 DEF OpToRel
<1> QED
  BY <1>2

(* run_tests goes through the table from its beginning to its end.         *)
LEMMA NextTestIsLater ==
    ASSUME NEW i \in Nat, NextTest(i) # 0
    PROVE  NextTest(i) \in Tests /\ i < NextTest(i)
<1> DEFINE rest == {j \in Selected : j > i}
<1>1. rest \in SUBSET Nat /\ rest \subseteq Tests
  <2>1. Selected \subseteq Tests
    BY DEF Selected, Tests
  <2>2. Tests \subseteq Nat
    BY TestsAre
  <2> QED
    BY <2>1, <2>2
<1>2. rest # {}
  BY DEF NextTest
<1>3. \E j \in rest : \A k \in rest : j <= k
  BY <1>1, <1>2, SmallestOf
<1>4. NextTest(i) = CHOOSE j \in rest : \A k \in rest : j <= k
  BY <1>2 DEF NextTest
<1>5. NextTest(i) \in rest
  BY <1>3, <1>4
<1> QED
  BY <1>1, <1>5

LEMMA SameOptionsSameOrder ==
    ASSUME opt' = opt, NEW i
    PROVE  NextTest(i)' = NextTest(i)
  BY DEF NextTest, Selected

-----------------------------------------------------------------------------
(* The options.                                                            *)

OptionsOK ==
    /\ argv \in Seq(Options)
    /\ "argval" \in DOMAIN opt
    /\ opt.argval \in [1 .. 3 -> Words]

LEMMA OptionIs ==
    ASSUME NEW o \in Options
    PROVE  /\ o.flag \in {"h", "f", "r", "T"} \cup DOMAIN Argument
           /\ o.flag \in DOMAIN Argument => /\ o.arg \in Text
                                            /\ Argument[o.flag] \in 1 .. 3
<1>1. PICK line \in CommandLines : o \in ToSet(line)
  BY DEF Options
<1>2. \A f \in DOMAIN Argument : Argument[f] \in 1 .. 3
  BY DEF Argument
<1>3. /\ o.flag \in {"h", "f", "r", "T"} \cup DOMAIN Argument
      /\ o.flag \in DOMAIN Argument => o.arg \in Text
  BY <1>1, CommandLinesAssumption, Zenon
<1> QED
  BY <1>2, <1>3

LEMMA OptionsInit == Init => OptionsOK
<1> SUFFICES ASSUME Init
             PROVE  OptionsOK
  OBVIOUS
<1>1. argv \in Seq(Options)
  <2>1. argv \in Seq(ToSet(argv))
    BY CommandLinesAssumption DEF Init
  <2>2. ToSet(argv) \subseteq Options
    BY DEF Init, Options
  <2> QED
    BY <2>1, <2>2
<1>2. Zero \in Words
  BY DEF Zero, Words
<1> QED
  BY <1>1, <1>2 DEF Init, OptionsOK

LEMMA GetOptKeeps ==
    ASSUME OptionsOK, GetOpt
    PROVE  OptionsOK'
<1> DEFINE o == Head(argv)
           k == Argument[o.flag]
<1>1. o \in Options /\ argv' \in Seq(Options)
  BY DEF GetOpt, OptionsOK
<1>2. \/ opt' = opt
      \/ \E x : opt' = [opt EXCEPT !.test_fname = x]
      \/ \E x : opt' = [opt EXCEPT !.global_rating = x]
      \/ \E x : opt' = [opt EXCEPT !.timeout_limit = x]
      \/ /\ o.flag \in DOMAIN Argument
         /\ opt' = [opt EXCEPT !.has_arg[k] = TRUE, !.argval[k] = o.arg.word]
  <2> DEFINE exits == \/ o.flag = "h"
                      \/ o.flag = "r" /\ o.arg < 0
                      \/ o.flag \in DOMAIN Argument /\ ~ get_num_val(o.arg, opt.argval[k])
  <2>1. opt' = CASE exits -> opt
                 [] ~ exits /\ o.flag = "f" -> [opt EXCEPT !.test_fname = o.arg]
                 [] ~ exits /\ o.flag = "r" -> [opt EXCEPT !.global_rating = o.arg]
                 [] ~ exits /\ o.flag = "T" -> [opt EXCEPT !.timeout_limit = o.arg]
                 [] ~ exits /\ o.flag \in DOMAIN Argument ->
                       [opt EXCEPT !.has_arg[k] = TRUE, !.argval[k] = o.arg.word]
    BY DEF GetOpt
  <2>2. \/ o.flag = "h" \/ o.flag = "f" \/ o.flag = "r" \/ o.flag = "T"
        \/ o.flag \in DOMAIN Argument
    BY <1>1, OptionIs
  <2>3. o.flag = "h" => exits
    OBVIOUS
  <2>4. \A f \in DOMAIN Argument : f \notin {"h", "f", "r", "T"}
    BY DEF Argument
  <2> HIDE DEF exits, k
  <2>5. CASE exits
    BY <2>1, <2>5
  <2>6. CASE ~ exits /\ o.flag = "f"
    BY <2>1, <2>4, <2>6
  <2>7. CASE ~ exits /\ o.flag = "r"
    BY <2>1, <2>4, <2>7
  <2>8. CASE ~ exits /\ o.flag = "T"
    BY <2>1, <2>4, <2>8
  <2>9. CASE ~ exits /\ o.flag \in DOMAIN Argument
    BY <2>1, <2>4, <2>9
  <2> QED
    BY <2>2, <2>3, <2>5, <2>6, <2>7, <2>8, <2>9
<1>3. o.flag \in DOMAIN Argument => k \in 1 .. 3 /\ o.arg.word \in Words
  BY <1>1, OptionIs DEF Text
<1>4. "argval" \in DOMAIN opt' /\ opt'.argval \in [1 .. 3 -> Words]
  <2>1. CASE o.flag \in DOMAIN Argument
             /\ opt' = [opt EXCEPT !.has_arg[k] = TRUE, !.argval[k] = o.arg.word]
    <3>1. opt'.argval = [opt.argval EXCEPT ![k] = o.arg.word]
      BY <2>1 DEF OptionsOK
    <3> QED
      BY <1>3, <2>1, <3>1 DEF OptionsOK
  <2> QED
    BY <1>2, <2>1 DEF OptionsOK
<1> QED
  BY <1>1, <1>4 DEF OptionsOK

LEMMA OptionsStep == OptionsOK /\ [Next]_vars => OptionsOK'
<1> SUFFICES ASSUME OptionsOK, [Next]_vars
             PROVE  OptionsOK'
  OBVIOUS
<1>1. CASE GetOpt
  BY <1>1, GetOptKeeps
<1>2. CASE UNCHANGED <<argv, opt>>
  BY <1>2 DEF OptionsOK
<1> QED
  BY <1>1, <1>2
  DEF Next, main, main_run_tests, test_function_begin, test_function_values,
      run_tests, timeout_handler, vars

ArgumentShown ==
    pc = "options" /\ argv # << >> /\ Head(argv).flag \in DOMAIN Argument =>
          LET text == Head(argv).arg
              k == Argument[Head(argv).flag]
              shown == get_num_val_fshow(text)
          IN  /\ get_num_val_ishow(text) = (shown /\ ~ text.float)
              /\ pc' = "exit" => ~ shown \/ opt.argval[k] # Zero
              /\ pc' # "exit" => shown /\ opt'.argval[k] = text.word

LEMMA ArgumentStep == OptionsOK /\ Next => ArgumentShown
<1> DEFINE o == Head(argv)
           k == Argument[o.flag]
           text == o.arg
<1> SUFFICES ASSUME OptionsOK, Next, pc = "options", argv # << >>,
                    o.flag \in DOMAIN Argument
             PROVE  /\ get_num_val_ishow(text) = (get_num_val_fshow(text) /\ ~ text.float)
                    /\ pc' = "exit" => ~ get_num_val_fshow(text) \/ opt.argval[k] # Zero
                    /\ pc' # "exit" => get_num_val_fshow(text) /\ opt'.argval[k] = text.word
  BY DEF ArgumentShown
<1>1. GetOpt
  BY DEF Next, main, main_run_tests, test_function_begin, test_function_values,
         run_tests, timeout_handler
<1>2. o \in Options
  BY DEF OptionsOK
<1>3. text \in Text /\ k \in 1 .. 3
  BY <1>2, OptionIs
<1>4. text.float \in BOOLEAN /\ text.garbage \in BOOLEAN
  BY <1>3 DEF Text
<1>5. o.flag \notin {"h", "f", "r", "T"}
  BY DEF Argument
<1>6. pc' = "exit" <=> ~ get_num_val(text, opt.argval[k])
  BY <1>1, <1>5 DEF GetOpt
<1>7. pc' # "exit" => opt' = [opt EXCEPT !.has_arg[k] = TRUE, !.argval[k] = text.word]
  BY <1>1, <1>5 DEF GetOpt
<1>8. pc' # "exit" => opt'.argval[k] = text.word
  BY <1>3, <1>7 DEF OptionsOK
<1> HIDE DEF o, k, text
<1> QED
  BY <1>4, <1>6, <1>8 DEF get_num_val, get_num_val_fshow, get_num_val_ishow

(* Every number given to btest is tested as the word fshow and ishow show  *)
(* for it, or refused with a reason (get_num_val).                         *)
THEOREM NumbersReadAsShown == Spec => ArgumentsAsShown
<1>1. OptionsOK /\ [Next]_vars => [ArgumentShown]_vars
  BY ArgumentStep
<1>2. Spec => [][ArgumentShown]_vars
  BY OptionsInit, OptionsStep, <1>1, PTL DEF Spec
<1> QED
  BY <1>2 DEF ArgumentsAsShown, ArgumentShown

-----------------------------------------------------------------------------
(* The alarm.  It is never cancelled, so it may outlive its test; but the  *)
(* next test that sets it replaces it, and before that only the place      *)
(* where the next test's values are generated can be interrupted by it.    *)

TimerOK ==
    /\ {"alarm", "blocked", "envbuf"} \subseteq DOMAIN timer
    /\ timer.alarm \in Nat /\ ~ timer.blocked
    /\ {"test", "vals", "a1", "errors"} \subseteq DOMAIN run
    /\ DOMAIN blame = Names
    /\ pc \in {"gen", "test", "score"} => run.test \in Tests

(* Whose alarm is pending where.                                           *)
AlarmOf ==
    /\ pc = "options" => timer.alarm = 0 /\ \A n \in Names : blame[n] = Nobody
    /\ pc = "gen" /\ timer.alarm # 0 =>
          timer.alarm < run.test /\ NextTest(timer.alarm) = run.test
    /\ pc \in {"test", "score"} /\ timer.alarm # 0 => timer.alarm = run.test
    /\ pc = "test" /\ opt.timeout_limit > 0 =>
          timer.alarm = run.test /\ timer.envbuf = run.test
    /\ ~ (opt.timeout_limit > 0) => timer.alarm = 0

AlarmInv == TimerOK /\ AlarmOf /\ TimeoutsBlamed

LEMMA AlarmInit == Init => AlarmInv
<1> SUFFICES ASSUME Init
             PROVE  AlarmInv
  OBVIOUS
<1>1. blame = [name \in Names |-> Nobody]
  BY DEF Init, Names, Tests
<1>2. \A i \in Tests : test_set[i].name \in Names
  BY DEF Names
<1>3. TimerOK
  BY <1>1 DEF Init, TimerOK
<1>4. AlarmOf
  BY <1>1 DEF Init, AlarmOf
<1>5. TimeoutsBlamed
  BY <1>1, <1>2 DEF TimeoutsBlamed, Tests
<1> QED
  BY <1>3, <1>4, <1>5 DEF AlarmInv

(* Steps that end no test.                                                 *)
LEMMA NobodyEnded ==
    ASSUME TimeoutsBlamed, blame' = blame, opt' = opt
    PROVE  TimeoutsBlamed'
<1>1. \A i : NextTest(i)' = NextTest(i)
  BY SameOptionsSameOrder
<1> QED
  BY <1>1 DEF TimeoutsBlamed

LEMMA AlarmStep == AlarmInv /\ [Next]_vars => AlarmInv'
<1> SUFFICES ASSUME AlarmInv, [Next]_vars
             PROVE  AlarmInv'
  OBVIOUS
<1> USE DEF AlarmInv
<1>n. \A i \in Tests : i \in Nat /\ i # 0 /\ test_set[i].name \in Names
  BY TestsAre DEF Names
<1>1. CASE GetOpt
  <2>1. /\ pc = "options" /\ pc' \in {"exit", "options"}
        /\ UNCHANGED <<run, timer, blame>>
    BY <1>1 DEF GetOpt
  <2>2. \A n \in Names : blame'[n] = Nobody
    BY <2>1 DEF AlarmOf
  <2>3. TimerOK'
    BY <2>1 DEF TimerOK
  <2>4. AlarmOf'
    BY <2>1, <2>2 DEF AlarmOf
  <2>5. TimeoutsBlamed'
    BY <1>n, <2>2 DEF TimeoutsBlamed, Tests
  <2> QED
    BY <2>3, <2>4, <2>5
<1>2. CASE main_run_tests \/ run_tests
  <2>1. PICK i : /\ Call(i)
                 /\ opt' = opt /\ timer' = timer /\ blame' = blame
                 /\ \/ pc = "options" /\ i = 0
                    \/ pc = "score" /\ i = run.test
    BY <1>2 DEF main_run_tests, run_tests
  <2>3. i \in Nat /\ (timer.alarm # 0 => timer.alarm = i)
    BY <1>n, <2>1 DEF TimerOK, AlarmOf
  <2>4. /\ DOMAIN run' = {"test", "vals", "a1", "errors"}
        /\ run'.test = NextTest(i)
        /\ pc' = IF NextTest(i) = 0 THEN "done" ELSE "gen"
    BY <2>1 DEF Call
  <2>5. NextTest(i) # 0 => NextTest(i) \in Tests /\ i < NextTest(i)
    BY <2>3, NextTestIsLater
  <2>6. NextTest(i)' = NextTest(i)
    BY <2>1, SameOptionsSameOrder
  <2>7. TimerOK'
    BY <2>1, <2>4, <2>5 DEF TimerOK
  <2>8. AlarmOf'
    BY <2>1, <2>3, <2>4, <2>5, <2>6 DEF AlarmOf
  <2> QED
    BY <2>1, <2>7, <2>8, NobodyEnded
<1>3. CASE test_function_begin
  <2>1. /\ opt' = opt /\ blame' = blame
        /\ pc = "gen" /\ pc' = "test"
        /\ DOMAIN run' = DOMAIN run /\ run'.test = run.test
    BY <1>3 DEF test_function_begin, TimerOK
  <2>2. timer' = IF opt.timeout_limit > 0
                 THEN [timer EXCEPT !.envbuf = run.test, !.alarm = alarm(@, run.test)]
                 ELSE timer
    BY <1>3 DEF test_function_begin
  <2>3. CASE opt.timeout_limit > 0
    <3>1. /\ DOMAIN timer' = DOMAIN timer
          /\ timer'.alarm = run.test /\ timer'.envbuf = run.test
          /\ timer'.blocked = timer.blocked
      BY <2>2, <2>3 DEF alarm, TimerOK
    <3>2. TimerOK' /\ AlarmOf'
      BY <1>n, <2>1, <2>3, <3>1 DEF TimerOK, AlarmOf
    <3> QED
      BY <2>1, <3>2, NobodyEnded
  <2>4. CASE ~ (opt.timeout_limit > 0)
    <3>1. timer' = timer /\ timer.alarm = 0
      BY <2>2, <2>4 DEF AlarmOf
    <3>2. TimerOK' /\ AlarmOf'
      BY <2>1, <2>4, <3>1 DEF TimerOK, AlarmOf
    <3> QED
      BY <2>1, <3>2, NobodyEnded
  <2> QED
    BY <2>3, <2>4
<1>4. CASE test_function_values
  <2>1. /\ opt' = opt /\ blame' = blame /\ timer' = timer
        /\ pc = "test" /\ pc' \in {"test", "score"}
        /\ DOMAIN run' = DOMAIN run /\ run'.test = run.test
    BY <1>4 DEF test_function_values, TimerOK
  <2>2. TimerOK' /\ AlarmOf'
    BY <2>1 DEF TimerOK, AlarmOf
  <2> QED
    BY <2>1, <2>2, NobodyEnded
<1>5. CASE timeout_handler
  <2> DEFINE b == [by |-> timer.alarm, at |-> pc]
             t == run.test
  <2>1. /\ timer.alarm # 0 /\ pc \in {"gen", "test", "score"}
        /\ opt' = opt
        /\ timer' = [timer EXCEPT !.alarm = 0]
        /\ run' = [run EXCEPT !.errors = 1]
        /\ pc' \in {"score", "down"}
        /\ blame' = [blame EXCEPT ![test_set[t].name] = b]
    BY <1>5 DEF timeout_handler, Test
  <2>2. t \in Tests
    BY <2>1 DEF TimerOK
  <2>3. /\ timer'.alarm = 0 /\ timer'.blocked = timer.blocked
        /\ DOMAIN timer' = DOMAIN timer
        /\ DOMAIN run' = DOMAIN run /\ run'.test = t
    BY <2>1 DEF TimerOK
  <2>4. \A i \in Tests : blame'[test_set[i].name] = IF i = t THEN b
                                                    ELSE blame[test_set[i].name]
    BY <1>n, <2>1, <2>2, NamesDiffer DEF TimerOK
  <2>5. \/ b.by = t /\ b.at \in {"test", "score"}
        \/ b.by < t /\ b.at = "gen" /\ NextTest(b.by) = t
    BY <2>1 DEF AlarmOf
  <2>6. \A i : NextTest(i)' = NextTest(i)
    BY <2>1, SameOptionsSameOrder
  <2>7. TimerOK'
    BY <2>1, <2>2, <2>3 DEF TimerOK
  <2>8. AlarmOf'
    BY <2>1, <2>3 DEF AlarmOf
  <2>9. TimeoutsBlamed'
    <3>1. ASSUME NEW i \in Tests, NEW c, c = blame'[test_set[i].name], c # Nobody
          PROVE  \/ c.by = i /\ c.at \in {"test", "score"}
                 \/ c.by < i /\ c.at = "gen" /\ NextTest(c.by) = i
      <4>1. CASE i = t
        <5> HIDE DEF b
        <5> QED
          BY <2>4, <2>5, <3>1, <4>1
      <4>2. CASE i # t
        BY <2>4, <3>1, <4>2 DEF TimeoutsBlamed, Tests
      <4> QED
        BY <4>1, <4>2
    <3> QED
      BY <2>6, <3>1 DEF TimeoutsBlamed, Tests
  <2> QED
    BY <2>7, <2>8, <2>9
<1>6. CASE UNCHANGED vars
  <2>1. /\ opt' = opt /\ blame' = blame /\ timer' = timer
        /\ run' = run /\ pc' = pc
    BY <1>6 DEF vars
  <2>2. \A i : NextTest(i)' = NextTest(i)
    BY <2>1, SameOptionsSameOrder
  <2>3. TimerOK' /\ AlarmOf'
    BY <2>1, <2>2 DEF TimerOK, AlarmOf
  <2> QED
    BY <2>1, <2>3, NobodyEnded
<1> QED
  BY <1>1, <1>2, <1>3, <1>4, <1>5, <1>6 DEF Next, main

(* A test is ended by its own alarm, or, before it calls a function, by    *)
(* the one the test before it left behind (test_function, alarm).          *)
THEOREM AlarmsBlamed == Spec => []TimeoutsBlamed
<1>1. AlarmInv => TimeoutsBlamed
  BY DEF AlarmInv
<1> QED
  BY AlarmInit, AlarmStep, <1>1, PTL DEF Spec

(* A puzzle that never returns runs under its own alarm, which is not      *)
(* blocked, unless the timeout was switched off (timeout_handler).         *)
THEOREM EndlessInterrupted == Spec => []EndlessUnderAlarm
<1>1. AlarmInv => EndlessUnderAlarm
  BY DEF AlarmInv, AlarmOf, TimerOK, EndlessUnderAlarm
<1> QED
  BY AlarmInit, AlarmStep, <1>1, PTL DEF Spec

=============================================================================

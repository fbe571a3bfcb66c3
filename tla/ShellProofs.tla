---------------------------- MODULE ShellProofs ----------------------------
(***************************************************************************)
(* Proofs about the shell, for every size of its job list and every number *)
(* of children and keys, in three parts:                                   *)
(*                                                                         *)
(*  - the job list by itself: what its helpers return, and that the list   *)
(*    stays well formed (JobTable);                                        *)
(*  - the shell's type, its prompt and its single foreground job;          *)
(*  - what the SIGCHLD handler does with the children: no report is lost;  *)
(*    whoever is listed has not been reaped; and, as long as every child   *)
(*    finds room in the job list, every child that has not been reaped is  *)
(*    listed.  Also the states of the jobs: they tell the truth about the  *)
(*    processes, they change only as the header of tsh.c lists and by the  *)
(*    stop of a background job, and a key the user types reaches only the  *)
(*    job in the foreground, or one that was and has stopped since.        *)
(***************************************************************************)
EXTENDS Shell, TLAPS, WellFoundedInduction, FiniteSets, FiniteSetTheorems

-----------------------------------------------------------------------------
(* The job list: what its helpers return.                                  *)

(* A nonempty set of naturals has a smallest member.                       *)
LEMMA SmallestMember ==
    ASSUME NEW S \in SUBSET Nat, S # {}
    PROVE  \E m \in S : \A j \in S : m <= j
<1>1. PICK m \in S : \A y \in S : ~ (<<y, m>> \in OpToRel(<, Nat))
  BY NatLessThanWellFounded, WFMin
<1>2. \A y \in S : ~ (y < m)
  BY <1>1 DEF OpToRel
<1> QED
  BY <1>2

(* The scan of the array finds the first slot of a nonempty set of slots.  *)
LEMMA FirstIsMember ==
    ASSUME NEW S \in SUBSET Slots, S # {}
    PROVE  First(S) \in S
<1>1. \E i \in S : \A j \in S : i <= j
  BY SmallestMember, MaxJobsAssumption DEF Slots
<1> QED
  BY <1>1 DEF First

(* maxjid returns a job ID within the bound, above every listed one.       *)
LEMMA MaxJidBounds ==
    ASSUME NEW tbl, \A i \in Slots : tbl[i].jid \in 0 .. JidBound
    PROVE  /\ maxjid(tbl) \in 0 .. JidBound
           /\ \A i \in Slots : tbl[i].jid <= maxjid(tbl)
<1> DEFINE Jids   == {0} \cup {tbl[i].jid : i \in Slots}
           Uppers == {u \in Nat : \A x \in Jids : x <= u}
<1>1. Jids \in SUBSET (0 .. JidBound)
  BY JidBoundAssumption
<1>2. JidBound \in Uppers
  BY <1>1, JidBoundAssumption
<1>3. PICK m \in Uppers : \A u \in Uppers : m <= u
  BY <1>2, SmallestMember
<1>4. m \in Jids
  <2> SUFFICES ASSUME m \notin Jids
               PROVE  FALSE
    OBVIOUS
  <2>1. m \in Nat /\ m # 0 /\ \A x \in Jids : x \in Nat /\ x <= m /\ x # m
    BY <1>1, <1>3, JidBoundAssumption
  <2>2. m - 1 \in Uppers
    BY <2>1
  <2> QED
    BY <2>1, <2>2, <1>3
<1>5. \A i \in Slots : tbl[i].jid <= m
  BY <1>3
<1>6. \E x \in Jids : \A i \in Slots : tbl[i].jid <= x
  BY <1>4, <1>5
<1>7. /\ maxjid(tbl) \in Jids
      /\ \A i \in Slots : tbl[i].jid <= maxjid(tbl)
  BY <1>6 DEF maxjid
<1> QED
  BY <1>1, <1>7

(* getjobpid returns a slot that holds the pid, or NULL if none does.      *)
LEMMA GetJobPid ==
    ASSUME NEW p
    PROVE  /\ getjobpid(p) = NULL <=> SlotsOf(p) = {}
           /\ getjobpid(p) # NULL => /\ getjobpid(p) \in Slots
                                     /\ jobs[getjobpid(p)].pid = p
<1>1. SlotsOf(p) \in SUBSET Slots
  BY DEF SlotsOf
<1>2. CASE SlotsOf(p) = {}
  BY <1>2 DEF getjobpid, SlotsWith
<1>3. CASE SlotsOf(p) # {}
  <2>1. getjobpid(p) \in SlotsOf(p)
    BY <1>1, <1>3, FirstIsMember DEF getjobpid, SlotsWith
  <2>2. NULL \notin Slots
    BY DEF NULL, Slots
  <2> QED
    BY <2>1, <2>2, <1>3 DEF SlotsOf
<1> QED
  BY <1>2, <1>3

-----------------------------------------------------------------------------
(* What addjob and deletejob preserve.                                     *)

LEMMA AddJobType ==
    ASSUME TableTypeOK, NEW p \in Pids, NEW s \in JobState,
           nextjid <= JidBound, addjob(p, s)
    PROVE  TableTypeOK'
<1>1. CASE FreeSlots = {}
  BY <1>1 DEF addjob, TableTypeOK, tableVars
<1>2. CASE FreeSlots # {}
  <2>1. First(FreeSlots) \in Slots
    BY <1>2, FirstIsMember DEF FreeSlots
  <2>2. nextjid' \in 1 .. JidBound + 1
    BY <1>2, JidBoundAssumption, MaxJobsAssumption DEF addjob, TableTypeOK
  <2>3. Job(p, nextjid, s) \in [pid : Pids \cup {NoPid}, jid : 0 .. JidBound,
                                state : JobState]
    BY JidBoundAssumption DEF Job, TableTypeOK
  <2> QED
    BY <1>2, <2>1, <2>2, <2>3 DEF addjob, TableTypeOK
<1> QED
  BY <1>1, <1>2

LEMMA DeleteJobType ==
    ASSUME TableTypeOK, NEW p, deletejob(p)
    PROVE  TableTypeOK'
<1> DEFINE i == getjobpid(p)
           cleared == [jobs EXCEPT ![i] = ClearedJob]
           Entry == [pid : Pids \cup {NoPid}, jid : 0 .. JidBound,
                     state : JobState]
<1>1. CASE i = NULL
  BY <1>1 DEF deletejob, TableTypeOK, tableVars
<1>2. CASE i # NULL
  <2>1. ClearedJob \in Entry
    BY JidBoundAssumption DEF ClearedJob, Job, JobState
  <2>2. cleared \in [Slots -> Entry]
    BY <2>1 DEF TableTypeOK
  <2>3. \A k \in Slots : cleared[k].jid \in 0 .. JidBound
    <3> HIDE DEF cleared
    <3> QED
      BY <2>2
  <2>4. maxjid(cleared) \in 0 .. JidBound
    <3> HIDE DEF cleared
    <3> QED
      BY <2>3, MaxJidBounds
  <2>5. jobs' = cleared /\ nextjid' = maxjid(cleared) + 1
    BY <1>2 DEF deletejob
  <2> QED
    <3> HIDE DEF cleared
    <3> QED
      BY <2>2, <2>4, <2>5, JidBoundAssumption DEF TableTypeOK
<1> QED
  BY <1>1, <1>2

LEMMA AddJobPidUnique ==
    ASSUME TableTypeOK, PidUnique, NEW p \in Pids, NEW s \in JobState,
           SlotsOf(p) = {}, addjob(p, s)
    PROVE  PidUnique'
<1>1. CASE FreeSlots = {}
  BY <1>1 DEF addjob, PidUnique, tableVars
<1>2. CASE FreeSlots # {}
  <2> DEFINE k == First(FreeSlots)
  <2>1. k \in Slots
    BY <1>2, FirstIsMember DEF FreeSlots
  <2>2. \A i \in Slots : jobs'[i] = IF i = k THEN Job(p, nextjid, s) ELSE jobs[i]
    BY <1>2, <2>1 DEF addjob, TableTypeOK
  <2>3. \A i \in Slots : jobs[i].pid # p
    BY DEF SlotsOf
  <2> HIDE DEF k
  <2> QED
    BY <2>2, <2>3 DEF PidUnique, Job
<1> QED
  BY <1>1, <1>2

LEMMA DeleteJobPidUnique ==
    ASSUME TableTypeOK, PidUnique, NEW p, deletejob(p)
    PROVE  PidUnique'
<1>1. CASE getjobpid(p) = NULL
  BY <1>1 DEF deletejob, PidUnique, tableVars
<1>2. CASE getjobpid(p) # NULL
  <2>1. \A i \in Slots : jobs'[i] = IF i = getjobpid(p) THEN ClearedJob ELSE jobs[i]
    BY <1>2 DEF deletejob, TableTypeOK
  <2> QED
    BY <2>1 DEF PidUnique, ClearedJob, Job
<1> QED
  BY <1>1, <1>2

-----------------------------------------------------------------------------
(* The list on its own.                                                    *)

TableInv == TableTypeOK /\ PidUnique /\ EntriesWhole

LEMMA TableInit == InitTable => TableInv
<1> SUFFICES ASSUME InitTable
             PROVE  TableInv
  OBVIOUS
<1>1. ClearedJob \in [pid : Pids \cup {NoPid}, jid : 0 .. JidBound,
                     state : JobState]
  BY JidBoundAssumption DEF ClearedJob, Job, JobState
<1>2. TableTypeOK
  BY <1>1, JidBoundAssumption DEF InitTable, TableTypeOK
<1>3. PidUnique /\ EntriesWhole
  BY DEF InitTable, PidUnique, EntriesWhole, ClearedJob, Job
<1> QED
  BY <1>2, <1>3 DEF TableInv

LEMMA TableStep == TableInv /\ [NextTable]_tableVars => TableInv'
<1> SUFFICES ASSUME TableInv, [NextTable]_tableVars
             PROVE  TableInv'
  OBVIOUS
<1> USE DEF TableInv
<1>1. ASSUME NEW p \in Pids, NEW s \in {"FG", "BG"}, AddJob(p, s)
      PROVE  TableInv'
  <2>1. s \in JobState
    BY DEF JobState
  <2>2. TableTypeOK' /\ PidUnique'
    BY <1>1, <2>1, AddJobType, AddJobPidUnique DEF AddJob
  <2>3. EntriesWhole'
    <3>1. CASE FreeSlots = {}
      BY <1>1, <3>1 DEF AddJob, addjob, EntriesWhole, tableVars
    <3>2. CASE FreeSlots # {}
      <4> DEFINE k == First(FreeSlots)
      <4>1. k \in Slots
        BY <3>2, FirstIsMember DEF FreeSlots
      <4>2. \A i \in Slots : jobs'[i] = IF i = k THEN Job(p, nextjid, s) ELSE jobs[i]
        BY <1>1, <3>2, <4>1 DEF AddJob, addjob, TableTypeOK
      <4>3. nextjid >= 1 /\ p # NoPid
        BY NoPidAssumption, JidBoundAssumption DEF TableTypeOK
      <4> HIDE DEF k
      <4> QED
        BY <4>2, <4>3 DEF EntriesWhole, Job
    <3> QED
      BY <3>1, <3>2
  <2> QED
    BY <2>2, <2>3
<1>2. ASSUME NEW p \in Pids, DeleteJob(p)
      PROVE  TableInv'
  <2>1. TableTypeOK' /\ PidUnique'
    BY <1>2, DeleteJobType, DeleteJobPidUnique DEF DeleteJob
  <2>2. EntriesWhole'
    <3>1. CASE getjobpid(p) = NULL
      BY <1>2, <3>1 DEF DeleteJob, deletejob, EntriesWhole, tableVars
    <3>2. CASE getjobpid(p) # NULL
      <4>1. \A i \in Slots :
              jobs'[i] = IF i = getjobpid(p) THEN ClearedJob ELSE jobs[i]
        BY <1>2, <3>2 DEF DeleteJob, deletejob, TableTypeOK
      <4> QED
        BY <4>1 DEF EntriesWhole
    <3> QED
      BY <3>1, <3>2
  <2> QED
    BY <2>1, <2>2
<1>3. ASSUME NEW p \in Pids, NEW s \in {"FG", "BG", "ST"}, ChangeState(p, s)
      PROVE  TableInv'
  <2> DEFINE k == getjobpid(p)
  <2>1. k \in Slots /\ jobs[k].pid = p
    BY <1>3, GetJobPid DEF ChangeState
  <2>2. p # NoPid /\ s \in JobState \ {"UNDEF"}
    BY NoPidAssumption DEF JobState
  <2>3. jobs' = [jobs EXCEPT ![k].state = s] /\ nextjid' = nextjid
    BY <1>3 DEF ChangeState, SetState
  <2> HIDE DEF k
  <2>4. TableTypeOK'
    BY <2>1, <2>2, <2>3 DEF TableTypeOK
  <2>5. \A i \in Slots : /\ jobs'[i].pid = jobs[i].pid
                         /\ jobs'[i].jid = jobs[i].jid
                         /\ i # k => jobs'[i] = jobs[i]
    BY <2>1, <2>3 DEF TableTypeOK
  <2>6. jobs'[k].state # "UNDEF" /\ jobs[k] # ClearedJob
    BY <2>1, <2>2, <2>3 DEF TableTypeOK, ClearedJob, Job
  <2> QED
    BY <2>1, <2>4, <2>5, <2>6 DEF PidUnique, EntriesWhole
<1>4. CASE UNCHANGED tableVars
  BY <1>4 DEF tableVars, TableTypeOK, PidUnique, EntriesWhole
<1> QED
  BY <1>1, <1>2, <1>3, <1>4 DEF NextTable

(* Whatever legal calls are made, the list never holds a pid twice and no  *)
(* entry is half in use (addjob, deletejob and the handlers' updates).     *)
THEOREM TableCorrect == SpecTable => [](TableTypeOK /\ PidUnique /\ EntriesWhole)
<1>1. TableInv => TableTypeOK /\ PidUnique /\ EntriesWhole
  BY DEF TableInv
<1> QED
  BY TableInit, TableStep, <1>1, PTL DEF SpecTable

-----------------------------------------------------------------------------
(* Type correctness.                                                       *)

LEMMA NoCommandType == NoCommand \in [pid : Pids \cup {NoPid}, bg : BOOLEAN]
  BY DEF NoCommand

LEMMA IdleFrameType == IdleFrame \in Frame
  BY DEF IdleFrame, Frame

(* The slot a bg or fg argument names is a slot, or NULL.                  *)
LEMMA NamedJobSlot ==
    ASSUME NEW arg, NamedJob(arg) # NULL
    PROVE  NamedJob(arg) \in Slots
<1> DEFINE S == {i \in Slots : arg.jid >= 1 /\ jobs[i].jid = arg.jid}
<1>1. NamedJob(arg) = getjobjid(arg.jid)
  BY DEF NamedJob, isDigit
<1>2. getjobjid(arg.jid) = SlotsWith(S)
  BY DEF getjobjid
<1>3. S # {} => First(S) \in S
  <2>1. S \in SUBSET Slots
    OBVIOUS
  <2> HIDE DEF S
  <2> QED
    BY <2>1, FirstIsMember
<1> QED
  BY <1>1, <1>2, <1>3 DEF SlotsWith

LEMMA SetStateType ==
    ASSUME TableTypeOK, NEW i \in Slots, NEW s \in JobState, SetState(i, s),
           nextjid' = nextjid
    PROVE  TableTypeOK'
  BY DEF TableTypeOK, SetState

(* The handlers on the stack have distinct places in it.                   *)
StackInv ==
    /\ \A h \in Handlers :
          /\ frame[h].at = "idle" <=> frame[h].depth = 0
          /\ frame[h].depth <= depth
    /\ \A g, h \in Handlers :
          frame[g].depth = frame[h].depth /\ g # h => frame[g].depth = 0

(* Between fork and addjob the SIGCHLD handler does not run.               *)
ForkWindow ==
    pc = "forked" => /\ "CHLD" \in mask
                     /\ frame["CHLD"].at = "idle"
                     /\ cmd.pid \in Pids
                     /\ nextjid <= JidBound

TypeInv == ShellTypeOK /\ StackInv /\ ForkWindow

LEMMA EnterStack ==
    ASSUME TypeInv, NEW h \in Handlers, NEW at \in {"waitpid", "kill"},
           NEW p \in Pids \cup {NoPid}, Enter(h, at, p)
    PROVE  /\ depth' \in Nat
           /\ frame' \in [Handlers -> Frame]
           /\ StackInv'
<1> DEFINE f == [at |-> at, pid |-> p, died |-> FALSE, depth |-> depth + 1]
<1>1. depth \in Nat /\ frame \in [Handlers -> Frame]
  BY DEF TypeInv, ShellTypeOK
<1>2. f \in Frame
  BY <1>1 DEF Frame
<1>3. /\ depth' = depth + 1
      /\ frame' = [frame EXCEPT ![h] = f]
  BY DEF Enter
<1>4. \A g \in Handlers : frame'[g] = IF g = h THEN f ELSE frame[g]
  BY <1>1, <1>3
<1>5. \A g \in Handlers : frame[g].depth \in Nat
  BY <1>1 DEF Frame
<1>6. f.at # "idle" /\ f.depth = depth + 1
  OBVIOUS
<1>7. frame' \in [Handlers -> Frame]
  BY <1>1, <1>2, <1>3
<1>8. StackInv'
  <2> HIDE DEF f
  <2> QED
    BY <1>1, <1>3, <1>4, <1>5, <1>6 DEF StackInv, TypeInv
<1> QED
  BY <1>1, <1>3, <1>7, <1>8

LEMMA ReturnStack ==
    ASSUME TypeInv, NEW h \in Handlers, Return(h),
           frame[h].at # "idle", frame[h].depth = depth
    PROVE  /\ pc' \in MainPC
           /\ depth' \in Nat
           /\ frame' \in [Handlers -> Frame]
           /\ StackInv'
           /\ pc' = "forked" => pc = "forked"
<1>1. depth \in Nat /\ frame \in [Handlers -> Frame] /\ pc \in MainPC
  BY DEF TypeInv, ShellTypeOK
<1>2. IdleFrame \in Frame /\ IdleFrame.at = "idle" /\ IdleFrame.depth = 0
  BY DEF IdleFrame, Frame
<1>3. \A g \in Handlers : frame'[g] = IF g = h THEN IdleFrame ELSE frame[g]
  BY <1>1 DEF Return
<1>4. frame' \in [Handlers -> Frame]
  BY <1>1, <1>2 DEF Return
<1>5. \A g \in Handlers : frame[g].depth \in Nat
  BY <1>1 DEF Frame
<1>6. depth # 0
  BY DEF TypeInv, StackInv
<1>7. depth' = depth - 1 /\ depth' \in Nat
  BY <1>1, <1>6 DEF Return
<1>8. StackInv'
  BY <1>1, <1>2, <1>3, <1>5, <1>7 DEF StackInv, TypeInv
<1>9. pc' \in MainPC /\ (pc' = "forked" => pc = "forked")
  BY <1>1 DEF Return, MainPC
<1> QED
  BY <1>4, <1>7, <1>8, <1>9

(* A change of one handler's place in its code leaves the stack alone.     *)
LEMMA AdvanceStack ==
    ASSUME TypeInv, NEW h \in Handlers, NEW f \in Frame,
           f.at # "idle", f.depth = frame[h].depth, frame[h].at # "idle",
           frame' = [frame EXCEPT ![h] = f], depth' = depth
    PROVE  /\ frame' \in [Handlers -> Frame]
           /\ StackInv'
<1>1. frame \in [Handlers -> Frame]
  BY DEF TypeInv, ShellTypeOK
<1>2. \A g \in Handlers : frame'[g] = IF g = h THEN f ELSE frame[g]
  BY <1>1
<1>3. frame' \in [Handlers -> Frame]
  BY <1>1
<1>4. \A g \in Handlers : /\ frame'[g].depth = frame[g].depth
                          /\ frame'[g].at = "idle" <=> frame[g].at = "idle"
  BY <1>2
<1>5. StackInv'
  BY <1>4 DEF StackInv, TypeInv
<1> QED
  BY <1>3, <1>5

LEMMA TypeInit == Init => TypeInv
<1> SUFFICES ASSUME Init
             PROVE  TypeInv
  OBVIOUS
<1>1. TableTypeOK
  BY TableInit DEF Init, TableInv
<1>2. frame \in [Handlers -> Frame]
  BY IdleFrameType DEF Init
<1>3. proc \in [Pids -> ProcState]
  BY DEF Init, ProcState
<1>4. ShellTypeOK
  <2>1. cmd \in [pid : Pids \cup {NoPid}, bg : BOOLEAN]
    BY NoCommandType DEF Init
  <2>2. fgchld_flag \in {0, 1} /\ keys \in 0 .. MaxKeys
    BY MaxKeysAssumption DEF Init
  <2>4. chld \in BOOLEAN
    BY Zenon DEF Init
  <2>3. /\ pc \in MainPC /\ depth \in Nat
        /\ mask \in SUBSET AllSignals /\ prev \in SUBSET AllSignals
        /\ deaf \in SUBSET Pids /\ pending \in SUBSET Pids
    BY DEF Init, MainPC
  <2> QED
    BY <1>1, <1>2, <1>3, <2>1, <2>2, <2>3, <2>4 DEF ShellTypeOK
<1>5. StackInv /\ ForkWindow
  BY DEF Init, StackInv, ForkWindow, IdleFrame
<1> QED
  BY <1>4, <1>5 DEF TypeInv

LEMMA FgPidType ==
    ASSUME TableTypeOK
    PROVE  fgpid \in Pids \cup {NoPid}
<1>1. CASE FGSlots = {}
  BY <1>1 DEF fgpid
<1>2. CASE FGSlots # {}
  <2>1. First(FGSlots) \in Slots
    BY <1>2, FirstIsMember DEF FGSlots
  <2> QED
    BY <1>2, <2>1 DEF fgpid, TableTypeOK
<1> QED
  BY <1>1, <1>2

LEMMA TypeStep == TypeInv /\ [Next]_vars => TypeInv'
<1> SUFFICES ASSUME TypeInv, [Next]_vars
             PROVE  TypeInv'
  OBVIOUS
<1> USE DEF TypeInv, mainVars, procVars
<1>a. /\ "CHLD" \in Handlers
      /\ Keyboard \subseteq Handlers
      /\ AllSignals \in SUBSET AllSignals
      /\ "CHLD" \in AllSignals
  BY DEF Handlers, Keyboard, AllSignals
<1>1. ASSUME NEW p \in Pids, NEW bg \in BOOLEAN, eval_fork(p, bg)
      PROVE  TypeInv'
  <2>1. ShellTypeOK'
    BY <1>1, <1>a DEF eval_fork, ShellTypeOK, MainPC, ProcState, TableTypeOK
  <2>2. StackInv'
    BY <1>1 DEF eval_fork, StackInv
  <2>3. frame["CHLD"].at = "idle"
    BY <1>1, <1>a DEF eval_fork, AtPrompt, StackInv, ShellTypeOK, Frame
  <2>4. ForkWindow'
    BY <1>1, <2>3 DEF eval_fork, ForkWindow
  <2> QED
    BY <2>1, <2>2, <2>4
<1>2. CASE eval_forkFails
  BY <1>2 DEF eval_forkFails, ShellTypeOK, MainPC, Ended, TableTypeOK,
              StackInv, ForkWindow
<1>3. CASE eval_addFg
  <2>1. "FG" \in JobState
    BY DEF JobState
  <2>2. TableTypeOK'
    BY <1>3, <2>1, AddJobType DEF eval_addFg, Forked, ForkWindow, ShellTypeOK
  <2> QED
    BY <1>3, <1>a, <2>2
    DEF eval_addFg, ShellTypeOK, MainPC, StackInv, ForkWindow
<1>4. CASE eval_addBg
  <2>1. "BG" \in JobState
    BY DEF JobState
  <2>2. TableTypeOK'
    BY <1>4, <2>1, AddJobType DEF eval_addBg, Forked, ForkWindow, ShellTypeOK
  <2> QED
    BY <1>4, <2>2, NoCommandType
    DEF eval_addBg, ReturnToMain, ShellTypeOK, MainPC, StackInv, ForkWindow
<1>5. CASE waitfg
  BY <1>5, NoCommandType DEF waitfg, ReturnToMain, tableVars, TableTypeOK, ShellTypeOK, MainPC, StackInv,
              ForkWindow
<1>6. ASSUME NEW arg \in Args, do_bgfg_refuse(arg)
      PROVE  TypeInv'
  BY <1>6, <1>a DEF do_bgfg_refuse, AtPrompt, tableVars, TableTypeOK,
                    ShellTypeOK, StackInv, ForkWindow
<1>7. ASSUME NEW arg \in Args, do_bgfg_bg(arg)
      PROVE  TypeInv'
  <2>1. "BG" \in JobState
    BY DEF JobState
  <2>2. TableTypeOK'
    BY <1>7, <2>1, NamedJobSlot, SetStateType DEF do_bgfg_bg, ShellTypeOK
  <2>3. proc' \in [Pids -> ProcState] /\ chld' \in BOOLEAN
    BY <1>7 DEF do_bgfg_bg, Continue, ShellTypeOK, ProcState
  <2> QED
    BY <1>7, <2>2, <2>3
    DEF do_bgfg_bg, AtPrompt, ShellTypeOK, StackInv, ForkWindow
<1>8. ASSUME NEW arg \in Args, do_bgfg_fg(arg)
      PROVE  TypeInv'
  <2>1. "FG" \in JobState
    BY DEF JobState
  <2>2. TableTypeOK'
    BY <1>8, <2>1, NamedJobSlot, SetStateType DEF do_bgfg_fg, ShellTypeOK
  <2>3. proc' \in [Pids -> ProcState] /\ chld' \in BOOLEAN
    BY <1>8 DEF do_bgfg_fg, Continue, ShellTypeOK, ProcState
  <2> QED
    BY <1>8, <1>a, <2>2, <2>3
    DEF do_bgfg_fg, ShellTypeOK, MainPC, StackInv, ForkWindow
<1>9. ASSUME NEW arg \in Args, do_bgfg_killError(arg)
      PROVE  TypeInv'
  BY <1>9, <1>a DEF do_bgfg_killError, tableVars, TableTypeOK, ShellTypeOK,
                    MainPC, Ended, StackInv, ForkWindow
<1>10. CASE quit
  BY <1>10 DEF quit, tableVars, TableTypeOK, ShellTypeOK, MainPC, Ended,
               StackInv, ForkWindow
<1>11. CASE deliverCHLD
  <2>1. /\ depth' \in Nat
        /\ frame' \in [Handlers -> Frame]
        /\ StackInv'
    BY <1>11, <1>a, EnterStack DEF deliverCHLD
  <2>2. pc # "forked"
    BY <1>11 DEF deliverCHLD, Blocked, ForkWindow
  <2> QED
    BY <1>11, <2>1, <2>2
    DEF deliverCHLD, tableVars, TableTypeOK, ShellTypeOK, ForkWindow
<1>12. ASSUME NEW p \in Pids, sigchld_waitpid(p)
       PROVE  TypeInv'
  <2> DEFINE f == [frame["CHLD"] EXCEPT !.at = "update", !.pid = p,
                                        !.died = (proc[p] = "zombie")]
  <2>1. f \in Frame /\ f.at # "idle" /\ f.depth = frame["CHLD"].depth
    BY <1>a DEF ShellTypeOK, Frame
  <2>2. frame' = [frame EXCEPT !["CHLD"] = f]
    BY <1>12, <1>a DEF sigchld_waitpid, ShellTypeOK
  <2>3. frame["CHLD"].at = "waitpid" /\ depth' = depth
    BY <1>12 DEF sigchld_waitpid, Runs
  <2>4. frame' \in [Handlers -> Frame] /\ StackInv'
    <3> HIDE DEF f
    <3> QED
      BY <1>a, <2>1, <2>2, <2>3, AdvanceStack
  <2>5. pc # "forked"
    BY <2>3 DEF ForkWindow
  <2>6. proc' \in [Pids -> ProcState]
    BY <1>12 DEF sigchld_waitpid, ShellTypeOK, ProcState
  <2> QED
    BY <1>12, <2>4, <2>5, <2>6
    DEF sigchld_waitpid, tableVars, TableTypeOK, ShellTypeOK, ForkWindow
<1>13. CASE sigchld_update
  <2> DEFINE f == [frame["CHLD"] EXCEPT !.at = "waitpid"]
             i == getjobpid(frame["CHLD"].pid)
  <2>1. f \in Frame /\ f.at # "idle" /\ f.depth = frame["CHLD"].depth
    BY <1>a DEF ShellTypeOK, Frame
  <2>2. frame' = [frame EXCEPT !["CHLD"] = f]
    BY <1>13, <1>a DEF sigchld_update, ShellTypeOK
  <2>3. frame["CHLD"].at = "update" /\ depth' = depth
    BY <1>13 DEF sigchld_update, Runs
  <2>4. frame' \in [Handlers -> Frame] /\ StackInv'
    <3> HIDE DEF f
    <3> QED
      BY <1>a, <2>1, <2>2, <2>3, AdvanceStack
  <2>5. pc # "forked"
    BY <2>3 DEF ForkWindow
  <2>6. TableTypeOK'
    <3>1. CASE deletejob(frame["CHLD"].pid)
      BY <3>1, DeleteJobType DEF ShellTypeOK
    <3>2. CASE SetState(i, "ST") /\ UNCHANGED nextjid
      <4>1. "ST" \in JobState /\ i \in Slots
        BY <1>13, GetJobPid DEF JobState, sigchld_update
      <4> QED
        BY <3>2, <4>1, SetStateType DEF ShellTypeOK
    <3> QED
      BY <1>13, <3>1, <3>2 DEF sigchld_update
  <2>7. fgchld_flag' \in {0, 1}
    BY <1>13 DEF sigchld_update, ShellTypeOK
  <2> QED
    BY <1>13, <2>4, <2>5, <2>6, <2>7 DEF sigchld_update, ShellTypeOK, ForkWindow
<1>14. CASE sigchld_nullJob
  BY <1>14 DEF sigchld_nullJob, tableVars, TableTypeOK, ShellTypeOK, MainPC,
               Ended, StackInv, ForkWindow
<1>15. CASE sigchld_return
  <2>1. Return("CHLD") /\ frame["CHLD"].at = "waitpid" /\ frame["CHLD"].depth = depth
    BY <1>15 DEF sigchld_return, Runs
  <2>2. /\ pc' \in MainPC
        /\ depth' \in Nat
        /\ frame' \in [Handlers -> Frame]
        /\ StackInv'
        /\ pc' = "forked" => pc = "forked"
    BY <1>a, <2>1, ReturnStack
  <2>3. pc # "forked"
    BY <2>1 DEF ForkWindow
  <2> QED
    BY <1>15, <2>2, <2>3
    DEF sigchld_return, tableVars, TableTypeOK, ShellTypeOK, ForkWindow
<1>16. ASSUME NEW h \in Keyboard, deliverKey(h)
       PROVE  TypeInv'
  <2>1. h \in Handlers /\ h # "CHLD"
    BY DEF Keyboard, Handlers
  <2>2. fgpid \in Pids \cup {NoPid}
    BY FgPidType DEF ShellTypeOK
  <2>3. Enter(h, "kill", fgpid)
    BY <1>16 DEF deliverKey
  <2>4. /\ depth' \in Nat
        /\ frame' \in [Handlers -> Frame]
        /\ StackInv'
    BY <2>1, <2>2, <2>3, EnterStack
  <2>5. frame'["CHLD"] = frame["CHLD"]
    BY <1>a, <2>1, <2>3 DEF Enter, ShellTypeOK
  <2>6. keys' \in 0 .. MaxKeys
    BY <1>16, MaxKeysAssumption DEF deliverKey, ShellTypeOK
  <2> QED
    BY <1>16, <2>4, <2>5, <2>6
    DEF deliverKey, tableVars, TableTypeOK, ShellTypeOK, ForkWindow
<1>17. ASSUME NEW h \in Keyboard, keyHandler_kill(h)
       PROVE  TypeInv'
  <2>1. h \in Handlers /\ h # "CHLD"
    BY DEF Keyboard, Handlers
  <2>2. Return(h) /\ frame[h].at = "kill" /\ frame[h].depth = depth
    BY <1>17 DEF keyHandler_kill, Runs
  <2>3. /\ pc' \in MainPC
        /\ depth' \in Nat
        /\ frame' \in [Handlers -> Frame]
        /\ StackInv'
        /\ pc' = "forked" => pc = "forked"
    BY <2>1, <2>2, ReturnStack
  <2>4. frame'["CHLD"] = frame["CHLD"]
    BY <1>a, <2>1, <2>2 DEF Return, ShellTypeOK
  <2>5. proc' \in [Pids -> ProcState] /\ chld' \in BOOLEAN
    BY <1>17 DEF keyHandler_kill, Hit, ShellTypeOK, ProcState
  <2>6. pending' \in SUBSET Pids
    <3>1. frame[h].pid \in Pids \cup {NoPid}
      BY <2>1 DEF ShellTypeOK, Frame
    <3>2. \/ UNCHANGED pending
          \/ frame[h].pid # NoPid /\ pending' = pending \cup {frame[h].pid}
      BY <1>17 DEF keyHandler_kill, Hit, GroupExists
    <3> QED
      BY <3>1, <3>2 DEF ShellTypeOK
  <2> QED
    BY <1>17, <2>3, <2>4, <2>5, <2>6
    DEF keyHandler_kill, tableVars, TableTypeOK, ShellTypeOK, ForkWindow
<1>18. ASSUME NEW h \in Keyboard, keyHandler_killError(h)
       PROVE  TypeInv'
  BY <1>18 DEF keyHandler_killError, tableVars, TableTypeOK, ShellTypeOK,
               MainPC, Ended, StackInv, ForkWindow
<1>19. CASE sigquit_handler
  BY <1>19 DEF sigquit_handler, tableVars, TableTypeOK, ShellTypeOK, MainPC,
               Ended, StackInv, ForkWindow
<1>20. ASSUME NEW p \in Pids, ChildExec(p)
       PROVE  TypeInv'
  BY <1>20 DEF ChildExec, tableVars, TableTypeOK, ShellTypeOK, ProcState,
               StackInv, ForkWindow
<1>21. ASSUME NEW p \in Pids, ChildDies(p)
       PROVE  TypeInv'
  BY <1>21 DEF ChildDies, tableVars, TableTypeOK, ShellTypeOK, ProcState,
               StackInv, ForkWindow
<1>22. ASSUME NEW p \in Pids, ChildStops(p)
       PROVE  TypeInv'
  BY <1>22 DEF ChildStops, tableVars, TableTypeOK, ShellTypeOK, ProcState,
               StackInv, ForkWindow
<1>23. CASE UNCHANGED vars
  BY <1>23 DEF vars, TableTypeOK, ShellTypeOK, StackInv, ForkWindow
<1> QED
  BY <1>1, <1>2, <1>3, <1>4, <1>5, <1>6, <1>7, <1>8, <1>9, <1>10, <1>11,
     <1>12, <1>13, <1>14, <1>15, <1>16, <1>17, <1>18, <1>19, <1>20, <1>21,
     <1>22, <1>23
  DEF Next, Command, Main, sigchld_handler, keyHandler, Children, Terminated

(* Every variable of the shell keeps its type.                             *)
THEOREM TypeCorrect == Spec => []ShellTypeOK
<1>1. TypeInv => ShellTypeOK
  BY DEF TypeInv
<1> QED
  BY TypeInit, TypeStep, <1>1, PTL DEF Spec

-----------------------------------------------------------------------------
(* The foreground job.  While main waits, the flag is raised only once the *)
(* job it waits for is no longer in the foreground.                        *)

ForegroundInv ==
    /\ AtMostOneFG
    /\ PromptMeansNoForeground
    /\ pc \in {"waitfg", "suspended"} /\ fgchld_flag = 1 => FGSlots = {}

LEMMA SameJobsSameForeground ==
    ASSUME jobs' = jobs
    PROVE  FGSlots' = FGSlots
  BY DEF FGSlots

(* One slot changes its state, and no other enters the foreground.         *)
LEMMA SetStateForeground ==
    ASSUME TableTypeOK, NEW i \in Slots, NEW s \in JobState, SetState(i, s)
    PROVE  FGSlots' = IF s = "FG" THEN FGSlots \cup {i} ELSE FGSlots \ {i}
<1>1. \A k \in Slots : jobs'[k].state = IF k = i THEN s ELSE jobs[k].state
  BY DEF TableTypeOK, SetState
<1> QED
  BY <1>1 DEF FGSlots

LEMMA DeleteJobForeground ==
    ASSUME TableTypeOK, NEW p, deletejob(p), getjobpid(p) # NULL
    PROVE  FGSlots' = FGSlots \ {getjobpid(p)}
<1>1. \A k \in Slots :
        jobs'[k] = IF k = getjobpid(p) THEN ClearedJob ELSE jobs[k]
  BY DEF TableTypeOK, deletejob
<1>2. ClearedJob.state # "FG"
  BY DEF ClearedJob, Job
<1> QED
  BY <1>1, <1>2 DEF FGSlots

LEMMA AddJobForeground ==
    ASSUME TableTypeOK, NEW p, NEW s \in JobState, addjob(p, s)
    PROVE  \/ FGSlots' = FGSlots
           \/ s = "FG" /\ FGSlots' = FGSlots \cup {First(FreeSlots)}
           \/ FGSlots' = FGSlots \ {First(FreeSlots)}
<1>1. CASE FreeSlots = {}
  BY <1>1 DEF addjob, tableVars, FGSlots
<1>2. CASE FreeSlots # {}
  <2> DEFINE k == First(FreeSlots)
  <2>1. k \in Slots
    BY <1>2, FirstIsMember DEF FreeSlots
  <2>2. \A i \in Slots : jobs'[i] = IF i = k THEN Job(p, nextjid, s) ELSE jobs[i]
    BY <1>2, <2>1 DEF addjob, TableTypeOK
  <2>3. Job(p, nextjid, s).state = s
    BY DEF Job
  <2> HIDE DEF k
  <2>4. FGSlots' = IF s = "FG" THEN FGSlots \cup {k} ELSE FGSlots \ {k}
    BY <2>1, <2>2, <2>3 DEF FGSlots
  <2> QED
    BY <2>4 DEF k
<1> QED
  BY <1>1, <1>2

LEMMA ForegroundInit == Init => ForegroundInv
<1> SUFFICES ASSUME Init
             PROVE  ForegroundInv
  OBVIOUS
<1>1. FGSlots = {}
  BY DEF Init, InitTable, FGSlots, ClearedJob, Job
<1> QED
  BY <1>1 DEF Init, ForegroundInv, AtMostOneFG, PromptMeansNoForeground

LEMMA ForegroundStep == TypeInv /\ ForegroundInv /\ [Next]_vars => ForegroundInv'
<1> SUFFICES ASSUME TypeInv, ForegroundInv, [Next]_vars
             PROVE  ForegroundInv'
  OBVIOUS
<1> USE DEF ForegroundInv, AtMostOneFG, PromptMeansNoForeground
<1>t. ShellTypeOK /\ TableTypeOK
  BY DEF TypeInv, ShellTypeOK
<1>s. {"FG", "BG", "ST"} \subseteq JobState
  BY DEF JobState
<1>1. CASE \/ eval_addFg
           \/ eval_addBg
  <2>1. FGSlots = {}
    BY <1>1 DEF eval_addFg, eval_addBg, Forked
  <2>2. CASE eval_addFg
    <3>1. addjob(cmd.pid, "FG")
      BY <2>2 DEF eval_addFg
    <3>2. \A i, j \in FGSlots' : i = j
      BY <1>t, <1>s, <2>1, <3>1, AddJobForeground
    <3>3. pc' = "waitfg" /\ fgchld_flag' = 0
      BY <2>2 DEF eval_addFg
    <3> QED
      BY <3>2, <3>3
  <2>3. CASE eval_addBg
    <3>1. addjob(cmd.pid, "BG")
      BY <2>3 DEF eval_addBg
    <3>2. FGSlots' = {}
      BY <1>t, <1>s, <2>1, <3>1, AddJobForeground
    <3> QED
      BY <3>2
  <2> QED
    BY <1>1, <2>2, <2>3
<1>2. ASSUME NEW arg \in Args, do_bgfg_bg(arg)
      PROVE  ForegroundInv'
  <2>1. NamedJob(arg) \in Slots /\ SetState(NamedJob(arg), "BG")
    BY <1>2, NamedJobSlot DEF do_bgfg_bg
  <2>2. FGSlots' = FGSlots \ {NamedJob(arg)}
    BY <1>t, <1>s, <2>1, SetStateForeground
  <2>3. FGSlots = {}
    BY <1>2 DEF do_bgfg_bg, AtPrompt
  <2> QED
    BY <2>2, <2>3
<1>3. ASSUME NEW arg \in Args, do_bgfg_fg(arg)
      PROVE  ForegroundInv'
  <2>1. NamedJob(arg) \in Slots /\ SetState(NamedJob(arg), "FG")
    BY <1>3, NamedJobSlot DEF do_bgfg_fg
  <2>2. FGSlots' = FGSlots \cup {NamedJob(arg)}
    BY <1>t, <1>s, <2>1, SetStateForeground
  <2>3. FGSlots = {} /\ pc' = "waitfg" /\ fgchld_flag' = 0
    BY <1>3 DEF do_bgfg_fg, AtPrompt
  <2> QED
    BY <2>2, <2>3
<1>4. CASE sigchld_update
  <2> DEFINE p == frame["CHLD"].pid
             i == getjobpid(p)
  <2>1. i # NULL /\ i \in Slots
    BY <1>4, GetJobPid DEF sigchld_update
  <2>2. FGSlots' = FGSlots \ {i}
    <3>1. CASE deletejob(p)
      BY <1>t, <2>1, <3>1, DeleteJobForeground
    <3>2. CASE SetState(i, "ST")
      BY <1>t, <1>s, <2>1, <3>2, SetStateForeground
    <3> QED
      BY <1>4, <3>1, <3>2 DEF sigchld_update
  <2>3. /\ pc' = pc
        /\ fgchld_flag' = IF jobs[i].state = "FG" THEN 1 ELSE fgchld_flag
    BY <1>4 DEF sigchld_update
  <2>4. jobs[i].state = "FG" <=> i \in FGSlots
    BY <2>1 DEF FGSlots
  <2> HIDE DEF i
  <2> QED
    BY <2>2, <2>3, <2>4
<1>5. CASE waitfg
  <2>1. FGSlots' = FGSlots
    BY <1>5, SameJobsSameForeground DEF waitfg, tableVars
  <2> QED
    BY <1>5, <2>1 DEF waitfg
<1>6. ASSUME NEW h \in Handlers, Return(h),
             jobs' = jobs, fgchld_flag' = fgchld_flag
      PROVE  ForegroundInv'
  <2>1. FGSlots' = FGSlots
    BY <1>6, SameJobsSameForeground
  <2> QED
    BY <1>6, <2>1 DEF Return
<1>7. ASSUME jobs' = jobs, fgchld_flag' = fgchld_flag,
             \/ pc' = pc
             \/ pc' \in Ended
             \/ pc = "prompt" /\ pc' = "forked"
      PROVE  ForegroundInv'
  <2>1. FGSlots' = FGSlots
    BY <1>7, SameJobsSameForeground
  <2> QED
    BY <1>7, <2>1 DEF Ended
<1>8. CASE Command
  <2>1. ASSUME NEW p \in Pids, NEW bg \in BOOLEAN, eval_fork(p, bg)
        PROVE  ForegroundInv'
    BY <1>7, <2>1 DEF eval_fork, AtPrompt
  <2>2. CASE eval_forkFails \/ quit
    BY <1>7, <2>2 DEF eval_forkFails, quit, tableVars, Ended
  <2>3. ASSUME NEW arg \in Args, do_bgfg_refuse(arg) \/ do_bgfg_killError(arg)
        PROVE  ForegroundInv'
    BY <1>7, <2>3 DEF do_bgfg_refuse, do_bgfg_killError, tableVars, Ended
  <2> QED
    BY <1>2, <1>3, <1>8, <2>1, <2>2, <2>3 DEF Command
<1>9. CASE deliverCHLD \/ sigchld_handler
  <2>1. CASE deliverCHLD
    BY <1>7, <2>1 DEF deliverCHLD, tableVars, mainVars
  <2>2. ASSUME NEW p \in Pids, sigchld_waitpid(p)
        PROVE  ForegroundInv'
    BY <1>7, <2>2 DEF sigchld_waitpid, tableVars, mainVars
  <2>3. CASE sigchld_nullJob
    BY <1>7, <2>3 DEF sigchld_nullJob, tableVars, Ended
  <2>4. CASE sigchld_return
    BY <1>6, <2>4 DEF sigchld_return, tableVars, Handlers
  <2> QED
    BY <1>4, <1>9, <2>1, <2>2, <2>3, <2>4 DEF sigchld_handler
<1>10. ASSUME NEW h \in Keyboard, deliverKey(h) \/ keyHandler(h)
       PROVE  ForegroundInv'
  <2>1. CASE deliverKey(h)
    BY <1>7, <2>1 DEF deliverKey, tableVars, mainVars
  <2>2. CASE keyHandler_kill(h)
    BY <1>6, <2>2 DEF keyHandler_kill, tableVars, Handlers, Keyboard
  <2>3. CASE keyHandler_killError(h)
    BY <1>7, <2>3 DEF keyHandler_killError, tableVars, Ended
  <2> QED
    BY <1>10, <2>1, <2>2, <2>3 DEF keyHandler
<1>11. CASE sigquit_handler
  BY <1>7, <1>11 DEF sigquit_handler, tableVars, Ended
<1>12. CASE Children
  BY <1>7, <1>12 DEF Children, ChildExec, ChildDies, ChildStops,
                     tableVars, mainVars
<1>13. CASE UNCHANGED vars
  BY <1>7, <1>13 DEF vars
<1> QED
  BY <1>1, <1>5, <1>8, <1>9, <1>10, <1>11, <1>12, <1>13
  DEF Next, Main, Terminated

(* The prompt is never shown while a job is in the foreground (waitfg).    *)
THEOREM PromptCorrect == Spec => []PromptMeansNoForeground
<1>1. ForegroundInv => PromptMeansNoForeground
  BY DEF ForegroundInv
<1> QED
  BY TypeInit, TypeStep, ForegroundInit, ForegroundStep, <1>1, PTL DEF Spec

(* At most one job is in the foreground state (tsh.c:36).                  *)
THEOREM OneForegroundJob == Spec => []AtMostOneFG
<1>1. ForegroundInv => AtMostOneFG
  BY DEF ForegroundInv
<1> QED
  BY TypeInit, TypeStep, ForegroundInit, ForegroundStep, <1>1, PTL DEF Spec

-----------------------------------------------------------------------------
(* No report is lost.                                                      *)

LEMMA NoLostReportStep == TypeInv /\ NoLostReport /\ [Next]_vars => NoLostReport'
<1> SUFFICES ASSUME TypeInv, NoLostReport, [Next]_vars
             PROVE  NoLostReport'
  OBVIOUS
<1> USE DEF NoLostReport, Reportable
<1>t. ShellTypeOK
  BY DEF TypeInv
<1>h. "CHLD" \in Handlers
  BY DEF Handlers
<1>p. proc \in [Pids -> ProcState] /\ frame \in [Handlers -> Frame]
  BY <1>t DEF ShellTypeOK
<1>1. ASSUME NEW p \in Pids, NEW bg \in BOOLEAN, eval_fork(p, bg)
      PROVE  NoLostReport'
  BY <1>1, <1>p DEF eval_fork
<1>2. ASSUME NEW arg \in Args, do_bgfg_bg(arg) \/ do_bgfg_fg(arg)
      PROVE  NoLostReport'
  <2>1. Continue(jobs[NamedJob(arg)].pid) /\ frame' = frame
    BY <1>2 DEF do_bgfg_bg, do_bgfg_fg
  <2>2. CASE proc' = proc /\ chld' = chld
    BY <2>1, <2>2
  <2>3. CASE chld'
    BY <2>3
  <2> QED
    BY <2>1, <2>2, <2>3, <1>t DEF Continue, ShellTypeOK
<1>3. CASE deliverCHLD
  <2>1. frame'["CHLD"].at = "waitpid"
    BY <1>3, <1>h, <1>p DEF deliverCHLD, Enter
  <2> QED
    BY <2>1
<1>4. ASSUME NEW p \in Pids, sigchld_waitpid(p)
      PROVE  NoLostReport'
  <2>1. frame'["CHLD"].at = "update"
    BY <1>4, <1>h, <1>p DEF sigchld_waitpid, Frame
  <2> QED
    BY <2>1
<1>5. CASE sigchld_update
  <2>1. frame'["CHLD"].at = "waitpid"
    BY <1>5, <1>h, <1>p DEF sigchld_update, Frame
  <2> QED
    BY <2>1
<1>6. CASE sigchld_return
  BY <1>6 DEF sigchld_return, procVars
<1>7. ASSUME NEW h \in Keyboard, deliverKey(h) \/ keyHandler_kill(h)
      PROVE  NoLostReport'
  <2>1. h \in Handlers /\ h # "CHLD"
    BY DEF Keyboard, Handlers
  <2>2. frame'["CHLD"] = frame["CHLD"]
    BY <1>7, <1>h, <1>p, <2>1 DEF deliverKey, keyHandler_kill, Enter, Return
  <2>3. CASE proc' = proc /\ chld' = chld
    BY <2>2, <2>3
  <2>4. CASE chld'
    BY <2>4
  <2>5. \/ proc' = proc /\ chld' = chld
        \/ chld' = TRUE
    BY <1>7, Zenon DEF deliverKey, keyHandler_kill, Hit, procVars
  <2> QED
    BY <2>3, <2>4, <2>5
<1>8. ASSUME NEW p \in Pids, ChildExec(p)
      PROVE  NoLostReport'
  BY <1>8, <1>p DEF ChildExec
<1>9. ASSUME NEW p \in Pids, ChildDies(p) \/ ChildStops(p)
      PROVE  NoLostReport'
  BY <1>9 DEF ChildDies, ChildStops
<1>10. ASSUME proc' = proc, chld' = chld, frame' = frame
       PROVE  NoLostReport'
  BY <1>10
<1>11. ASSUME NEW arg \in Args, do_bgfg_refuse(arg) \/ do_bgfg_killError(arg)
       PROVE  NoLostReport'
  BY <1>10, <1>11 DEF do_bgfg_refuse, do_bgfg_killError, procVars
<1>12. CASE eval_forkFails \/ quit \/ Main \/ sigchld_nullJob \/ sigquit_handler
  BY <1>10, <1>12 DEF eval_forkFails, quit, Main, eval_addFg, eval_addBg, waitfg,
                      ReturnToMain, sigchld_nullJob, sigquit_handler, procVars
<1>13. ASSUME NEW h \in Keyboard, keyHandler_killError(h)
       PROVE  NoLostReport'
  BY <1>10, <1>13 DEF keyHandler_killError, procVars
<1>14. CASE UNCHANGED vars
  BY <1>10, <1>14 DEF vars
<1> QED
  BY <1>1, <1>2, <1>3, <1>4, <1>5, <1>6, <1>7, <1>8, <1>9, <1>11, <1>12,
     <1>13, <1>14
  DEF Next, Command, sigchld_handler, keyHandler, Children, Terminated

(* A dead or newly stopped child is always about to be noticed, although   *)
(* the kernel merges the SIGCHLDs of several children (sigchld_handler).   *)
THEOREM NoReportLost == Spec => []NoLostReport
<1>1. Init => NoLostReport
  BY DEF Init, NoLostReport, Reportable
<1> QED
  BY TypeInit, TypeStep, NoLostReportStep, <1>1, PTL DEF Spec

-----------------------------------------------------------------------------
(* How the helpers change the slots of a pid.                              *)

LEMMA AddJobSlots ==
    ASSUME TableTypeOK, NEW p, NEW s, addjob(p, s), FreeSlots # {},
           NEW q \in Pids
    PROVE  SlotsOf(q)' = IF q = p THEN SlotsOf(q) \cup {First(FreeSlots)}
                                  ELSE SlotsOf(q)
<1> DEFINE k == First(FreeSlots)
<1>1. k \in Slots /\ jobs[k].pid = NoPid
  <2>1. k \in FreeSlots
    BY FirstIsMember DEF FreeSlots
  <2> QED
    BY <2>1 DEF FreeSlots
<1>2. \A i \in Slots : jobs'[i].pid = IF i = k THEN p ELSE jobs[i].pid
  BY <1>1 DEF addjob, TableTypeOK, Job
<1> HIDE DEF k
<1>3. SlotsOf(q)' = IF q = p THEN SlotsOf(q) \cup {k} ELSE SlotsOf(q)
  BY <1>1, <1>2, NoPidAssumption DEF SlotsOf
<1> QED
  BY <1>3 DEF k

LEMMA DeleteJobSlots ==
    ASSUME TableTypeOK, PidUnique, NEW p \in Pids, deletejob(p), NEW q \in Pids
    PROVE  SlotsOf(q)' = IF q = p THEN {} ELSE SlotsOf(q)
<1>1. CASE getjobpid(p) = NULL
  BY <1>1, GetJobPid DEF deletejob, tableVars, SlotsOf
<1>2. CASE getjobpid(p) # NULL
  <2> DEFINE k == getjobpid(p)
  <2>1. k \in Slots /\ jobs[k].pid = p
    BY <1>2, GetJobPid
  <2>2. \A i \in Slots : jobs'[i].pid = IF i = k THEN NoPid ELSE jobs[i].pid
    BY <1>2, <2>1 DEF deletejob, TableTypeOK, ClearedJob, Job
  <2>3. \A i \in Slots : jobs[i].pid = p => i = k
    BY <2>1, NoPidAssumption DEF PidUnique
  <2> HIDE DEF k
  <2> QED
    BY <2>1, <2>2, <2>3, NoPidAssumption DEF SlotsOf
<1> QED
  BY <1>1, <1>2

LEMMA SetStatePids ==
    ASSUME TableTypeOK, NEW i \in Slots, NEW s, SetState(i, s)
    PROVE  /\ \A q : SlotsOf(q)' = SlotsOf(q)
           /\ PidUnique => PidUnique'
<1>1. \A k \in Slots : jobs'[k].pid = jobs[k].pid
  BY DEF TableTypeOK, SetState
<1> QED
  BY <1>1 DEF SlotsOf, PidUnique

-----------------------------------------------------------------------------
(* A listed job is a child that has not been reaped, whether the list had  *)
(* room for every child or not.                                            *)

(* The SIGCHLD handler holds a report about child p.                       *)
InHand(p) == frame["CHLD"].at = "update" /\ frame["CHLD"].pid = p

ListInv ==
    /\ PidUnique
    /\ pc = "forked" => SlotsOf(cmd.pid) = {} /\ proc[cmd.pid] # "free"
    /\ frame["CHLD"].at = "update" =>
          /\ frame["CHLD"].pid \in Pids
          /\ frame["CHLD"].died <=> proc[frame["CHLD"].pid] = "free"
    /\ \A p \in Pids : SlotsOf(p) # {} /\ proc[p] = "free" => InHand(p)

LEMMA ListInit == Init => ListInv
<1> SUFFICES ASSUME Init
             PROVE  ListInv
  OBVIOUS
<1>1. \A p \in Pids : SlotsOf(p) = {}
  BY NoPidAssumption DEF Init, InitTable, SlotsOf, ClearedJob, Job
<1>2. PidUnique
  BY TableInit DEF Init, TableInv
<1>3. frame["CHLD"].at = "idle"
  BY DEF Init, IdleFrame, Handlers
<1> QED
  BY <1>1, <1>2, <1>3 DEF ListInv, Init

(* Steps that change neither whose jobs are listed nor which children      *)
(* exist, nor what the SIGCHLD handler has in hand.                        *)
LEMMA ListSame ==
    ASSUME ListInv, PidUnique', \A p \in Pids : SlotsOf(p)' = SlotsOf(p),
           pc = "forked" => cmd.pid \in Pids,
           pc' = "forked" => pc = "forked" /\ cmd' = cmd,
           frame'["CHLD"].at = "update" <=> frame["CHLD"].at = "update",
           frame'["CHLD"].at = "update" => frame'["CHLD"] = frame["CHLD"],
           \A p \in Pids : proc'[p] = "free" <=> proc[p] = "free"
    PROVE  ListInv'
  BY DEF ListInv, InHand

LEMMA ListStep == TypeInv /\ ListInv /\ [Next]_vars => ListInv'
<1> SUFFICES ASSUME TypeInv, ListInv, [Next]_vars
             PROVE  ListInv'
  OBVIOUS
<1>t. ShellTypeOK /\ TableTypeOK /\ PidUnique
  BY DEF TypeInv, ShellTypeOK, ListInv
<1>h. "CHLD" \in Handlers
  BY DEF Handlers
<1>p. proc \in [Pids -> ProcState] /\ frame \in [Handlers -> Frame]
  BY <1>t DEF ShellTypeOK
<1>w. pc = "forked" => cmd.pid \in Pids
  BY DEF TypeInv, ForkWindow
<1>j. ASSUME jobs' = jobs
      PROVE  PidUnique' /\ \A q : SlotsOf(q)' = SlotsOf(q)
  BY <1>t, <1>j DEF PidUnique, SlotsOf
<1>1. ASSUME NEW p \in Pids, NEW bg \in BOOLEAN, eval_fork(p, bg)
      PROVE  ListInv'
  <2>1. /\ jobs' = jobs /\ frame' = frame /\ cmd'.pid = p
        /\ proc[p] = "free"
        /\ \A q \in Pids : proc'[q] = IF q = p THEN "new" ELSE proc[q]
    BY <1>1, <1>p DEF eval_fork, AtPrompt
  <2>2. frame["CHLD"].at = "idle"
    BY <1>1, <1>h, <1>t DEF eval_fork, AtPrompt, TypeInv, StackInv, ShellTypeOK, Frame
  <2>3. SlotsOf(p) = {}
    BY <2>1, <2>2 DEF ListInv, InHand
  <2> QED
    BY <1>j, <2>1, <2>2, <2>3 DEF ListInv, InHand
<1>2. CASE eval_addFg \/ eval_addBg
  <2> DEFINE p == cmd.pid
  <2>1. PICK s \in {"FG", "BG"} : addjob(p, s)
    BY <1>2 DEF eval_addFg, eval_addBg
  <2>2. /\ pc = "forked" /\ pc' # "forked"
        /\ proc' = proc /\ frame' = frame
    BY <1>2 DEF eval_addFg, eval_addBg, ReturnToMain, Forked, procVars
  <2>3. p \in Pids /\ SlotsOf(p) = {} /\ proc[p] # "free"
    BY <1>w, <2>2 DEF ListInv
  <2>4. s \in JobState
    BY DEF JobState
  <2>5. PidUnique'
    BY <1>t, <2>1, <2>3, <2>4, AddJobPidUnique
  <2>6. \A q \in Pids : q # p => SlotsOf(q)' = SlotsOf(q)
    <3>1. CASE FreeSlots = {}
      BY <2>1, <3>1 DEF addjob, tableVars, SlotsOf
    <3>2. CASE FreeSlots # {}
      BY <1>t, <2>1, <3>2, AddJobSlots
    <3> QED
      BY <3>1, <3>2
  <2> HIDE DEF p
  <2> QED
    BY <2>2, <2>3, <2>5, <2>6 DEF ListInv, InHand
<1>3. ASSUME NEW arg \in Args, do_bgfg_bg(arg) \/ do_bgfg_fg(arg)
      PROVE  ListInv'
  <2> DEFINE i == NamedJob(arg)
  <2>1. PICK s \in {"FG", "BG"} : SetState(i, s)
    BY <1>3 DEF do_bgfg_bg, do_bgfg_fg
  <2>2. i \in Slots
    BY <1>3, NamedJobSlot DEF do_bgfg_bg, do_bgfg_fg
  <2>3. (\A q : SlotsOf(q)' = SlotsOf(q)) /\ PidUnique'
    BY <1>t, <2>1, <2>2, SetStatePids
  <2>4. \A q \in Pids : proc'[q] = "free" <=> proc[q] = "free"
    BY <1>3, <1>p DEF do_bgfg_bg, do_bgfg_fg, Continue
  <2>5. pc' # "forked" /\ frame' = frame
    BY <1>3 DEF do_bgfg_bg, do_bgfg_fg, AtPrompt, mainVars
  <2> QED
    BY <1>w, <2>3, <2>4, <2>5, ListSame
<1>4. ASSUME NEW p \in Pids, sigchld_waitpid(p)
      PROVE  ListInv'
  <2>1. jobs' = jobs /\ pc' = pc /\ frame["CHLD"].at = "waitpid"
    BY <1>4 DEF sigchld_waitpid, Runs, tableVars, mainVars
  <2>2. /\ frame'["CHLD"].at = "update"
        /\ frame'["CHLD"].pid = p
        /\ frame'["CHLD"].died <=> proc[p] = "zombie"
    BY <1>4, <1>h, <1>p DEF sigchld_waitpid, Frame
  <2>3. \A q \in Pids : proc'[q] = IF q # p THEN proc[q]
                                   ELSE IF proc[p] = "zombie" THEN "free" ELSE "stopped"
    BY <1>4, <1>p DEF sigchld_waitpid
  <2>4. pc # "forked"
    BY <2>1 DEF TypeInv, ForkWindow
  <2> QED
    BY <1>j, <2>1, <2>2, <2>3, <2>4 DEF ListInv, InHand
<1>5. CASE sigchld_update
  <2> DEFINE p == frame["CHLD"].pid
             i == getjobpid(p)
  <2>1. /\ frame["CHLD"].at = "update" /\ i # NULL
        /\ pc' = pc /\ proc' = proc
    BY <1>5 DEF sigchld_update, Runs, procVars
  <2>2. p \in Pids /\ i \in Slots
    BY <2>1, GetJobPid DEF ListInv
  <2>3. frame'["CHLD"].at = "waitpid"
    BY <1>5, <1>h, <1>p DEF sigchld_update, Frame
  <2>4. pc # "forked"
    BY <2>1 DEF TypeInv, ForkWindow
  <2>5. CASE frame["CHLD"].died /\ deletejob(p)
    <3>1. \A q \in Pids : SlotsOf(q)' = IF q = p THEN {} ELSE SlotsOf(q)
      BY <1>t, <2>2, <2>5, DeleteJobSlots
    <3>2. PidUnique'
      BY <1>t, <2>5, DeleteJobPidUnique
    <3> QED
      BY <2>1, <2>3, <2>4, <3>1, <3>2 DEF ListInv, InHand
  <2>6. CASE ~frame["CHLD"].died /\ SetState(i, "ST")
    <3>1. (\A q : SlotsOf(q)' = SlotsOf(q)) /\ PidUnique'
      BY <1>t, <2>2, <2>6, SetStatePids
    <3>2. proc[p] # "free"
      BY <2>1, <2>6 DEF ListInv
    <3> QED
      BY <2>1, <2>3, <2>4, <3>1, <3>2 DEF ListInv, InHand
  <2> QED
    BY <1>5, <2>5, <2>6 DEF sigchld_update
<1>7. CASE deliverCHLD
  <2>1. frame'["CHLD"].at = "waitpid" /\ frame["CHLD"].at = "idle"
    BY <1>7, <1>h, <1>p DEF deliverCHLD, Enter, Blocked
  <2> QED
    BY <1>7, <1>j, <1>w, <2>1, ListSame
    DEF deliverCHLD, tableVars, mainVars, procVars
<1>8. CASE sigchld_return
  <2>1. frame'["CHLD"].at = "idle" /\ frame["CHLD"].at = "waitpid"
    BY <1>8, <1>h, <1>p DEF sigchld_return, Return, IdleFrame, Runs
  <2>2. pc' = pc \/ pc' = "waitfg"
    BY <1>8 DEF sigchld_return, Return
  <2> QED
    BY <1>8, <1>j, <1>w, <2>1, <2>2, ListSame
    DEF sigchld_return, tableVars, procVars
<1>9. ASSUME NEW h \in Keyboard, deliverKey(h) \/ keyHandler_kill(h)
      PROVE  ListInv'
  <2>1. h \in Handlers /\ h # "CHLD"
    BY DEF Keyboard, Handlers
  <2>2. frame'["CHLD"] = frame["CHLD"]
    BY <1>9, <1>h, <1>p, <2>1 DEF deliverKey, keyHandler_kill, Enter, Return
  <2>3. pc' = pc \/ pc' = "waitfg"
    BY <1>9 DEF deliverKey, keyHandler_kill, Return, mainVars
  <2>4. jobs' = jobs /\ cmd' = cmd
    BY <1>9 DEF deliverKey, keyHandler_kill, tableVars, mainVars
  <2>5. \A q \in Pids : proc'[q] = "free" <=> proc[q] = "free"
    BY <1>9, <1>p DEF deliverKey, keyHandler_kill, Hit, procVars
  <2> QED
    BY <1>j, <1>w, <2>2, <2>3, <2>4, <2>5, ListSame
<1>10. CASE Children
  <2>1. \A q \in Pids : proc'[q] = "free" <=> proc[q] = "free"
    BY <1>10, <1>p DEF Children, ChildExec, ChildDies, ChildStops
  <2> QED
    BY <1>10, <1>j, <1>w, <2>1, ListSame
    DEF Children, ChildExec, ChildDies, ChildStops, tableVars, mainVars
<1>11. ASSUME jobs' = jobs, frame' = frame, proc' = proc,
              pc' = "forked" => pc = "forked" /\ cmd' = cmd
       PROVE  ListInv'
  BY <1>11, <1>j, <1>w, ListSame
<1>12. ASSUME NEW arg \in Args, do_bgfg_refuse(arg) \/ do_bgfg_killError(arg)
       PROVE  ListInv'
  BY <1>11, <1>12 DEF do_bgfg_refuse, do_bgfg_killError, tableVars, procVars
<1>13. CASE eval_forkFails \/ quit \/ waitfg \/ sigchld_nullJob \/ sigquit_handler
  BY <1>11, <1>13 DEF eval_forkFails, quit, waitfg, ReturnToMain, sigchld_nullJob,
                      sigquit_handler, tableVars, procVars
<1>14. ASSUME NEW h \in Keyboard, keyHandler_killError(h)
       PROVE  ListInv'
  BY <1>11, <1>14 DEF keyHandler_killError, tableVars, procVars
<1>15. CASE UNCHANGED vars
  BY <1>11, <1>15 DEF vars
<1> QED
  BY <1>1, <1>2, <1>3, <1>4, <1>5, <1>7, <1>8, <1>9, <1>10, <1>12,
     <1>13, <1>14, <1>15
  DEF Next, Command, Main, sigchld_handler, keyHandler, Terminated

-----------------------------------------------------------------------------
(* With room for every child, every unreaped child is listed, too.         *)

ReapInv == ListInv /\ NoNullJob /\ ListedIffUnreaped

EnoughRoom == IsFiniteSet(Pids) /\ Cardinality(Pids) <= MAXJOBS

(* While a child is not listed, and there are no more pids than slots, a   *)
(* slot is free: the listed jobs have different pids.                      *)
LEMMA RoomForOneMore ==
    ASSUME TableTypeOK, PidUnique, IsFiniteSet(Pids), Cardinality(Pids) <= MAXJOBS,
           NEW p \in Pids, SlotsOf(p) = {}
    PROVE  FreeSlots # {}
<1> SUFFICES ASSUME FreeSlots = {}
             PROVE  FALSE
  OBVIOUS
<1> DEFINE Others == Pids \ {p}
           pidOf  == [i \in Slots |-> jobs[i].pid]
<1>1. \A i \in Slots : jobs[i].pid \in Others
  BY DEF TableTypeOK, FreeSlots, SlotsOf
<1>2. pidOf \in Injection(Slots, Others)
  <2>1. \A i, j \in Slots : jobs[i].pid = jobs[j].pid => i = j
    BY <1>1, NoPidAssumption DEF PidUnique
  <2> QED
    BY <1>1, <2>1 DEF Injection, IsInjective
<1>3. /\ IsFiniteSet(Others)
      /\ Cardinality(Others) = Cardinality(Pids) - 1
  BY FS_RemoveElement
<1>4. Cardinality(Slots) <= Cardinality(Others)
  BY <1>2, <1>3, FS_Injection
<1>5. Cardinality(Slots) = MAXJOBS
  BY FS_Interval, MaxJobsAssumption DEF Slots
<1>6. Cardinality(Pids) \in Nat
  BY FS_CardinalityType
<1> QED
  BY <1>3, <1>4, <1>5, <1>6, MaxJobsAssumption

LEMMA ReapInit == Init => ReapInv
<1> SUFFICES ASSUME Init
             PROVE  ReapInv
  OBVIOUS
<1>1. \A p \in Pids : SlotsOf(p) = {}
  BY NoPidAssumption DEF Init, InitTable, SlotsOf, ClearedJob, Job
<1>2. frame["CHLD"].at = "idle"
  BY DEF Init, IdleFrame, Handlers
<1>3. \A p \in Pids : proc[p] = "free"
  BY DEF Init
<1> QED
  BY <1>1, <1>2, <1>3, ListInit
  DEF ReapInv, NoNullJob, ListedIffUnreaped, Init, Running, Ended

(* Steps that change neither the list nor which children exist.            *)
LEMMA ReapSame ==
    ASSUME NoNullJob, ListedIffUnreaped, jobs' = jobs, pc' = "forked" => cmd' = cmd,
           frame'["CHLD"].at = "update" <=> frame["CHLD"].at = "update",
           frame'["CHLD"].at = "update" => frame'["CHLD"] = frame["CHLD"],
           \A p \in Pids : proc'[p] = "free" <=> proc[p] = "free",
           \/ pc' \in Ended \ {"segv"}
           \/ pc' = "forked" <=> pc = "forked",
           Running' => Running, pc' # "segv"
    PROVE  NoNullJob' /\ ListedIffUnreaped'
<1>1. \A p : SlotsOf(p)' = SlotsOf(p)
  BY DEF SlotsOf
<1> QED
  BY <1>1 DEF NoNullJob, ListedIffUnreaped, Running, Ended

LEMMA ReapStep == EnoughRoom /\ TypeInv /\ ReapInv /\ [Next]_vars => ReapInv'
<1> SUFFICES ASSUME EnoughRoom, TypeInv, ReapInv, [Next]_vars
             PROVE  NoNullJob' /\ ListedIffUnreaped'
  BY ListStep DEF ReapInv
<1> DEFINE Goal == NoNullJob' /\ ListedIffUnreaped'
<1>t. /\ ShellTypeOK /\ TableTypeOK /\ PidUnique
      /\ ListInv /\ NoNullJob /\ ListedIffUnreaped
  BY DEF TypeInv, ShellTypeOK, ReapInv, ListInv
<1>h. "CHLD" \in Handlers
  BY DEF Handlers
<1>p. proc \in [Pids -> ProcState] /\ frame \in [Handlers -> Frame]
  BY <1>t DEF ShellTypeOK
<1>1. ASSUME NEW p \in Pids, NEW bg \in BOOLEAN, eval_fork(p, bg)
      PROVE  Goal
  <2>1. /\ jobs' = jobs /\ frame' = frame /\ cmd'.pid = p
        /\ pc = "prompt" /\ pc' = "forked"
        /\ proc[p] = "free"
        /\ \A q \in Pids : proc'[q] = IF q = p THEN "new" ELSE proc[q]
    BY <1>1, <1>p DEF eval_fork, AtPrompt
  <2>2. frame["CHLD"].at = "idle"
    BY <1>1, <1>h, <1>t DEF eval_fork, AtPrompt, TypeInv, StackInv, ShellTypeOK, Frame
  <2>3. \A q : SlotsOf(q)' = SlotsOf(q)
    BY <2>1 DEF SlotsOf
  <2>4. SlotsOf(p) = {}
    BY <2>1, <2>2, <1>t DEF ListedIffUnreaped, Running, Ended
  <2> QED
    BY <1>t, <2>1, <2>2, <2>3, <2>4 DEF NoNullJob, ListedIffUnreaped, Running, Ended
<1>2. CASE eval_addFg \/ eval_addBg
  <2> DEFINE p == cmd.pid
  <2>1. PICK s \in {"FG", "BG"} : addjob(p, s)
    BY <1>2 DEF eval_addFg, eval_addBg
  <2>2. /\ pc = "forked" /\ pc' \in {"waitfg", "prompt"}
        /\ proc' = proc /\ frame' = frame
    BY <1>2 DEF eval_addFg, eval_addBg, ReturnToMain, Forked, procVars
  <2>3. p \in Pids /\ SlotsOf(p) = {} /\ proc[p] # "free"
    BY <1>t, <2>2 DEF TypeInv, ForkWindow, ListInv
  <2>4. FreeSlots # {}
    BY <1>t, <2>3, RoomForOneMore DEF EnoughRoom
  <2>5. \A q \in Pids : SlotsOf(q)' = IF q = p THEN SlotsOf(q) \cup {First(FreeSlots)}
                                              ELSE SlotsOf(q)
    BY <1>t, <2>1, <2>4, AddJobSlots
  <2> QED
    BY <1>t, <2>2, <2>3, <2>5 DEF NoNullJob, ListedIffUnreaped, Running, Ended
<1>3. ASSUME NEW arg \in Args, do_bgfg_bg(arg) \/ do_bgfg_fg(arg)
      PROVE  Goal
  <2> DEFINE i == NamedJob(arg)
  <2>1. PICK s \in {"FG", "BG"} : SetState(i, s)
    BY <1>3 DEF do_bgfg_bg, do_bgfg_fg
  <2>2. i \in Slots
    BY <1>3, NamedJobSlot DEF do_bgfg_bg, do_bgfg_fg
  <2>3. \A q : SlotsOf(q)' = SlotsOf(q)
    BY <1>t, <2>1, <2>2, SetStatePids
  <2>4. \A q \in Pids : proc'[q] = "free" <=> proc[q] = "free"
    BY <1>3, <1>p DEF do_bgfg_bg, do_bgfg_fg, Continue
  <2>5. /\ pc = "prompt" /\ pc' \in {"prompt", "waitfg"}
        /\ frame' = frame
    BY <1>3 DEF do_bgfg_bg, do_bgfg_fg, AtPrompt, mainVars
  <2>6. frame["CHLD"].at # "update"
    BY <1>3, <1>h, <1>t
    DEF do_bgfg_bg, do_bgfg_fg, AtPrompt, TypeInv, StackInv, ShellTypeOK, Frame
  <2> QED
    BY <1>t, <2>3, <2>4, <2>5, <2>6 DEF NoNullJob, ListedIffUnreaped, Running, Ended
<1>4. ASSUME NEW p \in Pids, sigchld_waitpid(p)
      PROVE  Goal
  <2>1. /\ jobs' = jobs /\ pc' = pc /\ cmd' = cmd
        /\ Running
        /\ frame["CHLD"].at = "waitpid"
        /\ proc[p] \in {"zombie", "stopping"}
    BY <1>4 DEF sigchld_waitpid, Runs, Reportable, tableVars, mainVars
  <2>2. frame'["CHLD"].at = "update" /\ frame'["CHLD"].pid = p
    BY <1>4, <1>h, <1>p DEF sigchld_waitpid, Frame
  <2>3. \A q \in Pids : q # p => proc'[q] = proc[q]
    BY <1>4, <1>p DEF sigchld_waitpid
  <2>4. pc # "forked"
    BY <2>1 DEF TypeInv, ForkWindow
  <2>5. \A q : SlotsOf(q)' = SlotsOf(q)
    BY <2>1 DEF SlotsOf
  <2> QED
    BY <1>t, <2>1, <2>2, <2>3, <2>4, <2>5 DEF NoNullJob, ListedIffUnreaped
<1>5. CASE sigchld_update
  <2> DEFINE p == frame["CHLD"].pid
             i == getjobpid(p)
  <2>1. /\ Running /\ frame["CHLD"].at = "update" /\ i # NULL
        /\ pc' = pc /\ cmd' = cmd /\ proc' = proc
    BY <1>5 DEF sigchld_update, Runs, procVars
  <2>2. p \in Pids /\ i \in Slots /\ SlotsOf(p) # {}
    BY <1>t, <2>1, GetJobPid DEF ListInv
  <2>3. frame'["CHLD"].at = "waitpid"
    BY <1>5, <1>h, <1>p DEF sigchld_update, Frame
  <2>4. pc # "forked"
    BY <2>1 DEF TypeInv, ForkWindow
  <2>5. CASE frame["CHLD"].died /\ deletejob(p)
    <3>1. \A q \in Pids : SlotsOf(q)' = IF q = p THEN {} ELSE SlotsOf(q)
      BY <1>t, <2>2, <2>5, DeleteJobSlots
    <3>2. proc[p] = "free"
      BY <1>t, <2>1, <2>5 DEF ListInv
    <3> QED
      BY <1>t, <2>1, <2>2, <2>3, <2>4, <3>1, <3>2
      DEF NoNullJob, ListedIffUnreaped, Running
  <2>6. CASE ~frame["CHLD"].died /\ SetState(i, "ST")
    <3>1. \A q : SlotsOf(q)' = SlotsOf(q)
      BY <1>t, <2>2, <2>6, SetStatePids
    <3>2. proc[p] # "free"
      BY <1>t, <2>1, <2>6 DEF ListInv
    <3> QED
      BY <1>t, <2>1, <2>2, <2>3, <2>4, <3>1, <3>2
      DEF NoNullJob, ListedIffUnreaped, Running
  <2> QED
    BY <1>5, <2>5, <2>6 DEF sigchld_update
<1>6. ~sigchld_nullJob
  <2> SUFFICES ASSUME sigchld_nullJob
               PROVE  FALSE
    OBVIOUS
  <2>1. /\ Running /\ frame["CHLD"].at = "update"
        /\ SlotsOf(frame["CHLD"].pid) = {}
    BY GetJobPid DEF sigchld_nullJob, Runs
  <2>2. pc # "forked" /\ frame["CHLD"].pid \in Pids
    BY <1>t, <2>1 DEF TypeInv, ForkWindow, ListInv
  <2> QED
    BY <1>t, <2>1, <2>2 DEF ListedIffUnreaped
<1>7. CASE deliverCHLD
  <2>1. frame'["CHLD"].at = "waitpid" /\ frame["CHLD"].at = "idle"
    BY <1>7, <1>h, <1>p DEF deliverCHLD, Enter, Blocked
  <2> QED
    BY <1>7, <1>t, <2>1, ReapSame
    DEF deliverCHLD, tableVars, mainVars, procVars, NoNullJob, Running
<1>8. CASE sigchld_return
  <2>1. frame'["CHLD"].at = "idle" /\ frame["CHLD"].at = "waitpid"
    BY <1>8, <1>h, <1>p DEF sigchld_return, Return, IdleFrame, Runs
  <2>2. pc' = pc \/ (pc = "suspended" /\ pc' = "waitfg")
    BY <1>8 DEF sigchld_return, Return
  <2> QED
    BY <1>8, <1>t, <2>1, <2>2, ReapSame
    DEF sigchld_return, tableVars, procVars, NoNullJob, Running, Ended
<1>9. ASSUME NEW h \in Keyboard, deliverKey(h) \/ keyHandler_kill(h)
      PROVE  Goal
  <2>1. h \in Handlers /\ h # "CHLD"
    BY DEF Keyboard, Handlers
  <2>2. frame'["CHLD"] = frame["CHLD"]
    BY <1>9, <1>h, <1>p, <2>1 DEF deliverKey, keyHandler_kill, Enter, Return
  <2>3. pc' = pc \/ (pc = "suspended" /\ pc' = "waitfg")
    BY <1>9 DEF deliverKey, keyHandler_kill, Return, mainVars
  <2>4. jobs' = jobs /\ cmd' = cmd
    BY <1>9 DEF deliverKey, keyHandler_kill, tableVars, mainVars
  <2>5. \A q \in Pids : proc'[q] = "free" <=> proc[q] = "free"
    BY <1>9, <1>p DEF deliverKey, keyHandler_kill, Hit, procVars
  <2> QED
    BY <1>t, <2>2, <2>3, <2>4, <2>5, ReapSame DEF NoNullJob, Running, Ended
<1>10. CASE Children
  <2>1. \A q \in Pids : proc'[q] = "free" <=> proc[q] = "free"
    BY <1>10, <1>p DEF Children, ChildExec, ChildDies, ChildStops
  <2> QED
    BY <1>10, <1>t, <2>1, ReapSame
    DEF Children, ChildExec, ChildDies, ChildStops, tableVars, mainVars,
        NoNullJob, Running
<1>11. ASSUME jobs' = jobs, frame' = frame, proc' = proc,
              cmd' = cmd \/ pc' = "prompt",
              \/ pc' = pc
              \/ pc' \in {"exit0", "exit1", "killerr"}
              \/ pc = "waitfg" /\ pc' \in {"suspended", "prompt"}
       PROVE  Goal
  BY <1>11, <1>t, ReapSame DEF NoNullJob, Running, Ended
<1>12. ASSUME NEW arg \in Args, do_bgfg_refuse(arg) \/ do_bgfg_killError(arg)
       PROVE  Goal
  BY <1>11, <1>12 DEF do_bgfg_refuse, do_bgfg_killError, tableVars, procVars
<1>13. CASE eval_forkFails \/ quit \/ waitfg \/ sigquit_handler
  BY <1>11, <1>13 DEF eval_forkFails, quit, waitfg, ReturnToMain, sigquit_handler,
                      tableVars, procVars
<1>14. ASSUME NEW h \in Keyboard, keyHandler_killError(h)
       PROVE  Goal
  BY <1>11, <1>14 DEF keyHandler_killError, tableVars, procVars
<1>15. CASE UNCHANGED vars
  BY <1>11, <1>15 DEF vars
<1> QED
  BY <1>1, <1>2, <1>3, <1>4, <1>5, <1>6, <1>7, <1>8, <1>9, <1>10, <1>12,
     <1>13, <1>14, <1>15
  DEF Next, Command, Main, sigchld_handler, keyHandler, Terminated

(* If there are never more children than entries in the job list, the      *)
(* SIGCHLD handler always finds the child it reaped (tsh.c:501-502).       *)
THEOREM NoNullJobWithRoom ==
    ASSUME EnoughRoom
    PROVE  Spec => []NoNullJob
<1>1. ReapInv => NoNullJob
  BY DEF ReapInv
<1>2. TypeInv /\ ReapInv /\ [Next]_vars => ReapInv'
  BY ReapStep
<1> QED
  BY TypeInit, TypeStep, ReapInit, <1>1, <1>2, PTL DEF Spec

(* Under the same assumption, the listed jobs are the unreaped children.   *)
THEOREM ListedIffUnreapedWithRoom ==
    ASSUME EnoughRoom
    PROVE  Spec => []ListedIffUnreaped
<1>1. ReapInv => ListedIffUnreaped
  BY DEF ReapInv
<1>2. TypeInv /\ ReapInv /\ [Next]_vars => ReapInv'
  BY ReapStep
<1> QED
  BY TypeInit, TypeStep, ReapInit, <1>1, <1>2, PTL DEF Spec

-----------------------------------------------------------------------------
(* The shell implements the job list.                                      *)

(* A listed job is the first, since it is the only, entry of its pid.      *)
LEMMA ListedJob ==
    ASSUME TableTypeOK, PidUnique, NEW i \in Slots, jobs[i].pid # NoPid
    PROVE  /\ jobs[i].pid \in Pids
           /\ SlotsOf(jobs[i].pid) # {}
           /\ getjobpid(jobs[i].pid) = i
<1>1. jobs[i].pid \in Pids
  BY DEF TableTypeOK
<1>2. i \in SlotsOf(jobs[i].pid)
  BY DEF SlotsOf
<1>3. /\ getjobpid(jobs[i].pid) \in Slots
      /\ jobs[getjobpid(jobs[i].pid)].pid = jobs[i].pid
  BY <1>2, GetJobPid
<1> QED
  BY <1>1, <1>2, <1>3 DEF PidUnique

LEMMA TableImplemented ==
    TypeInv /\ ListInv /\ [Next]_vars => [NextTable]_tableVars
<1> SUFFICES ASSUME TypeInv, ListInv, [Next]_vars
             PROVE  [NextTable]_tableVars
  OBVIOUS
<1>t. TableTypeOK /\ PidUnique
  BY DEF TypeInv, ShellTypeOK, ListInv
<1>1. ASSUME UNCHANGED tableVars
      PROVE  [NextTable]_tableVars
  BY <1>1
<1>2. CASE eval_addFg \/ eval_addBg
  <2>1. PICK s \in {"FG", "BG"} : addjob(cmd.pid, s)
    BY <1>2 DEF eval_addFg, eval_addBg
  <2>2. pc = "forked"
    BY <1>2 DEF eval_addFg, eval_addBg, Forked
  <2>3. cmd.pid \in Pids /\ nextjid <= JidBound
    BY <2>2 DEF TypeInv, ForkWindow
  <2>4. SlotsOf(cmd.pid) = {}
    BY <2>2, <2>3 DEF ListInv
  <2> QED
    BY <2>1, <2>3, <2>4 DEF NextTable, AddJob
<1>3. ASSUME NEW arg \in Args, do_bgfg_bg(arg) \/ do_bgfg_fg(arg)
      PROVE  [NextTable]_tableVars
  <2> DEFINE i == NamedJob(arg)
             p == jobs[i].pid
  <2>1. PICK s \in {"FG", "BG", "ST"} : SetState(i, s)
    BY <1>3 DEF do_bgfg_bg, do_bgfg_fg
  <2>2. i \in Slots /\ nextjid' = nextjid
    BY <1>3, NamedJobSlot DEF do_bgfg_bg, do_bgfg_fg
  <2>3. p # NoPid
    BY <1>3 DEF do_bgfg_bg, do_bgfg_fg, GroupExists
  <2>4. p \in Pids /\ SlotsOf(p) # {} /\ getjobpid(p) = i
    BY <1>t, <2>2, <2>3, ListedJob
  <2> HIDE DEF i, p
  <2>5. ChangeState(p, s)
    BY <2>1, <2>2, <2>4 DEF ChangeState
  <2> QED
    BY <2>4, <2>5 DEF NextTable
<1>4. CASE sigchld_update
  <2> DEFINE p == frame["CHLD"].pid
  <2>1. /\ Running /\ frame["CHLD"].at = "update" /\ getjobpid(p) # NULL
        /\ deletejob(p) \/ (SetState(getjobpid(p), "ST") /\ UNCHANGED nextjid)
    BY <1>4 DEF sigchld_update, Runs
  <2>2. p \in Pids /\ SlotsOf(p) # {}
    BY <2>1, GetJobPid DEF ListInv
  <2> HIDE DEF p
  <2>3. DeleteJob(p) \/ ChangeState(p, "ST")
    BY <2>1, <2>2 DEF DeleteJob, ChangeState
  <2> QED
    BY <2>2, <2>3 DEF NextTable
<1>5. CASE eval_forkFails \/ quit \/ waitfg
  BY <1>1, <1>5 DEF eval_forkFails, quit, waitfg, tableVars
<1>6. ASSUME NEW p \in Pids, NEW bg \in BOOLEAN, eval_fork(p, bg)
      PROVE  [NextTable]_tableVars
  BY <1>1, <1>6 DEF eval_fork, tableVars
<1>7. ASSUME NEW arg \in Args, do_bgfg_refuse(arg) \/ do_bgfg_killError(arg)
      PROVE  [NextTable]_tableVars
  BY <1>1, <1>7 DEF do_bgfg_refuse, do_bgfg_killError
<1>8. CASE deliverCHLD \/ sigchld_nullJob \/ sigchld_return \/ sigquit_handler
  BY <1>1, <1>8 DEF deliverCHLD, sigchld_nullJob, sigchld_return, sigquit_handler
<1>9. ASSUME NEW p \in Pids,
             sigchld_waitpid(p) \/ ChildExec(p) \/ ChildDies(p) \/ ChildStops(p)
      PROVE  [NextTable]_tableVars
  BY <1>1, <1>9 DEF sigchld_waitpid, ChildExec, ChildDies, ChildStops
<1>10. ASSUME NEW h \in Keyboard, deliverKey(h) \/ keyHandler(h)
       PROVE  [NextTable]_tableVars
  BY <1>1, <1>10 DEF deliverKey, keyHandler, keyHandler_kill, keyHandler_killError
<1>11. CASE UNCHANGED vars
  BY <1>1, <1>11 DEF vars, tableVars
<1> QED
  BY <1>2, <1>3, <1>4, <1>5, <1>6, <1>7, <1>8, <1>9, <1>10, <1>11
  DEF Next, Command, Main, sigchld_handler, Children, Terminated

(* The shell uses its job list as the list is meant to be used: seen from  *)
(* the list, every step of main and of the handlers is one call of addjob  *)
(* for a pid that is not listed, of deletejob, or a change of the state of *)
(* a listed job.                                                           *)
THEOREM ShellImplementsTable == Spec => SpecTable
<1>1. Init => InitTable
  BY DEF Init
<1> QED
  BY TypeInit, TypeStep, ListInit, ListStep, TableImplemented, <1>1, PTL
  DEF Spec, SpecTable

(* So no entry of the shell's list is ever half in use.                    *)
THEOREM ShellEntriesWhole == Spec => []EntriesWhole
  BY ShellImplementsTable, TableCorrect, PTL

-----------------------------------------------------------------------------
(* How the helpers change the state of a listed job.                       *)

LEMMA SameJobsSameStates ==
    ASSUME jobs' = jobs, NEW q
    PROVE  SlotsOf(q)' = SlotsOf(q) /\ StateOf(q)' = StateOf(q)
  BY DEF SlotsOf, StateOf, getjobpid, SlotsWith

LEMMA SetStateStates ==
    ASSUME TableTypeOK, PidUnique, NEW i \in Slots, NEW s, SetState(i, s),
           NEW q \in Pids, SlotsOf(q) # {}
    PROVE  /\ SlotsOf(q)' = SlotsOf(q)
           /\ StateOf(q)' = IF q = jobs[i].pid THEN s ELSE StateOf(q)
<1>1. SlotsOf(q)' = SlotsOf(q)
  BY SetStatePids
<1>2. getjobpid(q)' = getjobpid(q)
  BY <1>1 DEF getjobpid
<1> DEFINE k == getjobpid(q)
<1>3. k \in Slots /\ jobs[k].pid = q
  BY GetJobPid
<1>4. jobs'[k].state = IF k = i THEN s ELSE jobs[k].state
  BY <1>3 DEF SetState, TableTypeOK
<1>5. q = jobs[i].pid <=> k = i
  BY <1>3, NoPidAssumption DEF PidUnique
<1> HIDE DEF k
<1>6. jobs'[k].state = IF q = jobs[i].pid THEN s ELSE jobs[k].state
  BY <1>4, <1>5
<1> QED
  BY <1>1, <1>2, <1>6 DEF StateOf, k

LEMMA DeleteJobStates ==
    ASSUME TableTypeOK, PidUnique, NEW p \in Pids, deletejob(p),
           NEW q \in Pids, q # p, SlotsOf(q) # {}
    PROVE  /\ SlotsOf(q)' = SlotsOf(q)
           /\ StateOf(q)' = StateOf(q)
<1>1. SlotsOf(q)' = SlotsOf(q)
  BY DeleteJobSlots
<1>2. getjobpid(q)' = getjobpid(q)
  BY <1>1 DEF getjobpid
<1> DEFINE k == getjobpid(q)
<1>3. k \in Slots /\ jobs[k].pid = q
  BY GetJobPid
<1>4. jobs'[k] = jobs[k]
  <2>1. CASE getjobpid(p) = NULL
    BY <2>1 DEF deletejob, tableVars
  <2>2. CASE getjobpid(p) # NULL
    <3>1. k # getjobpid(p)
      BY <1>3, <2>2, GetJobPid
    <3> QED
      BY <1>3, <2>2, <3>1 DEF deletejob, TableTypeOK
  <2> QED
    BY <2>1, <2>2
<1> QED
  BY <1>1, <1>2, <1>4 DEF StateOf

LEMMA AddJobStates ==
    ASSUME TableTypeOK, NEW p, NEW s, addjob(p, s),
           NEW q \in Pids, q # p, SlotsOf(q) # {}
    PROVE  /\ SlotsOf(q)' = SlotsOf(q)
           /\ StateOf(q)' = StateOf(q)
<1>1. CASE FreeSlots = {}
  BY <1>1, SameJobsSameStates DEF addjob, tableVars
<1>2. CASE FreeSlots # {}
  <2>1. SlotsOf(q)' = SlotsOf(q)
    BY <1>2, AddJobSlots
  <2>2. getjobpid(q)' = getjobpid(q)
    BY <2>1 DEF getjobpid
  <2> DEFINE k == getjobpid(q)
             n == First(FreeSlots)
  <2>3. k \in Slots /\ jobs[k].pid = q
    BY GetJobPid
  <2>4. n \in Slots /\ jobs[n].pid = NoPid
    <3>1. n \in FreeSlots
      BY <1>2, FirstIsMember DEF FreeSlots
    <3> QED
      BY <3>1 DEF FreeSlots
  <2>5. jobs'[k] = jobs[k]
    <3>1. k # n
      BY <2>3, <2>4, NoPidAssumption
    <3> QED
      BY <1>2, <2>3, <3>1 DEF addjob, TableTypeOK
  <2> QED
    BY <2>1, <2>2, <2>5 DEF StateOf
<1> QED
  BY <1>1, <1>2

(* Where no handler runs, the SIGCHLD handler and the keyboard's are idle. *)
LEMMA NoHandlerRuns ==
    ASSUME TypeInv, depth = 0, NEW h \in Handlers
    PROVE  frame[h].at = "idle"
  BY DEF TypeInv, StackInv, ShellTypeOK, Frame

-----------------------------------------------------------------------------
(* The state a job is listed with, and the state of its process.  While    *)
(* the SIGCHLD handler holds a report about a child, the list is behind    *)
(* for that child and for no other.                                        *)

StateInv ==
    /\ \A i \in Slots : jobs[i].pid # NoPid =>
          /\ jobs[i].state = "ST" => \/ proc[jobs[i].pid] \in {"stopped", "zombie"}
                                     \/ InHand(jobs[i].pid)
          /\ proc[jobs[i].pid] = "stopped" => \/ jobs[i].state = "ST"
                                              \/ InHand(jobs[i].pid)
    /\ \A p \in Pids : InHand(p) => proc[p] \in {"stopped", "zombie", "free"}
    /\ pc = "forked" => proc[cmd.pid] # "stopped"

LEMMA StateInit == Init => StateInv
<1> SUFFICES ASSUME Init
             PROVE  StateInv
  OBVIOUS
<1>1. frame["CHLD"].at = "idle"
  BY DEF Init, IdleFrame, Handlers
<1>2. \A i \in Slots : jobs[i].pid = NoPid
  BY DEF Init, InitTable, ClearedJob, Job
<1> QED
  BY <1>1, <1>2 DEF StateInv, InHand, Init

(* A process that nobody waits for and nobody continues.                   *)
Drifts(before, after) ==
    \/ after = before
    \/ after = "zombie"
    \/ before \in {"new", "run"} /\ after \in {"run", "stopping"}

LEMMA StateSame ==
    ASSUME TypeInv, StateInv, jobs' = jobs,
           \A p \in Pids : InHand(p)' = InHand(p),
           pc' = "forked" => pc = "forked" /\ cmd' = cmd,
           \A p \in Pids : Drifts(proc[p], proc'[p])
    PROVE  StateInv'
<1>1. \A i \in Slots : jobs[i].pid # NoPid => jobs[i].pid \in Pids
  BY DEF TypeInv, ShellTypeOK, TableTypeOK
<1>2. pc = "forked" => cmd.pid \in Pids
  BY DEF TypeInv, ForkWindow
<1> QED
  BY <1>1, <1>2 DEF StateInv, Drifts

LEMMA StateStep == TypeInv /\ ListInv /\ StateInv /\ [Next]_vars => StateInv'
<1> SUFFICES ASSUME TypeInv, ListInv, StateInv, [Next]_vars
             PROVE  StateInv'
  OBVIOUS
<1>t. ShellTypeOK /\ TableTypeOK /\ PidUnique
  BY DEF TypeInv, ShellTypeOK, ListInv
<1>h. "CHLD" \in Handlers
  BY DEF Handlers
<1>p. proc \in [Pids -> ProcState] /\ frame \in [Handlers -> Frame]
  BY <1>t DEF ShellTypeOK
<1>l. \A i \in Slots : jobs[i].pid # NoPid => jobs[i].pid \in Pids
  BY <1>t DEF TableTypeOK
<1>1. ASSUME NEW p \in Pids, NEW bg \in BOOLEAN, eval_fork(p, bg)
      PROVE  StateInv'
  <2>1. /\ jobs' = jobs /\ frame' = frame /\ cmd'.pid = p
        /\ proc[p] = "free"
        /\ \A q \in Pids : proc'[q] = IF q = p THEN "new" ELSE proc[q]
    BY <1>1, <1>p DEF eval_fork, AtPrompt
  <2>2. frame["CHLD"].at = "idle"
    BY <1>1, <1>h, NoHandlerRuns DEF eval_fork, AtPrompt
  <2>3. SlotsOf(p) = {}
    BY <2>1, <2>2 DEF ListInv, InHand
  <2>4. \A i \in Slots : jobs[i].pid # p
    BY <2>3 DEF SlotsOf
  <2> QED
    BY <1>l, <2>1, <2>2, <2>4 DEF StateInv, InHand
<1>2. CASE eval_addFg \/ eval_addBg
  <2> DEFINE p == cmd.pid
  <2>1. PICK s \in {"FG", "BG"} : addjob(p, s)
    BY <1>2 DEF eval_addFg, eval_addBg
  <2>2. /\ pc = "forked" /\ pc' # "forked"
        /\ proc' = proc /\ frame' = frame
    BY <1>2 DEF eval_addFg, eval_addBg, ReturnToMain, Forked, procVars
  <2>3. proc[p] # "stopped"
    BY <2>2 DEF StateInv
  <2>4. \A i \in Slots : \/ jobs'[i] = jobs[i]
                         \/ jobs'[i].pid = p /\ jobs'[i].state = s
    <3>1. CASE FreeSlots = {}
      BY <2>1, <3>1 DEF addjob, tableVars
    <3>2. CASE FreeSlots # {}
      <4>1. First(FreeSlots) \in Slots
        BY <3>2, FirstIsMember DEF FreeSlots
      <4>2. \A i \in Slots : jobs'[i] = IF i = First(FreeSlots)
                                        THEN Job(p, nextjid, s) ELSE jobs[i]
        BY <2>1, <3>2, <4>1 DEF addjob, TableTypeOK, TypeInv, ShellTypeOK
      <4> QED
        BY <4>2 DEF Job
    <3> QED
      BY <3>1, <3>2
  <2> HIDE DEF p
  <2> QED
    BY <2>2, <2>3, <2>4 DEF StateInv, InHand
<1>3. ASSUME NEW arg \in Args, do_bgfg_bg(arg) \/ do_bgfg_fg(arg)
      PROVE  StateInv'
  <2> DEFINE i == NamedJob(arg)
             p == jobs[i].pid
  <2>1. PICK s \in {"FG", "BG"} : SetState(i, s)
    BY <1>3 DEF do_bgfg_bg, do_bgfg_fg
  <2>2. i \in Slots
    BY <1>3, NamedJobSlot DEF do_bgfg_bg, do_bgfg_fg
  <2>3. frame["CHLD"].at = "idle" /\ frame' = frame /\ pc' # "forked"
    BY <1>3, <1>h, NoHandlerRuns DEF do_bgfg_bg, do_bgfg_fg, AtPrompt, mainVars
  <2>4. p # NoPid
    BY <1>3 DEF do_bgfg_bg, do_bgfg_fg, GroupExists
  <2>5. p \in Pids
    BY <1>l, <2>2, <2>4
  <2>6. /\ proc'[p] # "stopped"
        /\ \A q \in Pids : q # p => proc'[q] = proc[q]
    BY <1>3, <1>p, <2>5 DEF do_bgfg_bg, do_bgfg_fg, Continue
  <2>7. \A k \in Slots : /\ jobs'[k].pid = jobs[k].pid
                         /\ jobs'[k].state = IF k = i THEN s ELSE jobs[k].state
    BY <1>t, <2>1, <2>2 DEF SetState, TableTypeOK
  <2>8. \A k \in Slots : jobs[k].pid = p => k = i
    BY <1>t, <2>2, <2>4 DEF PidUnique
  <2> HIDE DEF i, p
  <2>9. p = jobs[i].pid
    BY DEF p
  <2> QED
    BY <1>l, <2>2, <2>3, <2>6, <2>7, <2>8, <2>9 DEF StateInv, InHand
<1>4. ASSUME NEW p \in Pids, sigchld_waitpid(p)
      PROVE  StateInv'
  <2>1. jobs' = jobs /\ pc' = pc /\ frame["CHLD"].at = "waitpid"
    BY <1>4 DEF sigchld_waitpid, Runs, tableVars, mainVars
  <2>2. frame'["CHLD"].at = "update" /\ frame'["CHLD"].pid = p
    BY <1>4, <1>h, <1>p DEF sigchld_waitpid, Frame
  <2>3. /\ proc'[p] \in {"free", "stopped"}
        /\ \A q \in Pids : q # p => proc'[q] = proc[q]
    BY <1>4, <1>p DEF sigchld_waitpid
  <2>4. pc # "forked"
    BY <2>1 DEF TypeInv, ForkWindow
  <2> QED
    BY <1>l, <2>1, <2>2, <2>3, <2>4 DEF StateInv, InHand
<1>5. CASE sigchld_update
  <2> DEFINE p == frame["CHLD"].pid
             i == getjobpid(p)
  <2>1. /\ frame["CHLD"].at = "update" /\ i # NULL
        /\ pc' = pc /\ proc' = proc
    BY <1>5 DEF sigchld_update, Runs, procVars
  <2>2. p \in Pids /\ i \in Slots /\ jobs[i].pid = p
    BY <2>1, GetJobPid DEF ListInv
  <2>3. frame'["CHLD"].at = "waitpid"
    BY <1>5, <1>h, <1>p DEF sigchld_update, Frame
  <2>4. pc # "forked"
    BY <2>1 DEF TypeInv, ForkWindow
  <2>5. InHand(p) /\ \A q : InHand(q) => q = p
    BY <2>1 DEF InHand
  <2>6. \A k \in Slots : jobs[k].pid = p => k = i
    BY <1>t, <2>2, NoPidAssumption DEF PidUnique
  <2>7. \A q : ~InHand(q)'
    BY <2>3 DEF InHand
  <2>8. CASE frame["CHLD"].died /\ deletejob(p)
    <3>1. \A k \in Slots : jobs'[k] = IF k = i THEN ClearedJob ELSE jobs[k]
      BY <1>t, <2>1, <2>8 DEF deletejob, TableTypeOK
    <3>2. ClearedJob.pid = NoPid
      BY DEF ClearedJob, Job
    <3> HIDE DEF i, p
    <3> QED
      BY <2>1, <2>4, <2>5, <2>6, <2>7, <3>1, <3>2 DEF StateInv
  <2>9. CASE ~frame["CHLD"].died /\ SetState(i, "ST")
    <3>1. \A k \in Slots : /\ jobs'[k].pid = jobs[k].pid
                           /\ jobs'[k].state = IF k = i THEN "ST" ELSE jobs[k].state
      BY <1>t, <2>2, <2>9 DEF SetState, TableTypeOK
    <3>2. proc[p] \in {"stopped", "zombie"}
      BY <2>1, <2>2, <2>5, <2>9 DEF StateInv, ListInv
    <3> HIDE DEF i, p
    <3> QED
      BY <2>1, <2>2, <2>4, <2>5, <2>6, <2>7, <3>1, <3>2 DEF StateInv
  <2> QED
    BY <1>5, <2>8, <2>9 DEF sigchld_update
<1>6. ASSUME jobs' = jobs, proc' = proc, frame' = frame,
             pc' = "forked" => pc = "forked" /\ cmd' = cmd
      PROVE  StateInv'
  BY <1>6, StateSame DEF InHand, Drifts
<1>7. CASE deliverCHLD
  <2>1. frame'["CHLD"].at = "waitpid" /\ frame["CHLD"].at = "idle"
    BY <1>7, <1>h, <1>p DEF deliverCHLD, Enter, Blocked
  <2> QED
    BY <1>7, <2>1, StateSame
    DEF deliverCHLD, tableVars, mainVars, procVars, InHand, Drifts
<1>8. CASE sigchld_return
  <2>1. frame'["CHLD"].at = "idle" /\ frame["CHLD"].at = "waitpid"
    BY <1>8, <1>h, <1>p DEF sigchld_return, Return, IdleFrame, Runs
  <2>2. pc' = pc \/ pc' = "waitfg"
    BY <1>8 DEF sigchld_return, Return
  <2> QED
    BY <1>8, <2>1, <2>2, StateSame
    DEF sigchld_return, tableVars, procVars, InHand, Drifts
<1>9. ASSUME NEW h \in Keyboard, deliverKey(h) \/ keyHandler_kill(h)
      PROVE  StateInv'
  <2>1. h \in Handlers /\ h # "CHLD"
    BY DEF Keyboard, Handlers
  <2>2. frame'["CHLD"] = frame["CHLD"]
    BY <1>9, <1>h, <1>p, <2>1 DEF deliverKey, keyHandler_kill, Enter, Return
  <2>3. pc' = pc \/ pc' = "waitfg"
    BY <1>9 DEF deliverKey, keyHandler_kill, Return, mainVars
  <2>4. jobs' = jobs /\ cmd' = cmd
    BY <1>9 DEF deliverKey, keyHandler_kill, tableVars, mainVars
  <2>5. \A q \in Pids : Drifts(proc[q], proc'[q])
    BY <1>9, <1>p DEF deliverKey, keyHandler_kill, Hit, procVars, Drifts
  <2> QED
    BY <2>2, <2>3, <2>4, <2>5, StateSame DEF InHand
<1>10. CASE Children
  <2>1. \A q \in Pids : Drifts(proc[q], proc'[q])
    BY <1>10, <1>p DEF Children, ChildExec, ChildDies, ChildStops, Drifts
  <2> QED
    BY <1>10, <2>1, StateSame
    DEF Children, ChildExec, ChildDies, ChildStops, tableVars, mainVars, InHand
<1>12. ASSUME NEW arg \in Args, do_bgfg_refuse(arg) \/ do_bgfg_killError(arg)
       PROVE  StateInv'
  BY <1>6, <1>12 DEF do_bgfg_refuse, do_bgfg_killError, tableVars, procVars
<1>13. CASE eval_forkFails \/ quit \/ waitfg \/ sigchld_nullJob \/ sigquit_handler
  BY <1>6, <1>13 DEF eval_forkFails, quit, waitfg, ReturnToMain, sigchld_nullJob,
                     sigquit_handler, tableVars, procVars
<1>14. ASSUME NEW h \in Keyboard, keyHandler_killError(h)
       PROVE  StateInv'
  BY <1>6, <1>14 DEF keyHandler_killError, tableVars, procVars
<1>15. CASE UNCHANGED vars
  BY <1>6, <1>15 DEF vars
<1> QED
  BY <1>1, <1>2, <1>3, <1>4, <1>5, <1>7, <1>8, <1>9, <1>10, <1>12,
     <1>13, <1>14, <1>15
  DEF Next, Command, Main, sigchld_handler, keyHandler, Terminated

(* Outside the SIGCHLD handler the job list tells the truth: a job listed  *)
(* as stopped does not run, and a stop that was reported is listed.  The   *)
(* list may be full and children unlisted (sigchld_handler, do_bgfg).      *)
THEOREM StatesAreTrue == Spec => []JobStateAgrees
<1>1. StateInv => JobStateAgrees
  BY DEF StateInv, JobStateAgrees, InHand
<1> QED
  BY TypeInit, TypeStep, ListInit, ListStep, StateInit, StateStep, <1>1, PTL
  DEF Spec

-----------------------------------------------------------------------------
(* How the state of a job may change.                                      *)

LegalChange == \A p \in Pids : SlotsOf(p) # {} /\ SlotsOf(p)' # {}
                 => StateOf(p)' = StateOf(p) \/ Changes(StateOf(p), StateOf(p)')

(* An entry in use is in one of the three states the header names.         *)
LEMMA ListedState ==
    ASSUME TableTypeOK, EntriesWhole, NEW i \in Slots, jobs[i].pid # NoPid
    PROVE  jobs[i].state \in {"FG", "BG", "ST"}
<1>1. jobs[i].state \in JobState /\ jobs[i] # ClearedJob
  BY DEF TableTypeOK, ClearedJob, Job
<1> QED
  BY <1>1 DEF EntriesWhole, JobState

LEMMA ListedStateOf ==
    ASSUME TableTypeOK, PidUnique, NEW i \in Slots, jobs[i].pid # NoPid
    PROVE  StateOf(jobs[i].pid) = jobs[i].state
  BY ListedJob DEF StateOf

LEMMA ChangesStep ==
    TypeInv /\ ListInv /\ EntriesWhole /\ ForegroundInv /\ [Next]_vars
        => LegalChange
<1> SUFFICES ASSUME TypeInv, ListInv, EntriesWhole, ForegroundInv, [Next]_vars,
                    NEW p \in Pids, SlotsOf(p) # {}, SlotsOf(p)' # {}
             PROVE  StateOf(p)' = StateOf(p) \/ Changes(StateOf(p), StateOf(p)')
  BY DEF LegalChange
<1> DEFINE Goal == StateOf(p)' = StateOf(p) \/ Changes(StateOf(p), StateOf(p)')
<1>t. TableTypeOK /\ PidUnique
  BY DEF TypeInv, ShellTypeOK, ListInv
<1>1. ASSUME UNCHANGED tableVars
      PROVE  Goal
  BY <1>1, SameJobsSameStates DEF tableVars
<1>2. CASE eval_addFg \/ eval_addBg
  <2>1. PICK s \in {"FG", "BG"} : addjob(cmd.pid, s)
    BY <1>2 DEF eval_addFg, eval_addBg
  <2>2. SlotsOf(cmd.pid) = {}
    BY <1>2 DEF eval_addFg, eval_addBg, Forked, ListInv
  <2> QED
    BY <1>t, <2>1, <2>2, AddJobStates
<1>3. ASSUME NEW arg \in Args, do_bgfg_bg(arg) \/ do_bgfg_fg(arg)
      PROVE  Goal
  <2> DEFINE i == NamedJob(arg)
  <2>1. PICK s \in {"FG", "BG"} : SetState(i, s)
    BY <1>3 DEF do_bgfg_bg, do_bgfg_fg
  <2>2. i \in Slots /\ jobs[i].pid # NoPid
    BY <1>3, NamedJobSlot DEF do_bgfg_bg, do_bgfg_fg, GroupExists
  <2>3. StateOf(p)' = IF p = jobs[i].pid THEN s ELSE StateOf(p)
    BY <1>t, <2>1, <2>2, SetStateStates
  <2>4. jobs[i].state \in {"BG", "ST"}
    <3>1. FGSlots = {}
      BY <1>3 DEF do_bgfg_bg, do_bgfg_fg, AtPrompt, ForegroundInv,
                  PromptMeansNoForeground
    <3>2. jobs[i].state # "FG"
      BY <2>2, <3>1 DEF FGSlots
    <3>3. jobs[i].state \in {"FG", "BG", "ST"}
      BY <1>t, <2>2, ListedState
    <3> QED
      BY <3>2, <3>3
  <2>5. StateOf(jobs[i].pid) = jobs[i].state
    BY <1>t, <2>2, ListedStateOf
  <2> HIDE DEF i
  <2> QED
    BY <2>1, <2>3, <2>4, <2>5 DEF Changes
<1>4. CASE sigchld_update
  <2> DEFINE q == frame["CHLD"].pid
             i == getjobpid(q)
  <2>1. /\ frame["CHLD"].at = "update" /\ i # NULL
        /\ deletejob(q) \/ SetState(i, "ST")
    BY <1>4 DEF sigchld_update, Runs
  <2>2. q \in Pids /\ i \in Slots /\ jobs[i].pid = q /\ SlotsOf(q) # {}
    BY <2>1, GetJobPid DEF ListInv
  <2>3. CASE deletejob(q)
    <3>1. SlotsOf(p)' = IF p = q THEN {} ELSE SlotsOf(p)
      BY <1>t, <2>2, <2>3, DeleteJobSlots
    <3>2. p # q
      BY <3>1
    <3> QED
      BY <1>t, <2>2, <2>3, <3>2, DeleteJobStates
  <2>4. CASE SetState(i, "ST")
    <3>1. StateOf(p)' = IF p = q THEN "ST" ELSE StateOf(p)
      BY <1>t, <2>2, <2>4, SetStateStates
    <3>2. jobs[i].state \in {"FG", "BG", "ST"} /\ StateOf(q) = jobs[i].state
      BY <1>t, <2>2, NoPidAssumption, ListedState, ListedStateOf
    <3> HIDE DEF i, q
    <3> QED
      BY <3>1, <3>2 DEF Changes
  <2> QED
    BY <2>1, <2>3, <2>4
<1>5. CASE eval_forkFails \/ quit \/ waitfg
  BY <1>1, <1>5 DEF eval_forkFails, quit, waitfg, tableVars
<1>6. ASSUME NEW q \in Pids, NEW bg \in BOOLEAN, eval_fork(q, bg)
      PROVE  Goal
  BY <1>1, <1>6 DEF eval_fork, tableVars
<1>7. ASSUME NEW arg \in Args, do_bgfg_refuse(arg) \/ do_bgfg_killError(arg)
      PROVE  Goal
  BY <1>1, <1>7 DEF do_bgfg_refuse, do_bgfg_killError
<1>8. CASE deliverCHLD \/ sigchld_nullJob \/ sigchld_return \/ sigquit_handler
  BY <1>1, <1>8 DEF deliverCHLD, sigchld_nullJob, sigchld_return, sigquit_handler
<1>9. ASSUME NEW q \in Pids,
             sigchld_waitpid(q) \/ ChildExec(q) \/ ChildDies(q) \/ ChildStops(q)
      PROVE  Goal
  BY <1>1, <1>9 DEF sigchld_waitpid, ChildExec, ChildDies, ChildStops
<1>10. ASSUME NEW h \in Keyboard, deliverKey(h) \/ keyHandler(h)
       PROVE  Goal
  BY <1>1, <1>10 DEF deliverKey, keyHandler, keyHandler_kill, keyHandler_killError
<1>11. CASE UNCHANGED vars
  BY <1>1, <1>11 DEF vars, tableVars
<1>12. CASE Command \/ Main
  BY <1>2, <1>3, <1>5, <1>6, <1>7, <1>12 DEF Command, Main
<1>13. CASE sigchld_handler \/ Children
  BY <1>4, <1>8, <1>9, <1>13 DEF sigchld_handler, Children
<1> QED
  BY <1>8, <1>10, <1>11, <1>12, <1>13 DEF Next, Terminated

(* A listed job's state changes only as the header lists, or from BG to ST *)
(* when a background job stops: from the foreground to the background it   *)
(* goes only by way of a stop (do_bgfg, sigchld_handler).                  *)
THEOREM ChangesAreLegal == Spec => JobsChangeLegally
<1>1. TypeInv /\ ListInv /\ EntriesWhole /\ ForegroundInv /\ [Next]_vars
        => [LegalChange]_vars
  BY ChangesStep
<1>2. Spec => [][LegalChange]_vars
  BY TypeInit, TypeStep, ListInit, ListStep, ForegroundInit, ForegroundStep,
     ShellEntriesWhole, <1>1, PTL DEF Spec
<1> QED
  BY <1>2 DEF JobsChangeLegally, LegalChange

-----------------------------------------------------------------------------
(* The keys.  Between fgpid and kill the SIGCHLD handler may run on top of *)
(* the keyboard's, and the job may end or stop; then it does not run, and  *)
(* main, which alone could continue it, waits below.  If it has stopped it *)
(* is still listed, as FG or, once the SIGCHLD handler has seen it, as ST. *)

KeyInv ==
    \A h \in Keyboard, p \in Pids : frame[h].at = "kill" /\ frame[h].pid = p =>
        /\ proc[p] \in {"new", "run"} => SlotsOf(p) # {} /\ StateOf(p) = "FG"
        /\ proc[p] \in {"stopping", "stopped"} =>
              SlotsOf(p) # {} /\ StateOf(p) \in {"FG", "ST"}

LEMMA KeySame ==
    ASSUME KeyInv, jobs' = jobs,
           \A h \in Keyboard : frame'[h] = frame[h] \/ frame'[h].at # "kill",
           \A p \in Pids :
             /\ proc'[p] \in {"new", "run"} => proc[p] \in {"new", "run"}
             /\ proc'[p] \in {"stopping", "stopped"} =>
                   proc[p] \in {"new", "run", "stopping", "stopped"}
    PROVE  KeyInv'
<1>1. \A q \in Pids : SlotsOf(q)' = SlotsOf(q) /\ StateOf(q)' = StateOf(q)
  BY SameJobsSameStates
<1> QED
  BY <1>1 DEF KeyInv

(* What fgpid returns is listed, and in the foreground.                    *)
LEMMA FgPidListed ==
    ASSUME TableTypeOK, PidUnique, EntriesWhole, fgpid # NoPid
    PROVE  SlotsOf(fgpid) # {} /\ StateOf(fgpid) = "FG"
<1> DEFINE k == First(FGSlots)
<1>1. FGSlots # {} /\ fgpid = jobs[k].pid
  BY DEF fgpid
<1>2. k \in FGSlots
  BY <1>1, FirstIsMember DEF FGSlots
<1>3. k \in Slots /\ jobs[k].state = "FG"
  BY <1>2 DEF FGSlots
<1> HIDE DEF k
<1> QED
  BY <1>1, <1>3, ListedJob, ListedStateOf

LEMMA KeyStep ==
    TypeInv /\ ListInv /\ StateInv /\ EntriesWhole /\ KeyInv /\ [Next]_vars => KeyInv'
<1> SUFFICES ASSUME TypeInv, ListInv, StateInv, EntriesWhole, KeyInv, [Next]_vars
             PROVE  KeyInv'
  OBVIOUS
<1>t. ShellTypeOK /\ TableTypeOK /\ PidUnique
  BY DEF TypeInv, ShellTypeOK, ListInv
<1>h. Keyboard \subseteq Handlers /\ "CHLD" \in Handlers /\ "CHLD" \notin Keyboard
  BY DEF Handlers, Keyboard
<1>p. proc \in [Pids -> ProcState] /\ frame \in [Handlers -> Frame]
  BY <1>t DEF ShellTypeOK
<1>1. ASSUME frame' = frame, depth = 0
      PROVE  KeyInv'
  <2>1. \A h \in Keyboard : frame'[h].at # "kill"
    BY <1>1, <1>h, NoHandlerRuns
  <2> QED
    BY <2>1 DEF KeyInv
<1>2. ASSUME jobs' = jobs, frame' = frame, proc' = proc
      PROVE  KeyInv'
  BY <1>2, KeySame
<1>3. CASE Command \/ Main
  BY <1>1, <1>3
  DEF Command, Main, AtPrompt, Forked, eval_fork, eval_forkFails, do_bgfg_refuse,
      do_bgfg_bg, do_bgfg_fg, do_bgfg_killError, quit, eval_addFg, eval_addBg, waitfg
<1>4. CASE deliverCHLD \/ sigchld_return
  <2>1. \A h \in Keyboard : frame'[h] = frame[h]
    BY <1>4, <1>h, <1>p DEF deliverCHLD, sigchld_return, Enter, Return
  <2>2. jobs' = jobs /\ proc' = proc
    BY <1>4 DEF deliverCHLD, sigchld_return, tableVars, procVars
  <2> QED
    BY <2>1, <2>2, KeySame
<1>5. ASSUME NEW p \in Pids, sigchld_waitpid(p)
      PROVE  KeyInv'
  <2>1. \A h \in Keyboard : frame'[h] = frame[h]
    BY <1>5, <1>h, <1>p DEF sigchld_waitpid
  <2>2. \A q \in Pids : \/ proc'[q] = proc[q]
                         \/ proc'[q] = "free"
                         \/ (proc'[q] = "stopped" /\ proc[q] = "stopping")
    BY <1>5, <1>p DEF sigchld_waitpid, Reportable
  <2>3. jobs' = jobs
    BY <1>5 DEF sigchld_waitpid, tableVars
  <2> QED
    BY <2>1, <2>2, <2>3, KeySame
<1>6. CASE sigchld_update
  <2> DEFINE p == frame["CHLD"].pid
             i == getjobpid(p)
  <2>1. /\ frame["CHLD"].at = "update" /\ i # NULL /\ proc' = proc
        /\ deletejob(p) \/ SetState(i, "ST")
        /\ frame["CHLD"].died \/ SetState(i, "ST")
    BY <1>6 DEF sigchld_update, Runs, procVars
  <2>2. p \in Pids /\ i \in Slots /\ jobs[i].pid = p
    BY <2>1, GetJobPid DEF ListInv
  <2>3. proc[p] \notin {"new", "run"}
    BY <2>1, <2>2 DEF StateInv, InHand
  <2>6. \A q \in Pids : q = p /\ proc[q] # "free"
          => SlotsOf(q)' # {} /\ StateOf(q)' = "ST"
    <3>1. SUFFICES ASSUME NEW q \in Pids, q = p, proc[q] # "free"
                   PROVE  SlotsOf(q)' # {} /\ StateOf(q)' = "ST"
      OBVIOUS
    <3>2. SetState(i, "ST")
      BY <2>1, <2>2, <3>1 DEF ListInv
    <3>3. SlotsOf(q) # {}
      BY <2>2, <3>1 DEF SlotsOf
    <3> HIDE DEF p, i
    <3> QED
      BY <1>t, <2>2, <3>1, <3>2, <3>3, SetStateStates
  <2>4. \A h \in Keyboard : frame'[h] = frame[h]
    BY <1>6, <1>h, <1>p DEF sigchld_update
  <2>5. \A q \in Pids : q # p /\ SlotsOf(q) # {}
          => SlotsOf(q)' = SlotsOf(q) /\ StateOf(q)' = StateOf(q)
    BY <1>t, <2>1, <2>2, DeleteJobStates, SetStateStates
  <2> HIDE DEF p, i
  <2> QED
    BY <2>1, <2>3, <2>4, <2>5, <2>6 DEF KeyInv
<1>7. ASSUME NEW h \in Keyboard, deliverKey(h)
      PROVE  KeyInv'
  <2>1. jobs' = jobs /\ proc' = proc
    BY <1>7 DEF deliverKey, tableVars, procVars
  <2>2. \A g \in Keyboard : \/ frame'[g] = frame[g]
                            \/ g = h /\ frame'[g].pid = fgpid
    BY <1>7, <1>h, <1>p DEF deliverKey, Enter
  <2>3. \A q \in Pids : SlotsOf(q)' = SlotsOf(q) /\ StateOf(q)' = StateOf(q)
    BY <2>1, SameJobsSameStates
  <2>4. \A q \in Pids : q = fgpid => SlotsOf(q) # {} /\ StateOf(q) = "FG"
    BY <1>t, NoPidAssumption, FgPidListed
  <2> QED
    BY <2>1, <2>2, <2>3, <2>4 DEF KeyInv
<1>8. ASSUME NEW h \in Keyboard, keyHandler_kill(h)
      PROVE  KeyInv'
  <2>1. jobs' = jobs
    BY <1>8 DEF keyHandler_kill, tableVars
  <2>2. \A g \in Keyboard : frame'[g] = frame[g] \/ frame'[g].at # "kill"
    BY <1>8, <1>h, <1>p DEF keyHandler_kill, Return, IdleFrame
  <2>3. \A q \in Pids : \/ proc'[q] = proc[q]
                         \/ proc'[q] = "zombie"
                         \/ (proc'[q] = "stopping" /\ proc[q] = "run")
    BY <1>8, <1>p DEF keyHandler_kill, Hit
  <2> QED
    BY <2>1, <2>2, <2>3, KeySame
<1>9. CASE Children
  <2>1. \A q \in Pids :
          /\ proc'[q] \in {"new", "run"} => proc[q] \in {"new", "run"}
          /\ proc'[q] \in {"stopping", "stopped"} =>
                proc[q] \in {"new", "run", "stopping", "stopped"}
    BY <1>9, <1>p DEF Children, ChildExec, ChildDies, ChildStops
  <2>2. jobs' = jobs /\ frame' = frame
    BY <1>9 DEF Children, ChildExec, ChildDies, ChildStops, tableVars
  <2> QED
    BY <2>1, <2>2, KeySame
<1>10. CASE sigchld_nullJob \/ sigquit_handler
  BY <1>2, <1>10 DEF sigchld_nullJob, sigquit_handler, tableVars, procVars
<1>11. ASSUME NEW h \in Keyboard, keyHandler_killError(h)
       PROVE  KeyInv'
  BY <1>2, <1>11 DEF keyHandler_killError, tableVars, procVars
<1>12. CASE UNCHANGED vars
  BY <1>2, <1>12 DEF vars
<1> QED
  BY <1>3, <1>4, <1>5, <1>6, <1>7, <1>8, <1>9, <1>10, <1>11, <1>12
  DEF Next, sigchld_handler, keyHandler, Terminated

KeyReach ==
    \A h \in Keyboard, p \in Pids :
        Runs(h, "kill") /\ frame'[h].at = "idle" =>
          /\ proc'[p] # proc[p] => SlotsOf(p) # {} /\ StateOf(p) = "FG"
          /\ p \in pending' \ pending =>
                SlotsOf(p) # {} /\ StateOf(p) \in {"FG", "ST"}

LEMMA KeyReachStep == TypeInv /\ KeyInv /\ [Next]_vars => KeyReach
<1> SUFFICES ASSUME TypeInv, KeyInv, [Next]_vars,
                    NEW h \in Keyboard, NEW p \in Pids,
                    Runs(h, "kill"), frame'[h].at = "idle",
                    proc'[p] # proc[p] \/ p \in pending' \ pending
             PROVE  /\ proc'[p] # proc[p] => SlotsOf(p) # {} /\ StateOf(p) = "FG"
                    /\ p \in pending' \ pending =>
                          SlotsOf(p) # {} /\ StateOf(p) \in {"FG", "ST"}
  BY DEF KeyReach
<1>h. Keyboard \subseteq Handlers /\ "CHLD" \in Handlers /\ "CHLD" \notin Keyboard
  BY DEF Handlers, Keyboard
<1>p. proc \in [Pids -> ProcState] /\ frame \in [Handlers -> Frame]
  BY DEF TypeInv, ShellTypeOK
<1>1. frame[h].at = "kill" /\ frame'[h] # frame[h]
  BY DEF Runs
<1>2. ~UNCHANGED frame /\ ~UNCHANGED <<proc, pending>>
  BY <1>1
<1>3. ~(Command \/ Main \/ Children \/ sigquit_handler \/ Terminated)
  <2>1. ~Command
    BY <1>2 DEF Command, eval_fork, eval_forkFails, do_bgfg_refuse, do_bgfg_bg,
                do_bgfg_fg, do_bgfg_killError, quit
  <2>2. ~Main /\ ~sigquit_handler /\ ~Children /\ ~Terminated
    BY <1>2 DEF Main, eval_addFg, eval_addBg, waitfg, sigquit_handler, Children,
                ChildExec, ChildDies, ChildStops, Terminated, vars
  <2> QED
    BY <2>1, <2>2
<1>4. ~deliverCHLD /\ ~sigchld_handler
  <2>1. ~deliverCHLD
    BY <1>2 DEF deliverCHLD, procVars
  <2>2. ~(\E q \in Pids : sigchld_waitpid(q))
    BY <1>1, <1>h, <1>p DEF sigchld_waitpid
  <2>3. ~sigchld_update /\ ~sigchld_nullJob /\ ~sigchld_return
    BY <1>2 DEF sigchld_update, sigchld_nullJob, sigchld_return, procVars
  <2> QED
    BY <2>1, <2>2, <2>3 DEF sigchld_handler
<1>5. ~UNCHANGED vars
  BY <1>2 DEF vars
<1>6. PICK g \in Keyboard : keyHandler_kill(g)
  BY <1>2, <1>3, <1>4, <1>5
  DEF Next, keyHandler, deliverKey, keyHandler_killError, procVars
<1>7. g = h
  BY <1>1, <1>6, <1>h, <1>p DEF keyHandler_kill, Return
<1>8. /\ frame[h].pid = p
      /\ proc'[p] # proc[p] => proc[p] = "run"
      /\ p \in pending' \ pending => proc[p] \in {"stopping", "stopped"}
  BY <1>6, <1>7, <1>p DEF keyHandler_kill, Hit, GroupExists
<1> QED
  BY <1>1, <1>8 DEF KeyInv

(* A ctrl-c or ctrl-z the shell passes on takes effect at once only on a   *)
(* job that is in the foreground then, although signals were unblocked     *)
(* between fgpid and kill (tsh.c:534-541, 554-561), and it stays pending   *)
(* only for a job that was and has stopped.                                *)
THEOREM KeysHitTheForeground == Spec => KeysReachOnlyForeground
<1>1. Init => KeyInv
  BY DEF Init, KeyInv, IdleFrame, Handlers, Keyboard
<1>2. TypeInv /\ KeyInv /\ [Next]_vars => [KeyReach]_vars
  BY KeyReachStep
<1>3. Spec => [][KeyReach]_vars
  BY TypeInit, TypeStep, ListInit, ListStep, StateInit, StateStep, KeyStep,
     ShellEntriesWhole, <1>1, <1>2, PTL DEF Spec
<1> QED
  BY <1>3 DEF KeysReachOnlyForeground, KeyReach

=============================================================================

------------------------------ MODULE JobTable ------------------------------
(***************************************************************************)
(* The job list of the tiny shell (Shell/tsh.c): the fixed array jobs[],   *)
(* the counter nextjid, and the helper routines that read and change them. *)
(* Shell.tla extends this module and calls the helpers from eval, do_bgfg  *)
(* and the signal handlers.  The specification at the end is what the list *)
(* promises alone, under any legal sequence of calls: the shell implements *)
(* it.                                                                     *)
(*                                                                         *)
(* cmdline, which is only printed, is left out.                            *)
(***************************************************************************)
EXTENDS Integers

CONSTANTS
    MAXJOBS,    \* entries of jobs[] (16 in the code)
    Pids,       \* process IDs the kernel may hand out
    NoPid,      \* the 0 in the pid field of a free entry
    JidBound    \* bound of the model on the job IDs handed out

ASSUME MaxJobsAssumption  == MAXJOBS \in Nat \ {0}
ASSUME NoPidAssumption    == NoPid \notin Pids
ASSUME JidBoundAssumption == JidBound \in Nat /\ JidBound >= MAXJOBS

VARIABLES
    jobs,       \* the job list
    nextjid     \* next job ID to allocate

tableVars == <<jobs, nextjid>>

Slots    == 1 .. MAXJOBS
NULL     == 0                      \* the null job_t pointer: no slot
JobState == {"UNDEF", "FG", "BG", "ST"}

Job(pid, jid, state) == [pid |-> pid, jid |-> jid, state |-> state]

(* clearjob: what a free entry of the list holds. *)
ClearedJob == Job(NoPid, 0, "UNDEF")

(* Every helper scans the array from its first entry. *)
First(S) == CHOOSE i \in S : \A j \in S : i <= j

SlotsWith(S) == IF S = {} THEN NULL ELSE First(S)

FreeSlots  == {i \in Slots : jobs[i].pid = NoPid}
FGSlots    == {i \in Slots : jobs[i].state = "FG"}
SlotsOf(p) == {i \in Slots : jobs[i].pid = p}

maxjid(tbl) ==
    CHOOSE m \in {0} \cup {tbl[i].jid : i \in Slots} :
        \A i \in Slots : tbl[i].jid <= m

fgpid == IF FGSlots = {} THEN NoPid ELSE jobs[First(FGSlots)].pid

getjobpid(p) == SlotsWith(SlotsOf(p))

getjobjid(jid) == SlotsWith({i \in Slots : jid >= 1 /\ jobs[i].jid = jid})

-----------------------------------------------------------------------------
(* The argument of bg and fg: absent, %jid, digits, or anything else.      *)
Args ==
    [kind : {"jid"}, jid : 0 .. JidBound] \cup
    [kind : {"pid"}, pid : Pids] \cup
    [kind : {"none", "garbage"}]

(* isDigit tests the pointer, not the character it points to.  The program *)
(* built with the Makefile's -O2 compiles it to "str == NULL": it answers  *)
(* no to every argument.                                                   *)
isDigit(arg) == FALSE

(* The job a bg or fg argument names, NULL when do_bgfg refuses it.        *)
NamedJob(arg) ==
    IF arg.kind = "jid" THEN getjobjid(arg.jid)
    ELSE IF arg.kind = "pid" /\ isDigit(arg) THEN getjobpid(arg.pid)
    ELSE NULL

-----------------------------------------------------------------------------
(* Mutant: the scan for a free entry is dropped. *)
addjobNoScan(p, state) ==
    /\ jobs' = [jobs EXCEPT ![MAXJOBS] = Job(p, nextjid, state)]
    /\ nextjid' = IF nextjid + 1 > MAXJOBS THEN 1 ELSE nextjid + 1

(* addjob: a full list keeps the job out and only prints a message.        *)
addjob(p, state) ==
    \/ /\ FreeSlots = {}
       /\ UNCHANGED tableVars
    \/ /\ FreeSlots # {}
       /\ jobs' = [jobs EXCEPT ![First(FreeSlots)] = Job(p, nextjid, state)]
       /\ nextjid' = IF nextjid + 1 > MAXJOBS THEN 1 ELSE nextjid + 1

(* Mutant: the pid is cleared and the rest of the entry left behind. *)
deletejobPidOnly(p) ==
    /\ getjobpid(p) # NULL
    /\ jobs' = [jobs EXCEPT ![getjobpid(p)].pid = NoPid]
    /\ nextjid' = maxjid(jobs') + 1

(* Mutant: the next job gets the number of the last one listed. *)
deletejobSameJid(p) ==
    /\ getjobpid(p) # NULL
    /\ jobs' = [jobs EXCEPT ![getjobpid(p)] = ClearedJob]
    /\ nextjid' = maxjid(jobs')

(* deletejob: the entry is cleared and numbering resumes above the largest *)
(* job ID still in the list.                                               *)
deletejob(p) ==
    LET i       == getjobpid(p)
        cleared == [jobs EXCEPT ![i] = ClearedJob]
    IN  \/ /\ i = NULL
           /\ UNCHANGED tableVars
        \/ /\ i # NULL
           /\ jobs' = cleared
           /\ nextjid' = maxjid(cleared) + 1

SetState(i, state) == jobs' = [jobs EXCEPT ![i].state = state]

-----------------------------------------------------------------------------
(* The list on its own.                                                    *)
InitTable ==
    /\ jobs = [i \in Slots |-> ClearedJob]
    /\ nextjid = 1

(* eval adds the pid fork has just returned, which no unreaped child has.  *)
AddJob(p, state) ==
    /\ SlotsOf(p) = {}
    /\ nextjid <= JidBound
    /\ addjob(p, state)

DeleteJob(p) == deletejob(p)

ChangeState(p, state) ==
    /\ SlotsOf(p) # {}
    /\ SetState(getjobpid(p), state)
    /\ UNCHANGED nextjid

NextTable ==
    \/ \E p \in Pids, s \in {"FG", "BG"} : AddJob(p, s)
    \/ \E p \in Pids : DeleteJob(p)
    \/ \E p \in Pids, s \in {"FG", "BG", "ST"} : ChangeState(p, s)

SpecTable == InitTable /\ [][NextTable]_tableVars

-----------------------------------------------------------------------------
TableTypeOK ==
    /\ jobs \in [Slots -> [pid : Pids \cup {NoPid}, jid : 0 .. JidBound,
                           state : JobState]]
    /\ nextjid \in 1 .. JidBound + 1

(* A pid is in the list at most once, so that getjobpid, deletejob and     *)
(* pid2jid, which stop at the first match, all mean the same job.          *)
PidUnique ==
    \A i, j \in Slots : jobs[i].pid = jobs[j].pid /\ i # j
                          => jobs[i].pid = NoPid

(* An entry is wholly free or wholly in use: fgpid and getjobjid, which do *)
(* not look at the pid, never find a deleted job, and listjobs never       *)
(* prints its "Internal error".                                            *)
EntriesWhole ==
    \A i \in Slots :
        \/ jobs[i] = ClearedJob
        \/ jobs[i].pid # NoPid /\ jobs[i].jid >= 1 /\ jobs[i].state # "UNDEF"
=============================================================================

------------------------------- MODULE Shell -------------------------------
(***************************************************************************)
(* The tiny shell (Shell/tsh.c): its main loop, the signal handlers that   *)
(* interrupt it and each other, and the child processes it runs.           *)
(*                                                                         *)
(* The shell is one thread.  What is concurrent are the children and the   *)
(* signals: a handler runs on top of whatever was running when the signal  *)
(* was delivered, and stays there until it returns.  "depth" counts the    *)
(* handlers on the stack; each handler's frame knows its place in it.      *)
(*                                                                         *)
(* A section of the code that blocks every signal is one step, since       *)
(* nothing of the shell runs in between; the children's own steps do not   *)
(* read the shell's variables.  Every other pair of system calls is        *)
(* separated, so that signals arrive between them.                         *)
(***************************************************************************)
EXTENDS JobTable

CONSTANTS
    MaxKeys,        \* bound of the model on the keys ctrl-c and ctrl-z typed
    Mistyped        \* whether the user types bg and fg that do_bgfg refuses

ASSUME MaxKeysAssumption  == MaxKeys \in Nat
ASSUME MistypedAssumption == Mistyped \in BOOLEAN

VARIABLES
    pc,             \* where main is, or how the shell ended
    mask,           \* signals main has blocked
    prev,           \* the mask eval or do_bgfg restores when it returns
    cmd,            \* the command eval is running: its child, and whether bg
    fgchld_flag,    \* set by sigchld_handler to end waitfg
    chld,           \* SIGCHLD is pending for the shell
    depth,          \* handlers on the stack; 0: main runs
    frame,          \* one activation record per handler
    proc,           \* what the kernel knows of each child
    deaf,           \* children that inherited a mask with every signal blocked
    pending,        \* stopped children for which a SIGINT is pending
    keys            \* ctrl-c and ctrl-z typed so far

mainVars == <<pc, mask, prev, cmd, fgchld_flag>>
procVars == <<proc, deaf, pending>>
vars == <<jobs, nextjid, pc, mask, prev, cmd, fgchld_flag,
          chld, depth, frame, proc, deaf, pending, keys>>

AllSignals == {"CHLD", "INT", "TSTP", "QUIT"}      \* sigfillset
Keyboard   == {"INT", "TSTP"}
Handlers   == {"CHLD", "INT", "TSTP"}

Ended == {"exit0", "exit1", "killerr", "segv"}
MainPC == {"prompt", "forked", "waitfg", "suspended"} \cup Ended

(* "new": forked, still in the shell's process group.  "stopping" and      *)
(* "stopped": stopped, before and after waitpid has reported it.           *)
ProcState == {"free", "new", "run", "stopping", "stopped", "zombie"}

Frame == [at : {"idle", "waitpid", "update", "kill"}, pid : Pids \cup {NoPid},
          died : BOOLEAN, depth : Nat]

NoCommand == [pid |-> NoPid, bg |-> FALSE]

IdleFrame == [at |-> "idle", pid |-> NoPid, died |-> FALSE, depth |-> 0]

Running == pc \notin Ended

(* sigsuspend replaces main's mask by the empty one; a handler adds its    *)
(* own signal until it returns (Signal leaves sa_mask empty).              *)
Blocked == (IF pc = "suspended" THEN {} ELSE mask)
           \cup {h \in Handlers : frame[h].at # "idle"}

(* Handler h is the one that runs now, and has reached "at".               *)
Runs(h, at) == Running /\ frame[h].at = at /\ frame[h].depth = depth

(* kill(-p, ...) succeeds when process group p has a member, which a       *)
(* zombie still is; a child is its own group after its setpgid(0, 0).      *)
GroupExists(p) == p # NoPid /\ proc[p] \notin {"free", "new"}

(* waitpid(-1, ..., WNOHANG | WUNTRACED) has these to report.              *)
Reportable == {p \in Pids : proc[p] \in {"zombie", "stopping"}}

-----------------------------------------------------------------------------
(* main and eval.                                                          *)

AtPrompt == pc = "prompt" /\ depth = 0
Forked   == pc = "forked" /\ depth = 0

(* Mutant: SIGCHLD is not blocked around fork. *)
eval_forkUnblocked(p, bg) ==
    /\ AtPrompt
    /\ proc[p] = "free"
    /\ nextjid <= JidBound
    /\ proc' = [proc EXCEPT ![p] = "new"]
    /\ deaf' = IF "INT" \in mask THEN deaf \cup {p} ELSE deaf
    /\ prev' = mask
    /\ cmd' = [pid |-> p, bg |-> bg]
    /\ pc' = "forked"
    /\ UNCHANGED <<jobs, nextjid, mask, fgchld_flag, chld, depth, frame, pending,
                   keys>>

(* eval of a command that is not built in: block SIGCHLD, then fork.  The  *)
(* child restores the mask the shell had.                                  *)
eval_fork(p, bg) ==
    /\ AtPrompt
    /\ proc[p] = "free"
    /\ nextjid <= JidBound
    /\ proc' = [proc EXCEPT ![p] = "new"]
    /\ deaf' = IF "INT" \in mask THEN deaf \cup {p} ELSE deaf
    /\ prev' = mask
    /\ mask' = mask \cup {"CHLD"}
    /\ cmd' = [pid |-> p, bg |-> bg]
    /\ pc' = "forked"
    /\ UNCHANGED <<jobs, nextjid, fgchld_flag, chld, depth, frame, pending, keys>>

(* Fork's unix_error.                                                      *)
eval_forkFails ==
    /\ AtPrompt
    /\ pc' = "exit1"
    /\ UNCHANGED <<jobs, nextjid, mask, prev, cmd, fgchld_flag,
                   chld, depth, frame, procVars, keys>>

(* eval or do_bgfg restores the mask it saved and returns; its locals,     *)
(* which nobody reads any more, are reset.                                 *)
ReturnToMain ==
    /\ mask' = prev
    /\ prev' = {}
    /\ cmd' = NoCommand
    /\ pc' = "prompt"

(* The parent blocks every signal, adds the job, and for a foreground job  *)
(* enters waitfg.  Whether addjob had room is not looked at.               *)
eval_addFg ==
    /\ Forked
    /\ ~cmd.bg
    /\ addjob(cmd.pid, "FG")
    /\ mask' = AllSignals
    /\ fgchld_flag' = 0
    /\ pc' = "waitfg"
    /\ UNCHANGED <<prev, cmd, chld, depth, frame, procVars, keys>>

eval_addBg ==
    /\ Forked
    /\ cmd.bg
    /\ addjob(cmd.pid, "BG")
    /\ ReturnToMain
    /\ UNCHANGED <<fgchld_flag, chld, depth, frame, procVars, keys>>

(* One turn of waitfg's loop; when it ends, its caller returns too.        *)
waitfg ==
    /\ pc = "waitfg"
    /\ depth = 0
    /\ \/ /\ fgchld_flag = 0
          /\ pc' = "suspended"
          /\ UNCHANGED <<mask, prev, cmd>>
       \/ /\ fgchld_flag = 1
          /\ ReturnToMain
    /\ UNCHANGED <<tableVars, fgchld_flag,
                   chld, depth, frame, procVars, keys>>

-----------------------------------------------------------------------------
(* do_bgfg: all of it runs with every signal blocked.                      *)

(* The early returns.  They leave every signal blocked.                    *)
do_bgfg_refuse(arg) ==
    /\ AtPrompt
    /\ Mistyped
    /\ NamedJob(arg) = NULL
    /\ mask' = AllSignals
    /\ UNCHANGED <<tableVars, pc, prev, cmd, fgchld_flag,
                   chld, depth, frame, procVars, keys>>

(* Kill(-pid, SIGCONT): a stopped child runs again, a stop not reported    *)
(* yet is forgotten, and the continued child raises SIGCHLD.               *)
Continue(p) ==
    LET stopped == proc[p] \in {"stopping", "stopped"} IN
    /\ proc' = IF stopped THEN [proc EXCEPT ![p] = "run"] ELSE proc
    /\ chld' = (chld \/ stopped)

do_bgfg_bg(arg) ==
    LET i == NamedJob(arg) IN
    /\ AtPrompt
    /\ i # NULL
    /\ GroupExists(jobs[i].pid)
    /\ Continue(jobs[i].pid)
    /\ SetState(i, "BG")
    /\ UNCHANGED <<nextjid, mainVars, depth, frame, deaf, pending, keys>>

(* Mutant: the flag left over from the last wait is not cleared. *)
do_bgfg_fgStaleFlag(arg) ==
    LET i == NamedJob(arg) IN
    /\ AtPrompt
    /\ i # NULL
    /\ GroupExists(jobs[i].pid)
    /\ Continue(jobs[i].pid)
    /\ SetState(i, "FG")
    /\ prev' = mask
    /\ mask' = AllSignals
    /\ pc' = "waitfg"
    /\ UNCHANGED <<nextjid, cmd, fgchld_flag, depth, frame, deaf, pending, keys>>

do_bgfg_fg(arg) ==
    LET i == NamedJob(arg) IN
    /\ AtPrompt
    /\ i # NULL
    /\ GroupExists(jobs[i].pid)
    /\ Continue(jobs[i].pid)
    /\ SetState(i, "FG")
    /\ fgchld_flag' = 0
    /\ prev' = mask
    /\ mask' = AllSignals
    /\ pc' = "waitfg"
    /\ UNCHANGED <<nextjid, cmd, depth, frame, deaf, pending, keys>>

(* Kill's unix_error: the job has not reached its setpgid yet.             *)
do_bgfg_killError(arg) ==
    LET i == NamedJob(arg) IN
    /\ AtPrompt
    /\ i # NULL
    /\ ~GroupExists(jobs[i].pid)
    /\ mask' = AllSignals
    /\ pc' = "killerr"
    /\ UNCHANGED <<tableVars, prev, cmd, fgchld_flag,
                   chld, depth, frame, procVars, keys>>

(* The built-in quit, and end of file on the input.                        *)
quit ==
    /\ AtPrompt
    /\ pc' = "exit0"
    /\ UNCHANGED <<tableVars, mask, prev, cmd, fgchld_flag,
                   chld, depth, frame, procVars, keys>>

-----------------------------------------------------------------------------
(* The handlers.                                                           *)

(* The kernel interrupts whatever runs and starts handler h on top of it.  *)
Enter(h, at, p) ==
    /\ depth' = depth + 1
    /\ frame' = [frame EXCEPT ![h] =
                    [at |-> at, pid |-> p, died |-> FALSE, depth |-> depth + 1]]

(* Handler h returns to what it interrupted.  If that was sigsuspend, it   *)
(* returns too, and main's own mask is back in force.                      *)
Return(h) ==
    /\ depth' = depth - 1
    /\ frame' = [frame EXCEPT ![h] = IdleFrame]
    /\ pc' = IF depth = 1 /\ pc = "suspended" THEN "waitfg" ELSE pc

deliverCHLD ==
    /\ Running
    /\ chld
    /\ "CHLD" \notin Blocked
    /\ chld' = FALSE
    /\ Enter("CHLD", "waitpid", NoPid)
    /\ UNCHANGED <<tableVars, mainVars, procVars, keys>>

(* waitpid returns a child: a zombie is gone from the process table, a     *)
(* stop has been reported.                                                 *)
sigchld_waitpid(p) ==
    /\ Runs("CHLD", "waitpid")
    /\ p \in Reportable
    /\ proc' = [proc EXCEPT ![p] = IF @ = "zombie" THEN "free" ELSE "stopped"]
    /\ deaf' = IF proc[p] = "zombie" THEN deaf \ {p} ELSE deaf
    /\ frame' = [frame EXCEPT !["CHLD"].at = "update", !["CHLD"].pid = p,
                              !["CHLD"].died = (proc[p] = "zombie")]
    /\ UNCHANGED <<tableVars, mainVars, chld, depth, pending, keys>>

(* Mutant: the flag is raised for any child that changes state. *)
sigchld_updateFlagAlways ==
    LET f == frame["CHLD"]
        i == getjobpid(f.pid)
    IN  /\ Runs("CHLD", "update")
        /\ i # NULL
        /\ fgchld_flag' = 1
        /\ \/ f.died /\ deletejob(f.pid)
           \/ ~f.died /\ SetState(i, "ST") /\ UNCHANGED nextjid
        /\ frame' = [frame EXCEPT !["CHLD"].at = "waitpid"]
        /\ UNCHANGED <<pc, mask, prev, cmd, chld, depth, procVars, keys>>

(* Mutant: "if" instead of "while": the handler reaps one child. *)
sigchld_updateOnce ==
    LET f == frame["CHLD"]
        i == getjobpid(f.pid)
    IN  /\ Runs("CHLD", "update")
        /\ i # NULL
        /\ fgchld_flag' = IF jobs[i].state = "FG" THEN 1 ELSE fgchld_flag
        /\ \/ f.died /\ deletejob(f.pid)
           \/ ~f.died /\ SetState(i, "ST") /\ UNCHANGED nextjid
        /\ Return("CHLD")
        /\ UNCHANGED <<mask, prev, cmd, chld, procVars, keys>>

(* Mutant: a stopped job is not recorded as stopped. *)
sigchld_updateNoST ==
    LET f == frame["CHLD"]
        i == getjobpid(f.pid)
    IN  /\ Runs("CHLD", "update")
        /\ i # NULL
        /\ fgchld_flag' = IF jobs[i].state = "FG" THEN 1 ELSE fgchld_flag
        /\ \/ f.died /\ deletejob(f.pid)
           \/ ~f.died /\ UNCHANGED tableVars
        /\ frame' = [frame EXCEPT !["CHLD"].at = "waitpid"]
        /\ UNCHANGED <<pc, mask, prev, cmd, chld, depth, procVars, keys>>

(* Mutant: only the death of the foreground child raises the flag. *)
sigchld_updateFlagOnDeath ==
    LET f == frame["CHLD"]
        i == getjobpid(f.pid)
    IN  /\ Runs("CHLD", "update")
        /\ i # NULL
        /\ fgchld_flag' = IF jobs[i].state = "FG" /\ f.died THEN 1 ELSE fgchld_flag
        /\ \/ f.died /\ deletejob(f.pid)
           \/ ~f.died /\ SetState(i, "ST") /\ UNCHANGED nextjid
        /\ frame' = [frame EXCEPT !["CHLD"].at = "waitpid"]
        /\ UNCHANGED <<pc, mask, prev, cmd, chld, depth, procVars, keys>>

(* Mutant: the handler clears the entry itself, without deletejob. *)
sigchld_updateClearJob ==
    LET f == frame["CHLD"]
        i == getjobpid(f.pid)
    IN  /\ Runs("CHLD", "update")
        /\ i # NULL
        /\ fgchld_flag' = IF jobs[i].state = "FG" THEN 1 ELSE fgchld_flag
        /\ \/ f.died /\ jobs' = [jobs EXCEPT ![i] = ClearedJob]
           \/ ~f.died /\ SetState(i, "ST")
        /\ frame' = [frame EXCEPT !["CHLD"].at = "waitpid"]
        /\ UNCHANGED <<nextjid, pc, mask, prev, cmd, chld, depth, procVars, keys>>

(* The masked body of sigchld_handler's loop.  It follows the pointer that *)
(* getjobpid returns without looking at it.                                *)
sigchld_update ==
    LET f == frame["CHLD"]
        i == getjobpid(f.pid)
    IN  /\ Runs("CHLD", "update")
        /\ i # NULL
        /\ fgchld_flag' = IF jobs[i].state = "FG" THEN 1 ELSE fgchld_flag
        /\ \/ f.died /\ deletejob(f.pid)
           \/ ~f.died /\ SetState(i, "ST") /\ UNCHANGED nextjid
        /\ frame' = [frame EXCEPT !["CHLD"].at = "waitpid"]
        /\ UNCHANGED <<pc, mask, prev, cmd, chld, depth, procVars, keys>>

sigchld_nullJob ==
    /\ Runs("CHLD", "update")
    /\ getjobpid(frame["CHLD"].pid) = NULL
    /\ pc' = "segv"
    /\ UNCHANGED <<tableVars, mask, prev, cmd, fgchld_flag,
                   chld, depth, frame, procVars, keys>>

sigchld_return ==
    /\ Runs("CHLD", "waitpid")
    /\ Reportable = {}
    /\ Return("CHLD")
    /\ UNCHANGED <<tableVars, mask, prev, cmd, fgchld_flag,
                   chld, procVars, keys>>

(* Mutant: the key goes to the last job started. *)
deliverKey_lastJob(h) ==
    /\ Running
    /\ keys < MaxKeys
    /\ h \notin Blocked
    /\ keys' = keys + 1
    /\ Enter(h, "kill", cmd.pid)
    /\ UNCHANGED <<tableVars, mainVars, chld, procVars>>

(* ctrl-c or ctrl-z: sigint_handler and sigtstp_handler read fgpid with    *)
(* every signal blocked, then unblock them again.                          *)
deliverKey(h) ==
    /\ Running
    /\ keys < MaxKeys
    /\ h \notin Blocked
    /\ keys' = keys + 1
    /\ Enter(h, "kill", fgpid)
    /\ UNCHANGED <<tableVars, mainVars, chld, procVars>>

(* The signal reaches the job's process, which takes the default action,   *)
(* or none: it has blocked or handles the signal.  For a process that is   *)
(* stopped a SIGINT stays pending, and takes effect when bg or fg          *)
(* continues it; a SIGTSTP is discarded then.                              *)
Hit(h, p) ==
    \/ /\ proc[p] = "run"
       /\ p \notin deaf \cup pending
       /\ proc' = [proc EXCEPT ![p] = IF h = "INT" THEN "zombie" ELSE "stopping"]
       /\ chld' = TRUE
       /\ UNCHANGED pending
    \/ /\ h = "INT"
       /\ proc[p] \in {"stopping", "stopped"}
       /\ p \notin deaf
       /\ pending' = pending \cup {p}
       /\ UNCHANGED <<proc, chld>>
    \/ UNCHANGED <<proc, chld, pending>>

keyHandler_kill(h) ==
    LET p == frame[h].pid IN
    /\ Runs(h, "kill")
    /\ \/ p = NoPid /\ UNCHANGED <<proc, chld, pending>>
       \/ GroupExists(p) /\ Hit(h, p)
    /\ Return(h)
    /\ UNCHANGED <<tableVars, mask, prev, cmd, fgchld_flag, deaf, keys>>

(* Kill's unix_error: by now process group p does not exist.               *)
keyHandler_killError(h) ==
    LET p == frame[h].pid IN
    /\ Runs(h, "kill")
    /\ p # NoPid
    /\ ~GroupExists(p)
    /\ pc' = "killerr"
    /\ UNCHANGED <<tableVars, mask, prev, cmd, fgchld_flag,
                   chld, depth, frame, procVars, keys>>

sigquit_handler ==
    /\ Running
    /\ "QUIT" \notin Blocked
    /\ pc' = "exit1"
    /\ UNCHANGED <<tableVars, mask, prev, cmd, fgchld_flag,
                   chld, depth, frame, procVars, keys>>

-----------------------------------------------------------------------------
(* The children: setpgid and execve, then anything a program may do.       *)

ChildExec(p) ==
    /\ Running
    /\ proc[p] = "new"
    /\ proc' = [proc EXCEPT ![p] = "run"]
    /\ UNCHANGED <<tableVars, mainVars, chld, depth, frame, deaf, pending, keys>>

(* It exits, execve fails, or a signal from elsewhere kills it; or it has  *)
(* been continued, and dies of the SIGINT that was pending for it.         *)
ChildDies(p) ==
    /\ Running
    /\ proc[p] \notin {"free", "zombie"}
    /\ proc' = [proc EXCEPT ![p] = "zombie"]
    /\ pending' = pending \ {p}
    /\ chld' = TRUE
    /\ UNCHANGED <<tableVars, mainVars, depth, frame, deaf, keys>>

(* It stops itself, as mystop does.  A process for which a SIGINT is       *)
(* pending dies of that before it runs a line.                             *)
ChildStops(p) ==
    /\ Running
    /\ proc[p] = "run"
    /\ p \notin pending
    /\ proc' = [proc EXCEPT ![p] = "stopping"]
    /\ chld' = TRUE
    /\ UNCHANGED <<tableVars, mainVars, depth, frame, deaf, pending, keys>>

Terminated == ~Running /\ UNCHANGED vars

-----------------------------------------------------------------------------
Init ==
    /\ InitTable
    /\ pc = "prompt"
    /\ mask = {}
    /\ prev = {}
    /\ cmd = NoCommand
    /\ fgchld_flag = 1
    /\ chld = FALSE
    /\ depth = 0
    /\ frame = [h \in Handlers |-> IdleFrame]
    /\ proc = [p \in Pids |-> "free"]
    /\ deaf = {}
    /\ pending = {}
    /\ keys = 0

Command ==
    \/ \E p \in Pids, bg \in BOOLEAN : eval_fork(p, bg)
    \/ eval_forkFails
    \/ \E arg \in Args : \/ do_bgfg_refuse(arg)
                         \/ do_bgfg_bg(arg)
                         \/ do_bgfg_fg(arg)
                         \/ do_bgfg_killError(arg)
    \/ quit

Main == eval_addFg \/ eval_addBg \/ waitfg

sigchld_handler ==
    \/ \E p \in Pids : sigchld_waitpid(p)
    \/ sigchld_update
    \/ sigchld_nullJob
    \/ sigchld_return

keyHandler(h) == keyHandler_kill(h) \/ keyHandler_killError(h)

Children == \E p \in Pids : ChildExec(p) \/ ChildDies(p) \/ ChildStops(p)

Next ==
    \/ Command
    \/ Main
    \/ deliverCHLD
    \/ sigchld_handler
    \/ \E h \in Keyboard : deliverKey(h) \/ keyHandler(h)
    \/ sigquit_handler
    \/ Children
    \/ Terminated

Spec == Init /\ [][Next]_vars

(* The shell's thread keeps running, and a pending signal that is not      *)
(* blocked is delivered before sigprocmask or sigsuspend returns: strong   *)
(* fairness, since main may block it again right afterwards.  The user and *)
(* the children owe nothing.                                               *)
Fairness ==
    /\ WF_vars(Main)
    /\ WF_vars(sigchld_handler)
    /\ \A h \in Keyboard : WF_vars(keyHandler(h))
    /\ SF_vars(deliverCHLD)

FairSpec == Spec /\ Fairness

-----------------------------------------------------------------------------
(* Safety.                                                                 *)

ShellTypeOK ==
    /\ TableTypeOK
    /\ pc \in MainPC
    /\ mask \in SUBSET AllSignals
    /\ prev \in SUBSET AllSignals
    /\ cmd \in [pid : Pids \cup {NoPid}, bg : BOOLEAN]
    /\ fgchld_flag \in {0, 1}
    /\ chld \in BOOLEAN
    /\ depth \in Nat
    /\ frame \in [Handlers -> Frame]
    /\ proc \in [Pids -> ProcState]
    /\ deaf \in SUBSET Pids
    /\ pending \in SUBSET Pids
    /\ keys \in 0 .. MaxKeys

(* The prompt is shown only when no job is in the foreground: waitfg never *)
(* returns on a stale flag, and no signal between two system calls loses   *)
(* the change that ended the foreground job (eval, do_bgfg, waitfg,        *)
(* sigchld_handler).                                                       *)
PromptMeansNoForeground == pc \in {"prompt", "forked"} => FGSlots = {}

(* "At most 1 job can be in the FG state" (tsh.c:36), on which fgpid, and  *)
(* so every ctrl-c, relies.                                                *)
AtMostOneFG == \A i, j \in FGSlots : i = j

(* The job list is the set of unreaped children, except for the child eval *)
(* has not added yet and the one the SIGCHLD handler is about to delete.   *)
ListedIffUnreaped ==
    Running => \A p \in Pids :
        IF pc = "forked" /\ cmd.pid = p THEN SlotsOf(p) = {}
        ELSE SlotsOf(p) # {} <=>
             \/ proc[p] # "free"
             \/ /\ frame["CHLD"].at = "update"
                /\ frame["CHLD"].pid = p

(* sigchld_handler never follows a null job_t pointer (tsh.c:501-502): no  *)
(* child dies before eval has listed it, and none is reaped twice.  True   *)
(* as long as there are never more than MAXJOBS children.                  *)
NoNullJob == pc # "segv"

(* SIGCHLDs merge while one is pending or handled, yet no report is lost:  *)
(* a child that waits to be reaped, or whose stop was not seen, implies    *)
(* that the handler is running or will run (sigchld_handler's loop).       *)
NoLostReport == ~chld /\ frame["CHLD"].at = "idle" => Reportable = {}

(* Outside the SIGCHLD handler, "jobs" tells the truth: a job is listed as *)
(* Stopped only if its process does not run, and a process whose stop was  *)
(* reported is listed as Stopped.                                          *)
JobStateAgrees ==
    frame["CHLD"].at = "idle" => \A i \in Slots : jobs[i].pid # NoPid =>
        /\ jobs[i].state = "ST" => proc[jobs[i].pid] \in {"stopped", "zombie"}
        /\ proc[jobs[i].pid] = "stopped" => jobs[i].state = "ST"

-----------------------------------------------------------------------------
(* What a step may not do.                                                 *)

(* The changes of a job's state that the header lists (tsh.c:29-36), and   *)
(* one it does not: a background job that stops, which sigchld_handler     *)
(* records like any other (BG to ST).                                      *)
Changes(before, after) ==
    \/ before \in {"FG", "BG"} /\ after = "ST"
    \/ before = "ST" /\ after \in {"FG", "BG"}
    \/ before = "BG" /\ after = "FG"

StateOf(p) == jobs[getjobpid(p)].state

(* A job goes from the foreground to the background only by way of a stop. *)
JobsChangeLegally ==
    [][\A p \in Pids : SlotsOf(p) # {} /\ SlotsOf(p)' # {}
        => StateOf(p)' = StateOf(p) \/ Changes(StateOf(p), StateOf(p)')]_vars

(* A ctrl-c or ctrl-z that the shell passes on takes effect at once only   *)
(* on a job that is in the foreground then, although the handler looked    *)
(* the job up earlier and signals were unblocked since (tsh.c:534-541).    *)
(* If that job has stopped in the meantime, a ctrl-c stays pending for it, *)
(* and kills it when bg or fg continues it, in the background too; no      *)
(* other job has a ctrl-c pending.                                         *)
KeysReachOnlyForeground ==
    [][\A h \in Keyboard, p \in Pids :
        Runs(h, "kill") /\ frame'[h].at = "idle" =>
          /\ proc'[p] # proc[p] => SlotsOf(p) # {} /\ StateOf(p) = "FG"
          /\ p \in pending' \ pending =>
                SlotsOf(p) # {} /\ StateOf(p) \in {"FG", "ST"}]_vars

-----------------------------------------------------------------------------
(* Liveness, under FairSpec.                                               *)

(* Once the foreground child has died or stopped, the shell stops waiting. *)
ForegroundWaitEnds ==
    \A p \in Pids :
        (pc \in {"waitfg", "suspended"} /\ p \in Reportable /\ fgpid = p)
        ~> pc \notin {"waitfg", "suspended"}

(* "The handler reaps all available zombie children" (tsh.c:484-486).      *)
(* True only as long as do_bgfg refuses no command.                        *)
ZombiesReaped ==
    \A p \in Pids : proc[p] = "zombie" ~> (proc[p] # "zombie" \/ ~Running)

-----------------------------------------------------------------------------
(* NOT true of the code.                                                   *)

(* "Catch it and send it along to the foreground job" (tsh.c:525-526): the *)
(* shell itself never dies of a ctrl-c it passes on.  It does when the job *)
(* has not reached its setpgid yet, and when the job is reaped between the *)
(* handler's lookup and its kill.                                          *)
KeysSpareTheShell ==
    [][pc' = "killerr" => pc = "killerr" \/ depth = 0]_vars
=============================================================================

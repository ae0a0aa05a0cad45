------------------------------- MODULE KshJobs -------------------------------
(***************************************************************************)
(* Job control of the Korn shell, Source/ksh/jobs.c: the job list, the     *)
(* SIGCHLD handler that reaps children and updates it, and the operations  *)
(* of the shell that start, wait for, resume, list and forget jobs.        *)
(*                                                                         *)
(* Two activities touch the same data: the shell, which runs commands, and *)
(* the SIGCHLD handler, which may run whenever the shell has the signal    *)
(* unblocked.  The kernel is the environment: children exit, are killed,   *)
(* stopped and continued, and signals arrive at any time.                  *)
(*                                                                         *)
(* A job is identified by its age (jobs.c: j->age = ++njobs) and a process *)
(* by the number of its fork; the structures' reuse through free_jobs and  *)
(* free_procs is therefore visible as a reference to a job that is not in  *)
(* job_list.  The process list of a job is the set of processes it owns,   *)
(* in fork order: its first process is the least and its last_proc the     *)
(* greatest.  The exit status of process p is p, and a process killed by a *)
(* signal reports 128 + p: distinct processes are told apart.  Tty modes,  *)
(* times, command text and printing are left out, and so is JF_CHANGED,    *)
(* which only selects what is printed.                                     *)
(***************************************************************************)
EXTENDS KshJobList, FiniteSets

CONSTANTS
    MaxJobs,    \* bound: jobs started in a behaviour
    MaxProcs,   \* bound: processes forked in a behaviour
    ChildMax,   \* child_max, the number of unwaited zombies kept
    Talking,    \* FTALKING: the shell is interactive
    Monitor,    \* FMONITOR as set when the shell starts
    Notify,     \* FNOTIFY
    Login,      \* FLOGIN /\ ~FNOHUP
    Env         \* which of Environment may happen

Environment == {"kill", "stop", "extcont", "signal", "forkfail", "pipefail",
                "reuse", "toggle", "subshell", "xxcom", "exit", "bg"}

ASSUME BoundsAssumption ==
    /\ MaxJobs \in Nat \ {0}
    /\ MaxProcs \in Nat \ {0}
    /\ ChildMax \in Nat

ASSUME FlagsAssumption ==
    /\ Talking \in BOOLEAN
    /\ Monitor \in BOOLEAN
    /\ Notify \in BOOLEAN
    /\ Login \in BOOLEAN
    /\ Env \subseteq Environment

None == 0
JobId == 1..MaxJobs
ProcId == 1..MaxProcs
Pid == 1..MaxProcs
ShellPgrp == MaxProcs + 1

State == {"running", "exited", "signalled", "stopped"}
JobFlag == {"STARTED", "WAITING", "W_ASYNC", "XXCOM", "FG", "KNOWN",
            "ZOMBIE", "REMOVE"}
KernState == {"none", "run", "stop", "exit", "kill"}

(* Where the shell is.  SIGCHLD is blocked inside every function of jobs.c,*)
(* so each is one step, or several when it loops; it is unblocked at the   *)
(* control points in Unblocked.                                            *)
Unblocked == {"ready",    \* between two commands
              "pipe",     \* execute(): a pipeline is partly started
              "comsub",   \* comsub(): forked, before startlast()
              "reading",  \* expand(): reading a $() job's output
              "more",     \* c_wait(): before the next operand
              "all",      \* c_wait(): head of the operandless loop
              "exiting",  \* j_exit(): sleep(1)
              "susp"}     \* j_waitj(): in sigsuspend()
Blocked == {"lastproc",   \* exchild(): last process forked
            "setasync",   \* on entry to j_set_async()
            "trim",       \* j_set_async(): zombie loop
            "wenter",     \* j_waitj(): loop test
            "woke",       \* j_waitj(): sigsuspend() returned
            "notify",     \* j_notify(), j_jobs(): removal loop
            "exit",       \* on entry to j_exit()
            "byebye"}     \* j_exit(): removal loop of j_notify()
Stopped == {"gone"}
ControlPoint == Unblocked \union Blocked \union Stopped

(* Who called j_waitj().                                                   *)
Caller == {"fg", "xxcom", "resume", "wait2", "wait1", "waitall"}

VARIABLES
    job_list,      \* sequence of jobs, the current job first
    job,           \* the job structures
    last_job,      \* job being started
    async_job,     \* last background job ($!)
    nzombie,       \* number of zombie jobs owned by this shell
    njobs,         \* number of jobs started
    held_sigchld,  \* SIGCHLD came before a job was completely started
    proc,          \* [state, status] of the proc structures
    owner,         \* job whose process list has the process
    pid,           \* process id of the process
    nprocs,        \* processes forked so far
    kern,          \* what the kernel knows of the process
    news,          \* processes with a change waitpid() has not reported
    sigchld,       \* SIGCHLD is pending for the shell
    hnd,           \* j_sigchld() is running
    pend,          \* trapped ("trap") or fatal signal flagged by trapsig()
    pc,            \* control point of the shell
    cont,          \* caller of j_waitj()
    wj,            \* job j of the current j_waitj() or j_set_async()
    ttypgrp,       \* the terminal's foreground process group
    monitor,       \* FMONITOR
    insub,         \* procpid # kshpid: this is a forked subshell
    really_exit,   \* the user was warned of stopped jobs
    ierr           \* an internal_errorf() of jobs.c was reached

listvars == <<job_list, last_job, async_job, nzombie>>
procvars == <<njobs, nprocs, owner, pid>>
kernvars == <<kern, news>>
modevars == <<monitor, insub, really_exit>>
waitvars == <<cont, wj>>
vars == <<job_list, job, last_job, async_job, nzombie, njobs, held_sigchld,
          proc, owner, pid, nprocs, kern, news, sigchld, hnd, pend, pc, cont,
          wj, ttypgrp, monitor, insub, really_exit, ierr>>

-----------------------------------------------------------------------------
(* The job list.                                                           *)

Listed == Jobs(job_list)
Procs(j) == {p \in ProcId : owner[p] = j}
Interactive == Talking /\ ~insub

(* Mutants of remove_job(): a zombie is not taken off the count; async_job *)
(* stays.                                                                  *)
RemoveJobUncounted(L, jb, j) ==
    /\ job_list' = Without(L, j)
    /\ last_job' = IF last_job = j THEN None ELSE last_job
    /\ async_job' = IF async_job = j THEN None ELSE async_job
    /\ UNCHANGED <<nzombie, ierr>>
RemoveJobKeepsAsync(L, jb, j) ==
    /\ job_list' = Without(L, j)
    /\ nzombie' = IF "ZOMBIE" \in jb[j].flags THEN nzombie - 1 ELSE nzombie
    /\ last_job' = IF last_job = j THEN None ELSE last_job
    /\ UNCHANGED <<async_job, ierr>>

(* remove_job() of job j from list L, with the job structures jb.          *)
RemoveJob(L, jb, j) ==
    IF j \in Jobs(L)
    THEN /\ job_list' = Without(L, j)
         /\ nzombie' = IF "ZOMBIE" \in jb[j].flags /\ jb[j].own
                       THEN nzombie - 1 ELSE nzombie
         /\ last_job' = IF last_job = j THEN None ELSE last_job
         /\ async_job' = IF async_job = j THEN None ELSE async_job
         /\ ierr' = ierr
    ELSE /\ job_list' = L
         /\ ierr' = TRUE
         /\ UNCHANGED <<nzombie, last_job, async_job>>

KeepList(L) == /\ job_list' = L
               /\ UNCHANGED <<nzombie, last_job, async_job, ierr>>

(* new_job(): the least number no listed job has.                          *)
NewNumber(n) ==
    /\ \A j \in Listed : job[j].num # n
    /\ \A m \in 1..(n - 1) : \E j \in Listed : job[j].num = m

(* remove_job() puts a job's structure on free_jobs.                       *)
NoJob == [num |-> 0, flags |-> {}, state |-> "running", status |-> 0,
          own |-> FALSE, pgrp |-> 0, last |-> None]
NoProc == [state |-> "running", status |-> 0]

Init ==
    /\ job_list = <<>>
    /\ job = [j \in JobId |-> NoJob]
    /\ last_job = None
    /\ async_job = None
    /\ nzombie = 0
    /\ njobs = 0
    /\ held_sigchld = FALSE
    /\ proc = [p \in ProcId |-> NoProc]
    /\ owner = [p \in ProcId |-> None]
    /\ pid = [p \in ProcId |-> 0]
    /\ nprocs = 0
    /\ kern = [p \in ProcId |-> "none"]
    /\ news = {}
    /\ sigchld = FALSE
    /\ hnd = FALSE
    /\ pend = "none"
    /\ pc = "ready"
    /\ cont = "fg"
    /\ wj = None
    /\ ttypgrp = ShellPgrp
    /\ monitor = Monitor
    /\ insub = FALSE
    /\ really_exit = FALSE
    /\ ierr = FALSE

-----------------------------------------------------------------------------
(* exchild(), execute() of a pipeline, and comsub().                       *)

(* A command starts when no trap is left to run; `exit' is forgotten when  *)
(* a command line that was not `exit' has been executed.                   *)
StartCommand ==
    /\ pc = "ready"
    /\ ~hnd
    /\ pend = "none"
    /\ really_exit' \in {FALSE, really_exit}
    /\ UNCHANGED <<monitor, insub>>

(* errorf() returns to the prompt of an interactive shell.  Any other      *)
(* shell exits, unless the error ends a file read by `.'.                  *)
AfterError == IF Interactive THEN {"ready"} ELSE {"ready", "exit"}

(* A process id is free when no process of this shell holds it and no      *)
(* process left is in the group it names.                                  *)
Unreaped(p) == kern[p] \in {"run", "stop"} \/ p \in news
FreePid ==
    IF "reuse" \in Env
    THEN {q \in Pid : \A p \in ProcId :
             Unreaped(p) => pid[p] # q /\ job[owner[p]].pgrp # q}
    ELSE {nprocs + 1}

(* The process is linked in as the job's last_proc.                        *)
Linked(j, jb, p) == [jb EXCEPT ![j].last = p]

(* The parent's side of fork() and of the job control set up: the first    *)
(* process leads the job's group, and a foreground job is given the tty.   *)
Fork(j, jb) ==
    LET p == nprocs + 1
        linked == Linked(j, jb, p)
        leader == monitor /\ "XXCOM" \notin jb[j].flags /\ jb[j].pgrp = 0
    IN  \E q \in FreePid :
            /\ nprocs' = p
            /\ owner' = [owner EXCEPT ![p] = j]
            /\ pid' = [pid EXCEPT ![p] = q]
            /\ proc' = [proc EXCEPT ![p] = NoProc]
            /\ kern' = [kern EXCEPT ![p] = "run"]
            /\ job' = IF leader THEN [linked EXCEPT ![j].pgrp = q] ELSE linked
            /\ ttypgrp' = IF leader /\ "FG" \in jb[j].flags
                          THEN q ELSE ttypgrp
            /\ UNCHANGED news

(* After a fork the shell starts the next process of the pipeline (if the  *)
(* bound leaves one), or has forked the last one.                          *)
More == {FALSE} \union {nprocs + 1 < MaxProcs}
NextPc(flags, more) == IF more THEN "pipe"
                       ELSE IF "XXCOM" \in flags THEN "comsub"
                       ELSE "lastproc"

KindFlags == {{"FG"}} \union (IF "bg" \in Env THEN {{}} ELSE {})
                      \union (IF "xxcom" \in Env THEN {{"XXCOM"}} ELSE {})

(* A new job with its first process.                                       *)
ExchildFirst ==
    /\ StartCommand
    /\ njobs < MaxJobs
    /\ nprocs < MaxProcs
    /\ \E flags \in KindFlags, more \in More, n \in JobId :
        LET j == njobs + 1
            new == [job EXCEPT ![j] =
                      [NoJob EXCEPT !.num = n, !.flags = flags, !.own = TRUE]]
        IN  /\ NewNumber(n)
            /\ njobs' = j
            /\ PastStopped(job_list, new, j, job_list')
            /\ last_job' = j
            /\ Fork(j, new)
            /\ pc' = NextPc(flags, more)
    /\ UNCHANGED <<async_job, nzombie, held_sigchld, sigchld, hnd, pend, cont,
                   wj, ierr>>

(* The next process of the pipeline (XPIPEI); the error exchild() reports  *)
(* when there is no last_job cannot occur (StartInv).                      *)
ExchildNext ==
    /\ pc = "pipe"
    /\ ~hnd
    /\ nprocs < MaxProcs
    /\ last_job # None
    /\ \E more \in More :
        /\ Fork(last_job, job)
        /\ pc' = NextPc(job[last_job].flags, more)
    /\ UNCHANGED <<listvars, modevars, waitvars, njobs, held_sigchld, sigchld,
                   hnd, pend, ierr>>

(* fork() fails: the processes already started are killed, the job is      *)
(* removed and errorf() unwinds.  For a first process only the job's       *)
(* number is used up.                                                      *)
ForkFailsFirst ==
    /\ StartCommand
    /\ "forkfail" \in Env
    /\ njobs < MaxJobs
    /\ njobs' = njobs + 1
    /\ last_job' = None
    /\ pc' \in AfterError
    /\ UNCHANGED <<job_list, job, async_job, nzombie, held_sigchld, proc, nprocs,
                   owner, pid, kernvars, sigchld, hnd, pend, waitvars, ttypgrp,
                   ierr>>

ForkFailsNext ==
    /\ pc = "pipe"
    /\ ~hnd
    /\ "forkfail" \in Env
    /\ last_job # None
    /\ LET killed == {p \in Procs(last_job) : kern[p] \in {"run", "stop"}}
       IN  /\ kern' = [p \in ProcId |-> IF p \in killed THEN "kill" ELSE kern[p]]
           /\ news' = news \union killed
           /\ sigchld' = (sigchld \/ killed # {})
    /\ RemoveJob(job_list, job, last_job)
    /\ pc' \in AfterError
    /\ UNCHANGED <<job, held_sigchld, proc, procvars, hnd, pend, waitvars,
                   ttypgrp, modevars>>

(* openpipe() fails between two processes: errorf() unwinds.               *)
OpenpipeFails ==
    /\ pc = "pipe"
    /\ ~hnd
    /\ "pipefail" \in Env
    /\ pc' \in AfterError
    /\ UNCHANGED <<listvars, job, held_sigchld, proc, procvars, kernvars,
                   sigchld, hnd, pend, waitvars, ttypgrp, modevars, ierr>>

(* Mutant: a held SIGCHLD is dropped.                                      *)
StartJobDropsSigchld(jb, j) ==
    /\ job' = [jb EXCEPT ![j].flags = @ \union {"STARTED"}]
    /\ held_sigchld' = FALSE
    /\ UNCHANGED sigchld

(* j_startjob(): a SIGCHLD held back is sent again.                        *)
StartJob(jb, j) ==
    /\ job' = [jb EXCEPT ![j].flags = @ \union {"STARTED"}]
    /\ held_sigchld' = FALSE
    /\ sigchld' = (sigchld \/ held_sigchld)

(* Mutant: startlast() does not mark the job as waited for.                *)
WaitFlagsNotXxcom(c) == IF c = "xxcom" THEN {} ELSE {"WAITING"}

(* Entering j_waitj() for job j of jb.                                     *)
WaitFlags(c) == IF c = "waitall" THEN {"WAITING", "W_ASYNC"} ELSE {"WAITING"}
Waiting(jb, j, c) == [jb EXCEPT ![j].flags = @ \union WaitFlags(c)]

(* exchild(), the last process of a job was forked.                        *)
LastProcess ==
    /\ pc = "lastproc"
    /\ wj' = last_job
    /\ IF "FG" \in job[last_job].flags
       THEN /\ StartJob(Waiting(job, last_job, "fg"), last_job)
            /\ pc' = "wenter"
            /\ cont' = "fg"
       ELSE /\ StartJob(job, last_job)
            /\ pc' = "setasync"
            /\ UNCHANGED cont
    /\ UNCHANGED <<listvars, proc, procvars, kernvars, hnd, pend, ttypgrp,
                   modevars, ierr>>

(* startlast(): marked as waited for so that check_job() keeps it.         *)
Startlast ==
    /\ pc = "comsub"
    /\ ~hnd
    /\ IF last_job = None
       THEN UNCHANGED <<job, held_sigchld, sigchld>>
       ELSE StartJob(Waiting(job, last_job, "xxcom"), last_job)
    /\ pc' = "reading"
    /\ UNCHANGED <<listvars, proc, procvars, kernvars, hnd, pend, waitvars,
                   ttypgrp, modevars, ierr>>

(* waitlast(), when the output of the $() job has been read.               *)
Waitlast ==
    /\ pc = "reading"
    /\ ~hnd
    /\ IF last_job = None \/ "STARTED" \notin job[last_job].flags
       THEN /\ ierr' = TRUE
            /\ pc' = "ready"
            /\ UNCHANGED <<job, waitvars>>
       ELSE /\ job' = Waiting(job, last_job, "xxcom")
            /\ wj' = last_job
            /\ cont' = "xxcom"
            /\ pc' = "wenter"
            /\ UNCHANGED ierr
    /\ UNCHANGED <<listvars, held_sigchld, proc, procvars, kernvars, sigchld,
                   hnd, pend, ttypgrp, modevars>>

(* j_set_async(): an old last job that nobody asked for is forgotten ...   *)
AsyncZombie == async_job # None /\ "ZOMBIE" \in job[async_job].flags
Unknown == AsyncZombie /\ "KNOWN" \notin job[async_job].flags
SetAsync ==
    /\ pc = "setasync"
    /\ LET removed == Unknown /\ async_job \in Listed
           started == "STARTED" \in job[wj].flags
       IN  /\ IF removed
              THEN /\ job_list' = Without(job_list, async_job)
                   /\ nzombie' = IF job[async_job].own
                                 THEN nzombie - 1 ELSE nzombie
                   /\ last_job' = IF last_job = async_job
                                  THEN None ELSE last_job
              ELSE UNCHANGED <<job_list, nzombie, last_job>>
           /\ async_job' = IF started THEN wj
                           ELSE IF removed THEN None ELSE async_job
           /\ pc' = IF started THEN "trim" ELSE "ready"
           /\ wj' = IF started THEN wj ELSE None
           /\ ierr' = (ierr \/ ~started \/ (Unknown /\ ~removed))
    /\ UNCHANGED <<job, held_sigchld, proc, procvars, kernvars, sigchld, hnd,
                   pend, cont, ttypgrp, modevars>>

(* ... and while more than child_max zombies are kept, the oldest one goes.*)
OldZombies == {j \in Listed : j # async_job /\ "ZOMBIE" \in job[j].flags}
TrimZombies ==
    /\ pc = "trim"
    /\ \/ /\ nzombie > ChildMax
          /\ \E j \in OldZombies :
                /\ \A k \in OldZombies : j <= k
                /\ RemoveJob(job_list, job, j)
          /\ UNCHANGED <<pc, wj>>
       \/ /\ nzombie > ChildMax
          /\ OldZombies = {}
          /\ LET bad == "ZOMBIE" \notin job[async_job].flags \/ nzombie # 1
             IN  /\ ierr' = (ierr \/ bad)
                 /\ nzombie' = IF bad THEN 0 ELSE nzombie
          /\ pc' = "ready"
          /\ wj' = None
          /\ UNCHANGED <<job_list, last_job, async_job>>
       \/ /\ nzombie <= ChildMax
          /\ pc' = "ready"
          /\ wj' = None
          /\ UNCHANGED <<listvars, ierr>>
    /\ UNCHANGED <<job, held_sigchld, proc, procvars, kernvars, sigchld, hnd,
                   pend, cont, ttypgrp, modevars>>

-----------------------------------------------------------------------------
(* c_wait(), waitfor() and j_waitj().                                      *)

(* `wait' with no operand, and with one or two.                            *)
WaitCommand ==
    /\ StartCommand
    /\ \/ pc' = "all" /\ cont' = "waitall"
       \/ pc' = "more" /\ cont' \in {"wait1", "wait2"}
    /\ UNCHANGED <<listvars, job, held_sigchld, proc, procvars, kernvars,
                   sigchld, hnd, pend, wj, ttypgrp, ierr>>

BeginWaitj(j, c) ==
    /\ job' = Waiting(job, j, c)
    /\ wj' = j
    /\ cont' = c
    /\ pc' = "wenter"

(* waitfor(0): the first job of ours, in list order, that is running.      *)
OwnRunning == {i \in DOMAIN job_list :
                  /\ job[job_list[i]].own
                  /\ job[job_list[i]].state = "running"}
WaitForAny ==
    /\ pc = "all"
    /\ ~hnd
    /\ \/ /\ OwnRunning = {}
          /\ pc' = "ready"
          /\ UNCHANGED <<job, waitvars>>
       \/ \E i \in OwnRunning :
            /\ \A k \in OwnRunning : i <= k
            /\ BeginWaitj(job_list[i], "waitall")
    /\ UNCHANGED <<listvars, held_sigchld, proc, procvars, kernvars, sigchld,
                   hnd, pend, ttypgrp, modevars, ierr>>

(* The operand that follows, or the end of the command.                    *)
AfterOperand(c) == IF c = "wait2" THEN "more" ELSE "ready"

Ours(j) == job[j].own

(* waitfor(operand): j_lookup() may find any job of the list, by its number*)
(* (even one left partly started) or, a zombie having none, by the pid of  *)
(* its last process; or nothing.  A job of the parent shell is not waited  *)
(* for.                                                                    *)
WaitForOperand ==
    /\ pc = "more"
    /\ ~hnd
    /\ \/ /\ pc' = AfterOperand(cont)
          /\ cont' = "wait1"
          /\ UNCHANGED <<job, wj>>
       \/ \E j \in Listed : Ours(j) /\ BeginWaitj(j, cont)
    /\ UNCHANGED <<listvars, held_sigchld, proc, procvars, kernvars, sigchld,
                   hnd, pend, ttypgrp, modevars, ierr>>

(* j_waitj(), the loop test: a shell without job control also waits for a  *)
(* stopped job (JW_STOPPEDWAIT).                                           *)
MustWait == \/ job[wj].state = "running"
            \/ ~monitor /\ job[wj].state = "stopped"
Sigsuspend ==
    /\ pc = "wenter"
    /\ MustWait
    /\ pc' = "susp"
    /\ UNCHANGED <<listvars, job, held_sigchld, proc, procvars, kernvars,
                   sigchld, hnd, pend, waitvars, ttypgrp, modevars, ierr>>

(* j_waitj() after sigsuspend(): a fatal signal unwinds to j_exit(); a     *)
(* trapped one ends the wait of `wait' (JW_INTERRUPT), whose loop goes on  *)
(* with the next operand.                                                  *)
(* Mutant: an interrupted wait leaves its marks on the job.                *)
StillWaiting(j) == job
NotWaiting(j) == [job EXCEPT ![j].flags = @ \ {"WAITING", "W_ASYNC"}]
Interruptible == cont \in {"wait1", "wait2", "waitall"}
Woken ==
    /\ pc = "woke"
    /\ \/ /\ pend = "fatal"
          /\ job' = NotWaiting(wj)
          /\ pc' = "exit"
          /\ wj' = None
          /\ UNCHANGED cont
       \/ /\ pend = "trap"
          /\ Interruptible
          /\ job' = NotWaiting(wj)
          /\ pc' = AfterOperand(cont)
          /\ wj' = None
          /\ cont' = IF cont = "wait2" THEN "wait1" ELSE cont
       \/ /\ pend # "fatal"
          /\ ~(pend = "trap" /\ Interruptible)
          /\ pc' = "wenter"
          /\ UNCHANGED <<job, waitvars>>
    /\ UNCHANGED <<listvars, held_sigchld, proc, procvars, kernvars, sigchld,
                   hnd, pend, ttypgrp, modevars, ierr>>

(* Mutant: the tty is not taken back from a stopped job.                   *)
ReclaimsIfDone(j) == /\ "FG" \in job[j].flags
                     /\ monitor
                     /\ job[j].pgrp # 0
                     /\ job[j].state # "stopped"
Reclaims(j) == "FG" \in job[j].flags /\ monitor /\ job[j].pgrp # 0

(* j_waitj(), the job is done (or stopped): take the tty back from a       *)
(* foreground job, act as if ^C had been typed at the shell when it was at *)
(* the job, and forget the job unless it is stopped or its end is still to *)
(* be reported.                                                            *)
WaitjReturns ==
    /\ pc = "wenter"
    /\ ~MustWait
    /\ LET fg == "FG" \in job[wj].flags
           done == [job EXCEPT ![wj].flags = @ \ {"WAITING", "W_ASYNC", "FG"}]
           forget == /\ job[wj].state # "stopped"
                     /\ ~monitor \/ cont # "waitall"
       IN  /\ job' = done
           /\ ttypgrp' = IF Reclaims(wj) THEN ShellPgrp ELSE ttypgrp
           /\ pend' \in IF /\ fg
                           /\ monitor
                           /\ job[wj].state = "signalled"
                           /\ proc[job[wj].last].state = "signalled"
                           /\ pend = "none"
                        THEN {"none", "trap"} ELSE {pend}
           /\ IF forget THEN RemoveJob(job_list, done, wj)
                        ELSE KeepList(job_list)
    /\ pc' = IF cont = "waitall" THEN "all" ELSE AfterOperand(cont)
    /\ cont' = IF cont = "wait2" THEN "wait1" ELSE cont
    /\ wj' = None
    /\ UNCHANGED <<held_sigchld, proc, procvars, kernvars, sigchld, hnd,
                   modevars>>

-----------------------------------------------------------------------------
(* The other built-ins: fg, bg, $!, jobs, set -m, exit, and the prompt.    *)

(* j_resume(): stopped processes are recorded as running, the job is moved *)
(* behind the stopped ones and, in the foreground, given the tty; then its *)
(* group is sent SIGCONT.  The kernel tells the parent that they continue. *)
J_resume ==
    /\ StartCommand
    /\ monitor
    /\ \E j \in Listed, bg \in BOOLEAN :
        LET stopped == {p \in Procs(j) : proc[p].state = "stopped"}
            state == IF stopped # {} THEN "running" ELSE job[j].state
            flags == IF bg THEN job[j].flags
                     ELSE (job[j].flags \ {"KNOWN"}) \union {"FG"}
            resumed == [job EXCEPT ![j].state = state, ![j].flags = flags]
            woken == {p \in Procs(j) : kern[p] = "stop" /\ state = "running"}
        IN  /\ job[j].pgrp # 0
            /\ proc' = [p \in ProcId |-> IF p \in stopped THEN NoProc
                                         ELSE proc[p]]
            /\ PastStopped(job_list, resumed, j, job_list')
            /\ kern' = [p \in ProcId |-> IF p \in woken THEN "run"
                                         ELSE kern[p]]
            /\ news' = news \ woken
            /\ sigchld' = (sigchld \/ woken # {})
            /\ IF bg
               THEN /\ job' = resumed
                    /\ wj' = j
                    /\ pc' = "setasync"
                    /\ UNCHANGED <<async_job, cont, ttypgrp>>
               ELSE /\ ttypgrp' = IF state = "running" THEN job[j].pgrp
                                  ELSE ttypgrp
                    /\ async_job' = IF async_job = j THEN None ELSE async_job
                    /\ job' = Waiting(resumed, j, "resume")
                    /\ wj' = j
                    /\ cont' = "resume"
                    /\ pc' = "wenter"
    /\ UNCHANGED <<last_job, nzombie, held_sigchld, procvars, hnd, pend, ierr>>

(* j_async(): $! was referenced.                                           *)
J_async ==
    /\ StartCommand
    /\ async_job # None
    /\ job' = [job EXCEPT ![async_job].flags = @ \union {"KNOWN"}]
    /\ UNCHANGED <<listvars, held_sigchld, proc, procvars, kernvars, sigchld,
                   hnd, pend, pc, waitvars, ttypgrp, ierr>>

Finished(j) == job[j].state \in {"exited", "signalled"}
MarkForRemoval(S) ==
    job' = [j \in JobId |->
               IF j \in S /\ Finished(j)
               THEN [job[j] EXCEPT !.flags = @ \union {"REMOVE"}]
               ELSE job[j]]

(* j_jobs(): the finished jobs among those listed, S, are listed for the   *)
(* last time.  S is one job (`jobs %n'), all but the zombies, all with     *)
(* them (-z), or those changed since they were last printed (-n).          *)
J_jobs ==
    /\ StartCommand
    /\ \E S \in SUBSET Listed : MarkForRemoval(S)
    /\ pc' = "notify"
    /\ UNCHANGED <<listvars, held_sigchld, proc, procvars, kernvars, sigchld,
                   hnd, pend, waitvars, ttypgrp, ierr>>

(* j_notify() at the prompt: every finished job, the zombies as well.      *)
J_notify ==
    /\ StartCommand
    /\ Interactive
    /\ MarkForRemoval(Listed)
    /\ pc' = "notify"
    /\ UNCHANGED <<listvars, held_sigchld, proc, procvars, kernvars, sigchld,
                   hnd, pend, waitvars, ttypgrp, ierr>>

(* The loop of both that removes the marked jobs, in list order.           *)
ToRemove == {i \in DOMAIN job_list : "REMOVE" \in job[job_list[i]].flags}
RemoveMarked ==
    /\ pc \in {"notify", "byebye"}
    /\ \E i \in ToRemove : /\ \A k \in ToRemove : i <= k
                           /\ RemoveJob(job_list, job, job_list[i])
    /\ UNCHANGED <<job, held_sigchld, proc, procvars, kernvars, sigchld, hnd,
                   pend, pc, waitvars, ttypgrp, modevars>>

(* When the loop is done j_exit() gives the tty back to the group that had *)
(* it when the shell took it over, if that was another than the shell's.   *)
MarkedRemoved ==
    /\ pc \in {"notify", "byebye"}
    /\ ToRemove = {}
    /\ IF pc = "notify"
       THEN pc' = "ready" /\ UNCHANGED <<ttypgrp, monitor>>
       ELSE /\ pc' = "gone"
            /\ ttypgrp' \in IF insub THEN {ttypgrp} ELSE {ttypgrp, ShellPgrp}
            /\ monitor' = FALSE
    /\ UNCHANGED <<listvars, job, held_sigchld, proc, procvars, kernvars,
                   sigchld, hnd, pend, waitvars, insub, really_exit, ierr>>

(* `set -m', `set +m'.                                                     *)
SetMonitor ==
    /\ pc = "ready"
    /\ ~hnd
    /\ pend = "none"
    /\ "toggle" \in Env
    /\ monitor' = ~monitor
    /\ UNCHANGED <<listvars, job, held_sigchld, proc, procvars, kernvars,
                   sigchld, hnd, pend, pc, waitvars, ttypgrp, insub,
                   really_exit, ierr>>

(* runtraps(0) before a command: a trap's command is run, an untrapped ^C  *)
(* unwinds to the prompt or out of the shell, a fatal signal exits.        *)
Runtraps ==
    /\ pc = "ready"
    /\ ~hnd
    /\ pend # "none"
    /\ pend' = "none"
    /\ pc' \in IF pend = "fatal" THEN {"exit"} ELSE AfterError
    /\ UNCHANGED <<listvars, job, held_sigchld, proc, procvars, kernvars,
                   sigchld, hnd, waitvars, ttypgrp, modevars, ierr>>

(* exchild() in the child, when the child goes on as a shell: every job    *)
(* left in its list belongs to the parent and nothing is its child.        *)
Subshell ==
    /\ pc = "ready"
    /\ ~hnd
    /\ pend = "none"
    /\ "subshell" \in Env
    /\ ~insub
    /\ njobs < MaxJobs
    /\ insub' = TRUE
    /\ monitor' = FALSE
    /\ njobs' = njobs + 1
    /\ job' = [j \in JobId |-> [job[j] EXCEPT !.own = FALSE]]
    /\ last_job' = None
    /\ nzombie' = 0
    /\ kern' = [p \in ProcId |-> "none"]
    /\ news' = {}
    /\ sigchld' = FALSE
    /\ UNCHANGED <<job_list, async_job, held_sigchld, proc, nprocs, owner, pid,
                   hnd, pend, pc, waitvars, ttypgrp, really_exit, ierr>>

(* The exit built-in: the first attempt with stopped (in a login shell,    *)
(* running) jobs only warns, and unwinds to the prompt if there is one.    *)
StoppedRunning == \E j \in Listed :
                     /\ job[j].own
                     /\ \/ job[j].state = "stopped"
                        \/ Login /\ ~insub /\ job[j].state = "running"
Exit ==
    /\ pc = "ready"
    /\ ~hnd
    /\ pend = "none"
    /\ "exit" \in Env
    /\ IF ~really_exit /\ StoppedRunning
       THEN /\ really_exit' = TRUE
            /\ pc' = IF Interactive THEN "ready" ELSE "exit"
       ELSE /\ pc' = "exit"
            /\ UNCHANGED really_exit
    /\ UNCHANGED <<listvars, job, held_sigchld, proc, procvars, kernvars,
                   sigchld, hnd, pend, waitvars, ttypgrp, monitor, insub,
                   ierr>>

(* j_exit(): stopped jobs, and running ones in the foreground or of a login*)
(* shell, are hung up; stopped ones are continued.  A process may survive  *)
(* SIGHUP.                                                                 *)
HungUp == {j \in Listed :
              /\ job[j].own
              /\ \/ job[j].state = "stopped"
                 \/ /\ job[j].state = "running"
                    /\ "FG" \in job[j].flags \/ (Login /\ ~insub)}
J_exit ==
    /\ pc = "exit"
    /\ LET continued == {p \in ProcId : /\ owner[p] \in HungUp
                                        /\ job[owner[p]].state = "stopped"
                                        /\ kern[p] = "stop"}
       IN  /\ kern' = [p \in ProcId |-> IF p \in continued THEN "run"
                                        ELSE kern[p]]
           /\ news' = news \ continued
           /\ sigchld' = (sigchld \/ continued # {})
    /\ pc' = "exiting"
    /\ UNCHANGED <<listvars, job, held_sigchld, proc, procvars, hnd, pend,
                   waitvars, ttypgrp, modevars, ierr>>

(* j_exit() ends with j_notify().                                          *)
J_exitNotify ==
    /\ pc = "exiting"
    /\ ~hnd
    /\ MarkForRemoval(Listed)
    /\ pc' = "byebye"
    /\ UNCHANGED <<listvars, held_sigchld, proc, procvars, kernvars, sigchld,
                   hnd, pend, waitvars, ttypgrp, modevars, ierr>>

-----------------------------------------------------------------------------
(* j_sigchld() and check_job(): the SIGCHLD handler.                       *)

(* sigsuspend() returns when the handler does.                             *)
AfterHandler == IF pc = "susp" THEN "woke" ELSE pc

(* While a job of ours is only partly started nothing is reaped, so that   *)
(* its process group leader stays; the signal is held back.                *)
PartlyStarted == \E j \in Listed : job[j].own /\ "STARTED" \notin job[j].flags

HandlerHolds ==
    /\ sigchld
    /\ ~hnd
    /\ pc \in Unblocked
    /\ PartlyStarted
    /\ sigchld' = FALSE
    /\ held_sigchld' = TRUE
    /\ pc' = AfterHandler
    /\ UNCHANGED <<listvars, job, proc, procvars, kernvars, hnd, pend,
                   waitvars, ttypgrp, modevars, ierr>>

HandlerStarts ==
    /\ sigchld
    /\ ~hnd
    /\ pc \in Unblocked
    /\ ~PartlyStarted
    /\ sigchld' = FALSE
    /\ hnd' = TRUE
    /\ UNCHANGED <<listvars, job, held_sigchld, proc, procvars, kernvars, pend,
                   pc, waitvars, ttypgrp, modevars, ierr>>

(* Mutant: one signal, one child.                                          *)
AlwaysReaped == TRUE
AllReaped == news = {}

HandlerReturns ==
    /\ hnd
    /\ AllReaped
    /\ hnd' = FALSE
    /\ pc' = AfterHandler
    /\ UNCHANGED <<listvars, job, held_sigchld, proc, procvars, kernvars,
                   sigchld, pend, waitvars, ttypgrp, modevars, ierr>>

(* What waitpid() reports of process p.                                    *)
Reported(p) == CASE kern[p] = "exit" -> [state |-> "exited", status |-> p]
                 [] kern[p] = "kill" -> [state |-> "signalled",
                                         status |-> 128 + p]
                 [] OTHER -> [state |-> "stopped", status |-> 0]

(* The state of a job none of whose processes runs is the worst of theirs. *)
JobState(j, pr) ==
    CASE \E p \in Procs(j) : pr[p].state = "stopped" -> "stopped"
      [] OTHER -> IF \E p \in Procs(j) : pr[p].state = "signalled"
                  THEN "signalled" ELSE "exited"

(* Mutants: the handler forgets about j_waitj() when it decides to remove  *)
(* the job it has just reported, or takes a job whose pid was asked for as *)
(* watched.                                                                *)
NotifiedAnyway(j, state) ==
    monitor /\ Notify /\ "XXCOM" \notin job[j].flags /\ state # "stopped"
WatchedKnown(j) == job[j].flags \intersect {"WAITING", "FG", "KNOWN"} # {}

Notified(j, state) == /\ monitor
                      /\ Notify
                      /\ job[j].flags \intersect {"XXCOM", "WAITING"} = {}
                      /\ state # "stopped"
Watched(j) == job[j].flags \intersect {"WAITING", "FG"} # {}

(* check_job(): when no process of j runs any more its state and status    *)
(* are set, and depending on who is interested the job is kept, kept as a  *)
(* zombie, or removed.                                                     *)
CheckJob(j, pr) ==
    LET state == JobState(j, pr)
        flags == job[j].flags
        front == IF monitor /\ "XXCOM" \notin flags /\ state = "stopped"
                 THEN OnFront(job_list, j) ELSE job_list
        unwatched == ~monitor /\ ~Watched(j) /\ state # "stopped"
        wanted == j = async_job \/ "KNOWN" \in flags
        done == [job EXCEPT ![j].state = state,
                            ![j].status = pr[job[j].last].status]
    IN  CASE "STARTED" \notin flags ->
               /\ UNCHANGED <<listvars, job>>
               /\ ierr' = TRUE
          [] /\ "STARTED" \in flags
             /\ \E p \in Procs(j) : pr[p].state = "running" ->
               KeepList(job_list) /\ UNCHANGED job
          [] OTHER ->
               IF Notified(j, state) \/ (unwatched /\ ~wanted)
               THEN RemoveJob(front, job, j) /\ job' = done
               ELSE IF unwatched
               THEN /\ job' = [done EXCEPT ![j].num = -1,
                                           ![j].flags = @ \union {"ZOMBIE"}]
                    /\ nzombie' = nzombie + 1
                    /\ UNCHANGED <<job_list, last_job, async_job, ierr>>
               ELSE KeepList(front) /\ job' = done

(* One turn of the waitpid() loop.  A process of no listed job (its job    *)
(* was removed) is passed over.                                            *)
Holders(q) == {i \in DOMAIN job_list :
                  \E p \in Procs(job_list[i]) : pid[p] = q}
Reap ==
    /\ hnd
    /\ \E c \in news :
        /\ news' = news \ {c}
        /\ \/ /\ Holders(pid[c]) = {}
              /\ KeepList(job_list)
              /\ UNCHANGED <<job, proc>>
           \/ \E i \in Holders(pid[c]) :
                /\ \A k \in Holders(pid[c]) : i <= k
                /\ \E p \in Procs(job_list[i]) :
                    /\ pid[p] = pid[c]
                    /\ \A r \in Procs(job_list[i]) :
                          pid[r] = pid[c] => p <= r
                    /\ proc' = [proc EXCEPT ![p] = Reported(c)]
                    /\ CheckJob(job_list[i], proc')
    /\ UNCHANGED <<held_sigchld, procvars, kern, sigchld, hnd, pend, pc,
                   waitvars, ttypgrp, modevars>>

-----------------------------------------------------------------------------
(* The kernel: what children do, and the signals the shell receives.       *)

Changed(p, k) ==
    /\ kern' = [kern EXCEPT ![p] = k]
    /\ sigchld' = TRUE

(* Process p exits, or dies of a signal (also SIGKILL while stopped).      *)
ChildDies(p) ==
    /\ pc # "gone"
    /\ \/ kern[p] = "run" /\ Changed(p, "exit")
       \/ kern[p] \in {"run", "stop"} /\ "kill" \in Env /\ Changed(p, "kill")
    /\ news' = news \union {p}

(* Process p is stopped, or is continued by someone other than the shell.  *)
ChildStops(p) ==
    /\ pc # "gone"
    /\ "stop" \in Env
    /\ kern[p] = "run"
    /\ Changed(p, "stop")
    /\ news' = news \union {p}

ChildContinues(p) ==
    /\ pc # "gone"
    /\ "extcont" \in Env
    /\ kern[p] = "stop"
    /\ Changed(p, "run")
    /\ news' = news \ {p}

Child ==
    /\ \E p \in ProcId : ChildDies(p) \/ ChildStops(p) \/ ChildContinues(p)
    /\ UNCHANGED <<listvars, job, held_sigchld, proc, procvars, hnd, pend, pc,
                   waitvars, ttypgrp, modevars, ierr>>

(* trapsig(): a signal with a trap, or a fatal one without, is flagged.    *)
Signal ==
    /\ "signal" \in Env
    /\ pc # "gone"
    /\ \/ pend = "none" /\ pend' = "trap"
       \/ pend # "fatal" /\ pend' = "fatal"
    /\ pc' = IF pc = "susp" /\ ~hnd THEN "woke" ELSE pc
    /\ UNCHANGED <<listvars, job, held_sigchld, proc, procvars, kernvars,
                   sigchld, hnd, waitvars, ttypgrp, modevars, ierr>>

(* The shell has exited.                                                   *)
Gone == pc = "gone" /\ UNCHANGED vars

Handler == HandlerHolds \/ HandlerStarts \/ Reap \/ HandlerReturns

(* What the shell does by itself once a command has begun.                 *)
Continue == \/ ExchildNext \/ LastProcess \/ Startlast \/ SetAsync
            \/ TrimZombies \/ WaitForAny \/ WaitForOperand \/ Sigsuspend
            \/ Woken \/ WaitjReturns \/ RemoveMarked \/ MarkedRemoved
            \/ Runtraps \/ J_exit \/ J_exitNotify

Command == \/ ExchildFirst \/ WaitCommand \/ J_resume \/ J_async \/ J_jobs
           \/ J_notify \/ SetMonitor \/ Subshell \/ Exit

Failure == ForkFailsFirst \/ ForkFailsNext \/ OpenpipeFails

Next == Handler \/ Continue \/ Waitlast \/ Command \/ Failure \/ Child \/ Signal
        \/ Gone

Spec == Init /\ [][Next]_vars

(* The kernel delivers a pending SIGCHLD before the sigprocmask() or       *)
(* sigsuspend() that unblocks it returns, so that being unblocked again and*)
(* again is enough; the shell goes on by itself; and the output of a $()   *)
(* job comes to its end when its processes have.                           *)
Eof == Waitlast /\ \A p \in ProcId :
                       owner[p] = last_job => kern[p] \in {"exit", "kill"}
FairSpec == /\ Spec
            /\ SF_vars(Handler)
            /\ WF_vars(Continue)
            /\ WF_vars(Eof)

-----------------------------------------------------------------------------
JobRecord == [num : Int, flags : SUBSET JobFlag, state : State, status : Nat,
              own : BOOLEAN, pgrp : Pid \union {0},
              last : ProcId \union {None}]
ProcRecord == [state : State, status : Nat]

(* Every variable has its type: job_list lists each job at most once, the  *)
(* job and process structures hold what exchild() and check_job() store.   *)
TypeOK ==
    /\ job_list \in Seq(JobId)
    /\ NoRepeats(job_list)
    /\ job \in [JobId -> JobRecord]
    /\ last_job \in JobId \union {None}
    /\ async_job \in JobId \union {None}
    /\ nzombie \in Int
    /\ njobs \in 0..MaxJobs
    /\ held_sigchld \in BOOLEAN
    /\ proc \in [ProcId -> ProcRecord]
    /\ owner \in [ProcId -> JobId \union {None}]
    /\ pid \in [ProcId -> Pid \union {0}]
    /\ nprocs \in 0..MaxProcs
    /\ kern \in [ProcId -> KernState]
    /\ news \subseteq ProcId
    /\ sigchld \in BOOLEAN
    /\ hnd \in BOOLEAN
    /\ pend \in {"none", "trap", "fatal"}
    /\ pc \in ControlPoint
    /\ cont \in Caller
    /\ wj \in JobId \union {None}
    /\ ttypgrp \in Pid \union {ShellPgrp}
    /\ monitor \in BOOLEAN
    /\ insub \in BOOLEAN
    /\ really_exit \in BOOLEAN
    /\ ierr \in BOOLEAN

(* remove_job() "keeps nzombies, last_job and async_job up to date": none  *)
(* of them points at a structure that is on the free list.                 *)
NoDangling == {last_job, async_job} \ {None} \subseteq Listed

(* check_job(): "the job must stay in the job list as j_waitj() may be     *)
(* running with this job" - the handler never frees the job waited for, nor*)
(* the one j_set_async() is working on.                                    *)
WaitedJobListed == wj # None => wj \in Listed

(* The inductive strengthening of TypeOK.  last_job is listed and a job    *)
(* under construction is last_job and not started, so that the handler     *)
(* holds back and cannot free it; a zombie is a started job; the j of      *)
(* j_set_async() and j_waitj() exists exactly while those run, and         *)
(* j_waitj()'s is listed and marked as waited for.                         *)
LastInv == last_job = None \/ last_job \in Listed
JobInv == \A j \in Listed : /\ j <= njobs
                            /\ job[j].last \in ProcId
                            /\ "ZOMBIE" \in job[j].flags =>
                                   "STARTED" \in job[j].flags
StartInv == pc \in {"pipe", "lastproc", "comsub"} =>
                /\ last_job # None
                /\ job[last_job].own
                /\ "STARTED" \notin job[last_job].flags
HandlerInv == hnd => pc \in {"ready", "reading", "more", "all", "exiting",
                             "susp"}
WaitInv ==
    /\ wj # None <=> pc \in {"setasync", "trim", "wenter", "susp", "woke"}
    /\ pc \in {"wenter", "susp", "woke"} =>
           /\ wj \in Listed
           /\ "WAITING" \in job[wj].flags
IInv == TypeOK /\ LastInv /\ JobInv /\ StartInv /\ HandlerInv /\ WaitInv

(* What NoDangling and WaitedJobListed need besides: j_set_async() is never*)
(* called for a zombie, as a job can be resumed only under job control, and*)
(* there are no zombies then.                                              *)
AsyncInv == /\ NoDangling
            /\ WaitedJobListed
            /\ \A j \in Listed : "ZOMBIE" \in job[j].flags => ~monitor
            /\ pc = "setasync" => "ZOMBIE" \notin job[wj].flags
            /\ pc = "trim" => async_job = wj

(* None of the internal errors of jobs.c (remove_job, check_job, waitlast, *)
(* j_async: bad nzombie) is ever reported.                                 *)
NoInternalError == ~ierr

(* nzombie is the number of zombies owned by this process.                 *)
ZombiesCounted ==
    nzombie = Cardinality({j \in Listed : /\ job[j].own
                                          /\ "ZOMBIE" \in job[j].flags})

(* What ZombiesCounted needs when no process id is used twice: pids and    *)
(* processes correspond; what waitpid() can report has happened and is not *)
(* recorded yet; children are children of jobs of ours; and no process of a*)
(* zombie is left to be reaped.                                            *)
Over(p) == proc[p].state \in {"exited", "signalled"}
PidsInv ==
    \A p \in ProcId :
        /\ IF p <= nprocs THEN pid[p] = p
                          ELSE owner[p] = None /\ kern[p] = "none"
        /\ p \in news => kern[p] \in {"stop", "exit", "kill"}
        /\ Over(p) => p \notin news /\ kern[p] \notin {"run", "stop"}
        /\ kern[p] # "none" /\ owner[p] \in Listed => job[owner[p]].own
ZombiesOver ==
    \A j \in Listed : "ZOMBIE" \in job[j].flags => \A p \in Procs(j) : Over(p)

(* A started job of ours counts as running exactly while one of its        *)
(* processes does; otherwise it has the state and the exit status that the *)
(* kernel reported, the status that of the last process of the pipeline.   *)
JobStateAgrees ==
    \A j \in Listed :
        job[j].own /\ "STARTED" \in job[j].flags =>
            IF job[j].state = "running"
            THEN \E p \in Procs(j) : proc[p].state = "running"
            ELSE LET states == {proc[p].state : p \in Procs(j)}
                 IN  /\ "running" \notin states
                     /\ job[j].state = IF "stopped" \in states THEN "stopped"
                                       ELSE IF "signalled" \in states
                                       THEN "signalled" ELSE "exited"
                     /\ Finished(j) =>
                          \E p \in Procs(j) :
                              /\ \A q \in Procs(j) : q <= p
                              /\ job[j].status = Reported(p).status

(* No wake-up is lost: while a child has a change to report, SIGCHLD is    *)
(* pending, or being handled, or held back for j_startjob() to send again. *)
NoLostSigchld == news # {} => sigchld \/ hnd \/ held_sigchld

(* JF_FG: "running in foreground (also has tty pgrp)" - when the terminal  *)
(* is not the shell's it is a foreground job's, and never while the shell  *)
(* is between two commands or about to read one.                           *)
TtyOwner ==
    ttypgrp # ShellPgrp =>
        /\ pc \notin {"ready", "notify", "more", "all"}
        /\ \E j \in Listed : "FG" \in job[j].flags /\ job[j].pgrp = ttypgrp

(* What TtyOwner needs: only the pipeline being started and the job that is*)
(* waited for after that, or after `fg', are in the foreground, the        *)
(* terminal belongs to one of them, and j_waitj() is not left by a fatal   *)
(* signal.                                                                 *)
Foreground(j) == \/ pc \in {"pipe", "lastproc"} /\ j = last_job
                 \/ /\ pc \in {"wenter", "susp", "woke"} /\ j = wj
                    /\ cont \in {"fg", "resume"}
TtyInv ==
    /\ \A j \in Listed : "FG" \in job[j].flags => Foreground(j)
    /\ pc = "pipe" => ~({"FG", "XXCOM"} \subseteq job[last_job].flags)
    /\ ttypgrp # ShellPgrp =>
           /\ monitor
           /\ \E j \in Listed : "FG" \in job[j].flags /\ job[j].pgrp = ttypgrp
    /\ pend # "fatal"

(* job numbers name jobs: no two listed jobs share a %n.                   *)
JobNumbersUnique ==
    \A i, k \in Listed : job[i].num = job[k].num /\ job[i].num # -1 => i = k

(* put_job(), remove_job() and check_job(): no internal error is reached,  *)
(* a job is stopped, running or over as its processes are, and jobs that   *)
(* can be named have different numbers.                                    *)
JobsSound == NoInternalError /\ JobStateAgrees /\ JobNumbersUnique

(* What JobStateAgrees needs: what is recorded of a child that is over is  *)
(* what the kernel reports; last_proc is the newest process of its job; a  *)
(* job that is not started is not reaped; and a job has the state its      *)
(* processes are recorded to be in, and the recorded status of the last.   *)
JobOk(j) ==
    /\ owner[job[j].last] = j
    /\ \A p \in Procs(j) : p <= job[j].last /\ kern[p] # "none"
    /\ "STARTED" \notin job[j].flags =>
           /\ job[j].state = "running"
           /\ \A p \in Procs(j) : proc[p].state = "running"
    /\ IF job[j].state = "running"
       THEN \E p \in Procs(j) : proc[p].state = "running"
       ELSE /\ \A p \in Procs(j) : proc[p].state # "running"
            /\ job[j].state = JobState(j, proc)
            /\ Finished(j) => job[j].status = proc[job[j].last].status
StatesInv ==
    /\ \A p \in ProcId : /\ owner[p] <= njobs
                         /\ Over(p) /\ kern[p] # "none" => proc[p] = Reported(p)
    /\ \A j \in Listed : job[j].own => JobOk(j)
    /\ hnd => ~PartlyStarted

(* What NoInternalError needs besides: only the job being started is not   *)
(* started, and the $() job being read cannot be removed.                  *)
StartedInv ==
    /\ \A j \in Listed :
           \/ "STARTED" \in job[j].flags
           \/ pc \in {"pipe", "lastproc", "comsub"} /\ j = last_job
    /\ pc = "reading" => last_job # None /\ "WAITING" \in job[last_job].flags

(* In a shell without job control a finished job nobody waits for is       *)
(* either gone or kept as a zombie, so that it is counted.                 *)
FinishedAccounted ==
    ~monitor => \A j \in Listed :
        job[j].own /\ Finished(j) =>
            "ZOMBIE" \in job[j].flags \/ "WAITING" \in job[j].flags

(* The exit status of a job whose pid was asked for ($!) stays available:  *)
(* a shell forgets the job only when it has been waited for, when it has   *)
(* been listed as finished, or when more than child_max zombies are kept.  *)
KeepsKnown == \A j \in Listed : /\ job[j].own
                                /\ "KNOWN" \in job[j].flags
                                /\ j \notin Jobs(job_list')
    => wj = j \/ "REMOVE" \in job[j].flags \/ pc = "trim"

(* A job is marked as waited for only while the shell waits for it, or     *)
(* reads the output of the $() job it is: a wait that was interrupted      *)
(* leaves a job the handler disposes of like any other.                    *)
WaitingMeansWaited ==
    \A j \in Listed :
        "WAITING" \in job[j].flags =>
            j = wj \/ (pc = "reading" /\ j = last_job)

(* The shell waits for its own children only; waiting for a job that its   *)
(* parent shell started would never end.                                   *)
OwnJobWaited == pc \in {"wenter", "susp"} => job[wj].own

(* j_waitj() and waitfor(): a job is marked as waited for only as long as  *)
(* the shell waits for it, and the shell waits for its own children only.  *)
WaitsSound == WaitingMeansWaited /\ OwnJobWaited

(* What WaitsSound needs: who waits, and where; the $() job being read is  *)
(* ours and started; and the only jobs not ours are those a forked subshell*)
(* finds, in which job control is off.                                     *)
WaitsInv ==
    /\ \A j \in Listed : "WAITING" \in job[j].flags =>
           \/ j = wj /\ pc \in {"wenter", "susp", "woke"}
           \/ j = last_job /\ pc = "reading"
    /\ pc \in {"wenter", "susp", "woke"} => job[wj].own
    /\ pc = "reading" /\ last_job # None =>
           job[last_job].own /\ "STARTED" \in job[last_job].flags
    /\ insub => ~monitor /\ "subshell" \in Env
    /\ ~insub => \A j \in Listed : job[j].own

(* `wait' with no operand that was not interrupted ends only when no       *)
(* process of a job of ours is left running.                               *)
EndsWaitAll ==
    pc = "all" /\ pc' = "ready" =>
        \A j \in Listed : job[j].own =>
            \A p \in Procs(j) : kern[p] # "run"

(* j_set_async(), check_job() and c_wait(): the status of a job whose $!   *)
(* was asked for is forgotten only after a wait, a listing or beyond       *)
(* child_max, and `wait' without operands ends when all jobs have.         *)
PromisesKept == [][KeepsKnown /\ EndsWaitAll]_vars

(* What FinishedAccounted needs: with neither job control nor signals a job*)
(* that is started in the foreground is marked as waited for until its wait*)
(* returns.                                                                *)
AccountInv ==
    /\ FinishedAccounted
    /\ ~monitor
    /\ pend = "none"
    /\ \A j \in Listed : {"FG", "STARTED"} \subseteq job[j].flags
                              => "WAITING" \in job[j].flags

(* What KeepsKnown needs: only a job that is started is ever $!, or known. *)
KnownInv ==
    /\ async_job <= njobs /\ wj <= njobs
    /\ async_job # None => "STARTED" \in job[async_job].flags
    /\ \A j \in JobId : "KNOWN" \in job[j].flags => "STARTED" \in job[j].flags

(* What EndsWaitAll needs: a process recorded as stopped runs again only   *)
(* when the shell continues it, and records that, or hangs it up to exit.  *)
StopInv == \A p \in ProcId :
    proc[p].state = "stopped" /\ kern[p] = "run" =>
        pc \in {"exiting", "byebye", "gone"}

(* A wait for a job whose processes have all ended comes to its end.       *)
WaitReturns ==
    (pc = "susp" /\ \A p \in Procs(wj) : kern[p] \in {"exit", "kill"})
        ~> pc # "susp"

(* Every child that changes state is waited for, unless the shell exits.   *)
ChildrenReaped ==
    \A p \in ProcId : p \in news ~> (p \notin news \/ pc = "gone")

(* "Wait will return if a signal for which a trap has been set is          *)
(* received" (ksh.1).                                                      *)
WaitInterrupted ==
    (pc = "susp" /\ pend = "trap" /\ Interruptible) ~> pc # "susp"

(* %+ is "the most recently stopped job, or, if there are no stopped jobs, *)
(* the oldest running job" (ksh.1).                                        *)
CurrentJob ==
    monitor /\ job_list # <<>> =>
        \/ job[job_list[1]].state = "stopped"
        \/ \A j \in Listed : /\ job[j].state # "stopped"
                             /\ job[j].state = "running" => job_list[1] <= j
=============================================================================

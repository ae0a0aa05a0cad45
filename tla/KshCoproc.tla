------------------------------ MODULE KshCoproc ------------------------------
(***************************************************************************)
(* Co-processes of the Korn shell, `command |&': the shell's descriptors   *)
(* of the two pipes (coproc_*() in Source/ksh/io.c), their use by TCOPROC  *)
(* in execute(), by iosetup() and read, and check_job(), which closes them *)
(* from within the SIGCHLD handler.                                        *)
(*                                                                         *)
(* Every step blocks SIGCHLD or makes one system call, so the handler runs *)
(* between steps.  Children keep all the descriptors they are forked with, *)
(* as a subshell does.  Left out: what is read and written, print -p (see  *)
(* KshTrap) and jobs that are stopped.                                     *)
(***************************************************************************)
EXTENDS Integers, Sequences, FiniteSets

CONSTANTS
    MaxJobs,     \* bound: forks
    ForkFails    \* whether fork() and pipe() may fail

ASSUME CoprocAssumption == MaxJobs \in Nat /\ ForkFails \in BOOLEAN

VARIABLES
    fds,       \* the shell's descriptors: what each is open on
    coproc,    \* struct coproc
    jobs,      \* background jobs by number; "reaped" after check_job()
    copc,      \* "shell", "fork" (|& before exchild()), "dup" (in
               \* iosetup()), "read"
    use,       \* the descriptor that coproc_getfd() or check_fd() returned
    pipes,     \* the number of input pipes prepared so far
    unborn     \* no co-process was forked since |& prepared the pipes

coprocvars == <<fds, coproc, jobs, copc, use, pipes, unborn>>

(* Descriptor 4 is the one scripts redirect; the shell's begin at FDBASE.  *)
FDBASE == 10
Shell == FDBASE..FDBASE + 4
Fd == {0, 1, 4} \union Shell
Closed == <<"closed", "none", 0>>
File(fd) == <<"file", "none", fd>>

NoFd == -1
NoJob == 0

CoprocInit ==
    /\ fds = [fd \in Fd |-> IF fd \in Shell THEN Closed ELSE File(fd)]
    /\ coproc = [read |-> NoFd, readw |-> NoFd, write |-> NoFd,
                 njobs |-> 0, id |-> 0, job |-> NoJob]
    /\ jobs = <<>>
    /\ copc = "shell"
    /\ use = NoFd
    /\ pipes = 0
    /\ unborn = FALSE

-----------------------------------------------------------------------------
(* Both parts of the state are changed together: s = [fds, coproc].        *)
State == [fds |-> fds, coproc |-> coproc]
Become(s) == fds' = s.fds /\ coproc' = s.coproc

CloseField(s, f) ==
    IF s.coproc[f] = NoFd THEN s
    ELSE [s EXCEPT !.fds[s.coproc[f]] = Closed, !.coproc[f] = NoFd]

Coproc_readw_close(s, fd) ==
    IF s.coproc.read >= 0 /\ fd = s.coproc.read THEN CloseField(s, "readw") ELSE s
Coproc_read_close(s, fd) ==
    IF s.coproc.read >= 0 /\ fd = s.coproc.read
    THEN CloseField(Coproc_readw_close(s, fd), "read") ELSE s
Coproc_write_close(s, fd) ==
    IF s.coproc.write >= 0 /\ fd = s.coproc.write THEN CloseField(s, "write") ELSE s

(* Mutant: the read end is kept alone.                                     *)
CleanupKeepsRead(s, reuse) ==
    CloseField(IF reuse THEN s ELSE CloseField(CloseField(s, "read"), "readw"), "write")
Coproc_cleanup(s, reuse) ==
    CloseField(IF reuse /\ s.coproc.readw >= 0 /\ s.coproc.read >= 0 THEN s
               ELSE CloseField(CloseField(s, "read"), "readw"), "write")

(* savefd() and openpipe() take the lowest descriptors from FDBASE (the    *)
(* copies of 0 and 1 that |& saves are left out).                          *)
Lowest(s) ==
    CHOOSE fd \in Shell : /\ s.fds[fd] = Closed
                          /\ \A f \in FDBASE..fd - 1 : s.fds[f] # Closed
Place(s, what) == [s EXCEPT !.fds[Lowest(s)] = what]

(* The pipes are numbered by |& and by coproc.id.                          *)
Input(n, end) == <<"in", end, n>>
Output(id, end) == <<"out", end, id>>

-----------------------------------------------------------------------------
(* TCOPROC, with SIGCHLD blocked; |& fails as long as there is a co-process*)
(* with an input.  A pipe that cannot be opened leaves what was done.      *)
WithInput(s, n) ==
    LET fd == Lowest(s)
    IN  [s EXCEPT !.fds = [@ EXCEPT ![0] = Input(n, "r"), ![fd] = Input(n, "w")],
                  !.coproc = [@ EXCEPT !.write = fd, !.job = NoJob]]

WithOutput(s) ==
    IF s.coproc.readw >= 0 THEN s
    ELSE LET id == s.coproc.id + 1
             r == Lowest(s)
             w == Lowest(Place(s, Output(id, "r")))
         IN  [s EXCEPT
                !.fds = [@ EXCEPT ![r] = Output(id, "r"), ![w] = Output(id, "w")],
                !.coproc = [@ EXCEPT !.read = r, !.readw = w, !.njobs = 0, !.id = id]]

Tcoproc ==
    LET clean == Coproc_cleanup(State, TRUE)
        input == WithInput(clean, pipes + 1)
    IN  /\ copc = "shell"
        /\ Len(jobs) < MaxJobs
        /\ pipes < MaxJobs
        /\ ~(coproc.job # NoJob /\ coproc.write >= 0)
        /\ pipes' = pipes + 1
        /\ \/ /\ LET s == WithOutput(input)
                 IN  Become([s EXCEPT !.fds[1] = s.fds[s.coproc.readw]])
              /\ copc' = "fork"
              /\ unborn' = TRUE
           \/ /\ ForkFails
              /\ Become(clean)
              /\ UNCHANGED <<copc, unborn>>
           \/ /\ ForkFails
              /\ clean.coproc.readw = NoFd
              /\ Become([input EXCEPT !.fds[0] = File(0)])
              /\ UNCHANGED <<copc, unborn>>
        /\ UNCHANGED <<jobs, use>>

(* exchild(): what a child holds; one that is a co-process closes what the *)
(* shell has of it.                                                        *)
Holds(s) == {s.fds[fd] : fd \in Fd} \ {Closed}
PutBack(s) == [s EXCEPT !.fds[0] = File(0), !.fds[1] = File(1)]

CoprocHolds(s) == Holds(Coproc_cleanup(s, FALSE))

Fork ==
    LET j == Len(jobs) + 1
    IN  /\ copc = "fork"
        /\ \/ /\ jobs' = Append(jobs,
                    [coproc_id |-> coproc.id, input |-> pipes, state |-> "running",
                     holds |-> CoprocHolds(State)])
              /\ Become([PutBack(State) EXCEPT
                            !.coproc = [@ EXCEPT !.njobs = coproc.njobs + 1, !.job = j]])
              /\ unborn' = FALSE
           \/ /\ ForkFails
              /\ Become(PutBack(State))
              /\ UNCHANGED <<jobs, unborn>>
        /\ copc' = "shell"
        /\ UNCHANGED <<use, pipes>>

(* A subshell in the background.                                           *)
Subshell ==
    /\ copc = "shell"
    /\ Len(jobs) < MaxJobs
    /\ jobs' = Append(jobs, [coproc_id |-> 0, input |-> 0, state |-> "running",
                             holds |-> Holds(State)])
    /\ UNCHANGED <<fds, coproc, copc, use, pipes, unborn>>

(* exec 4>&p and exec 4<&p: iosetup() asks for the descriptor,             *)
Redirect ==
    /\ copc = "shell"
    /\ \E f \in {"read", "write"} :
           /\ coproc[f] >= 0
           /\ use' = coproc[f]
    /\ copc' = "dup"
    /\ UNCHANGED <<fds, coproc, jobs, pipes, unborn>>

(* and, the handler having run perhaps, saves 4 and duplicates it; exec    *)
(* closes what was saved.                                                  *)
Dup ==
    LET s == IF fds[4] = Closed THEN State ELSE Place(State, fds[4])
        t == [State EXCEPT !.fds[4] = s.fds[use]]
    IN  /\ copc = "dup"
        /\ Become(IF s.fds[use] = Closed THEN State
                  ELSE Coproc_write_close(Coproc_read_close(t, use), use))
        /\ copc' = "shell" /\ use' = NoFd
        /\ UNCHANGED <<jobs, pipes, unborn>>

(* exec 4>&- *)
CloseUnit ==
    /\ copc = "shell"
    /\ fds' = [fds EXCEPT ![4] = Closed]
    /\ UNCHANGED <<coproc, jobs, copc, use, pipes, unborn>>

(* read -p, or read -u4 from what was a co-process's output.               *)
Read ==
    /\ copc = "shell"
    /\ \/ coproc.read >= 0 /\ use' = coproc.read
       \/ fds[4] \in {Output(id, "r") : id \in 1..coproc.id} /\ use' = 4
    /\ copc' = "read"
    /\ UNCHANGED <<fds, coproc, jobs, pipes, unborn>>

Running == {j \in DOMAIN jobs : jobs[j].state = "running"}
Written == CHOOSE what \in {Output(id, "w") : id \in 1..coproc.id} :
               fds[use] = Output(what[3], "r")

ReadLine ==
    /\ copc = "read"
    /\ \E j \in Running : Written \in jobs[j].holds
    /\ copc' = "shell" /\ use' = NoFd
    /\ UNCHANGED <<fds, coproc, jobs, pipes, unborn>>

ReadEof ==
    /\ copc = "read"
    /\ \A j \in Running : Written \notin jobs[j].holds
    /\ Written \notin Holds(State)
    /\ Become(Coproc_read_close(State, use))
    /\ copc' = "shell" /\ use' = NoFd
    /\ UNCHANGED <<jobs, pipes, unborn>>

(* A job ends, and the handler is told by waitpid(): check_job().          *)
Ends(j) ==
    /\ jobs[j].state = "running"
    /\ jobs' = [jobs EXCEPT ![j].state = "zombie", ![j].holds = {}]
    /\ UNCHANGED <<fds, coproc, copc, use, pipes, unborn>>

InputDone(s, j) ==
    IF s.coproc.job = j
    THEN Coproc_write_close([s EXCEPT !.coproc.job = NoJob], s.coproc.write) ELSE s

(* Mutant: jobs of an older pipe count, too.                               *)
AnyCounts(s, j) == jobs[j].coproc_id # 0
Counts(s, j) == jobs[j].coproc_id # 0 /\ jobs[j].coproc_id = s.coproc.id
OutputDone(s, j) ==
    LET t == [s EXCEPT !.coproc.njobs = @ - 1]
    IN  IF ~Counts(s, j) THEN s
        ELSE IF t.coproc.njobs = 0 THEN Coproc_readw_close(t, t.coproc.read) ELSE t

Reap(j) ==
    /\ jobs[j].state = "zombie"
    /\ jobs' = [jobs EXCEPT ![j].state = "reaped"]
    /\ Become(OutputDone(InputDone(State, j), j))
    /\ UNCHANGED <<copc, use, pipes, unborn>>

CoprocNext ==
    \/ Tcoproc \/ Fork \/ Subshell \/ Redirect \/ Dup \/ CloseUnit
    \/ Read \/ ReadLine \/ ReadEof
    \/ \E j \in DOMAIN jobs : Ends(j) \/ Reap(j)

(* Jobs end some day, and the shell, when it can go on, does.              *)
JobsGo == \E j \in DOMAIN jobs : Ends(j) \/ Reap(j)
ReadGoes == ReadLine \/ ReadEof
CoprocSpec == /\ CoprocInit /\ [][CoprocNext]_coprocvars
              /\ WF_coprocvars(JobsGo) /\ WF_coprocvars(ReadGoes)

-----------------------------------------------------------------------------
(* The fields of coproc name the ends of the pipes they are for, and the   *)
(* shell has nothing else open, whatever failed, was redirected or ended:  *)
(* a handler that closes a field closes nothing of anyone else's.          *)
DescriptorsSound ==
    LET fields == {coproc.read, coproc.readw, coproc.write} \ {NoFd}
    IN  /\ coproc.read >= 0 => fds[coproc.read] = Output(coproc.id, "r")
        /\ coproc.readw >= 0 => coproc.read >= 0 /\ fds[coproc.readw] = Output(coproc.id, "w")
        /\ coproc.write >= 0 /\ coproc.job # NoJob =>
               fds[coproc.write] = Input(jobs[coproc.job].input, "w")
        /\ \A fd \in Shell : fds[fd] # Closed <=> fd \in fields

(* check_job() finds the job of the input, and knows when it was the last  *)
(* that writes to the output.                                              *)
NjobsCounts ==
    /\ coproc.njobs = Cardinality({j \in DOMAIN jobs :
           /\ jobs[j].state # "reaped"
           /\ jobs[j].coproc_id = coproc.id /\ coproc.id # 0})
    /\ coproc.job # NoJob => jobs[coproc.job].state # "reaped"

(* A co-process does not hold the other ends of its own pipes: it sees the *)
(* end of its input and that nobody reads its output.                      *)
CoprocIsolated ==
    \A j \in Running : jobs[j].coproc_id # 0 =>
        /\ Input(jobs[j].input, "w") \notin jobs[j].holds
        /\ Output(jobs[j].coproc_id, "r") \notin jobs[j].holds

(* check_job() in the handler, iosetup() and |& in the shell: the fields of*)
(* coproc name what they are open on, nothing else is left open, njobs and *)
(* job agree with the jobs that are left, and exchild() leaves a co-process*)
(* no other end of its own pipes.                                          *)
CoprocSound == DescriptorsSound /\ NjobsCounts /\ CoprocIsolated

(* What CoprocSound needs.  The types,                                     *)
What == {"closed", "file", "in", "out"} \X {"none", "r", "w"} \X Int
CoprocRecord == [read : Shell \union {NoFd}, readw : Shell \union {NoFd},
                 write : Shell \union {NoFd}, njobs : Int, id : Nat, job : Nat]
CoprocTypeOK ==
    /\ fds \in [Fd -> What]
    /\ coproc \in CoprocRecord
    /\ jobs \in Seq([coproc_id : Nat, input : Nat, holds : SUBSET What,
                      state : {"running", "zombie", "reaped"}])
    /\ copc \in {"shell", "fork", "dup", "read"}
    /\ use \in Fd \union {NoFd}
    /\ pipes \in Nat

(* that jobs and descriptor 4 are of pipes that were made, of which 4 does *)
(* not share an end with a field (what it gets, the field loses),          *)
PipesMade ==
    /\ \A j \in DOMAIN jobs : jobs[j].coproc_id <= coproc.id
    /\ coproc.job \in {NoJob} \union DOMAIN jobs
    /\ coproc.read >= 0 => coproc.id > 0
    /\ coproc.write >= 0 => \E n \in 0..pipes : fds[coproc.write] = Input(n, "w")
    /\ \A n \in Int : /\ fds[4] = Input(n, "w") => n <= pipes
                      /\ fds[4] = Output(n, "r") => n <= coproc.id
NotShared ==
    /\ coproc.read >= 0 => fds[4] # fds[coproc.read]
    /\ coproc.write >= 0 => fds[4] # fds[coproc.write]

(* and what |& has prepared for exchild(), or iosetup() asked for.         *)
Prepared ==
    IF copc = "fork"
    THEN /\ coproc.read >= 0 /\ coproc.write >= 0
         /\ coproc.job = NoJob
         /\ fds[0] = Input(pipes, "r") /\ fds[1] = Output(coproc.id, "w")
         /\ fds[coproc.write] = Input(pipes, "w")
    ELSE fds[0] = File(0) /\ fds[1] = File(1)
Asked ==
    copc = "dup" => /\ use \in Shell
                    /\ fds[use] = Closed \/ use \in {coproc.read, coproc.write}
CoprocInv == /\ CoprocTypeOK /\ CoprocSound
             /\ PipesMade /\ NotShared /\ Prepared /\ Asked

(* A read of the output ends when the jobs that write to it have, unless   *)
(* |& prepared the pipe and failed to fork.                                *)
ReadEnds == copc = "read" /\ ~unborn ~> copc # "read"
=============================================================================

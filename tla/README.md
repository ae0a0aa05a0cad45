# A TLA+ model of BSD-Tools

BSD-Tools is NetBSD's userland ported to Linux: a Korn shell (`Source/ksh`),
the core, find, diff, archive, bsd and misc utilities, and a small library
(`Library`). Most of the tree is sequential text processing. What is
concurrent, or must survive failures, or keeps state over long sequences of
calls, is concentrated in a few places, and those are modelled here: the
shell's job control, traps, co-processes, functions and environments; the
utilities that supervise children (`timeout`, `xargs`, `flock`); and the
utilities that replace files or transform a stream with state (`sed -i`, `mv`,
`compress`, `find`, the message of `wall`).

The modules are translated from the source, checked with TLC on small instances
and, for eleven of them, proved about with TLAPS for all sizes. All paths below
are relative to the repository's `Source` unless they begin with `Library`.

## 1. Inventory

| Part | State | Operations | Interacts through | Hard about it | What makes it correct | Module |
|---|---|---|---|---|---|---|
| ksh job control, `ksh/jobs.c` | `job_list`, `last_job`, `async_job`, `nzombie`, `held_sigchld`, tty process group | `exchild`, `startlast`, `waitlast`, `waitfor`, `j_resume`, `j_jobs`, `j_notify`, `j_async`, `j_exit`, handler `j_sigchld` | called by `exec.c`, `eval.c`, built-ins, the prompt; SIGCHLD | a handler that frees structures the shell uses; a signal that is held back; waits that sleep on a signal; failing `fork`; inherited lists | no dangling pointer, states agree with the kernel, zombies counted, no lost wake-up, the terminal comes back, waits return | `KshJobs`, `KshJobList` |
| ksh traps, `ksh/trap.c` | `sigtraps[]`, `trap`, `intrsig` | `settrap`, `setsig`, `trapsig`, `runtraps`, `cleartraps`, `block_pipe` | handlers set flags, the main loop runs traps | searches within searches, unwinding, ignored and inherited dispositions, fork and exec | a flagged trap runs; the kernel does what `trap` lists | `KshTrap` |
| ksh environments, `ksh/main.c`, `exec.c`, `io.c`, `c_sh.c` | the stack `e`, saved descriptors, the arguments of `longjmp` | `execute`, `comexec`, `shell`, `include`, `unwind`, `quitenv`, `iosetup`, `break`, `return`, `exit`, `exec`, `eval`, `.` | everything else in the shell runs within it | unwinding from any depth, through functions, traps and subshells, with a table of descriptors that becomes full | descriptors restored on every path, no leak, a break reaches its loop, `-e` only where it should | `KshEnv` |
| ksh functions, `ksh/table.c`, `exec.c` | the hash table, `FINUSE`, `FDELETE`, the trees | `mytsearch`, `tenter`, `texpand`, `define`, a call | every name is looked up | a function that redefines itself, a table that grows meanwhile | calls keep their body, bodies are freed once, a search ends | `KshFuncs`, `FunctionMap` |
| ksh co-processes, `ksh/io.c`, `jobs.c`, `exec.c` | `coproc` | `\|&`, `>&p`, `<&p`, `read -p`, `check_job` | descriptors closed by the handler | the handler races the shell; several writers; who holds which end | the fields name what they are open on; a read ends | `KshCoproc` |
| ksh parser, expansion, variables | token buffers, arenas | `lex`, `syn`, `var`, `eval` | the interpreter | recursion, aliasing | - | - |
| ksh editing, history, tty, mail | edit buffers | `emacs`, `vi`, `history` | the terminal | - (the shared history file is compiled out: `config.h:95` has no `COMPLEX_HISTORY`) | - | - |
| `timeout` | `sig_chld`, `sig_alrm`, `sig_term`, `sig_ign` | handler, `sigsuspend` loop, two kills | signals, its process group | signals before they are blocked; flags never cleared | killed in time, the end noticed, status | `Timeout` |
| `xargs` | argument buffer, `curprocs`, `childerr`, `rval` | parser, `run`, `waitchildren` | `vfork`, `wait` | buffer limits inside an argument; `-P` children in any order | every argument once; a bounded pool that reports truly | `Xargs`, `CommandPool` |
| `flock` | `timeout_expired`, the lock | `flock` loop, handler | kernel lock, timer, other scripts | the timer before the call; who holds the open file | mutual exclusion; the limit holds | `Flock` |
| `find` | the plan, `-exec` sets | `find_formplan` and three squishes, `find_execute`, `f_exec` | file system, children | precedence by list passes; batches | the plan means the expression, each file once | `FindPlan` |
| `sed` | pattern and hold space, ranges, the files at work | `process`, `mf_fgets`, `applies` | file system | look-ahead to later files; replacing a file | edits as documented, nothing lost | `SedInPlace` |
| `mv` | - | `do_move`, `fastcopy`, `copy` | file system, `cp`, `rm` | one step of several failing | no file lost, a true status | `Mv` |
| `compress` | code tables, bit buffers | `zwrite`, `zread`, `output`, `getcode` | files | widths, resets, the last bits | round trip | `Compress` |
| `Library/ttymsg.c` | the parts that are left | `ttymsg` | terminals | partial writes | in order, once | `Ttymsg` |
| `tail`, `tee`, `dd`, `split`, `cat`, `cp`, `rm`, ... | buffers, offsets | copy loops | files, pipes | short reads | - | - |
| `sort`, `tsort`, `join`, `comm`, `diff`, ... | lines, graphs | pure algorithms | - | boundaries | - | - |
| `pax`, `gzip`, `awk`, `bc`, `m4`, `grep`, `patch`, bsdutils, miscutils | - | - | - | large data | - | - |

`PROJECT.json` lists the parts with their files and status, and the 40 places
(`hazards`) where the code is hardest to test.

## 2. Modules

| Module | Contents |
|---|---|
| `KshJobList`, `KshJobs` | list operations of `jobs.c`; job control |
| `KshTrap`, `KshEnv`, `KshCoproc`, `KshFuncs` | the other parts of the shell |
| `FunctionMap` | what functions promise; `KshFuncs` implements it |
| `Timeout`, `Xargs`, `Flock` | utilities that supervise commands |
| `CommandPool` | what a bounded pool of commands promises; `Xargs` implements it |
| `FindPlan`, `SedInPlace`, `SedEdit` (what an edit is), `Mv`, `Compress`, `Ttymsg` | utilities with files and streams |
| `MCKshJobs`, `MCKshScenarios`, `MCKshEnv`, `MCShell`, `MCChildren`, `MCUtilities` | instances for TLC |
| `KshJobsProofs`, `KshJobsSafety`, `KshEnvProofs`, `KshAsyncProofs` (traps and co-processes), `KshFuncsProofs`, `XargsProofs`, `UtilityProofs` | theorems |
| `RecursionLemmas` | induction, for the proofs about recursive functions |

An MC module that holds several instances has a variable (`scenario`, `part`,
`utility`) that the initial state chooses and no step changes: the instances
share one run but no state. Every module opens with a comment that says what of
the code it has, what its variables are and what is left out; the comment
before an action names its function. Operators called "Mutant" are forms a
plausible mistake would give the definition that follows them; nothing but the
list of mutants in `PROJECT.json` refers to them.

### 2.1 Job control: `KshJobs`

*The shell* runs commands; `pc` is its control point. *The SIGCHLD handler*
(`hnd`) may run whenever the shell has the signal unblocked. *The kernel* ends,
kills, stops and continues children and sends signals at any time. Every
function of `jobs.c` blocks SIGCHLD while it runs, so each is one step, or
several where it loops or sleeps; `Unblocked` and `Blocked` say at which control
points the handler may run.

| Variable | Code |
|---|---|
| `job_list`, `last_job`, `async_job`, `nzombie`, `njobs`, `held_sigchld` | the statics of those names |
| `job` | the `Job` structures: `num` is `j->job`, `own` is `j->ppid == procpid`, `last` is `j->last_proc` |
| `proc`, `owner`, `pid` | the `Proc` structures, the list each is in, `p->pid` |
| `kern`, `news`, `sigchld` | kernel: the state of each child, which changes `waitpid()` has not reported, SIGCHLD pending |
| `pend` | what `trapsig()` flagged: nothing, a trapped signal, a fatal one |
| `pc`, `cont`, `wj` | where the shell is, who called `j_waitj()`, its argument |
| `ttypgrp`, `monitor`, `insub`, `really_exit` | the terminal's process group, FMONITOR, `procpid != kshpid`, the flag of that name |
| `ierr` | an `internal_errorf()` of `jobs.c` was reached |

A job is identified by its age and a process by the number of its fork, so that
the reuse of structures through `free_jobs` shows as a reference to a job that
is not in `job_list`. The exit status of process `p` is `p`, and `128 + p` when
it is killed, which tells the processes of a pipeline apart.

| Action | Code |
|---|---|
| `ExchildFirst`, `ExchildNext`, `LastProcess` | `exchild()`, called by `execute()` for each part of a pipeline |
| `ForkFailsFirst`, `ForkFailsNext`, `OpenpipeFails` | the error paths of `exchild()` and of `execute()`'s pipe loop, with the unwinding |
| `Startlast`, `Waitlast` | `$()` in `eval.c` |
| `SetAsync`, `TrimZombies` | `j_set_async()`, its two halves |
| `WaitCommand`, `WaitForAny`, `WaitForOperand` | `c_wait()` and `waitfor()` |
| `Sigsuspend`, `Woken`, `WaitjReturns` | `j_waitj()` |
| `J_resume`, `J_async`, `J_jobs`, `J_notify`, `RemoveMarked`, `MarkedRemoved` | the functions of those names and their removal loops |
| `SetMonitor`, `Subshell`, `Exit`, `J_exit`, `J_exitNotify` | `set -m`; the child's side of `exchild()`; `exit`; `j_exit()` |
| `Runtraps`, `Signal` | `runtraps(0)` in the main loop, `trapsig()` |
| `HandlerHolds`, `HandlerStarts`, `Reap`, `HandlerReturns` | `j_sigchld()`; `Reap` is one turn of its loop with `check_job()` |
| `Child` | external: the kernel |

Abstracted: command text, printing, times, tty modes, `saved_ttypgrp`,
`JF_CHANGED` (it selects what is printed; `jobs -n` may mark any of the finished
jobs). `j_lookup()` is "some listed job, or none". In a child the set-up of job
control is merged into the fork. SIGKILL to the processes of a pipeline whose
`fork()` failed takes effect at once. `killpg()`, `tcsetpgrp()` and `kill()` do
not fail; the `kill` built-in is the environment's: children are killed and
stopped at any time. `pend` remembers one flagged signal. After `j_exit()` the
model stops (`Gone`).

### 2.2 Environments and unwinding: `KshEnv`

Every call of `execute()` pushes an environment, so `e` is also the stack of C
calls: a record of `e` is a `struct env` together with what its call is doing
(`kind`, `stage`, the flags XERROK and XEXEC it was given). `pc` is one of
`prompt` (in the loop of `shell()`), `redirect` (before and during the
redirections of a command), `back` (a command within has ended), `break` (at the
label of that name), `raise` (at the head of `unwind()`), `unwind` (in its loop)
and `exited`. What a script says next is chosen when the shell gets there, so
all scripts over the given kinds of commands run. `fd` is the descriptor table;
`savefd` of a record is `e->savefd`.

| Action | Code |
|---|---|
| `Command`, `EndOfScript`, `EndOfText`, `BackToPrompt`, `UnwindParse` | `shell()` and its handler |
| `Execute`, `Break`, `Comexec` | `execute()`: entry, the label `Break`, `Leave` of `comexec()` |
| `Iosetup`, `IosetupFails`, `ComsubFails` | the loop over `t->ioact`, `iosetup()`, a failing `fork()` in `comsub()` |
| `Begin`, `List`, `If`, `And`, `Bang`, `BeginLoop`, `Loop`, `Pipe`, `LastOfPipe`, `Paren`, `Exchild` | the cases of `execute()` and the child of `exchild()` |
| `Call`, `Function`, `EndCall`, `UnwindFunc` | CFUNC in `comexec()` with its handler |
| `C_exec`, `C_brkcont`, `C_exitreturn`, `C_eval`, `C_dot` | the built-ins; `include()` |
| `RunExitTrap`, `BeginUnwind`, `UnwindExec`, `UnwindLoop`, `EndLoop`, `Continue`, `UnwindIncl`, `EndDot` | `unwind()` and the handlers it reaches |
| `Runtraps` | `runtraps(0)` at the head of `execute()` |

`was` of a record is history: what the descriptors were when the environment was
pushed, and what an `exec` without a command made of them for good. Left out: the environment a here-document pushes,
the descriptor of a dot file, the closing of co-process descriptors in
`iosetup()`, the LLEAVE of a child that consists of assignments only, and what a
child of a pipeline or of `&` goes on to do.

### 2.3 The other parts of the shell

`KshTrap` has one record per signal for `struct trap` (`sigtraps`) and for the
kernel's disposition; five signals stand for their kinds. `Trapsig` is the
handler, `RuntrapsStarts`, `RuntrapsNext`, `RuntrapsReturns` the loop of
`runtraps()`, with `stack` for searches within a trap's command; `Setsig` and
`Settrap` are pure functions on a record that keep all refusals of `setsig()`;
`ForkShell`, `ForkCommand`, `ExecLast` are the child's `cleartraps()` and
`restoresigs()`; `PrintStarts` to `PrintReturns` are `block_pipe()` and
`restore_pipe()` around a write that may be interrupted.

`KshFuncs` keeps the slots of `struct table`, deleted entries included, and all
entries and trees ever allocated by number, so that a freed one that is used
shows. Trees are numbers. `FunctionMap` is the abstract specification: a map
from names to bodies and a stack of calls.

`KshCoproc` has the shell's descriptors, `struct coproc`, and per job the pipe
ends it holds. `check_job()`'s part runs between any two steps of the shell
(`Reap`); `iosetup()` of `p` is split between `coproc_getfd()` and the
duplication, as the handler may come between.

### 2.4 Utilities

`Timeout`: a sleep of `sigsuspend()` ends with exactly one of the pending
signals handled (every handler masks all); `Loop` is the order in which the
flags are examined; `Handle` is `sig_handler()`. Time is the set of intervals
that are over.

`Xargs`: input comes one character at a time over small alphabets that contain
every character the parser distinguishes; the buffer is counted in bytes;
`Run` and `Waitchildren` are one step each and sleep where `waitpid()` does.
`CommandPool` has the commands that run, the failures collected and the outcome.

`Flock`: any number of scripts share one file; a lock belongs to an open file
description; `Flock`, `Granted`, `Wakes` and the timer interleave.

`FindPlan`: the three squishes are recursive functions on lists of nodes, the
evaluation follows `find_execute()`; the reference is a parser of the
expression written from its grammar.

`SedInPlace`: each system call of the replacement is a step and may fail or be
the last; the reference (`SedEdit`) is an edit of one file (`-i`) or of the
concatenation (`-I`). `Mv`: likewise, each system call is a step.

`Compress`: characters, bits and codes at reduced sizes (`CLEAR`, `BYTE`,
`INIT_BITS`); everything that depends on a code's width, on a full table and on
the compression ratio happens within 13 characters.

`Ttymsg`: the vector of parts, `writev()` returning any number up to what is
left, or an error. The copy of the vector overlaps itself when a second
`writev()` is partial (`ttymsg.c:123`); it is modelled as one that allows for it.

## 3. Runs

Seven runs pass; between them they take every action of every module. Five runs
(`v_*`) show a disagreement each, section 5.

| Run | Instance | Shows | States |
|---|---|---|---|
| `scenarios` | six shells: a script (3 jobs, 3 processes), an interactive one with `set -o notify`, an interactive login shell, a script that is signalled, one whose children others stop and continue, a forked subshell with its parent's list | the handler frees no job in use (`NoDangling`, `WaitedJobListed`); waits leave no marks and are for own children (`WaitsSound`); states, numbers and errors (`JobsSound`); the terminal comes back (`TtyOwner`) | 5.4 M |
| `failures` | everything at once: `fork()` and `openpipe()` fail, `set -m` and `set +m`, traps, subshells, hang-up | types, the zombie count, SIGCHLD accounted for | 5.4 M |
| `liveness` | a script under `FairSpec` | waits return, children are reaped; finished jobs are accounted for (`FinishedAccounted`); `$!` and `wait` keep what they promise (`PromisesKept`) | 0.2 M |
| `unwind` | control: every kind of command without redirections, four deep below the script's own two environments, with an EXIT trap, `-e` or a prompt; calls: two redirections in functions and subshells with `exec`; pipes: two redirections around and in pipelines whose `fork()` fails, and a table that becomes full; substitutions: `$()` in calls, whose `fork()` fails | `DescriptorsRestored`, `NoneLeaked`, `UnwindsRight` | 3.9 M |
| `shell` | traps, functions, co-processes | no trap forgotten, dispositions, `FunctionMap` implemented, the table searchable, `coproc` sound, reads end | 1.6 M |
| `children` | `xargs`, `timeout` | arguments kept, commands filled, `CommandPool` implemented; own signal ignored, status, deadline, end noticed | 1.8 M |
| `utilities` | `flock`, `ttymsg`, `compress`, `find`, `sed`, `mv` | one or two properties each | 1.6 M |

Every property of a passing run has a mutant in `PROJECT.json`: a form of one
definition, such as a dropped guard or a swapped order, with which TLC finds the
property violated in that same run.

### Bounds, and why they are enough

* Jobs: two jobs and three processes, so that one job can be a pipeline while
  the other is in the background and their processes change in any order; three
  jobs in the script, so that a second zombie exceeds `ChildMax` = 1 while a
  third is waited for.
* Environments: the instance `control` has `MaxEnv` = 6 and no redirections. Two
  environments are the script's; the four others let a break pass a loop within a
  loop's condition, an exit be raised in a function called by a trap, and the
  EXIT trap fail. The others have `MaxEnv` = 5 (`calls`) and 4, and `calls` and
  `pipes` have `MaxIo` = 2 redirections in force at a time, over two user
  descriptors, with a few of the shell's: enough for a descriptor to be put aside
  twice at different depths, for `exec` to keep one of two, and for the table to
  become full between two. A command that consists of others is chosen only where
  there is room for one (`Fitting`).
* Traps: two signals and two uses of `trap`, and one search of the table within
  another's command, are the least with which traps interfere.
* Functions: two names over a table of two slots, four definitions, calls two
  deep; both colliding and distinct hashes. The table fills with deleted
  entries and grows.
* Co-processes: three jobs, so that two share an output, or one of an older
  output ends last.
* `xargs`: six characters of input with room for three to five bytes and one to
  three arguments; every position of a buffer's end within, at and after an
  argument occurs. Up to three commands at once. `timeout`: all combinations of
  options; two signals from outside.
* `flock`: two scripts, four calls. `ttymsg`: three parts of 0, 1 or 3
  characters. `compress`: codes of two to four bits, 13 characters of two kinds.
  `find`: all lines of five tokens over two tests, three files. `sed`: two files
  of up to two lines, two commands, one failing call. `mv`: two sources.

### Deadlock

Deadlock is checked in `scenarios`, `liveness` and `unwind`, whose only final
states have explicit steps. It is not in the others: in `failures` the shell may
really sleep for ever in `sigsuspend()` (section 5); co-processes whose writers
are a subshell leave `read -p` waiting (excepted in `ReadEnds`); `flock` without
`-w`, a finished `xargs`, `find`, `sed`, `mv` and `compress` really stop.

### Fairness

* `KshJobs`: strong fairness of the handler, because POSIX delivers a pending
  signal before the `sigprocmask()` or `sigsuspend()` that unblocks it returns,
  so that being unblocked again and again is enough; weak fairness of the
  shell's own steps once a command has begun (`Continue`), and of the end of a
  `$()` job's output when its processes have ended (`Eof`). Nothing is assumed
  of children, of the user or of signals.
* `KshCoproc`: jobs end some day and are reported; a read that can go on does.
* `Timeout`: the program runs when it can, and an armed timer expires.
* `Flock`: each script's flock runs when it can, and its timer expires; locks
  need never be granted.

## 4. Proofs

Each theorem holds for every value of the constants that the module's
assumptions allow. Where one has a hypothesis about `Env`, that is about what
may happen, and section 5 has the behaviour that refutes the theorem without it,
unless another reason is given below.

| Module | Theorem | Says |
|---|---|---|
| `KshJobsProofs` | `TypeCorrect`, `NeverLost` | `TypeOK`, `NoLostSigchld` in every environment |
| | `UnlinkedLemma`, `PastStoppedLemma`, ... | what the list operations keep |
| `KshJobsSafety` | `NeverDangling`, `WaitedJobStays` | `NoDangling`, `WaitedJobListed`, without `toggle` |
| | `WaitsAreSound` | `WaitsSound`, unless both `toggle` and `subshell` |
| | `ZombiesAreCounted`, `StatesAgree` | `ZombiesCounted`, `JobStateAgrees`, without `reuse` |
| | `NumbersAreUnique` | `JobNumbersUnique` in every environment |
| | `JobsAreSound` | `JobsSound`: these two and no internal error, without `toggle`, `reuse`, `pipefail` |
| | `FinishedAreAccounted` | `FinishedAccounted`, without job control, `toggle` and `signal` |
| | `PromisesAreKept` | `PromisesKept`, without `set -o notify`, `reuse` and `extcont` |
| | `TtyIsOwned` | `TtyOwner`: without job control and `toggle`, or without `forkfail`, `pipefail`, `signal` |
| `KshEnvProofs` | `Invariant`, `BreakReachesItsLoop` | `UnwindsRight` for any depth of nesting, any number of loops and descriptors |
| | `DescriptorsComeBack`, `NoneIsLeaked` | `DescriptorsRestored`, `NoneLeaked` likewise |
| `KshAsyncProofs` | `NothingForgotten`, `TrapsHold`, `ExecutedRight`, `IntAlwaysNoted` | `NoTrapForgotten`, `TrapsInForce`, `ExecDispositions` for any number of uses of `trap`, traps within traps, forks and execs; the internal error of `setexecsig()` does not occur for SIGINT |
| | `CoprocIsSound` | `CoprocSound` for any number of jobs and pipes, whether `fork()` and `pipe()` may fail or not |
| `KshFuncsProofs` | `FuncsSafe`, `TablesAreSound` | `TableSound` for any names, hash functions and table sizes, and any number of definitions and calls |
| | `FunctionsAreKept` | `FunctionsKept`: `KshFuncs` implements `FunctionMap` |
| `XargsProofs` | `Counting`, `AtMostMaxprocs`, `Implements` | `curprocs` counts the commands not waited for; no more than `-P` at once; `Xargs` implements `CommandPool` |
| | `Parsing`, `Delivering`, `FillingUp` | `ArgumentsKept`, `CommandsFilled`, for every command line and every input of any length |
| `UtilityProofs` | `Locking`, `Exclusion` | `MutualExclusion` of `flock` for any number of scripts and calls |
| | `Moving`, `NeverLost`, `StatusTrue` | `NothingLost` and `SuccessMeansMoved` of `mv` for any number of sources |
| | `Timing`, `OwnSignalIsIgnored`, `StatusIsTheCommands` | `OwnSignalIgnored` and `StatusOfCommand` of `timeout` for any durations and any number of signals |
| | `EditsLoseNothing` | `EditLosesNothing` of `sed` for any scripts, files and number of failures |
| | `ShownInOrder` | `MessageInOrder` of `ttymsg()` for any number of parts of any length |

**Job control.** Everything rests on `IInv`, which is invariant whatever
happens: the types, where `last_job`, `wj` and the marks of the job waited for
can be at each control point, and that a job under construction is not
`JF_STARTED`. There is one lemma per action, each with the parts of `IInv` it can
disturb, and lemmas for what several share. The properties need more, each an
invariant of its own that `KshJobs` states, so that a theorem assumes no more
than it needs:

* `AsyncInv` for pointers. The handler frees jobs at any control point where it
  may run; "the job waited for is listed" holds because that job carries
  `JF_WAITING` and "`last_job` is listed while a pipeline is being started"
  because it is not started, so that the handler only holds the signal (both in
  `IInv`). `j_set_async()` is the rest: it removes the old `async_job` if that is
  a zombie, and that its own argument is no zombie holds for a job resumed with
  `bg` because there are no zombies under job control. That is what `toggle`
  breaks.
* `WaitsInv` for waits: who carries the mark at which control point, and that
  jobs of others exist in a forked subshell only, in which job control is off.
* `PidsInv` and `ZombiesOver` for the zombie count: without `reuse` a process id
  is a process, what `waitpid()` can report is not recorded yet, and no process
  of a zombie is left to be reaped, so that `check_job()` cannot make the same
  zombie twice. The count itself is a cardinality argument, one case per way a
  job leaves the list.
* `TtyInv` for the terminal: only the pipeline being started and the job that is
  waited for are in the foreground, and the terminal is one of theirs.
* `StatesInv` for states: the recorded states of the processes and of the job
  agree at every moment, also within the loop of the handler, and a job that is
  not started is not reaped. It is stronger than `JobStateAgrees`, which says
  nothing of jobs that are not started: those have all their processes recorded
  as running, or `j_startjob()` would break the property.
* `StartedInv` for internal errors: between two commands every listed job is
  started, and the job whose output is read stays marked until `waitlast()`.
  With `pipefail` a job stays in the list and is never started.
* `AccountInv` for finished jobs: a started job in the foreground is marked as
  waited for until its wait returns, which happens only when it has finished;
  so the handler, which alone makes a job finished, finds that mark, or makes the
  job a zombie, or forgets it. A signal breaks it (`jobs.c:1135`, section 5); under
  job control finished jobs wait for the next prompt instead.
* `KnownInv` and `StopInv` for what is promised. `KeepsKnown` goes through every
  way a job leaves the list; that `check_job()` takes only unknown jobs, or those
  beyond `child_max`, needs that `async_job` and known jobs are started ones.
  With `notify` the handler reports a job as it ends, and forgets it. A `wait`
  without operands ends when the recorded states say that no job of ours runs;
  `StopInv` ties them to the kernel's: a process recorded as stopped goes on only
  when the shell continues it, and records that, or hangs it up to exit.

The proofs do not go through the actions each time. `KshJobsSafety` first says
what steps do to the structures (`MarksLemma`, `OwnLemma`, `StartedLemma`,
`ListLemma`, `ZombieLemma`, `GainsLemma`, `SentLemma`, ...) and each invariant is
then a matter of these relations. TLC has checked all the invariants named here
on the instances of `scenarios`, and those that hold there in an environment
with everything but `reuse` as well; `AccountInv`, `KnownInv` and `StopInv` on
`liveness`.

**Environments.** That a break reaches its loop depends on environments that
were pushed long before, so `IInv` says how they nest: a command is within
another or within a text that is read, a file is read by a command (`Nested`);
what the innermost one is at each point of the shell (`AtWork`); while a break or
continue is under way its target is a loop that does not pass it on, and what is
within is made of `E_EXEC` environments and loops that do (`Aimed`, `PassedOn`);
in a subshell the second environment is that of its only command, which has
XEXEC, or of the EXIT trap (`ChildLeaves`). Most actions change only fields of
the innermost environment that these do not mention, push one, or quit some:
`StayControl`, `PushControl` and `QuitControl` have that argument once, and each
action is an instance of one of them. That `c_brkcont()` finds an n-th loop
around (`LoopAroundLemma`) is a counting argument: the loops are mapped one to
one, hence onto, the numbers up to their own. Nothing is assumed of `MaxEnv`,
`MaxIo`, `MaxFd` or `FDBASE` but what `EnvAssumption` says.

**Descriptors.** `DescriptorsRestored` is about one environment that is quit, and
what it goes back to may have been put aside long before and moved since by
environments within. `FdInv` follows each descriptor of the user through the
stack: what it was before one environment is what it was before the next one,
unless this one has put it aside, and then a descriptor of the shell has it
which is open and which no other environment uses (`Keeps`, `Distinct`). So
quitting the innermost environment gives back what was before it and leaves the
same true of the rest, which is the step of the proof (`SoundPop`). `NoneLeaked`
is the converse: each open descriptor of the shell is one that was put aside
(`Owned`). A pipeline moves 0 and 1 itself, after its traps have run and with
nothing else in between (`Pipes`). The attempt to prove this showed that an
earlier form of the property, with a history of what was redirected, said the
wrong thing of a second redirection of one descriptor; it now compares tables.

**Traps.** `NoTrapForgotten` is inductive together with the types of the table
and two facts: a search of the table is under way while the shell is in
`runtraps()` or in the command of a trap (`Searching`), since what a signal leaves
behind may be noticed by any of the searches that are interrupted; and SIGINT's
original disposition is noted from the beginning (`IntNoted`), without which
`setexecsig()` would not return a value of its type.

`TrapsInForce` is not inductive: whether the kernel does what `trap` lists depends
on what was remembered of each signal before (`Dispositions`). The invariant says
for each of the three kinds of signals what its original disposition can be, what
the shell's own handler is and what `exec` would restore; that SIGPIPE alone may
be blocked, between `block_pipe()` and `restore_pipe()`, and what the latter goes
back to; and that a child about to execute a command has cleared its traps. Each
of `setsig()`'s refusals is needed for it. `ExecDispositions` then follows at the
two places where a program is executed.

**xargs.** `IInv` says that the set of commands not waited for is finite, has
`curprocs` members, never more than `maxprocs`, and less when input is read.
`StatusKept` adds what `rval` knows of the commands that were waited for; with it
each step of `Xargs` is a step of `CommandPool` or changes nothing of it, so that
the temporal theorem `Implements` is the refinement that the run `children`
checks as `PoolImplemented`.

`ParseInv` is about `parse_input()`. It compares the flags and buffers with the
manual's reading of the input so far (`Reading`: `Scanned` is that reading, a
recursive function on prefixes of the input), keeps the byte count
(`Total`), and says of the last command that the argument now being read would
not have fitted (`Filling`), since whether a command is full shows only when the
next one begins. What `Scanned`, `Bytes` and `FlattenSeq` do to a sequence that
is one longer is induction over data, which the provers' induction theorems
cannot give; the lemmas are proved from the existence of a least counterexample
(`WFMin`, which has sets instead of predicates). `-E` is excepted in both
properties, and `-x` in the second.

**flock.** What a script believes (`section`) is tied to the lock that its open
file has, at each point of `main()`; two locks never conflict as the kernel
grants none that does.

**mv.** `WholeUntilCopied`: up to the step that removes it the source is whole,
and from the one before on the target is; `OthersMoved`: `rval` is 0 exactly as
long as no source failed, and all those done are moved or were declined. A source
and its target may be two names of one file (hard links, `mv f f`): `rename()`
then succeeds without effect, and `Moved` lets such a file, and no other, keep
its old name.

**timeout.** `OwnSignalIgnored` says that nothing was sent before its interval
was over. `OneAlarm`: one alarm at most is on its way (armed, pending, or noted
in `sig_alrm`), and after the first kill only when an interval of `-k` is over.
`OwnSignalOnly`: as long as nobody else sends any, each termination signal that is
pending is the one of `sig_ign`, so that `sig_handler()` sets no `sig_term`, and
the next signal sent is SIGKILL, after which `timeout` receives no more of its
own. `StatusOfCommand` rests on `StatusInv`: nothing but the end of the command
ends the loop before a kill.

**sed.** `Untouched`: a file that is not begun, and one whose lines are still
read, is as it was, up to and including the step that makes its backup, so that
what `link()` or `rename()` puts there is the original. What replaces it later is
a sequence of lines and never a truncated one, as `fclose()` is heeded.

**ttymsg().** What is left of the vector always begins at the first place not
shown and ends with the message (`TtymsgInv`). In a vector of consecutive parts
what comes before a part is told by where it begins (`VectorLemma`, by the
uniqueness of the recursion that adds the lengths up), there is a part for each
place before the end (`PartAtLemma`), also among empty ones, and the vector
without its first characters is consecutive again, up to the same end
(`RestLemma`).

**Recursive functions.** What `Starts`, `Bytes`, `Scanned`, `FlattenSeq` or
`texpand()`'s recursion is for every input follows from that such a function
exists and is the only one; `RecursionLemmas` proves both with sets in the place
of the predicates of the library's induction theorems, from the well-foundedness
of the naturals.

**Co-processes.** The handler closes descriptors by what `struct coproc` says
they are, between any two steps of the shell, so the proof is about the pair of
the two. `Sound` is what must hold of it. Closing some of the fields keeps it
(`SoundShut`), whichever of the three `coproc_*_close()` and `coproc_cleanup()`
did it; opening a pipe in the lowest free descriptors keeps it (`InputLemma`,
`OutputLemma`), and so does moving an end to descriptor 4, since the field loses
what 4 gets (`MoveLemma`). This is where `CoprocSound` alone is not inductive:
two descriptors could share an end (`NotShared`), a pipe to come could have the
number of an old one (`PipesMade`), and `iosetup()` duplicates a descriptor that
the handler may have closed since it asked for it (`Asked`), in which case its
number may hold what was just saved of 4 and is none of the fields. `Prepared`
says what `exchild()` finds, from which a co-process' own ends follow. `njobs`
is the cardinality of the jobs of the present output that were not reaped, which
a fork and a reap change by one.

**Functions.** `FuncsInv` has what `TableSound` and the refinement rest on. Of the
table: a search for a name meets no NULL and no other entry of that name before
its entry (`Meets` in `TableInv`), no entry has two slots, and `nfree` is what is
left of the 80 percent. So there always is a NULL, which ends a search that
fails, and one that succeeds finds the only entry that is bound to the name
(`Lookup`), deleted entries on the way notwithstanding. Entries are never taken
out of a table in use; what a step does to it is either a change of one entry
that binds no more names than before (`TableKept`), or a new entry in the slot
the search ended at (`EntryPlaced`). `texpand()` is a recursion over the old
slots (`Expanded` after each, `ExpandResult` by induction). Of the entries: the
flags of one are those of an unused, a live, a running or a deleted and running
function (`EntryForm`), those not unused own one live tree each, and every live
tree has an owner. Of the calls: the entries in use are those of calls in
progress, and `old_inuse` says whether an outer call has the same entry. The
last is what makes the end of the outermost call, and no earlier one, free a
deleted function. Each action is first shown to have a result in these terms
(`Redefined`, `Flagged`, `Ended`), and both the invariant and the step of
`FunctionMap` follow from that. Besides what `FuncsAssumption` says (a table has
at least two slots: with one, 80 percent is none, and `tenter()` would expand it
at once) nothing is assumed. The name of a function that was deleted while it
runs, the empty string, must not be the name of a function.

Only model-checked:

* liveness under fairness (`WaitReturns` and `ChildrenReaped` of `liveness`, the
  deadline of `timeout`, `ReadEnds`, ...), which is out of the prover's reach;
* `FindPlan`, `SedEdit` (`FilesIndependent` and `StreamEdited` of `sed`) and
  `Compress`, which use recursive operators.

## 5. Where code and documentation disagree

Each `v_*` run shows a behaviour of the code that contradicts a line of the
manual.

* `v_forkhang` - A child ends while a pipeline is partly started; the handler
  holds the signal; then the next `fork()` of the pipeline fails. The job is
  removed but the held SIGCHLD is not sent again (`jobs.c:504-515`), and a later
  `wait` for the background job that ended sleeps although the job is over.
* `v_async` - A simple command started with `&` in a script does not ignore INT
  and QUIT: `exchild()` loses XBGND when it calls `execute()` (`jobs.c:629`) and
  `comexec()` restores the dispositions (`exec.c:721-726`).
* `v_errexit` - Under `set -e`, `if eval false; then ...` ends the shell:
  `shell()` calls `execute(t, 0)` (`main.c:599`) and what the `if` said of
  testing is lost. The same goes for `.` and for traps.
* `v_exec` - With `xargs -P 2`, a command that cannot be executed may be reported
  as one that failed, as `childerr` is reset before the child is waited for.
* `v_compress` - `compress` never writes the last code and the bits that do not
  fill a block, because `zopen()` does not set `zmode`, and removes the original.

The following were met while modelling, several of them as counterexamples to a
stronger form of a property; they have no run of their own.

*Job control.* A foreground pipeline whose second `fork()` fails leaves the
terminal with the dead job's process group. A trapped signal that arrives
between the last look at the traps and `sigsuspend()` does not end `wait`
(`jobs.c:1124`; `WaitInterrupted` of `KshJobs`). `%+` is the youngest running job
where the manual says the oldest (`jobs.c:491`; `CurrentJob`). With
`set -m; cmd & set +m`, the job's end, and `set -m; bg %%`, `j_set_async()`
removes the job it was given and keeps a pointer to it (`jobs.c:1047`). In a
wider environment: with `pipefail`, `openpipe()` failing inside a pipeline
leaves a job that is never started, the handler holds every SIGCHLD from then on
and `WaitReturns` fails; with `extcont`, `wait` passes over a stopped job that
another process continued; with `reuse`, a pid that a finished, still listed job
also has is looked up in list order and the wrong job is updated (`jobs.c:1271`).
A job that ends in the same wake-up in which a trap interrupts its wait stays
listed (`jobs.c:1135`).

*Traps.* A trap's command that unwinds leaves other flagged signals waiting for
the next one (`trap.c:207`; excepted in `NoTrapForgotten`). With a SIGPIPE that
was ignored when an interactive shell began, `trap - PIPE` makes `block_pipe()`
ineffective; `cleartraps()` cannot reset such signals either. `trap '' INT` is
lost in pipelines and before an exec. `cleartraps()` resets the INT that
`exchild()` made a background child ignore when the script traps INT.

*Environments.* A `fork()` that fails in `comsub()` leaves descriptor 1 the
write end of a pipe that nobody reads, and two more descriptors open
(`eval.c:877-885`; excepted in `DescriptorsRestored` by `Intact`). One that fails in a pipeline leaves its pipe open, and so does a
redirection that finds no descriptor to put the old one aside with the file it
opened (`exec.c:1213`): `NoneLeaked` and `DescriptorsRestored` except these. An
ERR trap is not run under `-e` when there is an EXIT trap (`main.c:617`,
`ksh.1:1979`). `return`, or an error, in an EXIT trap that is run from within a
function ends the function only: the shell goes on after `exit`. `exit` with
stopped jobs in a script with `set -m` ends it without its EXIT trap, because
LSHELL finds no prompt. A child of a pipeline keeps a second descriptor of its
output.

*Co-processes.* A job that ends between the preparations of `|&` and
`exchild()` closes `coproc.readw` under it. A `fork()` that fails after them
leaves both ends of the output open, and `read -p` never ends (excepted by
`unborn`). `exec 4>&p` while the co-process ends does nothing, silently.
Subshells keep copies of the descriptors.

*timeout.* With `-k`, a termination signal from outside makes timeout send
SIGKILL at once after the first signal, as `sig_term` is never cleared
(`timeout.c:327`; `OwnSignalIgnored` is about the case where there is none).
When the command is stopped or continued, `wait()` blocks with the alarm held
back and the deadline passes (`timeout.c:303`). With a duration of 0, a command
that ends before SIGCHLD is blocked is never noticed. With `-f`, `sig_ign`
swallows the next signal from outside. The last `wait()` takes any child's
status. `-s KILL` kills timeout itself.

*xargs.* `-x` without `-L` runs a command after every argument; every prefix of
the `-E` string, even an empty argument, ends the input (`xargs.c:305`); a
quoted empty argument at the end of the input is dropped; `memcpy()` is used on
overlapping memory (`xargs.c:412`); children that were inherited disturb
`curprocs`.

*flock.* A timer that expires before its handler is installed kills flock; one
that expires before `flock()` is called leaves the wait unlimited
(`flock.c:275-289`). `-o` closes the descriptor, and so gives the lock up, before
the command runs. A tiny `-w` disarms the timer.

*ttymsg.* `writev()`'s -1 is compared as a `size_t` (`ttymsg.c:118`): a failing
write ends the loop as if everything had been written, and the branch that forks
when a terminal is blocked is never reached.

*compress.* `-b` 9 to 11 is accepted (`compress.1:127`) and what it writes is
refused by `zread()`. *find.* `! -exec ... {} +` never runs the command with the
files that are left, as `find_traverse()` skips N_NOT (`find.c:290`; excepted in
`ExecutedOnce`); `-exit` within `-o`, parentheses or `!` does not exit
(`find.c:244`). *sed.* `n` and `N` on a file's last line read on into the next
file, `q` leaves the files it does not come to, and the temporary file, unlike
`sed.1:144` says (excepted by `crossed`); an unreadable file leaves its
temporary file. *mv.* When source and target are one directory entry of a file
system that is mounted twice, the file is lost (`NothingLost` excepts sources
whose `names` are `"one"`); when they are two names of one file, mv exits 0 and
leaves both. *sort.*
`allocrec()` takes a successful `realloc()` for a failure (`sort.c:421-423`).

## 6. Not modelled, and what is next

* The parser, expansion and variables of ksh, line editing, `awk`, `bc`, `m4`,
  `grep`, `patch`, `diff`, `pax`, `gzip`: large, sequential, and their hazards are
  in data rather than in control. They are most of the repository's lines, so
  that the share of lines the modules account for is small.
* Within modelled parts: `PROJECT.json` names per component what is left out.
* Next: what a child of a pipeline or of `&` does in `KshEnv`; the composition of
  `KshEnv` and `KshJobs` at `exchild()`; `gzip`'s replacement of files; `tail`'s backward mapping, `tsort`
  and `setmode` against definitions.

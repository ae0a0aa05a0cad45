------------------------------- MODULE KshEnv -------------------------------
(***************************************************************************)
(* The environments of the Korn shell: execute() and comexec() of exec.c,  *)
(* shell(), include(), newenv(), quitenv() and unwind() of main.c, the     *)
(* descriptors that iosetup() and savefd() put aside, and the built-ins    *)
(* that leave constructs: break, continue, return, exit, exec, eval and .  *)
(*                                                                         *)
(* Each call of execute() pushes an environment, so that the stack of      *)
(* environments, e, is also the stack of C calls: a record says what its   *)
(* call is doing (kind, stage).  What a script says next is chosen as the  *)
(* shell gets there; the conditions of if, while and && are any commands.  *)
(***************************************************************************)
EXTENDS Integers, Sequences, FiniteSets, SequencesExt

CONSTANTS
    Kinds,       \* the commands of a script (Kind below), "trap" if it has traps
    Modes,       \* sets of "exittrap", "errexit", "interactive"
    MaxEnv,      \* bound on the environments there are at a time
    MaxIo,       \* bound on the redirections in force at a time
    FDBASE,      \* the first descriptor of the shell's own
    MaxFd,       \* the size of the descriptor table
    Failures     \* what may fail: "fork" of a pipeline, "comsub": fork of $()

ASSUME EnvAssumption == /\ MaxEnv \in Nat /\ MaxIo \in Nat
                        /\ FDBASE \in Nat \ {0, 1} /\ MaxFd \in Nat
                        /\ FDBASE < MaxFd
                        /\ Failures \subseteq {"fork", "comsub"}

VARIABLES
    e,            \* the environments, the innermost one last
    fd,           \* the descriptor table
    pc,
    how,          \* the argument of unwind()
    rv,           \* the status of the command that ended last
    exittrap,     \* sigtraps[SIGEXIT_].trap is set
    errexit,      \* FERREXIT
    interactive,  \* FTALKING
    child,        \* this is a forked subshell
    target,       \* history: the environment a break or continue is to reach
    failed        \* history: a fork() failed, or there was no room to save

vars == <<e, fd, pc, how, rv, exittrap, errexit, interactive, child, target, failed>>
modes == <<exittrap, errexit, interactive, child>>

Fd == 0..MaxFd - 1
UserFd == 0..FDBASE - 1
Closed == "-"
File == {"in", "out", "file", "pipe"}

Unsaved == -2     \* 0 in savefd[]: not redirected
Shut == -1        \* it was closed
NoSaves == [u \in UserFd |-> Unsaved]

(* What a command is: a built-in, a call of a function, eval, `.', a brace *)
(* group, if, &&, !, a loop, a subshell, a pipeline; and what a shell()    *)
(* reads: the script, the operands of eval, a file, a trap.                *)
Kind == {"builtin", "call", "eval", "dot", "list", "if", "and", "bang", "loop",
         "paren", "pipe"}
Simple == {"builtin", "call", "eval", "dot"}
Text == {"main", "eval", "dot", "trap", "exittrap"}

EnvRecord ==
    [type   : {"none", "parse", "func", "incl", "loop", "exec"},
     kind   : Kind \union Text,
     stage  : {"begun", "cond", "part"},
     status : {0, 1},                       \* of a loop's body
     pass   : BOOLEAN,                      \* EF_BRKCONT_PASS
     xerrok : BOOLEAN,                      \* XERROK of execute()'s flags
     xexec  : BOOLEAN,                      \* XEXEC
     ios    : 0..MaxIo,                     \* redirections done
     savefd : [UserFd -> Fd \union {Unsaved, Shut}],
     was    : [UserFd -> File \union {Closed}]]  \* history: what to go back to

Top == Last(e)
Depth == Len(e)

Newenv(type, k, xerrok, xexec, fds) ==
    [type |-> type, kind |-> k, stage |-> "begun", status |-> 0, pass |-> FALSE,
     xerrok |-> xerrok, xexec |-> xexec, ios |-> 0, savefd |-> NoSaves,
     was |-> [u \in UserFd |-> fds[u]]]

Init ==
    /\ fd = [k \in Fd |-> CASE k = 0 -> "in" [] k = 1 -> "out" [] OTHER -> Closed]
    /\ e = <<Newenv("none", "main", FALSE, FALSE, fd),
             Newenv("parse", "main", FALSE, FALSE, fd)>>
    /\ pc = "prompt" /\ how = "none" /\ rv = 0
    /\ \E m \in Modes : /\ exittrap = ("exittrap" \in m)
                        /\ errexit = ("errexit" \in m)
                        /\ interactive = ("interactive" \in m)
    /\ child = FALSE /\ target = 0 /\ failed = "no"

-----------------------------------------------------------------------------
(* Descriptors.                                                            *)

Free(fds, base) == {k \in Fd : k >= base /\ fds[k] = Closed}
Lowest(ks) == CHOOSE k \in ks : \A i \in ks : k <= i

(* quitenv(): restfd() for each descriptor that was put aside.             *)
Saves(env) == {env.savefd[u] : u \in UserFd} \ {Unsaved, Shut}
Quitenv(env, fds) ==
    [k \in Fd |->
        IF k \in UserFd /\ env.savefd[k] # Unsaved
        THEN IF env.savefd[k] = Shut THEN Closed ELSE fds[env.savefd[k]]
        ELSE IF k \in Saves(env) THEN Closed ELSE fds[k]]

(* savefd(u, noclose): a copy of u among the shell's descriptors.          *)
Savefd(fds, u) == IF fds[u] = Closed THEN Shut ELSE Lowest(Free(fds, FDBASE))
CannotSave(fds, u) == fds[u] # Closed /\ Free(fds, FDBASE) = {}
Copied(fds, u, n) == IF n = Shut THEN fds ELSE [fds EXCEPT ![n] = fds[u]]

-----------------------------------------------------------------------------
(* execute(): newenv(E_EXEC), with what the caller goes on to do.  A       *)
(* command that consists of others needs room for one.                     *)
Fitting(d) ==
    Kinds \intersect (IF d + 1 < MaxEnv THEN Kind ELSE {"builtin", "paren", "pipe"})

Execute(stage, xerrok, xexec) ==
    /\ Depth < MaxEnv
    /\ \E k \in Fitting(Depth) :
          e' = Append([e EXCEPT ![Depth].stage = stage],
                      Newenv("exec", k, xerrok, xexec, fd))
    /\ pc' = "redirect" /\ rv' = 0
    /\ UNCHANGED <<fd, how, modes, target, failed>>

(* command() and include(): shell() with another source.                   *)
Read(text) ==
    /\ Depth < MaxEnv
    /\ e' = Append(e, Newenv("parse", text, FALSE, FALSE, fd))
    /\ pc' = "prompt"
    /\ UNCHANGED <<fd, how, rv, modes, target, failed>>

Raise(h) == pc' = "raise" /\ how' = h

(* The loop of shell(): compile() finds a command or the end.  The end of  *)
(* the script is an exit.                                                  *)
Command == pc = "prompt" /\ Execute("begun", FALSE, FALSE)

EndOfScript ==
    /\ pc = "prompt" /\ Top.kind = "main"
    /\ Raise("LEXIT")
    /\ UNCHANGED <<e, fd, rv, modes, target, failed>>

(* shell() returns to c_eval(), through include() to c_dot(), or to        *)
(* runtrap(), which makes the EXIT trap ready again, whether it is run by  *)
(* unwind() or by execute().                                               *)
EndOfText ==
    /\ pc = "prompt" /\ Top.kind # "main"
    /\ LET n == IF Top.kind = "dot" THEN 2 ELSE 1
       IN  /\ e' = SubSeq(e, 1, Depth - n)
           /\ fd' = Quitenv(Top, fd)
    /\ exittrap' = (exittrap \/ Top.kind = "exittrap")
    /\ pc' = CASE Top.kind = "trap" -> "redirect"
               [] Top.kind = "exittrap" -> "unwind"
               [] OTHER -> "break"
    /\ how' = IF Top.kind = "exittrap" THEN "LLEAVE" ELSE how
    /\ rv' = IF Top.kind = "trap" THEN 0 ELSE rv
    /\ UNCHANGED <<errexit, interactive, child, target, failed>>

(* execute() runs traps before anything else.                              *)
Runtraps ==
    /\ "trap" \in Kinds
    /\ pc = "redirect" /\ Top.stage = "begun" /\ Top.ios = 0
    /\ Read("trap")

-----------------------------------------------------------------------------
(* iosetup()                                                               *)

Redirections == FoldLeft(LAMBDA n, env : n + env.ios, 0, e)
Redirectable ==
    pc = "redirect" /\ Top.kind \notin {"and", "bang", "pipe"} /\ Redirections < MaxIo

(* Mutant: what another redirection has put in its place is put aside.     *)
AlwaysSaves(u) == TRUE
NeedsSave(u) == Top.savefd[u] = Unsaved

(* Descriptor `from', which may be u itself as u was closed, becomes u;    *)
(* the old u is put aside unless that was done before.  A descriptor that  *)
(* was opened stays open when there is no room for the old one.            *)
Redirected(fds, u, from, opened) ==
    LET n == IF from = u THEN Shut ELSE Savefd(fds, u)
        saved == IF NeedsSave(u) THEN Copied(fds, u, n) ELSE fds
        moved == IF from \in {u, Shut} THEN saved
                 ELSE [saved EXCEPT ![u] = saved[from]]
    IN  IF NeedsSave(u) /\ from # u /\ CannotSave(fds, u)
        THEN /\ fd' = fds /\ failed' = "room"
             /\ Raise("LERROR")
             /\ UNCHANGED <<e, rv, modes, target>>
        ELSE /\ e' = [e EXCEPT ![Depth].ios = @ + 1,
                               ![Depth].savefd[u] = IF NeedsSave(u) THEN n ELSE @]
             /\ fd' = IF opened /\ from # u THEN [moved EXCEPT ![from] = Closed]
                      ELSE IF from = Shut THEN [moved EXCEPT ![u] = Closed]
                      ELSE moved
             /\ UNCHANGED <<pc, how, rv, modes, target, failed>>

Open(u) ==
    /\ Redirectable /\ Free(fd, 0) # {}
    /\ LET k == Lowest(Free(fd, 0))
       IN  Redirected([fd EXCEPT ![k] = "file"], u, k, TRUE)

Dup(u, v) ==
    /\ Redirectable /\ fd[v] # Closed /\ v # u
    /\ Redirected(fd, u, v, FALSE)

(* u>&-                                                                    *)
Close(u) == Redirectable /\ Redirected(fd, u, Shut, FALSE)

(* A redirection fails: the command does, or, if it is a special built-in, *)
(* that is an error.                                                       *)
IosetupFails ==
    /\ Redirectable
    /\ rv' = 1
    /\ \/ pc' = "break" /\ UNCHANGED how
       \/ Top.kind \in Simple \ {"call"} /\ Raise("LERROR")
    /\ UNCHANGED <<e, fd, modes, target, failed>>

Iosetup == \/ \E u \in UserFd : Open(u) \/ Close(u) \/ \E v \in UserFd : Dup(u, v)
           \/ IosetupFails

(* comsub(): a copy of descriptor 1 is kept in a variable while $() is     *)
(* started; fork() fails.                                                  *)
ComsubFails ==
    /\ "comsub" \in Failures
    /\ pc = "redirect" /\ Top.ios = 0 /\ Top.kind \in Simple
    /\ Cardinality(Free(fd, FDBASE)) >= 2
    /\ LET n == Lowest(Free(fd, FDBASE))
           m == Lowest(Free(fd, FDBASE) \ {n})
       IN  fd' = [fd EXCEPT ![n] = "pipe", ![m] = fd[1], ![1] = "pipe"]
    /\ failed' = "comsub"
    /\ Raise("LERROR")
    /\ UNCHANGED <<e, rv, modes, target>>

-----------------------------------------------------------------------------
(* Built-ins.                                                              *)
Body == pc = "redirect"
Builtin == Body /\ Top.kind = "builtin"

Ordinary ==
    /\ Builtin
    /\ rv' \in {0, 1} /\ pc' = "break"
    /\ UNCHANGED <<e, fd, how, modes, target, failed>>

(* An error in a special built-in, an expansion or a fork(); an interrupt. *)
Errorf ==
    /\ Body /\ Top.kind \in Simple \union {"paren"}
    /\ rv' = 1
    /\ \E h \in {"LERROR", "LINTR"} : Raise(h)
    /\ UNCHANGED <<e, fd, modes, target, failed>>

(* c_exec() without a command: the redirections stay.  Mutant: what they   *)
(* replaced stays, too.                                                    *)
GivesUpNone(env) == {}
GivesUp(env) == Saves(env)

C_exec ==
    /\ Builtin
    /\ fd' = [k \in Fd |-> IF k \in GivesUp(Top) THEN Closed ELSE fd[k]]
    /\ e' = [i \in 1..Depth |->
               LET Kept(u) == /\ Top.savefd[u] # Unsaved
                              /\ \A k \in i..Depth - 1 : e[k].savefd[u] = Unsaved
                   env == [e[i] EXCEPT !.was =
                             [u \in UserFd |-> IF Kept(u) THEN fd[u] ELSE @[u]]]
               IN  IF i = Depth THEN [env EXCEPT !.savefd = NoSaves] ELSE env]
    /\ rv' = 0 /\ pc' = "break"
    /\ UNCHANGED <<how, modes, target, failed>>

(* c_brkcont(): the loops around, within the function or the text that is  *)
(* read; all but the last of those that are left pass it on.               *)
StopsBrkcont(i) == e[i].type \in {"none", "parse", "func", "incl"}
Loops == {i \in 1..Depth : e[i].type = "loop" /\ \A k \in i..Depth : ~StopsBrkcont(k)}
LoopAround(n) == CHOOSE i \in Loops : Cardinality({k \in Loops : k >= i}) = n

C_brkcont ==
    /\ Builtin /\ Loops # {}
    /\ \E n \in 1..Cardinality(Loops), h \in {"LBREAK", "LCONTIN"} :
          /\ e' = [i \in 1..Depth |->
                     [e[i] EXCEPT !.pass = @ \/ (i \in Loops /\ i > LoopAround(n))]]
          /\ target' = LoopAround(n)
          /\ Raise(h)
    /\ UNCHANGED <<fd, rv, modes, failed>>

(* c_exitreturn(): its own redirections are undone first.  exit with stopped*)
(* jobs warns of them, and leaves for the prompt.                          *)
StopsReturn(env) == env.type \in {"func", "incl"}
C_exitreturn ==
    /\ Builtin
    /\ rv' \in {0, 1}
    /\ e' = Front(e) /\ fd' = Quitenv(Top, fd)
    /\ \/ Raise("LEXIT")
       \/ ~child /\ Raise("LSHELL")
       \/ (\E i \in 1..Depth : StopsReturn(e[i])) /\ Raise("LRETURN")
    /\ UNCHANGED <<modes, target, failed>>

C_eval == Body /\ Top.kind = "eval" /\ Read("eval")

C_dot ==
    /\ Body /\ Top.kind = "dot" /\ Depth + 2 <= MaxEnv
    /\ e' = e \o <<Newenv("incl", "dot", FALSE, FALSE, fd),
                   Newenv("parse", "dot", FALSE, FALSE, fd)>>
    /\ pc' = "prompt"
    /\ UNCHANGED <<fd, how, rv, modes, target, failed>>

-----------------------------------------------------------------------------
(* Compound commands and functions.                                        *)

(* if, && and ! test their first command, loops each time; a brace group,  *)
(* a function and the rest of an && hand XERROK on.                        *)
Tests == {"if", "and", "bang", "loop"}

Begin ==
    /\ Body
    /\ \/ Top.kind \in Tests \ {"loop"} /\ Execute("cond", TRUE, FALSE)
       \/ Top.kind = "list" /\ Execute("part", Top.xerrok, FALSE)

(* E_LOOP and E_FUNC mark where unwind() stops.                            *)
Mark(kind, type) ==
    /\ Body /\ Top.kind = kind
    /\ e' = [e EXCEPT ![Depth].type = type]
    /\ pc' = "back"
    /\ UNCHANGED <<fd, how, rv, modes, target, failed>>
BeginLoop == Mark("loop", "loop")
Call == Mark("call", "func")

(* A command within has ended, or none was executed yet.                   *)
Back(k) == pc = "back" /\ Top.kind = k
Ends(v) == rv' = v /\ pc' = "break" /\ UNCHANGED <<e, fd, how, modes, target, failed>>

List == Back("list") /\ (Execute("part", Top.xerrok, FALSE) \/ Ends(rv))

If == /\ Back("if")
      /\ \/ Top.stage = "cond" /\ Execute("part", Top.xerrok, FALSE)
         \/ Top.stage = "cond" /\ Ends(0)
         \/ Top.stage = "part" /\ Ends(rv)

And == /\ Back("and")
       /\ \/ Top.stage = "cond" /\ rv = 0 /\ Execute("part", Top.xerrok, FALSE)
          \/ Top.stage = "part" /\ Ends(rv)
          \/ /\ Top.stage = "cond" /\ rv = 1
             /\ e' = [e EXCEPT ![Depth].xerrok = TRUE]
             /\ pc' = "break"
             /\ UNCHANGED <<fd, how, rv, modes, target, failed>>

Bang == Back("bang") /\ Ends(1 - rv)

Loop ==
    /\ Back("loop")
    /\ \/ /\ Top.stage \in {"begun", "part"}
          /\ Depth < MaxEnv
          /\ \E k \in Fitting(Depth) :
                e' = Append([e EXCEPT ![Depth].stage = "cond",
                                      ![Depth].status = IF Top.stage = "part" THEN rv ELSE 0],
                            Newenv("exec", k, TRUE, FALSE, fd))
          /\ pc' = "redirect" /\ rv' = 0
          /\ UNCHANGED <<fd, how, modes, target, failed>>
       \/ Top.stage = "cond" /\ Execute("part", Top.xerrok, FALSE)
       \/ Top.stage = "cond" /\ Ends(Top.status)

(* comexec(): the function's body, and what follows its end.               *)
Function ==
    /\ Back("call")
    /\ \/ Top.stage = "begun" /\ Execute("part", Top.xerrok, FALSE)
       \/ Top.stage = "part" /\ Ends(rv)

(* Pipelines: descriptors 0 and 1 are put aside, the parts are started, the*)
(* last one, which has the old 1 again, is waited for.                     *)
Pipe ==
    /\ Body /\ Top.kind = "pipe"
    /\ ~CannotSave(fd, 0)
    /\ LET n == Savefd(fd, 0)
           one == Copied(fd, 0, n)
           m == Savefd(one, 1)
       IN  /\ ~CannotSave(one, 1)
           /\ fd' = [Copied(one, 1, m) EXCEPT ![0] = "pipe", ![1] = "pipe"]
           /\ e' = [e EXCEPT ![Depth].savefd[0] = n, ![Depth].savefd[1] = m]
    /\ pc' = "back"
    /\ UNCHANGED <<how, rv, modes, target, failed>>

LastOfPipe ==
    /\ Back("pipe")
    /\ LET m == Top.savefd[1]
       IN  fd' = [k \in Fd |-> CASE k = 0 -> Closed
                                 [] k = 1 -> IF m \in Fd THEN fd[m] ELSE Closed
                                 [] OTHER -> IF k = m THEN Closed ELSE fd[k]]
    /\ e' = [e EXCEPT ![Depth].savefd[1] = Unsaved]
    /\ rv' \in {0, 1} /\ pc' = "break"
    /\ UNCHANGED <<how, modes, target, failed>>

(* There is no room to put them aside.                                     *)
PipeCannot ==
    /\ Body /\ Top.kind = "pipe"
    /\ IF CannotSave(fd, 0) THEN TRUE
       ELSE CannotSave(Copied(fd, 0, Savefd(fd, 0)), 1)
    /\ failed' = "room"
    /\ Raise("LERROR")
    /\ UNCHANGED <<e, fd, rv, modes, target>>

(* fork() fails: the pipe to the next part is left open.                   *)
PipeFails ==
    /\ "fork" \in Failures /\ Back("pipe")
    /\ Cardinality(Free(fd, FDBASE)) >= 2
    /\ LET n == Lowest(Free(fd, FDBASE))
           m == Lowest(Free(fd, FDBASE) \ {n})
       IN  fd' = [fd EXCEPT ![n] = "pipe", ![m] = "pipe"]
    /\ failed' = IF failed = "no" THEN "fork" ELSE failed
    /\ Raise("LERROR")
    /\ UNCHANGED <<e, rv, modes, target>>

(* A subshell, as its parent sees it, and the child: exchild() closes what *)
(* was put aside, cuts the environments off and executes the command.      *)
Paren ==
    /\ Body /\ Top.kind = "paren"
    /\ rv' \in {0, 1} /\ pc' = "break"
    /\ UNCHANGED <<e, fd, how, modes, target, failed>>

Cut(env) == [env EXCEPT !.savefd = NoSaves, !.stage = "part"]
Exchild ==
    /\ Body /\ Top.kind = "paren"
    /\ fd' = [k \in Fd |-> IF \E i \in 1..Depth : k \in Saves(e[i])
                           THEN Closed ELSE fd[k]]
    /\ \E k \in Fitting(1) : e' = <<Cut(Top), Newenv("exec", k, Top.xerrok, TRUE, fd)>>
    /\ child' = TRUE /\ exittrap' = FALSE /\ interactive' = FALSE
    /\ target' = 0
    /\ pc' = "redirect"
    /\ UNCHANGED <<how, rv, errexit, failed>>

-----------------------------------------------------------------------------
(* The end of execute(), at Break.  What a child was forked for ends with  *)
(* an exit, in comexec() already if it is a simple command; a command that *)
(* fails and is not tested ends a shell with -e.                           *)
Leaves == pc = "break" /\ Top.xexec /\ Top.kind \in Simple
Comexec ==
    /\ Leaves
    /\ Raise("LEXIT")
    /\ UNCHANGED <<e, fd, rv, modes, target, failed>>

Fatal == rv # 0 /\ ~Top.xerrok /\ errexit
Break ==
    /\ pc = "break" /\ ~Leaves
    /\ e' = Front(e) /\ fd' = Quitenv(Top, fd)
    /\ IF Top.xexec THEN Raise("LEXIT")
       ELSE IF Fatal THEN Raise("LERROR")
       ELSE /\ pc' = IF e[Depth - 1].type = "parse" THEN "prompt" ELSE "back"
            /\ UNCHANGED how
    /\ UNCHANGED <<rv, modes, target, failed>>

-----------------------------------------------------------------------------
(* unwind(): the EXIT trap is run where the command was left; with -e an   *)
(* error is an exit.                                                       *)
Exits == how = "LEXIT" \/ (errexit /\ how \in {"LERROR", "LINTR"})

RunExitTrap ==
    /\ pc = "raise" /\ Exits /\ exittrap
    /\ e' = Append(e, Newenv("parse", "exittrap", FALSE, FALSE, fd))
    /\ exittrap' = FALSE /\ how' = "none"
    /\ pc' = "prompt"
    /\ UNCHANGED <<fd, rv, errexit, interactive, child, target, failed>>

BeginUnwind ==
    /\ pc = "raise" /\ (Exits => ~exittrap)
    /\ pc' = "unwind" /\ how' = IF Exits THEN "LLEAVE" ELSE how
    /\ UNCHANGED <<e, fd, rv, modes, target, failed>>

Unwinding(types) == pc = "unwind" /\ Top.type \in types

(* An environment without a handler, or whose handler passes the unwinding *)
(* on, is quit.  The last one ends the process.                            *)
QuitTop ==
    /\ e' = Front(e) /\ fd' = Quitenv(Top, fd)
    /\ pc' = IF Depth = 1 THEN "exited" ELSE "unwind"
    /\ UNCHANGED <<how, rv, modes, target, failed>>

UnwindExec == Unwinding({"exec", "none"}) /\ QuitTop

Handled == how' = "none" /\ target' = 0

(* The handler of shell(): the user gets the prompt again.                 *)
Prompts == interactive /\ Top.kind = "main" /\ how \in {"LINTR", "LERROR", "LSHELL"}
UnwindParse == Unwinding({"parse"}) /\ ~Prompts /\ QuitTop
BackToPrompt ==
    /\ Unwinding({"parse"}) /\ Prompts
    /\ pc' = "prompt" /\ Handled
    /\ UNCHANGED <<e, fd, rv, modes, failed>>

(* The handler of comexec(): return, and errors, end the function.         *)
EndsCall == how \in {"LRETURN", "LERROR"}
UnwindFunc == Unwinding({"func"}) /\ ~EndsCall /\ QuitTop
EndCall ==
    /\ Unwinding({"func"}) /\ EndsCall
    /\ pc' = "break" /\ Handled
    /\ UNCHANGED <<e, fd, rv, modes, failed>>

(* The handler of include().                                               *)
UnwindIncl == Unwinding({"incl"}) /\ ~EndsCall /\ QuitTop
EndDot ==
    /\ Unwinding({"incl"}) /\ EndsCall
    /\ e' = Front(e) /\ fd' = Quitenv(Top, fd)
    /\ pc' = "break" /\ Handled
    /\ UNCHANGED <<rv, modes, failed>>

(* The handler of loops.                                                   *)

(* Mutant: the innermost loop takes every break and continue.              *)
PassesOthers == how \notin {"LBREAK", "LCONTIN"}
Passes == Top.pass \/ how \notin {"LBREAK", "LCONTIN"}
UnwindLoop == Unwinding({"loop"}) /\ Passes /\ QuitTop
EndLoop ==
    /\ Unwinding({"loop"}) /\ ~Passes /\ how = "LBREAK"
    /\ rv' = 0 /\ pc' = "break" /\ Handled
    /\ UNCHANGED <<e, fd, modes, failed>>
Continue ==
    /\ Unwinding({"loop"}) /\ ~Passes /\ how = "LCONTIN"
    /\ e' = [e EXCEPT ![Depth].stage = "part"]
    /\ rv' = 0 /\ pc' = "back" /\ Handled
    /\ UNCHANGED <<fd, modes, failed>>

Exited == pc = "exited" /\ UNCHANGED vars

Next ==
    \/ Command \/ EndOfScript \/ EndOfText \/ Runtraps
    \/ Iosetup \/ ComsubFails
    \/ Ordinary \/ Errorf \/ C_exec \/ C_brkcont \/ C_exitreturn \/ C_eval \/ C_dot
    \/ Begin \/ BeginLoop \/ Call \/ List \/ If \/ And \/ Bang \/ Loop \/ Function
    \/ Pipe \/ LastOfPipe \/ PipeCannot \/ PipeFails \/ Paren \/ Exchild
    \/ Comexec \/ Break
    \/ RunExitTrap \/ BeginUnwind
    \/ UnwindExec \/ UnwindParse \/ BackToPrompt \/ UnwindFunc \/ EndCall
    \/ UnwindIncl \/ EndDot \/ UnwindLoop \/ EndLoop \/ Continue \/ Exited

Spec == Init /\ [][Next]_vars

-----------------------------------------------------------------------------
TypeOK ==
    /\ e \in Seq(EnvRecord) /\ fd \in [Fd -> File \union {Closed}]
    /\ rv \in {0, 1} /\ target \in 0..MaxEnv
    /\ {exittrap, errexit, interactive, child} \subseteq BOOLEAN

(* There was room to put descriptors aside, and no fork() of $() failed.   *)
Intact == failed \notin {"room", "comsub"}

(* quitenv(): however a command ends, by an end, an error, a break or a    *)
(* return, when its environment is quit the descriptors of the user are    *)
(* those from before it, but for what an exec in it redirected for good.   *)
DescriptorsRestored ==
    [][(/\ Len(e') < Depth /\ pc' # "exited"
        /\ ~(pc = "redirect" /\ pc' = "redirect") /\ Intact) =>
           \A u \in UserFd : fd'[u] = e[Len(e') + 1].was[u]]_vars

(* savefd(), c_exec() and cleanup_parents_env(): of the shell's own        *)
(* descriptors those are open that an environment has put aside, each for  *)
(* one descriptor, in the subshell only its own.                           *)
NoneLeaked ==
    failed = "no" => {k \in Fd : k >= FDBASE /\ fd[k] # Closed}
                         = UNION {Saves(e[i]) : i \in 1..Depth}

(* unwind() and c_brkcont(): a break or continue reaches the loop it is    *)
(* meant for, and a subshell never goes on with what its parent was doing. *)
UnwindsRight ==
    [][/\ (pc = "unwind" /\ pc' # "unwind" /\ how \in {"LBREAK", "LCONTIN"}) =>
              Depth = target /\ Len(e') = target
       /\ child' => (Len(e') = 1 => pc' \in {"raise", "unwind", "exited"})]_vars

(* "This does not apply to commands whose exit status is explicitly tested *)
(* by a shell construct such as if, until, while, && or || statements"     *)
(* (ksh.1:1981): -e ends the shell for none of them.                       *)
ErrexitTested ==
    [][(pc = "break" /\ pc' = "raise" /\ how' = "LERROR") =>
           \A i \in 1..Depth - 1 : ~(e[i].kind \in Tests /\ e[i].stage = "cond")]_vars

=============================================================================

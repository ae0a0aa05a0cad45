------------------------------- MODULE KshTrap -------------------------------
(***************************************************************************)
(* Traps and signal dispositions of the Korn shell, Source/ksh/trap.c, with*)
(* the places that use them: the shell's checks for pending traps, `trap', *)
(* `print -p', fork() and exec().                                          *)
(*                                                                         *)
(* Five signals stand for their kinds: HUP ends the shell if not trapped   *)
(* (TF_FATAL), INT (and QUIT, TERM) interrupts it (TF_DFL_INTR), USR and   *)
(* PIPE are nothing to it, and CHLD it uses itself (TF_SHELL_USES).  After *)
(* a fork() the model goes on with the child.  The text of a trap is a     *)
(* command ("command"), the null string ("ignore") or none at all.  Left   *)
(* out: the EXIT and ERR traps, TMOUT, SIGWINCH and the tty's stop signals.*)
(***************************************************************************)
EXTENDS Naturals, SequencesExt

CONSTANTS
    MaxSignals,  \* bound: signals that arrive
    MaxSet,      \* bound: uses of the trap built-in
    MaxDepth     \* bound: runtraps() within trap commands

ASSUME BoundsAssumption ==
    /\ MaxSignals \in Nat
    /\ MaxSet \in Nat
    /\ MaxDepth \in Nat

(* In the order of the table.                                              *)
Table == <<"HUP", "INT", "USR", "PIPE", "CHLD">>
Signal == {"HUP", "INT", "USR", "PIPE", "CHLD"}
Interrupting == {"INT"}
Fatal == {"HUP"}
ShellUses == {"CHLD"}
TrapText == {"none", "ignore", "command"}

Trap == [set  : BOOLEAN,                   \* it came and was not dealt with
         trap : TrapText,                  \* what `trap' said
         user : BOOLEAN,                   \* TF_USER_SET
         orig : {"unknown", "ign", "dfl"}, \* TF_ORIG_*
         exec : {"current", "ign", "dfl"}, \* TF_EXEC_*
         act  : {"ign", "dfl", "trapsig"}] \* the kernel's disposition

VARIABLES
    sigtraps,    \* the table
    trap,        \* a signal came since runtraps(0) last began
    intrsig,     \* an interrupting or fatal one came
    stack,       \* runtraps(0) in progress: for each the next to look at
    pc,          \* "ready" (between commands), "loop" (in runtraps()),
                 \* "command" (in a trap's command), "print" (in print -p),
                 \* "eintr" (its write() was interrupted), "gone" (ended) or
                 \* "execed" (became another program)
    restore_dfl, \* what block_pipe() returned
    talking,     \* FTALKING and FMONITOR
    interactive, \* the same of the first shell
    async,       \* started by `&' without job control
    last,        \* executed by comexec() with XEXEC, without another fork()
    inherited,   \* signals that were ignored when the first shell began
    unwound,     \* history: a trap was left by unwind()
    nset, nsig   \* counters for the bounds

flags == <<trap, intrsig>>
modes == <<talking, interactive, async, last, inherited>>
counters == <<nset, nsig>>
vars == <<sigtraps, flags, stack, pc, restore_dfl, modes, unwound, counters>>

-----------------------------------------------------------------------------
(* The functions of trap.c on one entry t, that of signal s, of the table. *)

Setexecsig(t, restore) ==
    [t EXCEPT !.exec = CASE restore = "orig" -> t.orig
                         [] restore = "curr" -> "current"
                         [] OTHER -> restore]

(* setsig(): the first time the original disposition is noted; a signal    *)
(* that was ignored stays so unless the shell forces it, or allow: the user*)
(* of an interactive shell wants it.                                       *)
Noted(s, t) == IF t.orig = "unknown"
               THEN [t EXCEPT !.orig = IF s \in inherited THEN "ign" ELSE "dfl",
                              !.act = "ign"]
               ELSE t

(* Mutant: whoever wants to changes the action of an ignored signal.       *)
SetsigAnyway(s, t, act, restore, force, allow) ==
    [Setexecsig(Noted(s, t), restore) EXCEPT !.act = act]

Setsig(s, t, act, restore, force, allow) ==
    LET n == Noted(s, t)
    IN  IF n.orig = "ign" /\ ~force /\ ~allow THEN n
        ELSE [Setexecsig(n, restore) EXCEPT !.act = act]

(* settrap(): these the shell goes on catching when it has no trap.        *)
AlwaysCaught(s) == s \in Interrupting \union Fatal

Settrap(s, t, text, talk) ==
    LET u == [t EXCEPT !.trap = text, !.user = TRUE]
        wanted == CASE text = "command" -> "trapsig"
                    [] text = "ignore" -> "ign"
                    [] OTHER -> IF AlwaysCaught(s) THEN "trapsig" ELSE "dfl"
    IN  IF s \notin ShellUses
        THEN Setsig(s, u, wanted, "curr", FALSE, talk)
        ELSE IF u.orig = "ign" /\ ~talk THEN u
        ELSE [u EXCEPT !.exec = IF wanted = "ign" THEN "ign" ELSE "dfl"]

(* cleartraps(), in a child, which is never interactive.                   *)
Cleared(s, t) ==
    LET c == [t EXCEPT !.set = FALSE]
    IN  IF c.user /\ c.trap = "command" THEN Settrap(s, c, "none", FALSE) ELSE c

(* restoresigs(), before exec().                                           *)
Restored(s, t) == IF t.exec = "current" THEN t
                  ELSE Setsig(s, t, t.exec, "curr", TRUE, FALSE)

(* The kernel's disposition; what is caught an executed program has reset. *)
Disposition(s) == IF sigtraps[s].orig # "unknown" THEN sigtraps[s].act
                  ELSE IF s \in inherited THEN "ign" ELSE "dfl"
ProgramGets(s) == IF Disposition(s) = "trapsig" THEN "dfl" ELSE Disposition(s)

-----------------------------------------------------------------------------
Unset == [set |-> FALSE, trap |-> "none", user |-> FALSE, orig |-> "unknown",
          exec |-> "current", act |-> "dfl"]

(* inittraps() and j_init().                                               *)
Init ==
    /\ inherited \in SUBSET {"INT", "USR", "PIPE"}
    /\ interactive \in BOOLEAN
    /\ talking = interactive
    /\ async = FALSE /\ last = FALSE
    /\ sigtraps = [s \in Signal |->
           IF s \in ShellUses \union Interrupting \union Fatal
           THEN Setsig(s, Unset, "trapsig", "orig", s \in ShellUses, FALSE)
           ELSE Unset]
    /\ trap = FALSE /\ intrsig = FALSE
    /\ stack = <<>>
    /\ pc = "ready"
    /\ restore_dfl = FALSE
    /\ unwound = FALSE
    /\ nset = 0 /\ nsig = 0

Alive == pc \notin {"gone", "execed"}

(* A signal arrives; trapsig() is the handler.                             *)
Trapsig(s) ==
    /\ sigtraps' = [sigtraps EXCEPT ![s].set = TRUE]
    /\ trap' = TRUE
    /\ intrsig' = \/ intrsig
                  \/ s \in Interrupting
                  \/ s \in Fatal /\ sigtraps[s].trap = "none"

Arrives ==
    /\ Alive
    /\ nsig < MaxSignals
    /\ nsig' = nsig + 1
    /\ \E s \in Signal :
        \/ /\ Disposition(s) = "trapsig"
           /\ Trapsig(s)
           /\ UNCHANGED <<stack, pc>>
        \/ /\ Disposition(s) = "dfl"
           /\ pc' = "gone"
           /\ stack' = <<>>
           /\ UNCHANGED <<sigtraps, flags>>
    /\ UNCHANGED <<restore_dfl, modes, unwound, nset>>

(* c_trap(), between commands or within the command of a trap.             *)
C_trap ==
    /\ pc \in {"ready", "command"}
    /\ ~trap
    /\ nset < MaxSet
    /\ nset' = nset + 1
    /\ \E s \in Signal, text \in TrapText :
          sigtraps' = [sigtraps EXCEPT ![s] = Settrap(s, @, text, talking)]
    /\ UNCHANGED <<flags, stack, pc, restore_dfl, modes, unwound, nsig>>

(* unwind(LINTR), or any other out of the command of a trap: back to the   *)
(* command loop of an interactive shell or of a function, or the end.      *)
Unwind ==
    /\ stack' = <<>>
    /\ unwound' = TRUE
    /\ pc' \in {"ready", "gone"}
UnwindIntr == Unwind /\ pc' = IF talking THEN "ready" ELSE "gone"

(* runtrap(p); rest is what runtraps() goes on with.                       *)
Runtrap(s, rest) ==
    /\ sigtraps' = [sigtraps EXCEPT ![s].set = FALSE]
    /\ \/ /\ sigtraps[s].trap = "command"
          /\ pc' = "command"
          /\ stack' = rest
          /\ UNCHANGED unwound
       \/ /\ sigtraps[s].trap = "none" /\ s \in Fatal
          /\ pc' = "gone"
          /\ stack' = <<>>
          /\ UNCHANGED unwound
       \/ /\ sigtraps[s].trap = "none" /\ s \in Interrupting
          /\ UnwindIntr
       \/ /\ \/ sigtraps[s].trap = "ignore"
             \/ sigtraps[s].trap = "none" /\ s \notin Fatal \union Interrupting
          /\ stack' = rest
          /\ UNCHANGED <<pc, unwound>>

(* Mutant: the flag is cleared when the table was searched, too.           *)
FlagCleared == FALSE

FlagAtEnd == trap

(* `if (trap) runtraps(0)', before every command.                          *)
RuntrapsStarts ==
    /\ pc \in {"ready", "command"}
    /\ trap
    /\ Len(stack) <= MaxDepth
    /\ trap' = FALSE
    /\ stack' = Append(stack, 1)
    /\ pc' = "loop"
    /\ UNCHANGED <<sigtraps, intrsig, restore_dfl, modes, unwound, counters>>

Pending == {i \in Last(stack)..Len(Table) : sigtraps[Table[i]].set}

RuntrapsNext ==
    /\ pc = "loop"
    /\ \E i \in Pending :
        /\ \A k \in Pending : i <= k
        /\ Runtrap(Table[i], Append(Front(stack), i + 1))
    /\ UNCHANGED <<flags, restore_dfl, modes, counters>>

RuntrapsReturns ==
    /\ pc = "loop"
    /\ Pending = {}
    /\ stack' = Front(stack)
    /\ trap' = FlagAtEnd
    /\ pc' = IF Len(stack) = 1 THEN "ready" ELSE "command"
    /\ UNCHANGED <<sigtraps, intrsig, restore_dfl, modes, unwound, counters>>

(* The command of a trap returns, or leaves runtraps() for good.           *)
CommandEnds ==
    /\ pc = "command"
    /\ \/ pc' = "loop" /\ UNCHANGED <<stack, unwound>>
       \/ Unwind
    /\ UNCHANGED <<sigtraps, flags, restore_dfl, modes, counters>>

(* intrcheck(): only signals without a trap count.                         *)
Untrapped == {i \in DOMAIN Table :
                /\ sigtraps[Table[i]].set
                /\ Table[i] \in Interrupting \union Fatal
                /\ sigtraps[Table[i]].trap = "none"}
Intrcheck ==
    /\ intrsig
    /\ intrsig' = FALSE
    /\ \E i \in Untrapped :
        /\ \A k \in Untrapped : i <= k
        /\ Runtrap(Table[i], stack)
    /\ UNCHANGED <<trap, restore_dfl, modes, counters>>

(* A long expansion, or a read, is interrupted.                            *)
Interrupted == pc \in {"ready", "command"} /\ Intrcheck

-----------------------------------------------------------------------------
(* c_print() writes to a co-process with SIGPIPE ignored unless the user   *)
(* catches it.  Mutant: what was ignored for a moment is not given back.   *)
NotRestored == sigtraps
Restorepipe == IF restore_dfl
               THEN [sigtraps EXCEPT !["PIPE"] =
                       Setsig("PIPE", @, "dfl", "curr", FALSE, FALSE)]
               ELSE sigtraps

NeedsBlocking(t) == t.orig = "unknown" \/ t.act = "dfl"

Blockpipe ==
    LET t == sigtraps["PIPE"]
        b == Setsig("PIPE", t, "ign", "curr", FALSE, FALSE)
    IN  IF NeedsBlocking(t)
        THEN /\ sigtraps' = [sigtraps EXCEPT !["PIPE"] = b]
             /\ restore_dfl' = (t.orig # "unknown" \/ b.orig = "dfl")
        ELSE restore_dfl' = FALSE /\ UNCHANGED sigtraps

PrintStarts ==
    /\ pc \in {"ready", "eintr"}
    /\ pc = "ready" => ~trap
    /\ pc = "eintr" => ~(intrsig /\ Untrapped # {})
    /\ pc' = "print"
    /\ Blockpipe
    /\ intrsig' = (intrsig /\ pc = "ready")
    /\ UNCHANGED <<trap, stack, modes, unwound, counters>>

(* write() fails with EINTR: the user may interrupt the shell here.        *)
PrintInterrupted ==
    /\ pc = "print"
    /\ trap
    /\ sigtraps' = Restorepipe
    /\ pc' = "eintr"
    /\ UNCHANGED <<flags, stack, restore_dfl, modes, unwound, counters>>

PrintAborts == pc = "eintr" /\ Intrcheck

PrintReturns ==
    /\ pc = "print"
    /\ sigtraps' = Restorepipe
    /\ pc' = "ready"
    /\ UNCHANGED <<flags, stack, restore_dfl, modes, unwound, counters>>

-----------------------------------------------------------------------------
(* exchild(): the child ignores INT if it is asynchronous and there is no  *)
(* job control; then traps are cleared.                                    *)
Quietly(restore) == Setsig("INT", sigtraps["INT"], "ign", restore, TRUE, FALSE)

Quiet == Quietly("ign")

Forked(bg) ==
    [s \in Signal |->
        Cleared(s, IF s = "INT" /\ bg /\ ~talking THEN Quiet ELSE sigtraps[s])]

Child(bg) == /\ pc = "ready"
             /\ ~trap
             /\ trap' = FALSE /\ intrsig' = FALSE
             /\ talking' = FALSE
             /\ async' = (async \/ (bg /\ ~talking))

(* The child goes on as a shell: a subshell, a member of a pipeline or a   *)
(* command of its own in the background.                                   *)
ForkShell ==
    /\ \E bg \in BOOLEAN : Child(bg) /\ sigtraps' = Forked(bg)
    /\ UNCHANGED <<stack, pc, restore_dfl, interactive, last, inherited, unwound,
                   counters>>

(* A command in the foreground is looked up before the fork: the child has *)
(* only to execute it.                                                     *)
ForkCommand ==
    /\ Child(FALSE)
    /\ sigtraps' = [s \in Signal |-> Restored(s, Forked(FALSE)[s])]
    /\ pc' = "execed"
    /\ UNCHANGED <<stack, restore_dfl, interactive, last, inherited, unwound,
                   counters>>

(* comexec() with XEXEC, for the last command of a child and for `exec':   *)
(* XBGND was lost on the way, so that INT is always reset.                 *)
ExecLast ==
    /\ pc = "ready"
    /\ ~trap
    /\ sigtraps' = [s \in Signal |->
           Restored(s, IF s = "INT" THEN Setexecsig(sigtraps[s], "orig")
                       ELSE sigtraps[s])]
    /\ pc' = "execed"
    /\ last' = TRUE
    /\ UNCHANGED <<flags, stack, restore_dfl, talking, interactive, async,
                   inherited, unwound, counters>>

Ended == ~Alive /\ UNCHANGED vars

Next == \/ Arrives \/ C_trap \/ RuntrapsStarts \/ RuntrapsNext
        \/ RuntrapsReturns \/ CommandEnds \/ Interrupted \/ PrintStarts
        \/ PrintInterrupted \/ PrintAborts \/ PrintReturns
        \/ ForkShell \/ ForkCommand \/ ExecLast \/ Ended

Spec == Init /\ [][Next]_vars

-----------------------------------------------------------------------------
(* "to be executed at the first opportunity after receipt of one of the    *)
(* signals" (ksh.1): a signal that came is either announced by `trap', or  *)
(* a search of the table under way will come to it.  (When the command of  *)
(* a trap is unwound the rest of the table is forgotten until another      *)
(* signal comes: see the README.)                                          *)
NoTrapForgotten ==
    ~unwound /\ Alive =>
        \A i \in DOMAIN Table :
            sigtraps[Table[i]].set =>
                trap \/ \E k \in DOMAIN stack : stack[k] <= i

(* settrap(), setsig(): the kernel does what `trap' lists.  Signals that   *)
(* were ignored when a script began stay so; those the shell cannot do     *)
(* without are caught.  Nothing of print -p, of a fork or of a trap that   *)
(* was unwound is left behind.  block_pipe(): "ensure SIGPIPE won't kill    *)
(* shell (unless user catches it and exits)" while print -p writes.         *)
TrapsInForce ==
    /\ pc = "print" /\ "PIPE" \notin inherited => Disposition("PIPE") # "dfl"
    /\ pc \in {"ready", "loop", "command"} =>
        \A s \in Signal \ (ShellUses \union IF interactive THEN inherited ELSE {}) :
            Disposition(s) \in
                IF s \in inherited THEN {"ign"}
                ELSE IF sigtraps[s].trap = "command" THEN {"trapsig"}
                ELSE IF sigtraps[s].trap = "ignore" THEN {"ign"}
                ELSE IF s \in Fatal THEN {"trapsig"}
                ELSE IF s \in Interrupting
                THEN CASE ~async -> {"trapsig"}
                       [] async /\ ~sigtraps[s].user -> {"ign"}
                       [] OTHER -> {"ign", "trapsig"}
                ELSE {"dfl"}

(* restoresigs(): an executed command ignores what its user said it should *)
(* and what was ignored when the shell began, and nothing else, except for *)
(* INT: the commands of an asynchronous list, other than one that the child*)
(* of exchild() becomes, ignore it unless the script traps it.             *)
IgnoresInt == ProgramGets("INT") = "ign"
ExecDispositions ==
    pc = "execed" =>
        /\ \A s \in Signal \ ((IF interactive THEN inherited ELSE {})
                              \union (IF async \/ last THEN {"INT"} ELSE {})) :
               ProgramGets(s) = IF s \in inherited \/ sigtraps[s].trap = "ignore"
                                THEN "ign" ELSE "dfl"
        /\ async /\ ~last /\ ~sigtraps["INT"].user => IgnoresInt

(* "When an asynchronous command is started when job control is disabled,  *)
(* the command is started with signals INT and QUIT ignored" (ksh.1).      *)
AsyncIgnoresInt ==
    pc = "execed" /\ async /\ ~sigtraps["INT"].user => IgnoresInt
=============================================================================

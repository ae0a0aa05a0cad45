-------------------------------- MODULE Xargs --------------------------------
(***************************************************************************)
(* xargs(1), Source/findutils/xargs/xargs.c: cuts its input into arguments,*)
(* collects them in a buffer and runs a command whenever it has enough,    *)
(* with at most maxprocs commands at a time.                               *)
(*                                                                         *)
(* Input comes one character at a time and is whatever the alphabet of the *)
(* command line allows.  A command either cannot be executed, or ends when *)
(* and as it likes.  The buffer is abstracted to the number of its bytes in*)
(* use before the current argument.  Left out: -I and -J (where arguments  *)
(* are put), -p, -t and -o (the terminal), failing system calls.           *)
(***************************************************************************)
EXTENDS Naturals, SequencesExt

CONSTANTS
    Options,    \* the command lines, records as in OptionRecord
    MaxInput    \* bound: characters read before the end of input

Char == {"a", "b", "sp", "nl", "sq", "dq", "bs", "nul"}
Ending == {"zero", "nonzero", "255", "signal"}
OptionRecord ==
    [eofstr   : Seq(Char),          \* -E, empty if not given
     nargs    : Nat \ {0},          \* -n
     lines    : Nat,                \* -L: Lflag
     x        : BOOLEAN,            \* -x: xflag, implied by -L
     size     : Nat \ {0},          \* nline: room for arguments
     maxprocs : Nat \ {0},          \* -P
     zero     : BOOLEAN,            \* -0: zflag
     alphabet : SUBSET Char,        \* what the input is made of
     endings  : SUBSET Ending,      \* how commands end
     failures : SUBSET {126, 127}]  \* how execvp() may fail

ASSUME OptionsAssumption == Options \subseteq OptionRecord
ASSUME InputAssumption == MaxInput \in Nat

VARIABLES
    opt,         \* the command line
    pc,          \* "read", "wait" (in run()), "waitall" or "exit"
    quote,       \* "none", "single" (insingle) or "double" (indouble)
    escaped,     \* the character after a backslash is awaited
    arg,         \* argp..p: the current argument
    wasquoted,   \* it was quoted
    used,        \* argp - bbp: bytes of the complete arguments
    args,        \* bxp..xp: complete arguments that are not yet delivered
    count,       \* ends of line since the last command
    stop,        \* EOF or eofstr was read: exit after this command
    curprocs,    \* commands started and not waited for
    childerr,    \* why the last command could not be executed, or 0
    rval,        \* exit status so far
    code,        \* exit status
    unreaped,    \* commands that waitpid() has not returned
    fate,        \* of each command: "run", "failing" (execvp() failed, not yet
                 \* ended), "unexecuted" or how it ended
    input,       \* history: what was read; "EOF" is its end
    commands     \* history: the arguments of each command

parsevars == <<quote, escaped, arg, wasquoted, used, args, count, stop>>
procvars == <<curprocs, childerr, unreaped, fate, commands>>
vars == <<opt, pc, parsevars, procvars, rval, code, input>>

Init ==
    /\ opt \in Options
    /\ pc = "read"
    /\ quote = "none" /\ escaped = FALSE
    /\ arg = <<>> /\ wasquoted = FALSE
    /\ used = 0 /\ args = <<>>
    /\ count = 0 /\ stop = FALSE
    /\ curprocs = 0 /\ childerr = 0
    /\ rval = 0 /\ code = 0
    /\ unreaped = {} /\ fate = <<>>
    /\ input = <<>> /\ commands = <<>>

-----------------------------------------------------------------------------
(* run(): the child shares childerr with its parent until it has executed  *)
(* the command or exits.                                                   *)
Run(list) ==
    /\ commands' = Append(commands, list)
    /\ unreaped' = unreaped \union {Len(commands) + 1}
    /\ curprocs' = curprocs + 1
    /\ pc' = "wait"
    /\ \/ childerr' = 0 /\ fate' = Append(fate, "run")
       \/ childerr' \in opt.failures /\ fate' = Append(fate, "failing")
    /\ UNCHANGED <<rval, code>>

Exit(status) ==
    /\ pc' = "exit"
    /\ code' = status
    /\ UNCHANGED <<rval, procvars>>

(* Mutant: of an argument that does not fit only the character that did not*)
(* goes on into the emptied buffer.                                        *)
CarriesOneOver(c) == arg' = <<c>>
CarriedOver(c) == arg' = Append(arg, c)

Room == used + Len(arg) < opt.size - 1

(* addch: without room for it the complete arguments go to a command first,*)
(* and the begun one moves to the start of the buffer.                     *)
AddChar(c) ==
    \/ /\ Room
       /\ arg' = Append(arg, c)
       /\ UNCHANGED <<pc, used, args, procvars, rval, code>>
    \/ /\ ~Room
       /\ args = <<>> \/ opt.x
       /\ Exit(1)
       /\ UNCHANGED <<arg, used, args>>
    \/ /\ ~Room
       /\ args # <<>> /\ ~opt.x
       /\ Run(args)
       /\ args' = <<>>
       /\ used' = 0
       /\ CarriedOver(c)

(* strncmp(argp, eofstr, p - argp) == 0                                    *)
FoundEof == opt.eofstr # <<>> /\ IsPrefix(arg, opt.eofstr)

(* Mutant: the test for a full buffer is off by one.                       *)
FillsLate(bytes) == bytes > opt.size
Fills(bytes) == bytes > opt.size - 1

(* arg2: the current argument ends, at the end of input if last.  n is the *)
(* number of line ends so far.                                             *)
EndArg(last, n) ==
    LET keep == (arg # <<>> \/ wasquoted) /\ ~FoundEof
        list == IF keep THEN Append(args, arg) ELSE args
        bytes == used + Len(arg) + (IF keep THEN 1 ELSE 0)
        most == Len(list) = opt.nargs
        lines == opt.lines <= n /\ opt.x
        full == most \/ Fills(bytes) \/ last \/ lines \/ FoundEof
    IN  /\ arg' = <<>>
        /\ wasquoted' = FALSE
        /\ IF ~full
           THEN /\ args' = list
                /\ used' = bytes
                /\ count' = n
                /\ UNCHANGED <<pc, stop, procvars, rval, code>>
           ELSE /\ args' = <<>>
                /\ used' = 0
                /\ count' = 0
                /\ IF opt.x /\ ~most /\ Fills(bytes)
                   THEN Exit(1) /\ UNCHANGED stop
                   ELSE Run(list) /\ stop' = (last \/ FoundEof)

Read(c) ==
    /\ pc = "read"
    /\ Len(input) < MaxInput
    /\ c \in opt.alphabet
    /\ input' = Append(input, c)

Quoted == quote # "none"
Kept == UNCHANGED <<opt, wasquoted, count, stop>>

(* An ordinary character, one that is quoted, escaped or has no meaning.   *)
ReadOrdinary ==
    \E c \in Char :
        /\ Read(c)
        /\ \/ escaped
           \/ c \in {"a", "b"}
           \/ opt.zero /\ c # "nul"
           \/ ~opt.zero /\ c = "nul"
           \/ Quoted /\ c \in {"sp", "bs"}
           \/ quote = "single" /\ c = "dq"
           \/ quote = "double" /\ c = "sq"
        /\ AddChar(c)
        /\ escaped' = FALSE
        /\ Kept
        /\ UNCHANGED quote

ReadBackslash ==
    /\ Read("bs")
    /\ ~opt.zero /\ ~Quoted /\ ~escaped
    /\ escaped' = TRUE
    /\ UNCHANGED <<opt, pc, quote, arg, wasquoted, used, args, count, stop,
                   procvars, rval, code>>

ReadQuote ==
    /\ ~opt.zero /\ ~escaped
    /\ \/ Read("sq") /\ quote # "double"
          /\ quote' = IF quote = "single" THEN "none" ELSE "single"
       \/ Read("dq") /\ quote # "single"
          /\ quote' = IF quote = "double" THEN "none" ELSE "double"
    /\ wasquoted' = TRUE
    /\ UNCHANGED <<opt, pc, escaped, arg, used, args, count, stop, procvars,
                   rval, code>>

(* A separator: a blank, a NUL of -0, or the end of a line.                *)
ReadSeparator ==
    /\ ~escaped
    /\ \/ ~opt.zero /\ ~Quoted /\ Read("sp") /\ EndArg(FALSE, count)
       \/ opt.zero /\ Read("nul") /\ EndArg(FALSE, count + 1)
       \/ ~opt.zero /\ ~Quoted /\ Read("nl") /\ EndArg(FALSE, count + 1)
    /\ UNCHANGED <<opt, quote, escaped>>

(* Quotes do not escape newlines.                                          *)
ReadUnterminated ==
    /\ ~opt.zero /\ ~escaped /\ Quoted
    /\ Read("nl")
    /\ Exit(1)
    /\ UNCHANGED <<opt, parsevars>>

(* The end of input, where nothing is left to do if the buffer is empty.   *)
Empty == used + Len(arg) = 0
ReadEof ==
    /\ pc = "read"
    /\ input' = Append(input, "EOF")
    /\ \/ /\ escaped \/ (Quoted /\ ~Empty)
          /\ Exit(1)
          /\ UNCHANGED parsevars
       \/ /\ ~escaped /\ Empty
          /\ pc' = "waitall"
          /\ UNCHANGED <<parsevars, procvars, rval, code>>
       \/ /\ ~escaped /\ ~Quoted /\ ~Empty
          /\ EndArg(TRUE, count)
          /\ UNCHANGED <<quote, escaped>>
    /\ UNCHANGED opt

-----------------------------------------------------------------------------
(* waitchildren()                                                          *)
Ended == {c \in unreaped : fate[c] \notin {"run", "failing"}}

(* Mutant: a status other than zero replaces what was found before.        *)
LastStatus(how) == IF how = "zero" THEN 0 ELSE 123

WorstStatus(how) == IF how = "zero" THEN rval ELSE 123
AtLimit == curprocs >= opt.maxprocs

Wait(c) ==
    /\ unreaped' = unreaped \ {c}
    /\ curprocs' = curprocs - 1
    /\ UNCHANGED <<childerr, fate, commands>>
    /\ \/ /\ childerr # 0
          /\ code' = childerr /\ pc' = "exit"
          /\ UNCHANGED rval
       \/ /\ childerr = 0
          /\ fate[c] \in {"255", "signal"}
          /\ code' = IF fate[c] = "255" THEN 124 ELSE 125
          /\ pc' = "exit"
          /\ UNCHANGED rval
       \/ /\ childerr = 0
          /\ fate[c] \in {"zero", "nonzero", "unexecuted"}
          /\ rval' = WorstStatus(fate[c])
          /\ UNCHANGED <<pc, code>>

Waitchildren ==
    /\ pc \in {"wait", "waitall"}
    /\ \E c \in Ended : Wait(c)
    /\ UNCHANGED <<opt, parsevars, input>>

(* waitpid() finds nobody, and may or need not sleep.                      *)
WaitReturns ==
    /\ pc = "wait"
    /\ unreaped = {} \/ (~AtLimit /\ Ended = {})
    /\ pc' = IF stop THEN "waitall" ELSE "read"
    /\ UNCHANGED <<opt, parsevars, procvars, rval, code, input>>

WaitallReturns ==
    /\ pc = "waitall"
    /\ unreaped = {}
    /\ Exit(rval)
    /\ UNCHANGED <<opt, parsevars, input>>

(* A command ends; one that was not executed exits with status 1.          *)
CommandEnds ==
    /\ pc # "exit"
    /\ \E c \in unreaped :
        \/ fate[c] = "failing" /\ fate' = [fate EXCEPT ![c] = "unexecuted"]
        \/ /\ fate[c] = "run"
           /\ \E how \in opt.endings : fate' = [fate EXCEPT ![c] = how]
    /\ UNCHANGED <<opt, pc, parsevars, curprocs, childerr, unreaped, commands,
                   rval, code, input>>

Exited == pc = "exit" /\ UNCHANGED vars

ParseInput == \/ ReadOrdinary \/ ReadBackslash \/ ReadQuote \/ ReadSeparator
              \/ ReadUnterminated \/ ReadEof

Next == \/ ParseInput \/ Waitchildren \/ WaitReturns \/ WaitallReturns
        \/ CommandEnds \/ Exited

Spec == Init /\ [][Next]_vars

-----------------------------------------------------------------------------
(* The arguments of an input, by the manual's description: blanks separate *)
(* them, quotes and backslashes take that meaning away, and an argument may*)
(* be empty only when it was quoted.  s.open: an argument has begun.       *)
Scan(zero, s, c) ==
    LET add == [s EXCEPT !.token = Append(@, c), !.open = TRUE, !.esc = FALSE]
        end == IF s.open THEN [s EXCEPT !.tokens = Append(@, s.token),
                                        !.token = <<>>, !.open = FALSE]
               ELSE s
        inside == s.q # "none"
    IN  IF c = "EOF" THEN end
        ELSE IF zero
        THEN IF c = "nul" THEN end ELSE add
        ELSE CASE s.esc -> add
               [] ~s.esc /\ inside /\ c = s.q -> [s EXCEPT !.q = "none"]
               [] ~s.esc /\ inside /\ c # s.q -> add
               [] ~s.esc /\ ~inside /\ c = "bs" -> [s EXCEPT !.esc = TRUE]
               [] ~s.esc /\ ~inside /\ c \in {"sq", "dq"} ->
                    [s EXCEPT !.q = c, !.open = TRUE]
               [] ~s.esc /\ ~inside /\ c \in {"sp", "nl"} -> end
               [] OTHER -> add

NoInput == [tokens |-> <<>>, token |-> <<>>, open |-> FALSE, q |-> "none",
            esc |-> FALSE]
Scanned(zero, text) ==
    LET scan[i \in 0..Len(text)] ==
            IF i = 0 THEN NoInput ELSE Scan(zero, scan[i - 1], text[i])
    IN  scan[Len(text)]
Tokens(text) == Scanned(opt.zero, text).tokens

Delivered == FlattenSeq(commands)
EmptyAtEnd(tokens) ==
    /\ tokens # <<>>
    /\ Last(tokens) = <<>>
    /\ Last(input) = "EOF"

(* parse_input(): every argument of the input is delivered once, in order, *)
(* however the buffer and the limits of -n, -L and -s divide them among    *)
(* commands.  A quoted empty argument that the end of input ends, with     *)
(* nothing else in the buffer, is dropped (`No arguments since last exec').*)
ArgumentsKept ==
    LET tokens == Tokens(input)
    IN  opt.eofstr = <<>> /\ (pc = "exit" => code # 1) =>
            \/ Delivered \o args = tokens
            \/ EmptyAtEnd(tokens) /\ Delivered = Front(tokens)

(* "An invocation of utility will use less than number arguments if the    *)
(* number of bytes accumulated exceeds the specified size or there are     *)
(* fewer than number arguments remaining for the last invocation": no      *)
(* command gets more than fits, and none but the last less.                *)
Bytes(list) ==
    LET bytes[i \in 0..Len(list)] ==
            IF i = 0 THEN 0 ELSE bytes[i - 1] + Len(list[i]) + 1
    IN  bytes[Len(list)]
CommandsFilled ==
    ~opt.x /\ opt.eofstr = <<>> =>
        \A i \in DOMAIN commands :
            /\ Len(commands[i]) <= opt.nargs
            /\ Bytes(commands[i]) <= opt.size
            /\ i < Len(commands) =>
                 \/ Len(commands[i]) = opt.nargs
                 \/ Bytes(commands[i]) + Len(commands[i + 1][1]) + 1 > opt.size

(* "run at most maxprocs invocations of utility at once".                  *)
MaxprocsRespected == Cardinality(unreaped) <= opt.maxprocs

(* What it rests on: curprocs counts the commands not waited for, and there*)
(* is room for one more whenever input is read.                            *)
TypeOK ==
    /\ opt \in Options
    /\ arg \in Seq(Char)
    /\ args \in Seq(Seq(Char))
    /\ commands \in Seq(Seq(Seq(Char)))
    /\ pc \in {"read", "wait", "waitall", "exit"}
ChildrenCounted ==
    /\ IsFiniteSet(unreaped)
    /\ unreaped \subseteq 1..Len(commands)
    /\ curprocs = Cardinality(unreaped)
    /\ curprocs <= opt.maxprocs
    /\ pc = "read" => curprocs < opt.maxprocs
IInv == TypeOK /\ ChildrenCounted

(* And of the status: rval tells of every command that was waited for.     *)
StatusKept ==
    /\ fate \in Seq(Ending \union {"run", "failing", "unexecuted"})
    /\ Len(fate) = Len(commands)
    /\ rval \in {0, 123}
    /\ childerr \in {0, 126, 127}
    /\ pc # "exit" =>
         (rval = 0 <=> \A c \in DOMAIN fate \ unreaped : fate[c] = "zero")

(* "utility was found but could not be invoked", "could not be found":     *)
(* exit statuses 126 and 127.                                              *)
ExecFailureReported ==
    pc = "exit" /\ code \in {0, 123} =>
        \A c \in DOMAIN fate : fate[c] # "unexecuted"

(* run() and waitchildren() are a pool of commands: no command starts      *)
(* without a free slot, each is waited for once, and the exit status tells *)
(* how all of them went, or that xargs gave up.                            *)
Outcome == IF pc # "exit" THEN "none"
           ELSE IF code = 0 THEN "success"
           ELSE IF code = 123 THEN "failure"
           ELSE "abort"
Pool == INSTANCE CommandPool WITH
            slots <- opt.maxprocs,
            started <- Len(commands),
            running <- unreaped,
            failed <- {c \in DOMAIN fate : c \notin unreaped /\ fate[c] # "zero"},
            outcome <- Outcome
PoolImplemented == Pool!Spec
=============================================================================

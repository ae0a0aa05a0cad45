----------------------------- MODULE XargsProofs -----------------------------
(***************************************************************************)
(* Theorems about xargs, for every command line and every input: -P        *)
(* maxprocs is kept, the commands are the pool that CommandPool describes, *)
(* every argument is delivered once and in order, and commands are filled  *)
(* as -n and -s ask.                                                       *)
(***************************************************************************)
EXTENDS Xargs, RecursionLemmas, FiniteSetTheorems, SequenceTheorems

(* run() adds one command to those that are not waited for.                *)
LEMMA RunLemma ==
    ASSUME IInv, NEW list \in Seq(Seq(Char)), pc = "read", Run(list)
    PROVE  /\ commands' \in Seq(Seq(Seq(Char)))
           /\ IsFiniteSet(unreaped')
           /\ unreaped' \subseteq 1..Len(commands')
           /\ curprocs' = Cardinality(unreaped')
           /\ curprocs' <= opt.maxprocs
           /\ pc' = "wait"
<1> DEFINE c == Len(commands) + 1
<1>1. c \in Nat /\ c \notin unreaped /\ Len(commands') = c
  BY DEF IInv, TypeOK, ChildrenCounted, Run
<1>2. /\ IsFiniteSet(unreaped \union {c})
      /\ Cardinality(unreaped \union {c}) = Cardinality(unreaped) + 1
  BY <1>1, FS_AddElement DEF IInv, ChildrenCounted
<1>3. Cardinality(unreaped) \in Nat
  BY FS_CardinalityType DEF IInv, ChildrenCounted
<1>4. opt.maxprocs \in Nat
  BY OptionsAssumption DEF IInv, TypeOK, OptionRecord
<1>5. commands' \in Seq(Seq(Seq(Char)))
  BY DEF IInv, TypeOK, Run
<1>6. unreaped' \subseteq 1..Len(commands')
  <2>1. unreaped \subseteq 1..Len(commands) /\ Len(commands) \in Nat
    BY DEF IInv, TypeOK, ChildrenCounted
  <2>2. unreaped' = unreaped \union {c} /\ Len(commands') = c
    BY <1>1 DEF Run
  <2>3. 1..Len(commands) \subseteq 1..c /\ c \in 1..c
    BY <1>1, <2>1
  <2> QED
    BY <2>1, <2>2, <2>3
<1> QED
  BY <1>1, <1>2, <1>3, <1>4, <1>5, <1>6 DEF IInv, ChildrenCounted, Run

(* What parse_input() does outside of run() leaves the children alone.     *)
LEMMA ParseLemma ==
    ASSUME IInv, pc = "read", ParseInput
    PROVE  IInv'
<1>1. ASSUME NEW c \in Char, AddChar(c), UNCHANGED opt
      PROVE  IInv'
  <2>1. CASE Room
    <3>1. arg' = Append(arg, c) /\ UNCHANGED <<opt, pc, args, procvars>>
      BY <1>1, <2>1 DEF AddChar
    <3>2. arg' \in Seq(Char) /\ UNCHANGED <<pc, args, commands, unreaped, curprocs>>
      BY <3>1 DEF IInv, TypeOK, procvars
    <3> QED
      BY <1>1, <3>2 DEF IInv, TypeOK, ChildrenCounted
  <2>2. CASE ~Room /\ (args = <<>> \/ opt.x)
    BY <1>1, <2>2 DEF AddChar, Exit, IInv, TypeOK, ChildrenCounted, procvars
  <2>3. CASE ~Room /\ args # <<>> /\ ~opt.x
    <3>1. Run(args) /\ args' = <<>> /\ CarriedOver(c)
      BY <1>1, <2>3 DEF AddChar
    <3>2. arg' \in Seq(Char) /\ args' \in Seq(Seq(Char)) /\ opt' \in Options
      BY <1>1, <3>1 DEF CarriedOver, IInv, TypeOK
    <3> QED
      BY <1>1, <3>1, <3>2, RunLemma DEF IInv, TypeOK, ChildrenCounted
  <2> QED
    BY <2>1, <2>2, <2>3
<1>2. ASSUME NEW last \in BOOLEAN, NEW n, EndArg(last, n), UNCHANGED opt
      PROVE  IInv'
  <2> DEFINE keep == (arg # <<>> \/ wasquoted) /\ ~FoundEof
             list == IF keep THEN Append(args, arg) ELSE args
  <2>1. list \in Seq(Seq(Char)) /\ <<>> \in Seq(Char) /\ <<>> \in Seq(Seq(Char))
    BY DEF IInv, TypeOK
  <2>2. arg' = <<>> /\ (args' = list \/ args' = <<>>)
    BY <1>2 DEF EndArg
  <2>3. arg' \in Seq(Char) /\ args' \in Seq(Seq(Char)) /\ opt' \in Options
    BY <1>2, <2>1, <2>2 DEF IInv, TypeOK
  <2>4. \/ UNCHANGED <<pc, procvars>>
        \/ Exit(1)
        \/ Run(list)
    BY <1>2 DEF EndArg
  <2>5. CASE UNCHANGED <<pc, procvars>>
    BY <1>2, <2>3, <2>5 DEF IInv, TypeOK, ChildrenCounted, procvars
  <2>6. CASE Exit(1)
    BY <1>2, <2>3, <2>6 DEF Exit, IInv, TypeOK, ChildrenCounted, procvars
  <2>7. CASE Run(list)
    BY <1>2, <2>1, <2>3, <2>7, RunLemma DEF IInv, TypeOK, ChildrenCounted
  <2> QED
    BY <2>4, <2>5, <2>6, <2>7
<1>3. CASE ReadOrdinary
  BY <1>1, <1>3 DEF ReadOrdinary, Kept
<1>4. CASE ReadBackslash
  BY <1>4 DEF ReadBackslash, IInv, TypeOK, ChildrenCounted, procvars
<1>5. CASE ReadQuote
  BY <1>5 DEF ReadQuote, IInv, TypeOK, ChildrenCounted, procvars
<1>6. CASE ReadSeparator
  BY <1>2, <1>6 DEF ReadSeparator
<1>7. CASE ReadUnterminated
  BY <1>7 DEF ReadUnterminated, Exit, IInv, TypeOK, ChildrenCounted, procvars,
              parsevars
<1>8. CASE ReadEof
  <2>1. \/ Exit(1) /\ UNCHANGED parsevars
        \/ pc' = "waitall" /\ UNCHANGED <<parsevars, procvars>>
        \/ EndArg(TRUE, count)
    BY <1>8 DEF ReadEof
  <2>2. UNCHANGED opt
    BY <1>8 DEF ReadEof
  <2>3. CASE Exit(1) /\ UNCHANGED parsevars
    BY <2>2, <2>3 DEF Exit, IInv, TypeOK, ChildrenCounted, procvars, parsevars
  <2>4. CASE pc' = "waitall" /\ UNCHANGED <<parsevars, procvars>>
    BY <2>2, <2>4 DEF IInv, TypeOK, ChildrenCounted, procvars, parsevars
  <2>5. CASE EndArg(TRUE, count)
    BY <1>2, <2>2, <2>5
  <2> QED
    BY <2>1, <2>3, <2>4, <2>5
<1> QED
  BY <1>3, <1>4, <1>5, <1>6, <1>7, <1>8 DEF ParseInput

(* waitchildren(): a command that is waited for is no longer counted, and  *)
(* run() returns only when another may be started.                         *)
LEMMA WaitLemma ==
    ASSUME IInv, Waitchildren \/ WaitReturns \/ WaitallReturns
    PROVE  IInv'
<1>0. opt.maxprocs \in Nat \ {0}
  BY OptionsAssumption DEF IInv, TypeOK, OptionRecord
<1>1. CASE Waitchildren
  <2>1. PICK c \in Ended : Wait(c)
    BY <1>1 DEF Waitchildren
  <2>2. c \in unreaped
    BY DEF Ended
  <2>3. /\ IsFiniteSet(unreaped \ {c})
        /\ Cardinality(unreaped \ {c}) = Cardinality(unreaped) - 1
    BY <2>2, FS_RemoveElement DEF IInv, ChildrenCounted
  <2>4. Cardinality(unreaped) \in Nat
    BY FS_CardinalityType DEF IInv, ChildrenCounted
  <2>5. UNCHANGED <<opt, arg, args, commands>>
    BY <1>1, <2>1 DEF Waitchildren, Wait, parsevars
  <2>6. pc' \in {"wait", "waitall", "exit"} /\ pc' # "read"
    BY <1>1, <2>1 DEF Waitchildren, Wait
  <2>7. unreaped' = unreaped \ {c} /\ curprocs' = curprocs - 1
    BY <2>1 DEF Wait
  <2>8. TypeOK'
    BY <2>5, <2>6 DEF IInv, TypeOK
  <2>9. curprocs' = Cardinality(unreaped') /\ curprocs' <= opt.maxprocs
    BY <1>0, <2>3, <2>4, <2>7 DEF IInv, ChildrenCounted
  <2>10. ChildrenCounted'
    BY <2>3, <2>5, <2>6, <2>7, <2>9 DEF IInv, ChildrenCounted
  <2> QED
    BY <2>8, <2>10 DEF IInv
<1>2. CASE WaitReturns
  <2>1. unreaped = {} => curprocs = 0
    BY FS_EmptySet DEF IInv, ChildrenCounted
  <2>2. curprocs \in Nat
    BY FS_CardinalityType DEF IInv, ChildrenCounted
  <2>3. curprocs < opt.maxprocs
    BY <1>0, <1>2, <2>1, <2>2 DEF WaitReturns, AtLimit
  <2> QED
    BY <1>2, <2>3 DEF WaitReturns, IInv, TypeOK, ChildrenCounted, parsevars,
                      procvars
<1>3. CASE WaitallReturns
  BY <1>3 DEF WaitallReturns, Exit, IInv, TypeOK, ChildrenCounted, parsevars,
              procvars
<1> QED
  BY <1>1, <1>2, <1>3

(* The inductive invariant of waitchildren(): curprocs is what it should be*)
(* and input is read only with room for one more command.                  *)
THEOREM Counting == Spec => []IInv
<1>1. Init => IInv
  <2> SUFFICES ASSUME Init PROVE IInv
    OBVIOUS
  <2>1. opt.maxprocs \in Nat \ {0}
    BY OptionsAssumption DEF Init, OptionRecord
  <2>2. IsFiniteSet({}) /\ Cardinality({}) = 0
    BY FS_EmptySet
  <2> QED
    BY <2>1, <2>2 DEF Init, IInv, TypeOK, ChildrenCounted
<1>2. IInv /\ [Next]_vars => IInv'
  <2> SUFFICES ASSUME IInv, [Next]_vars PROVE IInv'
    OBVIOUS
  <2>1. CASE ParseInput
    <3>1. pc = "read"
      BY <2>1 DEF ParseInput, ReadOrdinary, ReadBackslash, ReadQuote,
                  ReadSeparator, ReadUnterminated, ReadEof, Read
    <3> QED
      BY <2>1, <3>1, ParseLemma
  <2>2. CASE Waitchildren \/ WaitReturns \/ WaitallReturns
    BY <2>2, WaitLemma
  <2>3. CASE CommandEnds
    BY <2>3 DEF CommandEnds, IInv, TypeOK, ChildrenCounted, parsevars
  <2>4. CASE Exited \/ UNCHANGED vars
    BY <2>4 DEF Exited, vars, IInv, TypeOK, ChildrenCounted, parsevars,
                procvars
  <2> QED
    BY <2>1, <2>2, <2>3, <2>4 DEF Next
<1> QED
  BY <1>1, <1>2, PTL DEF Spec

(* -P maxprocs: at most so many commands run at once, whatever the input   *)
(* and however commands end.                                               *)
THEOREM AtMostMaxprocs == Spec => []MaxprocsRespected
<1>1. IInv => MaxprocsRespected
  BY DEF IInv, ChildrenCounted, MaxprocsRespected
<1> QED
  BY <1>1, Counting, PTL

-----------------------------------------------------------------------------
(* run() adds a command to the list and to those that run, and leaves the  *)
(* status alone.                                                           *)
LEMMA RunStatusLemma ==
    ASSUME IInv, StatusKept, pc = "read", opt' = opt,
           NEW list \in Seq(Seq(Char)), Run(list)
    PROVE  StatusKept' /\ Pool!Start
<1> DEFINE n == Len(commands)
<1>1. n \in Nat /\ Len(commands') = n + 1 /\ unreaped' = unreaped \union {n + 1}
  BY DEF IInv, TypeOK, Run
<1>2. PICK how \in {"run", "failing"} : fate' = Append(fate, how)
  BY DEF Run
<1>3. childerr' \in {0, 126, 127}
  BY OptionsAssumption DEF Run, IInv, TypeOK, OptionRecord
<1>4. /\ fate' \in Seq(Ending \union {"run", "failing", "unexecuted"})
      /\ Len(fate') = n + 1
      /\ DOMAIN fate' = DOMAIN fate \union {n + 1}
      /\ \A c \in DOMAIN fate : c # n + 1 /\ fate'[c] = fate[c]
  BY <1>1, <1>2 DEF StatusKept
<1>5. rval' = rval /\ code' = code /\ pc' = "wait"
  BY DEF Run
<1>6. DOMAIN fate' \ unreaped' = DOMAIN fate \ unreaped
  BY <1>1, <1>4
<1>7. StatusKept'
  BY <1>1, <1>3, <1>4, <1>5, <1>6 DEF StatusKept
<1>8. {c \in DOMAIN fate' : c \notin unreaped' /\ fate'[c] # "zero"}
      = {c \in DOMAIN fate : c \notin unreaped /\ fate[c] # "zero"}
  BY <1>4, <1>6
<1>9. Outcome = "none" /\ Outcome' = "none"
  BY <1>5 DEF Outcome
<1>10. Pool!Cardinality(unreaped) < opt.maxprocs
  BY DEF IInv, ChildrenCounted, Cardinality, Pool!Cardinality
<1> QED
  BY <1>1, <1>7, <1>8, <1>9, <1>10 DEF Pool!Start

(* What leaves the commands and the status alone is no step of the pool.   *)
LEMMA QuietLemma ==
    ASSUME StatusKept, UNCHANGED <<opt, procvars, rval, code>>,
           pc # "exit", pc' # "exit"
    PROVE  StatusKept' /\ UNCHANGED Pool!poolvars
<1>1. Outcome = "none" /\ Outcome' = "none"
  BY DEF Outcome
<1> QED
  BY <1>1 DEF StatusKept, procvars, Pool!poolvars

(* errx() ends it all with status 1.                                       *)
LEMMA GiveUpLemma ==
    ASSUME StatusKept, pc # "exit", Exit(1), opt' = opt
    PROVE  StatusKept' /\ Pool!Abort
<1>1. Outcome = "none" /\ Outcome' = "abort"
  BY DEF Outcome, Exit
<1> QED
  BY <1>1 DEF Exit, StatusKept, procvars, Pool!Abort

(* parse_input() starts commands, gives up or leaves them alone.           *)
LEMMA ParseStatusLemma ==
    ASSUME IInv, StatusKept, pc = "read", ParseInput
    PROVE  StatusKept' /\ (Pool!Next \/ UNCHANGED Pool!poolvars)
<1>0. opt' = opt
  BY DEF ParseInput, ReadOrdinary, ReadBackslash, ReadQuote, ReadSeparator,
         ReadUnterminated, ReadEof, Kept
<1> DEFINE Goal == StatusKept' /\ (Pool!Next \/ UNCHANGED Pool!poolvars)
<1>a. args \in Seq(Seq(Char)) /\ Append(args, arg) \in Seq(Seq(Char))
  BY DEF IInv, TypeOK
<1>b. ASSUME NEW list \in Seq(Seq(Char)), Run(list) PROVE Goal
  BY <1>0, <1>b, RunStatusLemma DEF Pool!Next
<1>c. ASSUME Exit(1) PROVE Goal
  BY <1>0, <1>c, GiveUpLemma DEF Pool!Next
<1>d. ASSUME UNCHANGED <<procvars, rval, code>>, pc' # "exit" PROVE Goal
  BY <1>0, <1>d, QuietLemma
<1>1. ASSUME NEW c \in Char, AddChar(c) PROVE Goal
  <2>1. \/ UNCHANGED <<pc, procvars, rval, code>>
        \/ Exit(1)
        \/ Run(args)
    BY <1>1 DEF AddChar
  <2> QED
    BY <2>1, <1>a, <1>b, <1>c, <1>d
<1>2. ASSUME NEW last \in BOOLEAN, NEW n, EndArg(last, n) PROVE Goal
  <2>1. \/ UNCHANGED <<pc, procvars, rval, code>>
        \/ Exit(1)
        \/ Run(args)
        \/ Run(Append(args, arg))
    BY <1>2 DEF EndArg
  <2> QED
    BY <2>1, <1>a, <1>b, <1>c, <1>d
<1>3. CASE ReadOrdinary
  BY <1>1, <1>3 DEF ReadOrdinary
<1>4. CASE ReadBackslash \/ ReadQuote
  BY <1>d, <1>4 DEF ReadBackslash, ReadQuote
<1>5. CASE ReadSeparator
  BY <1>2, <1>5 DEF ReadSeparator
<1>6. CASE ReadUnterminated
  BY <1>c, <1>6 DEF ReadUnterminated
<1>7. CASE ReadEof
  <2>1. \/ Exit(1)
        \/ pc' = "waitall" /\ UNCHANGED <<procvars, rval, code>>
        \/ EndArg(TRUE, count)
    BY <1>7 DEF ReadEof
  <2> QED
    BY <2>1, <1>2, <1>c, <1>d
<1> QED
  BY <1>3, <1>4, <1>5, <1>6, <1>7 DEF ParseInput

(* waitchildren(): what is waited for enters into the status, or ends all; *)
(* the last status is true because nothing is left to wait for.            *)
LEMMA WaitStatusLemma ==
    ASSUME IInv, StatusKept, Waitchildren \/ WaitReturns \/ WaitallReturns
    PROVE  StatusKept' /\ (Pool!Next \/ UNCHANGED Pool!poolvars)
<1> DEFINE Failed == {c \in DOMAIN fate : c \notin unreaped /\ fate[c] # "zero"}
<1>1. CASE Waitchildren
  <2>1. PICK c \in Ended : Wait(c)
    BY <1>1 DEF Waitchildren
  <2>2. c \in unreaped /\ c \in DOMAIN fate
    BY DEF Ended, IInv, TypeOK, ChildrenCounted, StatusKept
  <2>3. /\ unreaped' = unreaped \ {c} /\ opt' = opt
        /\ UNCHANGED <<childerr, fate, commands>>
    BY <1>1, <2>1 DEF Waitchildren, Wait
  <2>4. DOMAIN fate' \ unreaped' = (DOMAIN fate \ unreaped) \union {c}
    BY <2>2, <2>3
  <2>5. Failed' = IF fate[c] # "zero" THEN Failed \union {c} ELSE Failed
    BY <2>2, <2>3
  <2>6. Outcome = "none"
    BY <1>1 DEF Waitchildren, Outcome
  <2>7. CASE pc' = "exit"
    <3>1. code' \notin {0, 123} /\ rval' = rval
      BY <1>1, <2>1, <2>7 DEF Wait, Waitchildren, StatusKept
    <3>2. Outcome' = "abort"
      BY <2>7, <3>1 DEF Outcome
    <3>3. Pool!Abort
      BY <2>2, <2>3, <2>5, <2>6, <3>2 DEF Pool!Abort, Pool!Waited
    <3> QED
      BY <2>3, <2>7, <3>1, <3>3 DEF StatusKept, Pool!Next
  <2>8. CASE pc' # "exit"
    <3>1. rval' = (IF fate[c] = "zero" THEN rval ELSE 123)
      BY <2>1, <2>8 DEF Wait, WorstStatus
    <3>2. pc # "exit"
      BY <1>1 DEF Waitchildren
    <3>3. StatusKept'
      BY <2>3, <2>4, <3>1, <3>2 DEF StatusKept
    <3>4. Outcome' = "none"
      BY <2>8 DEF Outcome
    <3>5. Pool!Collect
      BY <2>2, <2>3, <2>5, <2>6, <3>4 DEF Pool!Collect, Pool!Waited
    <3> QED
      BY <3>3, <3>5 DEF Pool!Next
  <2> QED
    BY <2>7, <2>8
<1>2. CASE WaitReturns
  <2>1. pc # "exit" /\ pc' # "exit" /\ UNCHANGED <<opt, procvars, rval, code>>
    BY <1>2 DEF WaitReturns
  <2> QED
    BY <2>1, QuietLemma
<1>3. CASE WaitallReturns
  <2>1. /\ unreaped = {} /\ pc = "waitall" /\ pc' = "exit" /\ code' = rval
        /\ UNCHANGED <<opt, procvars, rval>>
    BY <1>3 DEF WaitallReturns, Exit
  <2>2. rval \in {0, 123} /\ (rval = 0 <=> Failed = {})
    BY <2>1 DEF StatusKept
  <2>3. Outcome = "none" /\ Outcome' = IF Failed = {} THEN "success" ELSE "failure"
    BY <2>1, <2>2 DEF Outcome
  <2>4. Pool!Finish
    BY <2>1, <2>3 DEF Pool!Finish, procvars
  <2>5. StatusKept'
    BY <2>1 DEF StatusKept, procvars
  <2> QED
    BY <2>4, <2>5 DEF Pool!Next
<1> QED
  BY <1>1, <1>2, <1>3

(* xargs implements the pool of commands: the initial states are initial,  *)
(* and each step starts a command in a free slot, waits for one, reports   *)
(* what became of all of them, gives up, or is none of the pool's business.*)
THEOREM Implements == Spec => PoolImplemented
<1>1. Init => Pool!Init /\ StatusKept
  <2> SUFFICES ASSUME Init PROVE Pool!Init /\ StatusKept
    OBVIOUS
  <2>1. opt.maxprocs \in Nat \ {0}
    BY OptionsAssumption DEF Init, OptionRecord
  <2>2. Outcome = "none"
    BY DEF Init, Outcome
  <2> QED
    BY <2>1, <2>2 DEF Init, Pool!Init, StatusKept
<1>2. IInv /\ StatusKept /\ [Next]_vars => StatusKept' /\ [Pool!Next]_Pool!poolvars
  <2> SUFFICES ASSUME IInv, StatusKept, [Next]_vars
               PROVE  StatusKept' /\ (Pool!Next \/ UNCHANGED Pool!poolvars)
    OBVIOUS
  <2>1. CASE ParseInput
    <3>1. pc = "read"
      BY <2>1 DEF ParseInput, ReadOrdinary, ReadBackslash, ReadQuote,
                  ReadSeparator, ReadUnterminated, ReadEof, Read
    <3> QED
      BY <2>1, <3>1, ParseStatusLemma
  <2>2. CASE Waitchildren \/ WaitReturns \/ WaitallReturns
    BY <2>2, WaitStatusLemma
  <2>3. CASE CommandEnds
    <3>1. /\ UNCHANGED <<opt, pc, commands, unreaped, childerr, rval, code>>
          /\ DOMAIN fate' = DOMAIN fate
          /\ \A c \in DOMAIN fate : c \notin unreaped => fate'[c] = fate[c]
          /\ fate' \in Seq(Ending \union {"run", "failing", "unexecuted"})
          /\ Len(fate') = Len(fate)
      <4>1. PICK c \in unreaped, how \in Ending \union {"unexecuted"} :
                   fate' = [fate EXCEPT ![c] = how]
        BY <2>3, OptionsAssumption DEF CommandEnds, IInv, TypeOK, OptionRecord
      <4> DEFINE Fate == Ending \union {"run", "failing", "unexecuted"}
      <4>2. fate \in Seq(Fate) /\ how \in Fate /\ c \in 1..Len(fate)
        BY DEF StatusKept, IInv, ChildrenCounted
      <4>3. /\ fate' \in Seq(Fate) /\ Len(fate') = Len(fate)
            /\ DOMAIN fate' = DOMAIN fate
            /\ \A d \in DOMAIN fate : d # c => fate'[d] = fate[d]
        <5> HIDE DEF Fate
        <5> QED
          BY <4>1, <4>2, ExceptSeq
      <4> QED
        BY <2>3, <4>1, <4>3 DEF CommandEnds
    <3>2. UNCHANGED Outcome
      BY <3>1 DEF Outcome
    <3>3. StatusKept'
      BY <3>1 DEF StatusKept
    <3>4. UNCHANGED {c \in DOMAIN fate : c \notin unreaped /\ fate[c] # "zero"}
      BY <3>1
    <3> QED
      BY <3>1, <3>2, <3>3, <3>4 DEF Pool!poolvars
  <2>4. CASE Exited \/ UNCHANGED vars
    <3>1. UNCHANGED vars
      BY <2>4 DEF Exited
    <3>2. UNCHANGED Outcome
      BY <3>1 DEF vars, Outcome
    <3> QED
      BY <3>1, <3>2 DEF vars, procvars, StatusKept, Pool!poolvars
  <2> QED
    BY <2>1, <2>2, <2>3, <2>4 DEF Next
<1> QED
  BY <1>1, <1>2, Counting, PTL DEF Spec, Pool!Spec, PoolImplemented

-----------------------------------------------------------------------------
(* Parsing is about recursive functions of sequences: the bytes of a list, *)
(* the reading of an input, the arguments of all commands in a row.  What  *)
(* such a function is for one more element follows from that it exists and *)
(* is the only one, by induction on the length.                            *)

(* q begins as list does.                                                  *)
Begins(list, q, n) == \A i \in 1..n : q[i] = list[i]


-----------------------------------------------------------------------------
(* The bytes of a command's arguments: Bytes, one argument at a time.      *)
BytesOf(list, n, g) ==
    g = [i \in 0..n |-> IF i = 0 THEN 0 ELSE g[i - 1] + Len(list[i]) + 1]

(* There is such a function, only one, and Bytes is its last value.        *)
LEMMA BytesExist ==
    ASSUME NEW list, NEW n \in Nat, \A i \in 1..n : Len(list[i]) \in Nat
    PROVE  \E f \in [0..n -> Nat] : BytesOf(list, n, f)
<1> DEFINE step == [p \in (1..n) \X Nat |-> p[2] + Len(list[p[1]]) + 1]
           T == Nat
<1>1. step \in Steps(n, T) /\ 0 \in T
  BY DEF Steps
<1>2. \A i \in 1..n, k \in Nat : step[<<i, k>>] = k + Len(list[i]) + 1
  OBVIOUS
<1> HIDE DEF step, T
<1>3. PICK f : Recursion(f, n, T, 0, step)
  BY <1>1, RecursionExists
<1>4. /\ f \in [0..n -> T] /\ f[0] = 0
      /\ \A i \in 1..n : f[i] = step[<<i, f[i - 1]>>]
  BY <1>3 DEF Recursion
<1>5. \A i \in 1..n : i - 1 \in 0..n /\ f[i - 1] \in Nat
  BY <1>4 DEF T
<1>6. \A i \in 1..n : f[i] = f[i - 1] + Len(list[i]) + 1
  BY <1>2, <1>4, <1>5
<1>7. \A i \in 0..n : f[i] = IF i = 0 THEN 0
                            ELSE f[i - 1] + Len(list[i]) + 1
  BY <1>4, <1>6
<1>8. f \in [0..n -> Nat]
  BY <1>4 DEF T
<1> QED
  BY <1>7, <1>8 DEF BytesOf

LEMMA BytesStep ==
    ASSUME NEW list, NEW n \in Nat, NEW f, BytesOf(list, n, f)
    PROVE  f[0] = 0 /\ \A i \in 1..n : f[i] = f[i - 1] + Len(list[i]) + 1
  BY DEF BytesOf

LEMMA BytesUnique ==
    ASSUME NEW list, NEW q, NEW n \in Nat, NEW m \in Nat, n <= m, NEW f, NEW g,
           Begins(list, q, n), BytesOf(list, n, f), BytesOf(q, m, g)
    PROVE  f[n] = g[n]
<1>1. f[0] = 0 /\ \A i \in 1..n : f[i] = f[i - 1] + Len(list[i]) + 1
  BY BytesStep
<1>2. g[0] = 0 /\ \A i \in 1..m : g[i] = g[i - 1] + Len(q[i]) + 1
  BY BytesStep
<1>3. f[0] = g[0]
  BY <1>1, <1>2
<1>4. ASSUME NEW i \in 1..n, f[i - 1] = g[i - 1] PROVE f[i] = g[i]
  <2>1. q[i] = list[i] /\ i \in 1..m
    BY DEF Begins
  <2>2. f[i] = f[i - 1] + Len(list[i]) + 1
    BY <1>1
  <2>3. g[i] = g[i - 1] + Len(q[i]) + 1
    BY <1>2, <2>1
  <2> QED
    BY <1>4, <2>1, <2>2, <2>3
<1>5. StepsAlike(f, g, n)
  BY <1>3, <1>4 DEF StepsAlike
<1> QED
  BY <1>5, RecursionUnique

LEMMA BytesRecursion ==
    ASSUME NEW list, list \in Seq(Seq(Char)), NEW n, n = Len(list)
    PROVE  /\ n \in Nat
           /\ \E f \in [0..n -> Nat] :
                 BytesOf(list, n, f) /\ f[n] = Bytes(list)
<1> DEFINE g == CHOOSE h : BytesOf(list, Len(list), h)
<1>1. /\ n \in Nat /\ n <= n /\ Begins(list, list, n)
      /\ \A i \in 1..n : Len(list[i]) \in Nat
  BY DEF Begins
<1>2. PICK f \in [0..n -> Nat] : BytesOf(list, n, f)
  BY <1>1, BytesExist
<1>3. BytesOf(list, n, g)
  BY <1>2
<1>4. Bytes(list) = g[n]
  BY DEF Bytes, BytesOf
<1> HIDE DEF g
<1>5. f[n] = g[n]
  BY <1>1, <1>2, <1>3, BytesUnique
<1> QED
  BY <1>1, <1>2, <1>4, <1>5

(* One more argument takes its length and the byte that ends it.           *)
LEMMA BytesAppend ==
    /\ Bytes(<<>>) = 0
    /\ \A list \in Seq(Seq(Char)), a \in Seq(Char) :
          /\ Bytes(list) \in Nat
          /\ Bytes(Append(list, a)) = Bytes(list) + Len(a) + 1
<1>1. Bytes(<<>>) = 0
  <2>1. <<>> \in Seq(Seq(Char)) /\ Len(<<>>) = 0
    OBVIOUS
  <2>2. PICK f : BytesOf(<<>>, 0, f) /\ f[0] = Bytes(<<>>)
    BY <2>1, BytesRecursion
  <2> QED
    BY <2>2, BytesStep
<1>2. ASSUME NEW list, NEW a, list \in Seq(Seq(Char)), a \in Seq(Char)
      PROVE  /\ Bytes(list) \in Nat
             /\ Bytes(Append(list, a)) = Bytes(list) + Len(a) + 1
  <2> DEFINE q == Append(list, a)
             n == Len(list)
             m == n + 1
  <2>1. q \in Seq(Seq(Char)) /\ m = Len(q) /\ q[m] = a /\ n = Len(list)
    BY <1>2
  <2>2. n \in Nat /\ m \in Nat /\ n <= m /\ Begins(list, q, n)
    BY <1>2 DEF Begins
  <2>3. m - 1 = n /\ m \in 1..m /\ n \in 0..n
    BY <2>2
  <2> HIDE DEF q, n, m
  <2>4. PICK f : /\ f \in [0..n -> Nat]
                 /\ BytesOf(list, n, f)
                 /\ f[n] = Bytes(list)
    BY <1>2, <2>1, BytesRecursion
  <2>5. PICK g : BytesOf(q, m, g) /\ g[m] = Bytes(q)
    BY <2>1, BytesRecursion
  <2>6. f[n] = g[n]
    BY <2>2, <2>4, <2>5, BytesUnique
  <2>7. g[m] = g[m - 1] + Len(q[m]) + 1
    <3>1. \A i \in 1..m : g[i] = g[i - 1] + Len(q[i]) + 1
      BY <2>2, <2>5, BytesStep
    <3> QED
      BY <2>3, <3>1
  <2>8. f[n] \in Nat
    BY <2>3, <2>4
  <2>9. Bytes(list) \in Nat /\ Bytes(q) = Bytes(list) + Len(a) + 1
    BY <2>1, <2>3, <2>4, <2>5, <2>6, <2>7, <2>8
  <2> QED
    BY <2>9 DEF q
<1> QED
  BY <1>1, <1>2

(* Only no arguments take no bytes.                                        *)
LEMMA BytesPositive ==
    ASSUME NEW list, list \in Seq(Seq(Char))
    PROVE  /\ Bytes(list) \in Nat
           /\ Bytes(list) = 0 <=> list = <<>>
<1>1. CASE list = <<>>
  BY <1>1, BytesAppend
<1>2. CASE list # <<>>
  <2>1. PICK q \in Seq(Seq(Char)), a \in Seq(Char) : list = Append(q, a)
    BY <1>2, SequenceEmptyOrAppend
  <2>2. /\ Bytes(list) = Bytes(q) + Len(a) + 1
        /\ Bytes(q) \in Nat
        /\ Len(a) \in Nat
    BY <2>1, BytesAppend
  <2>3. Bytes(list) \in Nat /\ Bytes(list) # 0
    BY <2>2
  <2> QED
    BY <1>2, <2>3
<1> QED
  BY <1>1, <1>2


-----------------------------------------------------------------------------
(* The manual's reading of an input, one character at a time: Scanned.     *)
Symbol == Char \union {"EOF"}
ScanState == [tokens : Seq(Seq(Char)), token : Seq(Char), open : BOOLEAN,
              q : {"none", "sq", "dq"}, esc : BOOLEAN]

(* Scan stays within ScanState.                                            *)
LEMMA ScanType ==
    ASSUME NEW z, NEW s \in ScanState, NEW c \in Symbol
    PROVE  Scan(z, s, c) \in ScanState
<1> DEFINE add == [s EXCEPT !.token = Append(@, c), !.open = TRUE,
                            !.esc = FALSE]
           end == IF s.open THEN [s EXCEPT !.tokens = Append(@, s.token),
                                           !.token = <<>>, !.open = FALSE]
                  ELSE s
<1>0. s.tokens \in Seq(Seq(Char)) /\ s.token \in Seq(Char)
  BY DEF ScanState
<1>1. c \in Char => add \in ScanState
  <2>1. c \in Char => Append(s.token, c) \in Seq(Char)
    BY <1>0
  <2> QED
    BY <2>1 DEF ScanState
<1>2. end \in ScanState
  <2>1. Append(s.tokens, s.token) \in Seq(Seq(Char)) /\ <<>> \in Seq(Char)
    BY <1>0
  <2> QED
    BY <2>1 DEF ScanState
<1>3. /\ [s EXCEPT !.q = "none"] \in ScanState
      /\ [s EXCEPT !.esc = TRUE] \in ScanState
      /\ c \in {"sq", "dq"} => [s EXCEPT !.q = c, !.open = TRUE] \in ScanState
  BY DEF ScanState
<1>4. s.esc \in BOOLEAN
  BY DEF ScanState
<1>5. c # "EOF" => c \in Char
  BY DEF Symbol
<1>6. Scan(z, s, c) = IF c = "EOF" THEN end
        ELSE IF z
        THEN IF c = "nul" THEN end ELSE add
        ELSE CASE s.esc -> add
               [] ~s.esc /\ s.q # "none" /\ c = s.q -> [s EXCEPT !.q = "none"]
               [] ~s.esc /\ s.q # "none" /\ c # s.q -> add
               [] ~s.esc /\ ~(s.q # "none") /\ c = "bs" ->
                    [s EXCEPT !.esc = TRUE]
               [] ~s.esc /\ ~(s.q # "none") /\ c \in {"sq", "dq"} ->
                    [s EXCEPT !.q = c, !.open = TRUE]
               [] ~s.esc /\ ~(s.q # "none") /\ c \in {"sp", "nl"} -> end
               [] OTHER -> add
  BY DEF Scan
<1> HIDE DEF add, end
<1> QED
  BY <1>1, <1>2, <1>3, <1>4, <1>5, <1>6

ScanOf(z, text, n, g) == g = [i \in 0..n |-> IF i = 0 THEN NoInput
                                             ELSE Scan(z, g[i - 1], text[i])]

(* As for the bytes: one function, and Scanned is its last value.          *)
LEMMA ScanExists ==
    ASSUME NEW z, NEW text, NEW n \in Nat, \A i \in 1..n : text[i] \in Symbol
    PROVE  \E f \in [0..n -> ScanState] : ScanOf(z, text, n, f)
<1> DEFINE step == [p \in (1..n) \X ScanState |-> Scan(z, p[2], text[p[1]])]
<1>0. NoInput \in ScanState
  BY DEF NoInput, ScanState
<1>1. step \in Steps(n, ScanState)
  BY ScanType DEF Steps
<1>2. \A i \in 1..n, s \in ScanState : step[<<i, s>>] = Scan(z, s, text[i])
  OBVIOUS
<1> HIDE DEF step
<1>a. PICK f : Recursion(f, n, ScanState, NoInput, step)
  BY <1>0, <1>1, RecursionExists
<1>3. /\ f \in [0..n -> ScanState] /\ f[0] = NoInput
      /\ \A i \in 1..n : f[i] = step[<<i, f[i - 1]>>]
  BY <1>a DEF Recursion
<1>4. \A i \in 1..n : i - 1 \in 0..n /\ f[i - 1] \in ScanState
  BY <1>3
<1>5. \A i \in 1..n : f[i] = Scan(z, f[i - 1], text[i])
  BY <1>2, <1>3, <1>4
<1>6. \A i \in 0..n : f[i] = IF i = 0 THEN NoInput
                            ELSE Scan(z, f[i - 1], text[i])
  BY <1>3, <1>5
<1> QED
  BY <1>3, <1>6 DEF ScanOf

LEMMA ScanStep ==
    ASSUME NEW z, NEW text, NEW n \in Nat, NEW f, ScanOf(z, text, n, f)
    PROVE  f[0] = NoInput /\ \A i \in 1..n : f[i] = Scan(z, f[i - 1], text[i])
  BY DEF ScanOf

LEMMA ScanUnique ==
    ASSUME NEW z, NEW text, NEW t, NEW n \in Nat, NEW m \in Nat, n <= m,
           NEW f, NEW g,
           Begins(text, t, n), ScanOf(z, text, n, f), ScanOf(z, t, m, g)
    PROVE  f[n] = g[n]
<1>1. f[0] = NoInput /\ \A i \in 1..n : f[i] = Scan(z, f[i - 1], text[i])
  BY ScanStep
<1>2. g[0] = NoInput /\ \A i \in 1..m : g[i] = Scan(z, g[i - 1], t[i])
  BY ScanStep
<1>3. StepsAlike(f, g, n)
  BY <1>1, <1>2 DEF Begins, StepsAlike
<1> QED
  BY <1>3, RecursionUnique

LEMMA ScanRecursion ==
    ASSUME NEW z, NEW text, text \in Seq(Symbol), NEW n, n = Len(text)
    PROVE  /\ n \in Nat
           /\ \E f \in [0..n -> ScanState] :
                 ScanOf(z, text, n, f) /\ f[n] = Scanned(z, text)
<1> DEFINE g == CHOOSE h : ScanOf(z, text, Len(text), h)
<1>0. /\ n \in Nat /\ n <= n /\ Begins(text, text, n)
      /\ \A i \in 1..n : text[i] \in Symbol
  BY DEF Begins
<1>1. PICK f \in [0..n -> ScanState] : ScanOf(z, text, n, f)
  BY <1>0, ScanExists
<1>2. ScanOf(z, text, n, g)
  BY <1>1
<1>3. Scanned(z, text) = g[n]
  BY DEF Scanned, ScanOf
<1> HIDE DEF g
<1>4. f[n] = g[n]
  BY <1>0, <1>1, <1>2, ScanUnique
<1> QED
  BY <1>0, <1>1, <1>3, <1>4

(* One more character is one more step of Scan.                            *)
LEMMA ScanAppend ==
    /\ \A z : Scanned(z, <<>>) = NoInput
    /\ \A z : \A text \in Seq(Symbol), c \in Symbol :
          /\ Scanned(z, text) \in ScanState
          /\ Scanned(z, Append(text, c)) = Scan(z, Scanned(z, text), c)
<1>1. ASSUME NEW z PROVE Scanned(z, <<>>) = NoInput
  <2>1. <<>> \in Seq(Symbol) /\ Len(<<>>) = 0
    OBVIOUS
  <2>2. PICK f : ScanOf(z, <<>>, 0, f) /\ f[0] = Scanned(z, <<>>)
    BY <2>1, ScanRecursion
  <2> QED
    BY <2>2, ScanStep
<1>2. ASSUME NEW z, NEW text, NEW c, text \in Seq(Symbol), c \in Symbol
      PROVE  /\ Scanned(z, text) \in ScanState
             /\ Scanned(z, Append(text, c)) = Scan(z, Scanned(z, text), c)
  <2> DEFINE t == Append(text, c)
             n == Len(text)
             m == n + 1
  <2>1. t \in Seq(Symbol) /\ m = Len(t) /\ t[m] = c /\ n = Len(text)
    BY <1>2
  <2>2. n \in Nat /\ m \in Nat /\ n <= m /\ Begins(text, t, n)
    BY <1>2 DEF Begins
  <2>a. m - 1 = n /\ m \in 1..m /\ n \in 0..n
    BY <2>2
  <2> HIDE DEF t, n, m
  <2>3. PICK f : /\ f \in [0..n -> ScanState]
                 /\ ScanOf(z, text, n, f)
                 /\ f[n] = Scanned(z, text)
    BY <1>2, <2>1, ScanRecursion
  <2>4. PICK g : ScanOf(z, t, m, g) /\ g[m] = Scanned(z, t)
    BY <2>1, ScanRecursion
  <2>5. f[n] = g[n]
    BY <2>2, <2>3, <2>4, ScanUnique
  <2>6. g[m] = Scan(z, g[m - 1], t[m])
    <3>1. \A i \in 1..m : g[i] = Scan(z, g[i - 1], t[i])
      BY <2>2, <2>4, ScanStep
    <3> QED
      BY <2>a, <3>1
  <2>7. f[n] \in ScanState
    BY <2>a, <2>3
  <2>8. /\ Scanned(z, text) \in ScanState
        /\ Scanned(z, t) = Scan(z, Scanned(z, text), c)
    BY <2>1, <2>a, <2>3, <2>4, <2>5, <2>6, <2>7
  <2> QED
    BY <2>8 DEF t
<1> QED
  BY <1>1, <1>2

-----------------------------------------------------------------------------
(* FlattenSeq, one sequence at a time.                                     *)
Cat(s, t) == s \o t
JoinOf(list, n, f) == /\ f[0] = <<>>
                      /\ \A i \in 1..n : f[i] = Cat(f[i - 1], list[i])
FlattenOf(list, n, g) == g = [i \in 1..n |-> IF i = 1 THEN list[i]
                                             ELSE Cat(g[i - 1], list[i])]

(* There is such a function, only one, and FlattenSeq is its last value.   *)
LEMMA JoinExists ==
    ASSUME NEW S, NEW list, NEW n \in Nat, \A i \in 1..n : list[i] \in Seq(S)
    PROVE  \E f \in [0..n -> Seq(S)] : JoinOf(list, n, f)
<1> DEFINE T == Seq(S)
           step == [p \in (1..n) \X T |-> p[2] \o list[p[1]]]
<1>1. step \in Steps(n, T) /\ <<>> \in T
  <2>1. \A p \in (1..n) \X T : p[2] \o list[p[1]] \in T
    OBVIOUS
  <2> QED
    BY <2>1 DEF Steps
<1>2. \A i \in 1..n, s \in T : step[<<i, s>>] = Cat(s, list[i])
  BY DEF Cat
<1> HIDE DEF step, T
<1>3. PICK f : Recursion(f, n, T, <<>>, step)
  BY <1>1, RecursionExists
<1>4. /\ f \in [0..n -> T] /\ f[0] = <<>>
      /\ \A i \in 1..n : f[i] = step[<<i, f[i - 1]>>]
  BY <1>3 DEF Recursion
<1>5. \A i \in 1..n : i - 1 \in 0..n /\ f[i - 1] \in T
  BY <1>4
<1>6. \A i \in 1..n : f[i] = Cat(f[i - 1], list[i])
  BY <1>2, <1>4, <1>5
<1> QED
  BY <1>4, <1>6 DEF JoinOf, T

LEMMA JoinFlatten ==
    ASSUME NEW S, NEW list, NEW n \in Nat, n # 0, NEW f, NEW g,
           list[1] \in Seq(S), JoinOf(list, n, f), FlattenOf(list, n, g)
    PROVE  f[n] = g[n]
<1> DEFINE h == [i \in 0..n |-> IF i = 0 THEN <<>> ELSE g[i]]
<1>1. \A i \in 1..n : g[i] = IF i = 1 THEN list[i] ELSE Cat(g[i - 1], list[i])
  BY DEF FlattenOf
<1>2. f[0] = <<>> /\ \A i \in 1..n : f[i] = Cat(f[i - 1], list[i])
  BY DEF JoinOf
<1>3. /\ h[0] = <<>>
      /\ \A i \in 1..n : h[i] = g[i] /\ (i # 1 => h[i - 1] = g[i - 1])
  OBVIOUS
<1> HIDE DEF h
<1>4. Cat(<<>>, list[1]) = list[1]
  BY DEF Cat
<1>5. ASSUME NEW i \in 1..n, f[i - 1] = h[i - 1] PROVE f[i] = h[i]
  <2>1. f[i] = Cat(f[i - 1], list[i]) /\ h[i] = g[i]
    BY <1>2, <1>3
  <2>2. g[i] = IF i = 1 THEN list[i] ELSE Cat(g[i - 1], list[i])
    BY <1>1
  <2>3. CASE i = 1
    BY <1>2, <1>4, <2>1, <2>2, <2>3
  <2>4. CASE i # 1
    BY <1>3, <1>5, <2>1, <2>2, <2>4
  <2> QED
    BY <2>3, <2>4
<1>6. f[0] = h[0]
  BY <1>2, <1>3
<1>7. \A i \in 0..n : f[i] = h[i]
  <2>1. StepsAlike(f, h, n)
    BY <1>5, <1>6 DEF StepsAlike
  <2> QED
    BY <2>1, RecursionUnique
<1> QED
  BY <1>3, <1>7

LEMMA JoinUnique ==
    ASSUME NEW list, NEW q, NEW n \in Nat, NEW m \in Nat, n <= m, NEW f, NEW g,
           Begins(list, q, n), JoinOf(list, n, f), JoinOf(q, m, g)
    PROVE  f[n] = g[n]
<1>1. f[0] = <<>> /\ \A i \in 1..n : f[i] = Cat(f[i - 1], list[i])
  BY DEF JoinOf
<1>2. g[0] = <<>> /\ \A i \in 1..m : g[i] = Cat(g[i - 1], q[i])
  BY DEF JoinOf
<1>3. StepsAlike(f, g, n)
  BY <1>1, <1>2 DEF Begins, StepsAlike
<1> QED
  BY <1>3, RecursionUnique

LEMMA FlattenRecursion ==
    ASSUME NEW S, NEW list, list \in Seq(Seq(S)), NEW n, n = Len(list)
    PROVE  /\ n \in Nat
           /\ \E f \in [0..n -> Seq(S)] :
                 JoinOf(list, n, f) /\ f[n] = FlattenSeq(list)
<1> DEFINE g == CHOOSE h : FlattenOf(list, Len(list), h)
<1>0. n \in Nat /\ (\A i \in 1..n : list[i] \in Seq(S))
  OBVIOUS
<1>1. PICK f \in [0..n -> Seq(S)] : JoinOf(list, n, f)
  BY <1>0, JoinExists
<1>2. CASE n = 0
  <2>1. Len(list) = 0 /\ list = <<>>
    BY <1>2, EmptySeq
  <2>a. FlattenSeq(list) = <<>>
    BY <2>1 DEF FlattenSeq
  <2> QED
    BY <1>0, <1>1, <1>2, <2>a DEF JoinOf
<1>3. CASE n # 0
  <2>1. FlattenOf(list, n, [i \in 1..n |-> f[i]])
    <3>1. \A i \in 1..n : f[i] = IF i = 1 THEN list[i]
                                ELSE Cat(f[i - 1], list[i])
      <4>1. list[1] \in Seq(S)
        BY <1>0, <1>3
      <4>2. Cat(<<>>, list[1]) = list[1]
        BY <4>1 DEF Cat
      <4>3. f[0] = <<>> /\ \A i \in 1..n : f[i] = Cat(f[i - 1], list[i])
        BY <1>1 DEF JoinOf
      <4> HIDE DEF g
      <4> QED
        BY <1>0, <4>2, <4>3
    <3>2. \A i \in 1..n : i # 1 => i - 1 \in 1..n
      BY <1>0
    <3> QED
      BY <3>1, <3>2 DEF FlattenOf
  <2>2. FlattenOf(list, n, g)
    BY <2>1
  <2>3. FlattenSeq(list) = g[n]
    BY <1>3 DEF FlattenSeq, FlattenOf, Cat
  <2> HIDE DEF g
  <2>4. list[1] \in Seq(S)
    BY <1>0, <1>3
  <2>5. f[n] = g[n]
    <3>1. n \in Nat /\ JoinOf(list, n, f)
      BY <1>0, <1>1
    <3> QED
      BY <1>3, <2>2, <2>4, <3>1, JoinFlatten
  <2> QED
    BY <1>0, <1>1, <2>3, <2>5
<1> QED
  BY <1>2, <1>3

(* What is delivered with one more command.                                *)
LEMMA FlattenAppend ==
    /\ FlattenSeq(<<>>) = <<>>
    /\ \A S, list, r : list \in Seq(Seq(S)) /\ r \in Seq(S) =>
          /\ FlattenSeq(list) \in Seq(S)
          /\ FlattenSeq(Append(list, r)) = FlattenSeq(list) \o r
<1>1. FlattenSeq(<<>>) = <<>>
  BY DEF FlattenSeq
<1>2. ASSUME NEW S, NEW list, NEW r, list \in Seq(Seq(S)), r \in Seq(S)
      PROVE  /\ FlattenSeq(list) \in Seq(S)
             /\ FlattenSeq(Append(list, r)) = FlattenSeq(list) \o r
  <2> DEFINE q == Append(list, r)
             n == Len(list)
             m == n + 1
  <2>1. q \in Seq(Seq(S)) /\ m = Len(q) /\ q[m] = r /\ n = Len(list)
    BY <1>2
  <2>2. n \in Nat /\ m \in Nat /\ n <= m /\ Begins(list, q, n)
    BY <1>2 DEF Begins
  <2>a. m - 1 = n /\ m \in 1..m /\ n \in 0..n
    BY <2>2
  <2> HIDE DEF q, n, m
  <2>3. PICK f : /\ f \in [0..n -> Seq(S)]
                 /\ JoinOf(list, n, f)
                 /\ f[n] = FlattenSeq(list)
    BY <1>2, <2>1, FlattenRecursion
  <2>4. PICK g : JoinOf(q, m, g) /\ g[m] = FlattenSeq(q)
    BY <2>1, FlattenRecursion
  <2>5. f[n] = g[n]
    BY <2>2, <2>3, <2>4, JoinUnique
  <2>6. g[m] = g[m - 1] \o q[m]
    BY <2>a, <2>4 DEF JoinOf, Cat
  <2>7. f[n] \in Seq(S)
    BY <2>a, <2>3
  <2>8. FlattenSeq(list) \in Seq(S) /\ FlattenSeq(q) = FlattenSeq(list) \o r
    BY <2>1, <2>a, <2>3, <2>4, <2>5, <2>6, <2>7
  <2> QED
    BY <2>8 DEF q
<1> QED
  BY <1>1, <1>2

-----------------------------------------------------------------------------
(* What the proofs say of parsing.  DataOK: the types that TypeOK leaves   *)
(* out.                                                                    *)
DataOK ==
    /\ input \in Seq(Symbol)
    /\ used \in Nat
    /\ wasquoted \in BOOLEAN /\ escaped \in BOOLEAN /\ stop \in BOOLEAN
    /\ quote \in {"none", "single", "double"}

(* argp - bbp counts the bytes of the complete arguments.                  *)
Total == used = Bytes(args)

AtEof == input # <<>> /\ input[Len(input)] = "EOF"
QuoteOf == [none |-> "none", single |-> "sq", double |-> "dq"]

(* While input is read, the flags of parse_input() are what the manual's   *)
(* reading s of it has come to, and its arguments are delivered, in args or*)
(* begun.                                                                  *)
Matches(s) ==
    /\ s.tokens = Delivered \o args
    /\ s.token = arg
    /\ s.open = (arg # <<>> \/ wasquoted)
    /\ s.q = QuoteOf[quote]
    /\ s.esc = escaped
    /\ opt.zero => quote = "none" /\ ~escaped
    /\ quote # "none" => wasquoted

(* After its end nothing more is read and nothing is left to deliver, but  *)
(* for an empty argument at the end.                                       *)
AllDelivered(s) ==
    /\ pc # "read" /\ (pc = "wait" => stop)
    /\ \/ s.tokens = Delivered \o args
       \/ s.tokens = Append(Delivered, <<>>)

Reading ==
    opt.eofstr = <<>> /\ (pc = "exit" => code # 1) =>
        IF AtEof THEN AllDelivered(Scanned(opt.zero, input))
        ELSE /\ pc # "waitall" /\ ~stop
             /\ Matches(Scanned(opt.zero, input))

(* The argument that the next command will begin with, as far as it is     *)
(* known, and a command that had no room for it.                           *)
First == IF args # <<>> THEN args[1] ELSE arg
FullFor(list, next) ==
    \/ Len(list) = opt.nargs
    \/ Bytes(list) + Len(next) + 1 > opt.size
Bounded(list) ==
    list # <<>> /\ Len(list) <= opt.nargs /\ Bytes(list) <= opt.size

(* There is room for the argument that is read, and the last command was   *)
(* as full as it could be with what has been read since.                   *)
Collecting ==
    /\ Len(args) < opt.nargs
    /\ used + Len(arg) <= opt.size - 1
    /\ stop => pc # "read"
    /\ \A i \in DOMAIN commands : Bounded(commands[i])
    /\ \A i \in DOMAIN commands :
          i < Len(commands) => FullFor(commands[i], commands[i + 1][1])
    /\ commands # <<>> /\ ~stop => FullFor(commands[Len(commands)], First)
Filling == ~opt.x /\ opt.eofstr = <<>> => Collecting

(* The inductive invariant of parse_input().                               *)
ParseInv == DataOK /\ Total /\ Reading /\ Filling

(* Command lines are what OptionsAssumption says.                          *)
LEMMA OptionFacts ==
    ASSUME IInv
    PROVE  /\ opt.nargs \in Nat \ {0} /\ opt.size \in Nat \ {0}
           /\ opt.lines \in Nat /\ opt.x \in BOOLEAN /\ opt.zero \in BOOLEAN
           /\ opt.alphabet \subseteq Char
  BY OptionsAssumption DEF IInv, TypeOK, OptionRecord

(* What Run(list) delivers.                                                *)
LEMMA DeliverLemma ==
    ASSUME IInv
    PROVE  /\ Delivered \in Seq(Seq(Char))
           /\ \A list \in Seq(Seq(Char)) :
                 Run(list) => Delivered' = Delivered \o list
           /\ UNCHANGED commands => Delivered' = Delivered
<1> DEFINE S == Seq(Char)
<1>1. commands \in Seq(Seq(S))
  BY DEF IInv, TypeOK
<1> HIDE DEF S
<1>2. Delivered \in Seq(S)
  <2>1. <<>> \in Seq(S)
    OBVIOUS
  <2> QED
    BY <1>1, <2>1, FlattenAppend DEF Delivered
<1>3. ASSUME NEW list, list \in Seq(S), Run(list)
      PROVE  Delivered' = Delivered \o list
  <2>1. commands' = Append(commands, list)
    BY <1>3 DEF Run
  <2>2. FlattenSeq(Append(commands, list)) = FlattenSeq(commands) \o list
    BY <1>1, <1>3, FlattenAppend
  <2> QED
    BY <2>1, <2>2 DEF Delivered
<1>4. UNCHANGED commands => Delivered' = Delivered
  BY DEF Delivered
<1>5. Delivered \in Seq(Seq(Char))
  BY <1>2 DEF S
<1> QED
  BY <1>3, <1>4, <1>5 DEF S

(* One more character is scanned.                                          *)
LEMMA ScannedLemma ==
    ASSUME IInv, DataOK, NEW c, c \in Symbol, input' = Append(input, c),
           opt' = opt
    PROVE  /\ Scanned(opt.zero, input) \in ScanState
           /\ Scanned(opt.zero, input)'
              = Scan(opt.zero, Scanned(opt.zero, input), c)
           /\ AtEof' <=> c = "EOF"
<1>1. input \in Seq(Symbol)
  BY DEF DataOK
<1>2. /\ Scanned(opt.zero, input) \in ScanState
      /\ Scanned(opt.zero, Append(input, c))
         = Scan(opt.zero, Scanned(opt.zero, input), c)
  BY <1>1, ScanAppend
<1>3. input' # <<>> /\ input'[Len(input')] = c
  BY <1>1
<1> QED
  BY <1>2, <1>3 DEF AtEof

(* Concatenation, as the proofs below need it.                             *)
LEMMA ConcatFacts ==
    ASSUME NEW S, NEW d \in Seq(S), NEW a \in Seq(S), NEW x \in S
    PROVE  /\ d \o <<>> = d
           /\ d \o Append(a, x) = Append(d \o a, x)
           /\ d \o a \in Seq(S)
  BY ConcatProperties, AppendIsConcat, ConcatAssociative, ConcatEmptySeq

(* EndArg: the argument joins the others if it has begun.                  *)
LEMMA EndLemma ==
    ASSUME IInv, DataOK, NEW last \in BOOLEAN, NEW n, EndArg(last, n),
           opt.eofstr = <<>>, pc' = "exit" => code' # 1
    PROVE  /\ Delivered' \o args' = IF arg # <<>> \/ wasquoted
                                    THEN Append(Delivered \o args, arg)
                                    ELSE Delivered \o args
           /\ arg' = <<>> /\ wasquoted' = FALSE
           /\ \/ ~last /\ UNCHANGED <<pc, stop>>
              \/ pc' = "wait" /\ (stop' <=> last) /\ stop' \in BOOLEAN
<1> DEFINE keep == arg # <<>> \/ wasquoted
           list == IF keep THEN Append(args, arg) ELSE args
<1>1. ~FoundEof
  BY DEF FoundEof
<1>2. args \in Seq(Seq(Char)) /\ arg \in Seq(Char) /\ list \in Seq(Seq(Char))
  BY DEF IInv, TypeOK
<1>3. /\ arg' = <<>> /\ wasquoted' = FALSE
      /\ \/ ~last /\ UNCHANGED <<pc, stop, commands>> /\ args' = list
         \/ Run(list) /\ stop' = last /\ args' = <<>>
  BY <1>1 DEF EndArg, Exit, procvars
<1>4. Delivered \in Seq(Seq(Char))
  BY DeliverLemma
<1>5. Delivered' \o args' = Delivered \o list
  <2>1. CASE UNCHANGED commands /\ args' = list
    BY <2>1, DeliverLemma
  <2>2. CASE Run(list) /\ args' = <<>>
    <3>1. Delivered' = Delivered \o list
      BY <1>2, <2>2, DeliverLemma
    <3>2. Delivered \o list \in Seq(Seq(Char))
      BY <1>2, <1>4
    <3> HIDE DEF list
    <3> QED
      BY <2>2, <3>1, <3>2, ConcatEmptySeq
  <2> QED
    BY <1>3, <2>1, <2>2
<1>6. Delivered \o Append(args, arg) = Append(Delivered \o args, arg)
  BY <1>2, <1>4, ConcatFacts
<1>7. Run(list) => pc' = "wait"
  BY DEF Run
<1>8. Delivered \o list = IF keep THEN Append(Delivered \o args, arg)
                          ELSE Delivered \o args
  BY <1>6
<1>9. \/ ~last /\ UNCHANGED <<pc, stop>>
      \/ pc' = "wait" /\ (stop' <=> last) /\ stop' \in BOOLEAN
  BY <1>3, <1>7
<1> QED
  BY <1>3, <1>5, <1>8, <1>9

(* What is known of the input while it is read.                            *)
LEMMA WhileReading ==
    ASSUME IInv, Reading, pc = "read", opt.eofstr = <<>>
    PROVE  ~AtEof /\ ~stop /\ Matches(Scanned(opt.zero, input))
  BY DEF Reading, AllDelivered

(* What is to be shown while input is read.                                *)
LEMMA ReadingIntro ==
    ASSUME NEW t, t = Scanned(opt.zero, input)', ~AtEof', pc' # "waitall",
           ~stop', t.tokens = Delivered' \o args', t.token = arg',
           t.open = (arg' # <<>> \/ wasquoted'), t.q = QuoteOf[quote'],
           t.esc = escaped', opt'.zero => quote' = "none" /\ ~escaped',
           quote' # "none" => wasquoted'
    PROVE  Reading'
  BY DEF Reading, Matches

(* An ordinary character extends the argument.                             *)
LEMMA OrdinaryReading ==
    ASSUME IInv, DataOK, Total, Reading, ReadOrdinary
    PROVE  Reading'
<1> SUFFICES ASSUME opt.eofstr = <<>>, pc' = "exit" => code' # 1
             PROVE  Reading'
  BY DEF Reading, ReadOrdinary, Kept
<1> DEFINE s == Scanned(opt.zero, input)
<1>0. PICK t : t = Scanned(opt.zero, input)'
  OBVIOUS
<1>1. PICK c \in Char :
         /\ Read(c)
         /\ \/ escaped
            \/ c \in {"a", "b"}
            \/ opt.zero /\ c # "nul"
            \/ ~opt.zero /\ c = "nul"
            \/ Quoted /\ c \in {"sp", "bs"}
            \/ quote = "single" /\ c = "dq"
            \/ quote = "double" /\ c = "sq"
         /\ AddChar(c)
         /\ escaped' = FALSE
         /\ Kept
         /\ UNCHANGED quote
  BY DEF ReadOrdinary
<1>2. /\ pc = "read"
      /\ input' = Append(input, c)
      /\ opt' = opt
      /\ c \in Symbol
      /\ c # "EOF"
  BY <1>1 DEF Read, Kept, Symbol, Char
<1>3. /\ ~stop
      /\ Matches(s)
      /\ stop' = stop
      /\ wasquoted' = wasquoted
      /\ quote' = quote
  BY <1>1, <1>2, WhileReading DEF Kept
<1>4. s \in ScanState /\ t = Scan(opt.zero, s, c) /\ ~AtEof'
  BY <1>0, <1>2, ScannedLemma
<1> HIDE DEF s
<1>5. t = [s EXCEPT !.token = Append(@, c), !.open = TRUE, !.esc = FALSE]
  BY <1>1, <1>2, <1>3, <1>4 DEF Scan, Matches, Quoted, QuoteOf, Char,
                                ScanState, DataOK
<1>6. /\ t.tokens = s.tokens /\ t.token = Append(s.token, c) /\ t.open = TRUE
      /\ t.esc = FALSE /\ t.q = s.q
  BY <1>4, <1>5 DEF ScanState
<1>7. /\ args \in Seq(Seq(Char))
      /\ arg \in Seq(Char)
      /\ Delivered \in Seq(Seq(Char))
  BY DeliverLemma DEF IInv, TypeOK
<1>8. /\ Delivered' \o args' = Delivered \o args
      /\ arg' = Append(arg, c) /\ arg' # <<>>
      /\ pc' # "waitall"
  <2>1. Append(arg, c) # <<>>
    BY <1>7, AppendProperties
  <2>2. CASE arg' = Append(arg, c) /\ UNCHANGED <<pc, args, commands>>
    BY <1>2, <2>1, <2>2, DeliverLemma
  <2>3. CASE Run(args) /\ args' = <<>> /\ arg' = Append(arg, c)
    <3>1. Delivered' = Delivered \o args
      BY <1>7, <2>3, DeliverLemma
    <3>2. Delivered \o args \in Seq(Seq(Char))
      BY <1>7
    <3>3. (Delivered \o args) \o <<>> = Delivered \o args
      BY <3>2, ConcatEmptySeq
    <3>4. pc' = "wait"
      BY <2>3 DEF Run
    <3> QED
      BY <2>1, <2>3, <3>1, <3>3, <3>4
  <2> QED
    BY <1>1, <2>2, <2>3 DEF AddChar, Exit, procvars, CarriedOver
<1>9. /\ t.q = QuoteOf[quote'] /\ t.esc = escaped'
      /\ opt'.zero => quote' = "none" /\ ~escaped'
      /\ quote' # "none" => wasquoted'
  BY <1>1, <1>2, <1>3, <1>6 DEF Matches
<1>10. /\ t.tokens = Delivered' \o args' /\ t.token = arg'
       /\ t.open = (arg' # <<>> \/ wasquoted')
  BY <1>3, <1>6, <1>8 DEF Matches
<1> QED
  BY <1>0, <1>3, <1>4, <1>8, <1>9, <1>10, ReadingIntro

(* A backslash or a quote changes what the next characters mean.           *)
LEMMA MarkReading ==
    ASSUME IInv, DataOK, Total, Reading, ReadBackslash \/ ReadQuote
    PROVE  Reading'
<1> SUFFICES ASSUME opt.eofstr = <<>>
             PROVE  Reading'
  BY DEF Reading, ReadBackslash, ReadQuote
<1> DEFINE s == Scanned(opt.zero, input)
<1>0. PICK t : t = Scanned(opt.zero, input)'
  OBVIOUS
<1>1. PICK c \in {"bs", "sq", "dq"} :
         /\ Read(c)
         /\ ~opt.zero /\ ~escaped
         /\ UNCHANGED <<opt, pc, arg, args, stop, commands>>
         /\ \/ /\ c = "bs" /\ ~Quoted /\ escaped' = TRUE
               /\ UNCHANGED <<quote, wasquoted>>
            \/ /\ c = "sq" /\ quote # "double" /\ wasquoted' = TRUE
               /\ quote' = IF quote = "single" THEN "none" ELSE "single"
               /\ escaped' = escaped
            \/ /\ c = "dq" /\ quote # "single" /\ wasquoted' = TRUE
               /\ quote' = IF quote = "double" THEN "none" ELSE "double"
               /\ escaped' = escaped
  BY DEF ReadBackslash, ReadQuote, procvars
<1>2. pc = "read" /\ input' = Append(input, c) /\ c \in Symbol /\ c # "EOF"
  BY <1>1 DEF Read, Symbol, Char
<1>3. ~stop /\ Matches(s)
  BY <1>2, WhileReading
<1>4. s \in ScanState /\ t = Scan(opt.zero, s, c) /\ ~AtEof'
  BY <1>0, <1>1, <1>2, ScannedLemma
<1>5. Delivered' = Delivered
  BY <1>1, DeliverLemma
<1> HIDE DEF s
<1>6. /\ t.tokens = s.tokens /\ t.token = s.token
      /\ t.open = (arg # <<>> \/ wasquoted')
      /\ t.q = QuoteOf[quote'] /\ t.esc = escaped'
      /\ quote' # "none" => wasquoted'
  <2>1. ~s.esc /\ s.q = QuoteOf[quote] /\ s.open = (arg # <<>> \/ wasquoted)
    BY <1>1, <1>3 DEF Matches
  <2>2. quote \in {"none", "single", "double"} /\ (quote # "none" => wasquoted)
    BY <1>3 DEF DataOK, Matches
  <2>3. CASE /\ c = "bs"
             /\ ~Quoted
             /\ escaped' = TRUE
             /\ UNCHANGED <<quote, wasquoted>>
    <3>1. t = [s EXCEPT !.esc = TRUE]
      BY <1>1, <1>4, <2>1, <2>3 DEF Scan, Quoted, QuoteOf
    <3> QED
      BY <1>4, <2>1, <2>2, <2>3, <3>1 DEF ScanState, Quoted
  <2>4. CASE /\ c \in {"sq", "dq"} /\ quote = "none"
    <3>1. t = [s EXCEPT !.q = c, !.open = TRUE]
      BY <1>1, <1>4, <2>1, <2>4 DEF Scan, QuoteOf
    <3>2. /\ quote' = (IF c = "sq" THEN "single" ELSE "double")
          /\ wasquoted' = TRUE
          /\ ~escaped'
      BY <1>1, <2>4
    <3>3. /\ t.tokens = s.tokens
          /\ t.token = s.token
          /\ t.open = TRUE
          /\ t.q = c
          /\ t.esc = s.esc
      BY <1>4, <3>1 DEF ScanState
    <3>4. escaped' = escaped /\ s.esc = escaped
      BY <1>1, <1>3, <2>4 DEF Matches
    <3> QED
      BY <2>1, <2>4, <3>2, <3>3, <3>4 DEF QuoteOf
  <2>5. CASE /\ c \in {"sq", "dq"} /\ quote # "none"
    <3>1. quote = (IF c = "sq" THEN "single" ELSE "double") /\ quote' = "none"
          /\ wasquoted' = TRUE /\ escaped' = escaped
      BY <1>1, <2>2, <2>5
    <3>2. t = [s EXCEPT !.q = "none"]
      BY <1>1, <1>4, <2>1, <2>5, <3>1 DEF Scan, QuoteOf
    <3>3. /\ t.tokens = s.tokens
          /\ t.token = s.token
          /\ t.open = s.open
          /\ t.q = "none"
          /\ t.esc = s.esc
      BY <1>4, <3>2 DEF ScanState
    <3>4. s.esc = escaped
      BY <1>3 DEF Matches
    <3> QED
      BY <2>1, <2>2, <2>5, <3>1, <3>3, <3>4 DEF QuoteOf
  <2> QED
    BY <1>1, <2>3, <2>4, <2>5
<1>7. s.tokens = Delivered \o args /\ s.token = arg
  BY <1>3 DEF Matches
<1> QED
  BY <1>0, <1>1, <1>2, <1>3, <1>4, <1>5, <1>6, <1>7, ReadingIntro

(* A separator ends the argument.                                          *)
LEMMA SeparatorReading ==
    ASSUME IInv, DataOK, Total, Reading, ReadSeparator
    PROVE  Reading'
<1> SUFFICES ASSUME opt.eofstr = <<>>, pc' = "exit" => code' # 1
             PROVE  Reading'
  BY DEF Reading, ReadSeparator
<1> DEFINE s == Scanned(opt.zero, input)
<1>0. PICK t : t = Scanned(opt.zero, input)'
  OBVIOUS
<1>1. PICK c \in {"sp", "nul", "nl"}, n \in {count, count + 1} :
         /\ Read(c) /\ EndArg(FALSE, n) /\ ~escaped
         /\ IF opt.zero THEN c = "nul" ELSE c # "nul" /\ ~Quoted
         /\ UNCHANGED <<opt, quote, escaped>>
  BY DEF ReadSeparator
<1>2. pc = "read" /\ input' = Append(input, c) /\ c \in Symbol /\ c # "EOF"
  BY <1>1 DEF Read, Symbol, Char
<1>3. ~stop /\ Matches(s)
  BY <1>2, WhileReading
<1>4. s \in ScanState /\ t = Scan(opt.zero, s, c) /\ ~AtEof'
  BY <1>0, <1>1, <1>2, ScannedLemma
<1>5. /\ Delivered' \o args' = IF arg # <<>> \/ wasquoted
                               THEN Append(Delivered \o args, arg)
                               ELSE Delivered \o args
      /\ arg' = <<>> /\ wasquoted' = FALSE
      /\ ~stop' /\ pc' # "waitall"
  <2> DEFINE last == FALSE
  <2>1. last \in BOOLEAN /\ EndArg(last, n) /\ ~last
    BY <1>1
  <2> HIDE DEF last
  <2> QED
    BY <1>2, <1>3, <2>1, EndLemma
<1> HIDE DEF s
<1>6. t = IF s.open THEN [s EXCEPT !.tokens = Append(@, s.token),
                                   !.token = <<>>, !.open = FALSE]
          ELSE s
  <2>1. ~s.esc /\ s.q = QuoteOf[quote]
    BY <1>1, <1>3 DEF Matches
  <2> QED
    BY <1>1, <1>4, <2>1 DEF Scan, Quoted, QuoteOf
<1>7. /\ s.tokens = Delivered \o args /\ s.token = arg
      /\ s.open = (arg # <<>> \/ wasquoted)
      /\ s.q = QuoteOf[quote] /\ s.esc = escaped
      /\ opt.zero => quote = "none" /\ ~escaped
  BY <1>3 DEF Matches
<1>8. t.q = s.q /\ t.esc = s.esc /\ t.open = FALSE /\ t.token = <<>>
      /\ t.tokens = IF s.open THEN Append(s.tokens, s.token) ELSE s.tokens
  <2>1. CASE s.open
    <3>1. t = [s EXCEPT !.tokens = Append(@, s.token),
                        !.token = <<>>, !.open = FALSE]
      BY <1>6, <2>1
    <3> QED
      BY <1>4, <2>1, <3>1 DEF ScanState
  <2>2. CASE ~s.open
    <3>1. s.open = FALSE
      BY <1>4, <2>2 DEF ScanState
    <3>2. s.token = <<>>
      BY <1>7, <2>2
    <3> QED
      BY <1>6, <2>2, <3>1, <3>2
  <2> QED
    BY <2>1, <2>2
<1>9. quote = "none"
  BY <1>1, <1>7 DEF Quoted
<1>10. t.tokens = Delivered' \o args'
  BY <1>5, <1>7, <1>8
<1> QED
  BY <1>0, <1>1, <1>4, <1>5, <1>7, <1>8, <1>9, <1>10, ReadingIntro

(* The end of input ends the last argument, or drops an empty one.         *)
LEMMA EofReading ==
    ASSUME IInv, DataOK, Total, Reading, ReadEof
    PROVE  Reading'
<1> SUFFICES ASSUME opt.eofstr = <<>>, pc' = "exit" => code' # 1
             PROVE  Reading'
  BY DEF Reading, ReadEof
<1> DEFINE s == Scanned(opt.zero, input)
<1>0. PICK t : t = Scanned(opt.zero, input)'
  OBVIOUS
<1>1. /\ pc = "read"
      /\ input' = Append(input, "EOF")
      /\ "EOF" \in Symbol
      /\ opt' = opt
  BY DEF ReadEof, Symbol
<1>2. ~stop /\ Matches(s)
  BY <1>1, WhileReading
<1>3. s \in ScanState /\ t = Scan(opt.zero, s, "EOF") /\ AtEof'
  BY <1>0, <1>1, ScannedLemma
<1>4. /\ s.tokens = Delivered \o args /\ s.token = arg
      /\ s.open = (arg # <<>> \/ wasquoted)
  BY <1>2 DEF Matches
<1> HIDE DEF s
<1>5. t.tokens = IF s.open THEN Append(s.tokens, s.token) ELSE s.tokens
  <2>1. t = IF s.open THEN [s EXCEPT !.tokens = Append(@, s.token),
                                     !.token = <<>>, !.open = FALSE]
            ELSE s
    BY <1>3 DEF Scan
  <2> QED
    BY <1>3, <2>1 DEF ScanState
<1>6. \/ ~escaped /\ Empty /\ pc' = "waitall" /\ UNCHANGED <<args, commands>>
      \/ EndArg(TRUE, count)
  BY DEF ReadEof, Exit, parsevars, procvars
<1>7. /\ pc' # "read" /\ (pc' = "wait" => stop')
      /\ t.tokens = Delivered' \o args' \/ t.tokens = Append(Delivered', <<>>)
  <2>1. CASE Empty /\ pc' = "waitall" /\ UNCHANGED <<args, commands>>
    <3>1. args = <<>> /\ arg = <<>>
      <4>1. used = 0 /\ Len(arg) = 0
        BY <2>1 DEF Empty, DataOK, IInv, TypeOK
      <4>2. arg = <<>>
        BY <4>1, EmptySeq DEF IInv, TypeOK
      <4>3. args = <<>>
        <5>1. ASSUME args # <<>> PROVE FALSE
          <6>1. PICK q \in Seq(Seq(Char)), a \in Seq(Char) :
                       args = Append(q, a)
            BY <5>1, SequenceEmptyOrAppend DEF IInv, TypeOK
          <6>2. /\ Bytes(args) = Bytes(q) + Len(a) + 1
                /\ Bytes(q) \in Nat
                /\ Len(a) \in Nat
            BY <6>1, BytesAppend
          <6>3. Bytes(args) = 0
            BY <4>1 DEF Total
          <6> QED
            BY <6>2, <6>3
        <5> QED
          BY <5>1
      <4> QED
        BY <4>2, <4>3
    <3>2. /\ Delivered' = Delivered
          /\ args' = args
          /\ Delivered \in Seq(Seq(Char))
      BY <2>1, DeliverLemma
    <3>3. s.tokens = Delivered \o args /\ Delivered \o args = Delivered
      BY <1>4, <3>1, <3>2, ConcatEmptySeq
    <3> QED
      BY <1>4, <1>5, <2>1, <3>1, <3>2, <3>3
  <2>2. CASE EndArg(TRUE, count)
    <3> DEFINE last == TRUE
    <3>1. last \in BOOLEAN /\ EndArg(last, count) /\ last
      BY <2>2
    <3> HIDE DEF last
    <3>2. /\ Delivered' \o args' = IF arg # <<>> \/ wasquoted
                                   THEN Append(Delivered \o args, arg)
                                   ELSE Delivered \o args
          /\ pc' = "wait" /\ stop'
      BY <3>1, EndLemma
    <3> QED
      BY <1>4, <1>5, <3>2
  <2> QED
    BY <1>6, <2>1, <2>2
<1> QED
  BY <1>0, <1>3, <1>7 DEF Reading, AllDelivered

(* Waiting, and the commands themselves, take and give no arguments.       *)
LEMMA OtherReading ==
    ASSUME IInv, DataOK, Total, Reading,
           \/ Waitchildren \/ WaitReturns \/ WaitallReturns \/ CommandEnds
           \/ UNCHANGED vars
    PROVE  Reading'
<1>1. /\ UNCHANGED <<opt, parsevars, commands, input>>
      /\ pc = "exit" => UNCHANGED <<pc, code>>
      /\ pc' # "read" \/ (pc' = pc /\ pc = "read") \/ (pc = "wait" /\ ~stop)
      /\ pc' = "waitall" => pc = "waitall" \/ (pc = "wait" /\ stop)
      /\ pc' = "wait" => pc = "wait"
  BY DEF Waitchildren, Wait, WaitReturns, WaitallReturns, CommandEnds, Exit,
         procvars, vars
<1>2. Delivered' = Delivered
  BY <1>1, DeliverLemma
<1>3. Scanned(opt.zero, input)' = Scanned(opt.zero, input) /\ AtEof' = AtEof
  BY <1>1 DEF AtEof
<1>a. SUFFICES ASSUME opt.eofstr = <<>>, pc' = "exit" => code' # 1
               PROVE  Reading'
  BY <1>1 DEF Reading
<1>4. IF AtEof THEN AllDelivered(Scanned(opt.zero, input))
      ELSE pc # "waitall" /\ ~stop /\ Matches(Scanned(opt.zero, input))
  BY <1>1, <1>a DEF Reading
<1> DEFINE s == Scanned(opt.zero, input)
<1> HIDE DEF s
<1>5. CASE AtEof
  BY <1>1, <1>2, <1>3, <1>4, <1>5 DEF Reading, AllDelivered, parsevars
<1>6. CASE ~AtEof
  BY <1>1, <1>2, <1>3, <1>4, <1>6 DEF Reading, Matches, parsevars
<1> QED
  BY <1>5, <1>6

(* So every step keeps what Reading says.                                  *)
LEMMA ReadingStep ==
    ASSUME IInv, DataOK, Total, Reading, [Next]_vars
    PROVE  Reading'
<1>1. CASE ReadUnterminated
  BY <1>1 DEF ReadUnterminated, Exit, Reading
<1>2. CASE Exited \/ UNCHANGED vars
  BY <1>2, OtherReading DEF Exited
<1> QED
  BY <1>1, <1>2, OrdinaryReading, MarkReading, SeparatorReading, EofReading,
     OtherReading DEF Next, ParseInput

(* EndArg: the list that goes to a command, or stays.                      *)
LEMMA EndFacts ==
    ASSUME IInv, DataOK, Total, NEW last \in BOOLEAN, NEW n, EndArg(last, n)
    PROVE  /\ arg' = <<>> /\ wasquoted' = FALSE /\ stop' \in BOOLEAN
           /\ \/ args' = <<>> /\ used' = 0
              \/ /\ args' \in Seq(Seq(Char)) /\ used' = Bytes(args')
                 /\ UNCHANGED commands
<1> DEFINE keep == (arg # <<>> \/ wasquoted) /\ ~FoundEof
           list == IF keep THEN Append(args, arg) ELSE args
           bytes == used + Len(arg) + (IF keep THEN 1 ELSE 0)
<1>1. args \in Seq(Seq(Char)) /\ arg \in Seq(Char) /\ list \in Seq(Seq(Char))
  BY DEF IInv, TypeOK
<1>2. ~FoundEof => Bytes(list) = bytes
  <2>1. CASE keep
    <3>1. Bytes(Append(args, arg)) = Bytes(args) + Len(arg) + 1
      BY <1>1, BytesAppend
    <3> QED
      BY <2>1, <3>1 DEF Total
  <2>2. CASE ~keep
    <3>1. ~FoundEof => arg = <<>>
      BY <2>2
    <3>2. ~FoundEof => Len(arg) = 0
      BY <3>1
    <3>3. used \in Nat
      BY DEF DataOK
    <3> QED
      BY <2>2, <3>2, <3>3 DEF Total
  <2> QED
    BY <2>1, <2>2
<1>3. /\ arg' = <<>> /\ wasquoted' = FALSE
      /\ \/ args' = <<>> /\ used' = 0
         \/ args' = list /\ used' = bytes /\ ~FoundEof /\ UNCHANGED commands
  BY DEF EndArg, procvars
<1>4. stop' \in BOOLEAN
  <2>1. stop' = stop \/ stop' = (last \/ FoundEof)
    BY DEF EndArg
  <2> QED
    BY <2>1 DEF DataOK
<1> HIDE DEF list, bytes, keep
<1> QED
  BY <1>1, <1>2, <1>3, <1>4

(* DataOK and Total are kept by every step.                                *)
LEMMA DataStep ==
    ASSUME IInv, DataOK, Total, [Next]_vars
    PROVE  DataOK' /\ Total'
<1>0. /\ args \in Seq(Seq(Char)) /\ arg \in Seq(Char)
      /\ opt.alphabet \subseteq Char
      /\ Bytes(<<>>) = 0
  BY OptionFacts, BytesAppend DEF IInv, TypeOK
<1>1. ASSUME NEW c \in Symbol, input' = Append(input, c)
      PROVE  input' \in Seq(Symbol)
  BY <1>1 DEF DataOK
<1>2. ASSUME NEW c, Read(c) PROVE input' \in Seq(Symbol)
  BY <1>0, <1>1, <1>2 DEF Read, Symbol
<1>3. ASSUME NEW last \in BOOLEAN, NEW n, EndArg(last, n)
      PROVE  /\ used' \in Nat
             /\ wasquoted' \in BOOLEAN
             /\ stop' \in BOOLEAN
             /\ Total'
  <2>1. CASE args' = <<>> /\ used' = 0
    BY <1>0, <1>3, <2>1, EndFacts DEF Total
  <2>2. CASE args' \in Seq(Seq(Char)) /\ used' = Bytes(args')
    BY <1>3, <2>2, EndFacts, BytesPositive DEF Total
  <2> QED
    BY <1>3, <2>1, <2>2, EndFacts
<1>4. CASE ReadOrdinary
  <2>1. PICK c \in Char : /\ Read(c)
                          /\ AddChar(c)
                          /\ escaped' = FALSE
                          /\ Kept
                          /\ UNCHANGED quote
    BY <1>4 DEF ReadOrdinary
  <2>2. UNCHANGED <<args, used>> \/ (args' = <<>> /\ used' = 0)
    BY <2>1 DEF AddChar
  <2>3. used' \in Nat /\ Total'
    BY <1>0, <2>2 DEF DataOK, Total
  <2>4. input' \in Seq(Symbol)
    BY <1>2, <2>1
  <2>5. UNCHANGED <<wasquoted, stop, quote>> /\ escaped' = FALSE
    BY <2>1 DEF Kept
  <2> QED
    BY <2>3, <2>4, <2>5 DEF DataOK
<1>5. CASE ReadBackslash \/ ReadQuote
  BY <1>2, <1>5 DEF ReadBackslash, ReadQuote, DataOK, Total
<1>6. CASE ReadSeparator
  <2>1. PICK c, n : Read(c) /\ EndArg(FALSE, n)
    BY <1>6 DEF ReadSeparator
  <2> QED
    BY <1>2, <1>3, <1>6, <2>1 DEF ReadSeparator, DataOK
<1>7. CASE ReadUnterminated
  BY <1>2, <1>7 DEF ReadUnterminated, parsevars, DataOK, Total
<1>8. CASE ReadEof
  <2>1. input' \in Seq(Symbol)
    BY <1>1, <1>8 DEF ReadEof, Symbol
  <2>2. \/ UNCHANGED parsevars
        \/ EndArg(TRUE, count) /\ UNCHANGED <<quote, escaped>>
    BY <1>8 DEF ReadEof
  <2> QED
    BY <1>3, <2>1, <2>2 DEF parsevars, DataOK, Total
<1>9. CASE \/ Waitchildren \/ WaitReturns \/ WaitallReturns \/ CommandEnds
           \/ Exited \/ UNCHANGED vars
  BY <1>9 DEF Waitchildren, WaitReturns, WaitallReturns, CommandEnds, Exited,
              vars, parsevars, DataOK, Total
<1> QED
  BY <1>4, <1>5, <1>6, <1>7, <1>8, <1>9 DEF Next, ParseInput

(* Reading is as much as ArgumentsKept.                                    *)
LEMMA ReadingSuffices ==
    ASSUME IInv, DataOK, Reading PROVE ArgumentsKept
<1> DEFINE tokens == Tokens(input)
<1> SUFFICES ASSUME opt.eofstr = <<>>, pc = "exit" => code # 1
             PROVE  \/ Delivered \o args = tokens
                    \/ EmptyAtEnd(tokens) /\ Delivered = Front(tokens)
  BY DEF ArgumentsKept
<1>1. tokens = Scanned(opt.zero, input).tokens
  BY DEF Tokens
<1>2. CASE AtEof
  <2>1. tokens = Delivered \o args \/ tokens = Append(Delivered, <<>>)
    BY <1>1, <1>2 DEF Reading, AllDelivered
  <2>2. CASE tokens = Append(Delivered, <<>>)
    <3>1. Delivered \in Seq(Seq(Char)) /\ <<>> \in Seq(Char)
      BY DeliverLemma
    <3> HIDE DEF tokens
    <3>2. /\ Len(tokens) = Len(Delivered) + 1 /\ Len(Delivered) \in Nat
          /\ tokens # <<>> /\ tokens[Len(tokens)] = <<>>
          /\ tokens \in Seq(Seq(Char))
          /\ \A i \in 1..Len(Delivered) : tokens[i] = Delivered[i]
      BY <2>2, <3>1, AppendProperties
    <3>3. Front(tokens) = Delivered
      <4>1. SubSeq(tokens, 1, Len(Delivered)) = Delivered
        BY <3>1, <3>2
      <4>2. Len(tokens) - 1 = Len(Delivered)
        BY <3>2
      <4> QED
        BY <4>1, <4>2 DEF Front
    <3>4. EmptyAtEnd(tokens)
      BY <1>2, <3>2 DEF EmptyAtEnd, AtEof, Last
    <3> QED
      BY <3>3, <3>4
  <2> QED
    BY <2>1, <2>2
<1>3. CASE ~AtEof
  BY <1>1, <1>3 DEF Reading, Matches
<1> QED
  BY <1>2, <1>3

(* A command that is filled as it should be follows the others.            *)
LEMMA RunFilling ==
    ASSUME IInv, Collecting, NEW list, list \in Seq(Seq(Char)), Run(list),
           opt' = opt, Bounded(list), ~stop, commands # <<>> => list[1] = First
    PROVE  /\ \A i \in DOMAIN commands' : Bounded(commands[i])'
           /\ \A i \in DOMAIN commands' : i < Len(commands') =>
                 FullFor(commands[i], commands[i + 1][1])'
           /\ commands' # <<>> /\ commands'[Len(commands')] = list
<1> DEFINE n == Len(commands)
<1>1. commands' = Append(commands, list) /\ commands \in Seq(Seq(Seq(Char)))
  BY DEF Run, IInv, TypeOK
<1>2. /\ n \in Nat /\ Len(commands') = n + 1 /\ DOMAIN commands = 1..n
      /\ DOMAIN commands' = 1..(n + 1)
      /\ commands'[n + 1] = list /\ \A i \in 1..n : commands'[i] = commands[i]
      /\ commands' # <<>>
  <2> DEFINE T == Seq(Seq(Char))
  <2>1. commands \in Seq(T) /\ list \in T
    BY <1>1
  <2> HIDE DEF T
  <2> QED
    BY <1>1, <2>1, AppendProperties
<1> HIDE DEF n
<1>3. ASSUME NEW i \in 1..(n + 1) PROVE Bounded(commands'[i])
  <2>1. CASE i = n + 1
    BY <1>2, <2>1
  <2>2. CASE i # n + 1
    <3>1. i \in 1..n
      BY <1>2, <2>2
    <3>2. Bounded(commands[i])
      BY <1>2, <3>1 DEF Collecting
    <3> QED
      BY <1>2, <3>1, <3>2
  <2> QED
    BY <2>1, <2>2
<1>4. ASSUME NEW i \in 1..(n + 1), i < n + 1
      PROVE  FullFor(commands'[i], commands'[i + 1][1])
  <2>1. CASE i < n
    <3>1. i \in 1..n /\ i + 1 \in 1..n /\ i < n
      BY <1>2, <2>1
    <3>2. FullFor(commands[i], commands[i + 1][1])
      BY <1>2, <3>1 DEF Collecting, n
    <3> QED
      BY <1>2, <3>1, <3>2
  <2>2. CASE i = n
    <3>1. n \in 1..n /\ commands # <<>>
      BY <1>1, <1>2, <2>2
    <3>2. FullFor(commands[n], First)
      BY <3>1 DEF Collecting, n
    <3> QED
      BY <1>2, <2>2, <3>1, <3>2
  <2> QED
    BY <1>2, <1>4, <2>1, <2>2
<1> QED
  BY <1>2, <1>3, <1>4 DEF Bounded, FullFor

(* The counters, and what it means that they are zero.                     *)
LEMMA Numbers ==
    ASSUME IInv, DataOK, Total
    PROVE  /\ opt.nargs \in Nat \ {0} /\ opt.size \in Nat \ {0}
           /\ used \in Nat /\ Len(arg) \in Nat /\ Len(args) \in Nat
           /\ args = <<>> <=> used = 0
           /\ args = <<>> <=> Len(args) = 0
           /\ arg = <<>> <=> Len(arg) = 0
<1>1. args \in Seq(Seq(Char)) /\ arg \in Seq(Char)
  BY DEF IInv, TypeOK
<1>2. used = Bytes(args) /\ (Bytes(args) = 0 <=> args = <<>>)
  BY <1>1, BytesPositive DEF Total
<1> QED
  BY <1>1, <1>2, OptionFacts, EmptySeq DEF DataOK

(* A character that does not fit sends the arguments before its own off.   *)
LEMMA OrdinaryFilling ==
    ASSUME IInv, DataOK, Total, Filling, ReadOrdinary
    PROVE  Filling'
<1>1. PICK c \in Char : pc = "read" /\ AddChar(c) /\ opt' = opt /\ stop' = stop
  BY DEF ReadOrdinary, Read, Kept
<1> SUFFICES ASSUME ~opt.x, opt.eofstr = <<>>
             PROVE  Collecting'
  BY <1>1 DEF Filling
<1>2. Collecting /\ ~stop
  BY <1>1 DEF Filling, Collecting
<1>3. /\ opt.nargs \in Nat \ {0} /\ opt.size \in Nat \ {0}
      /\ used \in Nat /\ Len(arg) \in Nat /\ Len(args) \in Nat
      /\ args = <<>> <=> used = 0
      /\ args = <<>> <=> Len(args) = 0
  BY Numbers
<1>4. Len(Append(arg, c)) = Len(arg) + 1
  BY AppendProperties DEF IInv, TypeOK
<1>5. CASE /\ Room
           /\ arg' = Append(arg, c)
           /\ UNCHANGED <<pc, used, args, commands>>
  <2>1. used' + Len(arg') <= opt'.size - 1 /\ Len(args') < opt'.nargs
    BY <1>1, <1>2, <1>3, <1>4, <1>5 DEF Room, Collecting
  <2>2. commands # <<>> => FullFor(commands[Len(commands)], First)'
    <3>1. ASSUME commands # <<>>
          PROVE  FullFor(commands'[Len(commands')], First')
      <4>1. FullFor(commands[Len(commands)], First)
        BY <1>2, <3>1 DEF Collecting
      <4>2. CASE args # <<>>
        <5>1. First' = First
          BY <1>5, <4>2 DEF First
        <5> QED
          BY <1>1, <1>5, <4>1, <5>1 DEF FullFor
      <4>3. CASE args = <<>>
        <5>1. First' = arg' /\ First = arg /\ Len(arg') = Len(arg) + 1
          BY <1>4, <1>5, <4>3 DEF First
        <5>2. Bytes(commands[Len(commands)]) \in Nat
          <6>1. commands[Len(commands)] \in Seq(Seq(Char))
            BY <3>1, EmptySeq DEF IInv, TypeOK
          <6> QED
            BY <6>1, BytesPositive
        <5> QED
          BY <1>1, <1>3, <1>5, <4>1, <5>1, <5>2 DEF FullFor
      <4> QED
        BY <4>2, <4>3
    <3> QED
      BY <1>1, <3>1 DEF FullFor
  <2> QED
    BY <1>1, <1>2, <1>5, <2>1, <2>2 DEF Collecting, Bounded, FullFor
<1>6. CASE Exit(1) /\ UNCHANGED <<arg, used, args>>
  BY <1>1, <1>2, <1>6 DEF Exit, procvars, Collecting, Bounded, FullFor, First
<1>7. CASE /\ ~Room
           /\ args # <<>>
           /\ Run(args)
           /\ args' = <<>>
           /\ used' = 0
           /\ arg' = Append(arg, c)
  <2>1. Bounded(args)
    BY <1>2, <1>3, <1>7 DEF Bounded, Collecting, Total
  <2>2. args \in Seq(Seq(Char)) /\ args[1] = First
    BY <1>7 DEF First, IInv, TypeOK
  <2>3. /\ \A i \in DOMAIN commands' : Bounded(commands[i])'
        /\ \A i \in DOMAIN commands' : i < Len(commands') =>
              FullFor(commands[i], commands[i + 1][1])'
        /\ commands' # <<>> /\ commands'[Len(commands')] = args
    BY <1>1, <1>2, <1>7, <2>1, <2>2, RunFilling
  <2>4. First' = arg' /\ Len(arg') = Len(arg) + 1 /\ Len(args') = 0
    BY <1>4, <1>7 DEF First
  <2>5. FullFor(args, arg')
    <3>1. Bytes(args) = used /\ ~(used + Len(arg) < opt.size - 1)
      BY <1>7 DEF Total, Room
    <3> QED
      BY <1>3, <2>4, <3>1 DEF FullFor
  <2>6. FullFor(commands'[Len(commands')], First')
    BY <2>3, <2>4, <2>5
  <2>7. used' + Len(arg') <= opt'.size - 1 /\ Len(args') < opt'.nargs
    BY <1>1, <1>2, <1>3, <1>7, <2>4 DEF Collecting
  <2>8. pc' = "wait"
    BY <1>7 DEF Run
  <2> QED
    BY <1>1, <2>3, <2>6, <2>7, <2>8 DEF Collecting, FullFor
<1> QED
  BY <1>1, <1>5, <1>6, <1>7 DEF AddChar, procvars, CarriedOver

(* So does the end of an argument that fills the buffer or the command.    *)
LEMMA EndFilling ==
    ASSUME IInv, DataOK, Total, Collecting, pc = "read", opt' = opt, ~opt.x,
           opt.eofstr = <<>>, NEW last \in BOOLEAN, NEW n, EndArg(last, n),
           last => ~Empty
    PROVE  Collecting'
<1> DEFINE keep == arg # <<>> \/ wasquoted
           list == IF keep THEN Append(args, arg) ELSE args
           bytes == used + Len(arg) + (IF keep THEN 1 ELSE 0)
           full == Len(list) = opt.nargs \/ Fills(bytes) \/ last
<1>0. ~FoundEof /\ ~stop /\ Len(<<>>) = 0
  BY DEF FoundEof, Collecting
<1>1. /\ arg' = <<>>
      /\ IF ~full
         THEN args' = list /\ used' = bytes /\ UNCHANGED <<pc, stop, commands>>
         ELSE Run(list) /\ args' = <<>> /\ used' = 0 /\ stop' = last
  BY <1>0 DEF EndArg, procvars
<1>2. /\ opt.nargs \in Nat \ {0} /\ opt.size \in Nat \ {0}
      /\ used \in Nat /\ Len(arg) \in Nat /\ Len(args) \in Nat
      /\ args = <<>> <=> used = 0
      /\ args = <<>> <=> Len(args) = 0
      /\ arg = <<>> <=> Len(arg) = 0
  BY Numbers
<1>3. /\ list \in Seq(Seq(Char)) /\ Bytes(list) = bytes
      /\ Len(list) = Len(args) + (IF keep THEN 1 ELSE 0)
      /\ list # <<>> => list[1] = First
  <2>0. args \in Seq(Seq(Char)) /\ arg \in Seq(Char)
    BY DEF IInv, TypeOK
  <2>1. CASE keep
    <3>1. Bytes(Append(args, arg)) = Bytes(args) + Len(arg) + 1
      BY <2>0, BytesAppend
    <3>2. /\ Append(args, arg) \in Seq(Seq(Char))
          /\ Len(Append(args, arg)) = Len(args) + 1
      BY <2>0, AppendProperties
    <3>3. Append(args, arg)[1] = First
      <4>1. CASE args = <<>>
        BY <2>0, <4>1 DEF First
      <4>2. CASE args # <<>>
        <5>1. 1 \in 1..Len(args)
          BY <1>2, <4>2
        <5>2. Append(args, arg)[1] = args[1]
          BY <2>0, <5>1, AppendProperties
        <5> QED
          BY <4>2, <5>2 DEF First
      <4> QED
        BY <4>1, <4>2
    <3> QED
      BY <2>1, <3>1, <3>2, <3>3 DEF Total
  <2>2. CASE ~keep
    BY <1>2, <2>0, <2>2 DEF Total, First
  <2> QED
    BY <2>1, <2>2
<1>4. used + Len(arg) <= opt.size - 1 /\ Len(args) < opt.nargs
  BY DEF Collecting
<1>5. /\ bytes \in Nat
      /\ bytes <= opt.size
      /\ Len(list) \in Nat
      /\ Len(list) <= opt.nargs
  BY <1>2, <1>3, <1>4
<1>6. First' = IF args' # <<>> THEN args'[1] ELSE <<>>
  BY <1>1 DEF First
<1>a. full => list # <<>>
  <2>1. CASE list = <<>>
    <3>1. Len(list) = 0
      BY <2>1
    <3>2. ~keep /\ args = <<>>
      BY <1>2, <1>3, <3>1
    <3>3. used = 0 /\ Len(arg) = 0
      BY <1>2, <3>2
    <3> QED
      BY <1>2, <3>1, <3>2, <3>3 DEF Fills, Empty
  <2> QED
    BY <2>1
<1> HIDE DEF list, bytes
<1>7. CASE ~full
  <2>1. args' = list /\ used' = bytes /\ UNCHANGED <<pc, stop, commands>>
    BY <1>1, <1>7
  <2>2. Len(args') < opt'.nargs /\ used' + Len(arg') <= opt'.size - 1
    BY <1>0, <1>1, <1>2, <1>5, <1>7, <2>1 DEF Fills
  <2>3. First' = First
    <3>1. CASE list # <<>>
      BY <1>3, <1>6, <2>1, <3>1
    <3>2. CASE list = <<>>
      <4>1. ~keep /\ args = <<>>
        BY <1>2, <1>3, <3>2
      <4> QED
        BY <1>6, <2>1, <3>2, <4>1 DEF First
    <3> QED
      BY <3>1, <3>2
  <2> QED
    BY <2>1, <2>2, <2>3 DEF Collecting, Bounded, FullFor
<1>8. CASE full
  <2>1. Run(list) /\ args' = <<>> /\ used' = 0 /\ stop' = last /\ pc' = "wait"
    BY <1>1, <1>8 DEF Run
  <2>2. Bounded(list)
    BY <1>3, <1>5, <1>8, <1>a DEF Bounded
  <2>3. /\ \A i \in DOMAIN commands' : Bounded(commands[i])'
        /\ \A i \in DOMAIN commands' : i < Len(commands') =>
              FullFor(commands[i], commands[i + 1][1])'
        /\ commands' # <<>> /\ commands'[Len(commands')] = list
    BY <1>0, <1>3, <1>8, <1>a, <2>1, <2>2, RunFilling
  <2>4. ~last => FullFor(list, First')
    <3>1. Len(First') = 0
      BY <1>0, <1>6, <2>1
    <3>2. ~last => Len(list) = opt.nargs \/ bytes > opt.size - 1
      BY <1>8 DEF Fills
    <3> QED
      BY <1>2, <1>3, <1>5, <3>1, <3>2 DEF FullFor
  <2>5. ~last => FullFor(commands'[Len(commands')], First')
    BY <2>3, <2>4
  <2>6. Len(args') < opt'.nargs /\ used' + Len(arg') <= opt'.size - 1
    BY <1>0, <1>1, <1>2, <2>1
  <2> QED
    BY <2>1, <2>3, <2>5, <2>6 DEF Collecting, FullFor
<1> QED
  BY <1>7, <1>8

(* Every step keeps what Filling says.                                     *)
LEMMA FillingStep ==
    ASSUME IInv, DataOK, Total, Filling, [Next]_vars
    PROVE  Filling'
<1>0. opt' = opt
  BY DEF Next, ParseInput, ReadOrdinary, ReadBackslash, ReadQuote,
         ReadSeparator, ReadUnterminated, ReadEof, Kept, Waitchildren,
         WaitReturns, WaitallReturns, CommandEnds, Exited, vars
<1> SUFFICES ASSUME ~opt.x, opt.eofstr = <<>>
             PROVE  Collecting'
  BY <1>0 DEF Filling
<1>1. Collecting
  BY DEF Filling
<1>2. ASSUME UNCHANGED <<arg, used, args, stop, commands>>,
             pc' = "read" => ~stop
      PROVE  Collecting'
  BY <1>0, <1>1, <1>2 DEF Collecting, First, Bounded, FullFor
<1>3. CASE ReadOrdinary
  BY <1>0, <1>3, OrdinaryFilling DEF Filling
<1>4. CASE ReadBackslash \/ ReadQuote \/ ReadUnterminated
  BY <1>1, <1>2, <1>4 DEF ReadBackslash, ReadQuote, ReadUnterminated, Read,
                          Exit, parsevars, procvars, Collecting
<1>5. CASE ReadSeparator
  <2> DEFINE last == FALSE
  <2>1. PICK n : pc = "read" /\ EndArg(last, n)
    BY <1>5 DEF ReadSeparator, Read
  <2>2. last \in BOOLEAN /\ ~last
    OBVIOUS
  <2> HIDE DEF last
  <2> QED
    BY <1>0, <1>1, <2>1, <2>2, EndFilling
<1>6. CASE ReadEof
  <2>1. CASE ~Empty /\ EndArg(TRUE, count)
    <3> DEFINE last == TRUE
    <3>1. pc = "read" /\ EndArg(last, count) /\ last \in BOOLEAN
      BY <1>6, <2>1 DEF ReadEof
    <3> HIDE DEF last
    <3> QED
      BY <1>0, <1>1, <2>1, <3>1, EndFilling
  <2>2. CASE /\ Exit(1) \/ (pc' = "waitall" /\ UNCHANGED procvars)
             /\ UNCHANGED parsevars
    BY <1>2, <2>2 DEF Exit, parsevars, procvars
  <2> QED
    BY <1>6, <2>1, <2>2 DEF ReadEof
<1>7. CASE \/ Waitchildren \/ WaitReturns \/ WaitallReturns \/ CommandEnds
           \/ Exited \/ UNCHANGED vars
  <2>1. UNCHANGED <<arg, used, args, stop, commands>>
    BY <1>7 DEF Waitchildren, Wait, WaitReturns, WaitallReturns, CommandEnds,
                Exited, Exit, vars, parsevars, procvars
  <2>2. pc' = "read" => pc = "read" \/ ~stop
    BY <1>7 DEF Waitchildren, Wait, WaitReturns, WaitallReturns, CommandEnds,
                Exited, Exit, vars, parsevars, procvars
  <2> QED
    BY <1>1, <1>2, <2>1, <2>2 DEF Collecting
<1> QED
  BY <1>3, <1>4, <1>5, <1>6, <1>7 DEF Next, ParseInput

-----------------------------------------------------------------------------
(* For every input, command line and capacity of the buffer, parse_input() *)
(* agrees with the manual's reading of what it has read so far, and every  *)
(* command was filled before the next was begun.                           *)
THEOREM Parsing == Spec => []ParseInv
<1>1. Init => ParseInv
  <2> SUFFICES ASSUME Init PROVE ParseInv
    OBVIOUS
  <2>1. /\ opt.size \in Nat \ {0} /\ opt.nargs \in Nat \ {0}
        /\ opt.zero \in BOOLEAN
    BY OptionsAssumption DEF Init, OptionRecord
  <2>2. /\ input = <<>>
        /\ commands = <<>>
        /\ args = <<>>
        /\ arg = <<>>
        /\ used = 0
    BY DEF Init
  <2>3. DataOK /\ Total
    <3>1. Total
      BY <2>2, BytesAppend DEF Total
    <3>2. input \in Seq(Symbol)
      BY <2>2
    <3>3. DataOK
      BY <3>2 DEF Init, DataOK
    <3> QED
      BY <3>1, <3>3
  <2>4. Reading
    <3>1. Scanned(opt.zero, input) = NoInput /\ Delivered = <<>>
      BY <2>2, ScanAppend, FlattenAppend DEF Delivered
    <3>2. <<>> \o <<>> = <<>>
      OBVIOUS
    <3>3. ~AtEof /\ pc # "waitall" /\ ~stop
      BY <2>2 DEF Init, AtEof
    <3>4. Matches(NoInput)
      BY <2>2, <3>1, <3>2 DEF Init, Matches, NoInput, QuoteOf
    <3> QED
      BY <3>1, <3>3, <3>4 DEF Reading
  <2>5. Filling
    BY <2>1, <2>2 DEF Init, Filling, Collecting
  <2> QED
    BY <2>3, <2>4, <2>5 DEF ParseInv
<1>2. IInv /\ ParseInv /\ [Next]_vars => ParseInv'
  BY DataStep, ReadingStep, FillingStep DEF ParseInv
<1> QED
  BY <1>1, <1>2, Counting, PTL DEF Spec

(* Every argument reaches one command, in order: ArgumentsKept.            *)
THEOREM Delivering == Spec => []ArgumentsKept
<1>1. IInv /\ ParseInv => ArgumentsKept
  BY ReadingSuffices DEF ParseInv
<1> QED
  BY <1>1, Counting, Parsing, PTL

(* -n and -s: no command is given more than fits, and none but the last is *)
(* given less: CommandsFilled.                                             *)
THEOREM FillingUp == Spec => []CommandsFilled
<1>1. ParseInv => CommandsFilled
  BY DEF ParseInv, Filling, Collecting, Bounded, FullFor, CommandsFilled
<1> QED
  BY <1>1, Parsing, PTL
=============================================================================

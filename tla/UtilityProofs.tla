---------------------------- MODULE UtilityProofs ----------------------------
(***************************************************************************)
(* Proofs about utilities, for all their command lines: scripts that use   *)
(* flock exclude each other; mv loses nothing, and its exit status is true;*)
(* timeout does not take its own signal for another's, and returns the     *)
(* command's status; sed -i loses no file, whatever fails and wherever it  *)
(* is killed; and ttymsg() shows a message in order.                       *)
(***************************************************************************)
EXTENDS Flock, Mv, Timeout, SedInPlace, Ttymsg, RecursionLemmas

-----------------------------------------------------------------------------
(* flock(1).                                                               *)


(* What SectionsLocked says of one script.                                 *)
Local(p) ==
    /\ Inside(p) => lock[p] = section[p]
    /\ pc[p] = "locked" =>
         lock[p] = IF call[p].lock = "un" THEN "none" ELSE call[p].lock
    /\ section[p] # "none" => pc[p] \in {"script", "command"}
    /\ pc[p] \in {"sleep", "eintr"} => call[p].lock # "un" /\ lock[p] = "none"

(* The command line of a script is one that main() accepts.                *)
LEMMA CallLemma ==
    ASSUME TypeOK, NEW p \in Script
    PROVE  /\ call[p] \in Calls
           /\ call[p].lock \in Mode \union {"un"}
           /\ call[p].command => call[p].lock \in Mode
           /\ call[p].cls => call[p].command
BY CallsAssumption DEF TypeOK, CallRecord

(* A step of one script leaves the others alone and keeps the types.       *)
LEMMA OthersLemma ==
    ASSUME IInv, NEW p \in Script, Step(p)
    PROVE  /\ TypeOK'
           /\ \A q \in Script \ {p} : /\ lock'[q] = lock[q] /\ call'[q] = call[q]
                                      /\ pc'[q] = pc[q] /\ section'[q] = section[q]
<1> USE DEF TypeOK, Goes, Believes, Holds
<1>1. TypeOK
  BY DEF IInv
<1>2. Left(p) \in Mode \union {"none"} /\ AfterEintr(p) \in {"script", "flock"}
  BY <1>1 DEF Left, AfterEintr
<1>3. CASE Start(p)
  BY <1>1, <1>3 DEF Start
<1>4. CASE Arm(p) \/ Handler(p)
  BY <1>1, <1>4 DEF Arm, Handler
<1>5. CASE Expires(p)
  BY <1>1, <1>2, <1>5 DEF Expires
<1>6. CASE Flock(p)
  BY <1>1, <1>6, CallLemma DEF Flock
<1>7. CASE Wakes(p)
  <2>1. call[p].lock \in Mode
    BY <1>1, <1>7, CallLemma DEF Wakes, IInv, SectionsLocked
  <2> QED
    BY <1>1, <1>7, <2>1 DEF Wakes
<1>8. CASE Eintr(p)
  BY <1>1, <1>2, <1>8 DEF Eintr
<1>9. CASE Proceed(p)
  BY <1>1, <1>9, CallLemma DEF Proceed
<1>10. CASE CommandEnds(p) \/ Closes(p)
  BY <1>1, <1>10 DEF CommandEnds, Closes
<1> QED
  BY <1>3, <1>4, <1>5, <1>6, <1>7, <1>8, <1>9, <1>10 DEF Step

(* The script itself: it believes to hold only what it holds, and gets a   *)
(* lock only when the kernel grants it.                                    *)
LEMMA OwnLemma ==
    ASSUME IInv, NEW p \in Script, Step(p)
    PROVE  /\ Local(p)'
           /\ lock'[p] \in {lock[p], "none"} \/ (Granted(p) /\ lock'[p] = call[p].lock)
<1> USE DEF TypeOK, Goes, Believes, Holds, Local, Inside
<1>1. TypeOK /\ Local(p)
  BY DEF IInv, SectionsLocked
<1>2. AfterEintr(p) \in {"script", "flock"}
  BY DEF AfterEintr
<1>3. CASE Start(p)
  <2>1. section'[p] = "none" /\ pc'[p] \in {"arm", "flock"} /\ lock' = lock
    BY <1>1, <1>3 DEF Start
  <2> QED
    BY <2>1
<1>4. CASE Arm(p) \/ Handler(p)
  BY <1>1, <1>4 DEF Arm, Handler
<1>5. CASE Expires(p)
  <2>1. lock'[p] \in {lock[p], "none"} /\ section' = section /\ call' = call
    BY <1>1, <1>5 DEF Expires, Left
  <2>2. CASE pc[p] = "handler"
    <3>1. pc'[p] = "script" /\ section[p] = "none"
      BY <1>1, <1>5, <2>2 DEF Expires
    <3> QED
      BY <2>1, <3>1
  <2>3. CASE pc[p] # "handler"
    <3>1. lock' = lock /\ pc'[p] \in {pc[p], "eintr"}
          /\ (pc'[p] # pc[p] => pc[p] = "sleep")
      BY <1>1, <1>5, <2>3 DEF Expires
    <3> QED
      BY <1>1, <2>1, <3>1
  <2> QED
    BY <2>2, <2>3
<1>6. CASE Flock(p)
  <2>1. section[p] = "none" /\ section' = section /\ call' = call
    BY <1>1, <1>6 DEF Flock
  <2>2. \/ pc'[p] = "locked" /\ call[p].lock = "un" /\ lock'[p] = "none"
        \/ /\ pc'[p] = "locked" /\ call[p].lock # "un" /\ Granted(p)
           /\ lock'[p] = call[p].lock
        \/ pc'[p] = "script" /\ lock'[p] = "none"
        \/ pc'[p] = "sleep" /\ lock'[p] = "none" /\ ~Granted(p)
    BY <1>1, <1>6 DEF Flock
  <2>3. ~Granted(p) => call[p].lock # "un"
    BY DEF Granted
  <2> QED
    BY <2>1, <2>2, <2>3
<1>7. CASE Wakes(p)
  BY <1>1, <1>7 DEF Wakes
<1>8. CASE Eintr(p)
  BY <1>1, <1>2, <1>8 DEF Eintr
<1>9. CASE Proceed(p)
  <2>1. section[p] = "none" /\ call' = call
        /\ lock[p] = IF call[p].lock = "un" THEN "none" ELSE call[p].lock
    BY <1>1, <1>9 DEF Proceed
  <2>2. \/ /\ call[p].command /\ pc'[p] = "command" /\ section'[p] = call[p].lock
           /\ lock'[p] = IF call[p].cls THEN "none" ELSE lock[p]
        \/ pc'[p] = "script" /\ lock'[p] = "none" /\ section' = section
        \/ pc'[p] = "script" /\ lock' = lock /\ section'[p] = lock[p]
    BY <1>1, <1>9, <2>1 DEF Proceed
  <2>3. call[p].command => call[p].lock # "un"
    BY <1>1, CallLemma DEF Mode
  <2> QED
    BY <2>1, <2>2, <2>3
<1>10. CASE CommandEnds(p) \/ Closes(p)
  <2>1. section'[p] = "none" /\ pc'[p] = "script" /\ lock'[p] \in {lock[p], "none"}
    BY <1>1, <1>10 DEF CommandEnds, Closes
  <2> QED
    BY <2>1
<1> QED
  BY <1>3, <1>4, <1>5, <1>6, <1>7, <1>8, <1>9, <1>10 DEF Step

(* The inductive invariant: locks exclude each other, and who is inside a  *)
(* locked section holds that lock.                                         *)
THEOREM Locking == Spec => []IInv
<1>1. Init => IInv
  BY DEF Init, IInv, TypeOK, LocksExclude, SectionsLocked, Inside
<1>2. IInv /\ [Next]_vars => IInv'
  <2> SUFFICES ASSUME IInv, [Next]_vars PROVE IInv'
    OBVIOUS
  <2>1. ASSUME NEW p \in Script, Step(p) PROVE IInv'
    <3>1. /\ TypeOK'
          /\ \A q \in Script \ {p} : /\ lock'[q] = lock[q] /\ call'[q] = call[q]
                                     /\ pc'[q] = pc[q] /\ section'[q] = section[q]
      BY <2>1, OthersLemma
    <3>2. /\ Local(p)'
          /\ lock'[p] \in {lock[p], "none"} \/ (Granted(p) /\ lock'[p] = call[p].lock)
      BY <2>1, OwnLemma
    <3>3. \A q \in Script : Local(q)
      BY DEF IInv, SectionsLocked, Local
    <3>4. \A q \in Script : Local(q)'
      BY <3>1, <3>2, <3>3 DEF Local, Inside
    <3>5. SectionsLocked'
      BY <3>4 DEF SectionsLocked, Local
    <3>6. LocksExclude'
      <4>1. call[p].lock \in Mode \union {"un"}
        BY CallLemma DEF IInv
      <4>2. \A q \in Script \ {p} : lock[p] = "exclusive" => lock[q] = "none"
        BY DEF IInv, LocksExclude
      <4>3. \A q \in Script \ {p} :
              /\ lock'[p] = "exclusive" => lock[q] = "none"
              /\ lock[q] = "exclusive" => lock'[p] = "none" \/ call[p].lock = "un"
        BY <3>2, <4>1, <4>2 DEF Granted, IInv, LocksExclude, Mode
      <4>4. \A q \in Script \ {p} : lock[q] = "exclusive" => lock'[p] = "none"
        <5>1. lock'[p] \in Mode \union {"none"}
          BY <3>1 DEF TypeOK
        <5> QED
          BY <3>2, <4>3, <5>1 DEF Granted, IInv, LocksExclude, Mode
      <4> QED
        BY <3>1, <4>3, <4>4 DEF IInv, LocksExclude
    <3> QED
      BY <3>1, <3>5, <3>6 DEF IInv
  <2>2. CASE UNCHANGED vars
    BY <2>2 DEF vars, IInv, TypeOK, LocksExclude, SectionsLocked, Inside
  <2> QED
    BY <2>1, <2>2 DEF Next
<1> QED
  BY <1>1, <1>2, PTL DEF Spec

(* The locking API keeps its promise: commands and scripts that were given *)
(* the lock exclude each other.                                            *)
THEOREM Exclusion == Spec => []MutualExclusion
<1>1. IInv => MutualExclusion
  BY DEF IInv, TypeOK, LocksExclude, SectionsLocked, Inside, MutualExclusion, Mode
<1> QED
  BY <1>1, Locking, PTL

-----------------------------------------------------------------------------
(* mv(1).                                                                  *)

LEMMA MvInitLemma == MvInit => MvInv
BY DEF MvInit, MvInv, MvTypeOK, Place, NothingLost, WholeUntilCopied, OthersMoved, AtWork, Moved

(* One file changes at a time, the one that do_move() is at work on.       *)
LEMMA MvStepLemma == ASSUME MvInv, MvNext PROVE MvInv'
<1> USE DEF MvInv, MvTypeOK, Place, NothingLost, WholeUntilCopied, OthersMoved, AtWork, Moved
<1>1. CASE Main
  BY <1>1 DEF Main
<1>12. CASE Ask
  BY <1>12 DEF Ask, GoesTo, Keeps, GoesOn, Returns, Failed
<1>2. CASE Rename
  BY <1>2 DEF Rename, Renamed, GoesTo, Keeps, GoesOn, Returns, Failed
<1>3. CASE Remove
  BY <1>3 DEF Remove, GoesTo, Keeps, GoesOn, Returns, Failed
<1>4. CASE Lstat
  BY <1>4 DEF Lstat, GoesTo, Keeps, GoesOn, Returns, Failed, Regular
<1>5. CASE Open
  BY <1>5 DEF Open, GoesTo, Keeps, Gets, GoesOn, Returns, Failed
<1>6. CASE Write
  BY <1>6 DEF Write, ShortWrite, GoesTo, Keeps, Gets, GoesOn
<1>7. CASE Undo
  BY <1>7 DEF Undo, GoesTo, Keeps, Gets, Returns, Failed
<1>8. CASE Close
  BY <1>8 DEF Close, GoesTo, Keeps, Gets, GoesOn, Returns, Failed
<1>9. CASE Unlink
  BY <1>9 DEF Unlink, GoesTo, Keeps, Leaves, Returns, Failed
<1>10. CASE Cp
  BY <1>10 DEF Cp, GoesTo, Gets, GoesOn, Returns, Failed
<1>11. CASE Rm
  BY <1>11 DEF Rm, GoesTo, Leaves, Returns, Failed
<1> QED
  BY <1>1, <1>2, <1>3, <1>4, <1>5, <1>6, <1>7, <1>8, <1>9, <1>10, <1>11, <1>12 DEF MvNext

(* The inductive invariant holds.                                          *)
THEOREM Moving == MvSpec => []MvInv
<1>1. MvInv /\ [MvNext]_mvvars => MvInv'
  <2> SUFFICES ASSUME MvInv, [MvNext]_mvvars PROVE MvInv'
    OBVIOUS
  <2>1. CASE MvNext
    BY <2>1, MvStepLemma
  <2>2. CASE UNCHANGED mvvars
    BY <2>2 DEF mvvars, MvInv, MvTypeOK, NothingLost, WholeUntilCopied, OthersMoved, AtWork, Moved
  <2> QED
    BY <2>1, <2>2
<1> QED
  BY MvInitLemma, <1>1, PTL DEF MvSpec

(* do_move(), fastcopy() and copy(): whatever fails, whatever is killed,   *)
(* the file is whole somewhere.                                            *)
THEOREM NeverLost == MvSpec => []NothingLost
<1>1. MvInv => NothingLost
  BY DEF MvInv
<1> QED
  BY Moving, <1>1, PTL

(* main(): rval.                                                           *)
THEOREM StatusTrue == MvSpec => []SuccessMeansMoved
<1>1. MvInv => SuccessMeansMoved
  BY DEF MvInv, OthersMoved, SuccessMeansMoved, AtWork
<1> QED
  BY Moving, <1>1, PTL

-----------------------------------------------------------------------------
(* timeout(1).                                                             *)
TimeoutInv == TimeoutTypeOK /\ StatusInv /\ StatusOfCommand /\ OwnSignalInv

(* What one turn of the loop does when it sends sig: it may come back      *)
(* to timeout itself, the command may die of it, and the next kill, with -k*)
(* SIGKILL, is prepared.                                                   *)
Sends(sig) ==
    /\ sent' = sent + 1
    /\ pending' \subseteq pending \union {"CHLD"}
                            \union (IF topt.foreground THEN {} ELSE {sig} \ {"KILL"})
    /\ \/ /\ tpc' \in {"last", "killed"}
          /\ UNCHANGED <<alarm, sig_ign, killsig>>
       \/ /\ tpc' = "suspend"
          /\ alarm' \in {"off", "second"}
          /\ sig_ign' = killsig /\ killsig' = "KILL"
          /\ ~topt.foreground => sig # "KILL"
    /\ early' = (early \/ (sent > 0 /\ "second" \notin elapsed
                                    /\ command \in {"run", "stop"}))

LEMMA EscalateLemma ==
    ASSUME Escalate
    PROVE  \/ tpc' = "last" /\ UNCHANGED <<alarm, sig_ign, killsig>>
           \/ /\ tpc' = "suspend" /\ alarm' \in {"off", "second"}
              /\ sig_ign' = killsig /\ killsig' = "KILL"
BY DEF Escalate, Interval, IgnoresOnce

LEMMA SendsLemma ==
    /\ WokenByAlarm => Sends(killsig)
    /\ WokenByTerm => \E sig \in {killsig, sig_term} : Sends(sig)
<1>1. ASSUME NEW sig, Counted, topt.foreground, Kill(sig) PROVE Sends(sig)
  BY <1>1, EscalateLemma DEF Counted, Kill, Chld, Sends
<1>2. ASSUME NEW sig, Counted, ~topt.foreground, Killpg(sig) PROVE Sends(sig)
  BY <1>2, EscalateLemma DEF Counted, Killpg, Chld, Sends
<1> QED BY <1>1, <1>2 DEF WokenByAlarm, WokenByTerm

LEMMA TimeoutTypeStep ==
    ASSUME TimeoutTypeOK, [TimeoutNext]_timeoutvars PROVE TimeoutTypeOK'
<1> USE DEF TimeoutTypeOK, TermSignal, history, sigvars, killvars, childvars, waitvars
<1>1. CASE Deliver
  BY <1>1 DEF Deliver, Handle
<1>2. CASE StartTimer
  BY <1>2 DEF StartTimer, Interval
<1>3. CASE WokenByChild \/ WokenForNothing
  BY <1>3 DEF WokenByChild, WokenForNothing
<1>4. CASE WokenByAlarm
  <2>1. Sends(killsig)
    BY <1>4, SendsLemma
  <2>2. UNCHANGED <<topt, sig_chld, sig_term, signals>>
    BY <1>4 DEF WokenByAlarm
  <2>3. sig_alrm' \in BOOLEAN
    BY <1>4, Zenon DEF WokenByAlarm
  <2> QED BY <2>1, <2>2, <2>3 DEF Sends
<1>5. CASE WokenByTerm
  <2>1. PICK sig \in {killsig, sig_term} : Sends(sig)
    BY <1>5, SendsLemma
  <2>2. sig_term # "none" /\ UNCHANGED <<topt, sig_chld, sig_alrm, sig_term, signals>>
    BY <1>5 DEF WokenByTerm
  <2> QED BY <2>1, <2>2 DEF Sends
<1>6. CASE WaitChild \/ WaitLast
  BY <1>6 DEF WaitChild, WaitLast
<1>7. CASE Expire
  BY <1>7 DEF Expire
<1>8. CASE ChildChanges
  BY <1>8 DEF ChildChanges
<1>10. CASE Signal
  BY <1>10 DEF Signal
<1>9. CASE UNCHANGED timeoutvars
  BY <1>9 DEF timeoutvars
<1> QED
  BY <1>1, <1>2, <1>3, <1>4, <1>5, <1>6, <1>7, <1>8, <1>9, <1>10
     DEF TimeoutNext, Loop, Finished

LEMMA StatusStep ==
    ASSUME TimeoutTypeOK, StatusInv, StatusOfCommand, [TimeoutNext]_timeoutvars
    PROVE  StatusInv' /\ StatusOfCommand'
<1> USE DEF StatusInv, StatusOfCommand, history, sigvars, killvars, childvars, waitvars
<1>0. sent \in Nat
  BY DEF TimeoutTypeOK
<1>1. CASE Deliver \/ StartTimer \/ WokenByChild \/ WokenForNothing
  BY <1>1 DEF Deliver, StartTimer, WokenByChild, WokenForNothing
<1>2. CASE WokenByAlarm \/ WokenByTerm
  <2>1. sent' = sent + 1
    BY <1>2, SendsLemma DEF Sends
  <2> QED BY <1>0, <2>1
<1>3. CASE WaitChild
  BY <1>3 DEF WaitChild, IsOwn
<1>4. CASE WaitLast
  BY <1>4 DEF WaitLast, IsOwn
<1>5. CASE Expire \/ ChildChanges \/ Signal
  BY <1>5 DEF Expire, ChildChanges, Signal
<1>6. CASE UNCHANGED timeoutvars
  BY <1>6 DEF timeoutvars
<1> QED
  BY <1>1, <1>2, <1>3, <1>4, <1>5, <1>6 DEF TimeoutNext, Loop, Finished

(* A kill that nobody else asked for: the alarm that woke timeout is the   *)
(* first, or the interval of -k is over.                                   *)
LEMMA OwnKillLemma ==
    ASSUME TimeoutTypeOK, OwnSignalInv, signals = 0, WokenByAlarm
    PROVE  (~early /\ OneAlarm /\ (InLoop => OwnSignalOnly))'
<1>1. /\ ~early /\ OneAlarm /\ OwnSignalOnly
      /\ sig_alrm /\ ~sig_alrm' /\ elapsed' = elapsed /\ sig_term' = sig_term
      /\ topt' = topt /\ sent \in Nat
      /\ Sends(killsig)
  BY SendsLemma DEF OwnSignalInv, InLoop, TimeoutTypeOK, WokenByAlarm, history
<1>2. ~early'
  BY <1>1 DEF Sends, OneAlarm
<1>3. OneAlarm'
  BY <1>1 DEF Sends, OneAlarm, TermSignal, TimeoutTypeOK
<1>4. ASSUME InLoop' PROVE OwnSignalOnly'
  <2>1. /\ tpc' = "suspend" /\ sig_ign' = killsig /\ killsig' = "KILL"
        /\ ~topt.foreground => killsig # "KILL"
    BY <1>1, <1>4 DEF Sends, InLoop
  <2>2. CASE topt.foreground
    BY <1>1, <2>1, <2>2 DEF Sends, OwnSignalOnly, TermSignal
  <2>3. CASE ~topt.foreground
    <3>1. sent = 0 /\ sig_ign = "none"
      BY <1>1, <2>1, <2>3 DEF OwnSignalOnly
    <3>2. pending \intersect TermSignal = {}
      BY <1>1, <3>1 DEF OwnSignalOnly, TermSignal
    <3> QED BY <1>1, <2>1, <2>3, <3>2 DEF Sends, OwnSignalOnly, TermSignal
  <2> QED BY <2>2, <2>3
<1> QED BY <1>2, <1>3, <1>4

LEMMA OwnSignalStep ==
    ASSUME TimeoutTypeOK, OwnSignalInv, [TimeoutNext]_timeoutvars
    PROVE  OwnSignalInv'
<1> SUFFICES ASSUME signals' = 0
             PROVE  (~early /\ OneAlarm /\ (InLoop => OwnSignalOnly))'
  BY DEF OwnSignalInv
<1> USE DEF history, sigvars, killvars, childvars, waitvars
<1>1. CASE Signal
  BY <1>1 DEF Signal, TimeoutTypeOK
<1>2. CASE ~Signal
  <2>1. signals = 0
    BY <1>2 DEF TimeoutNext, Loop, Finished, timeoutvars, Deliver, StartTimer,
                WokenByChild, WokenByAlarm, WokenByTerm, WokenForNothing,
                WaitChild, WaitLast, Expire, ChildChanges
  <2>2. ~early /\ OneAlarm /\ (InLoop => OwnSignalOnly)
    BY <2>1 DEF OwnSignalInv
  <2> USE DEF OneAlarm, OwnSignalOnly, InLoop
  <2>3. CASE Deliver
    <3>1. PICK sig \in pending : pending' = pending \ {sig} /\ Handle(sig)
      BY <2>3 DEF Deliver
    <3>2. /\ UNCHANGED <<topt, alarm, killsig, sent, early, elapsed>>
          /\ tpc' \in {"forked", "suspend", "woken"}
          /\ tpc' = "forked" => tpc = "forked"
      BY <2>3 DEF Deliver
    <3>3. OneAlarm'
      <4>1. sig_alrm' => sig_alrm \/ sig = "ALRM"
        BY <3>1, Zenon DEF Handle
      <4> QED BY <2>2, <3>1, <3>2, <4>1
    <3>4. OwnSignalOnly'
      <4>1. sig \in TermSignal => sig = sig_ign
        BY <2>2, <3>2, <2>3 DEF Deliver
      <4>2. /\ sig_term' = sig_term
            /\ sig_ign' = IF sig = sig_ign THEN "none" ELSE sig_ign
        BY <3>1, <4>1 DEF Handle
      <4> QED BY <2>2, <2>3, <3>1, <3>2, <4>1, <4>2 DEF Deliver
    <3> QED BY <2>2, <3>2, <3>3, <3>4
  <2>4. CASE StartTimer
    BY <2>2, <2>4 DEF StartTimer, Interval, TimeoutTypeOK
  <2>5. CASE WokenByChild \/ WokenForNothing
    BY <2>2, <2>5 DEF WokenByChild, WokenForNothing
  <2>6. CASE WokenByAlarm
    BY <2>1, <2>6, OwnKillLemma
  <2>7. CASE WokenByTerm
    BY <2>2, <2>7 DEF WokenByTerm
  <2>8. CASE WaitChild \/ WaitLast
    BY <2>2, <2>8 DEF WaitChild, WaitLast
  <2>9. CASE Expire
    BY <2>2, <2>9 DEF Expire, Alive, TimeoutTypeOK, TermSignal
  <2>10. CASE ChildChanges
    BY <2>2, <2>10 DEF ChildChanges, TermSignal
  <2>11. CASE UNCHANGED timeoutvars
    BY <2>2, <2>11 DEF timeoutvars
  <2> QED
    BY <1>2, <2>3, <2>4, <2>5, <2>6, <2>7, <2>8, <2>9, <2>10, <2>11
       DEF TimeoutNext, Loop, Finished
<1> QED BY <1>1, <1>2

(* The inductive invariant holds.                                          *)
THEOREM Timing == TimeoutSpec => []TimeoutInv
<1>1. TimeoutInit => TimeoutInv
  <2> SUFFICES ASSUME TimeoutInit PROVE TimeoutInv
    OBVIOUS
  <2>1. TimeoutTypeOK
    <3>1. topt \in Durations /\ topt.killsig \in {"TERM", "INT", "KILL"}
      BY DurationsAssumption DEF TimeoutInit, CommandLine
    <3> QED BY <3>1 DEF TimeoutInit, TimeoutTypeOK, TermSignal
  <2>2. StatusInv /\ StatusOfCommand
    BY DEF TimeoutInit, StatusInv, StatusOfCommand
  <2>3. OwnSignalInv
    BY DEF TimeoutInit, OwnSignalInv, OneAlarm, OwnSignalOnly
  <2> QED BY <2>1, <2>2, <2>3 DEF TimeoutInv
<1>2. TimeoutInv /\ [TimeoutNext]_timeoutvars => TimeoutInv'
  BY TimeoutTypeStep, StatusStep, OwnSignalStep DEF TimeoutInv
<1> QED BY <1>1, <1>2, PTL DEF TimeoutSpec

(* sig_handler(): with every command line, and however the signals come    *)
(* together, the signal that timeout sends to its own group is not taken   *)
(* for another's request: nothing is sent again before the interval of -k  *)
(* is over, unless others send signals.                                    *)
THEOREM OwnSignalIsIgnored == TimeoutSpec => []OwnSignalIgnored
<1>1. TimeoutInv => OwnSignalIgnored
  BY DEF TimeoutInv, OwnSignalInv, OwnSignalIgnored, SecondKillWaits
<1> QED BY Timing, <1>1, PTL

(* main(): the exit status is that of the command if nothing was sent.     *)
THEOREM StatusIsTheCommands == TimeoutSpec => []StatusOfCommand
<1>1. TimeoutInv => StatusOfCommand
  BY DEF TimeoutInv
<1> QED BY Timing, <1>1, PTL

-----------------------------------------------------------------------------
(* sed -i and sed -I.                                                      *)
Line == Nat \X Int
State == [ps : Seq(Line), hs : Seq(Line), range : SUBSET Nat, linenum : Nat, appends : Nat]

SedTypeOK ==
    /\ orig \in [Files -> Seq(Line)]
    /\ disk \in [Files -> Seq(Line) \union {None}]
    /\ old \in [Files -> Seq(Line) \union {None}]
    /\ file \in 0..NFiles
    /\ s \in State
    /\ cp \in Nat
    /\ rest \in Seq(Line) \union {None}
    /\ spc \in {"script", "fgets", "unlink", "link", "close", "rename", "exit"}
    /\ spc # "exit" => out \in Seq(Line)

(* A file is as it was until the last line of it was read and its backup   *)
(* is made.                                                                *)
Untouched ==
    /\ rest # None => file >= 1
    /\ spc \notin {"fgets", "exit"} => rest # None
    /\ \A f \in Files : f > file => disk[f] = orig[f]
    /\ rest # None /\ spc \in {"script", "fgets", "unlink", "link"} => disk[file] = orig[file]

SedInv == SedTypeOK /\ Untouched /\ EditLosesNothing

(* What is no file is no sequence of lines.                                *)
LEMMA NoLines == None \notin Seq(Line) /\ Truncated \notin Seq(Line)
<1>1. ASSUME NEW q \in Seq(Line), Len(q) = 1 PROVE q[1][1] \in Nat
  <2>1. q[1] \in Line
    BY <1>1
  <2> QED
    BY <2>1 DEF Line
<1>2. Len(None) = 1 /\ Len(Truncated) = 1 /\ None[1][1] = -1 /\ Truncated[1][1] = -1
  BY DEF None, Truncated
<1>3. -1 \notin Nat
  OBVIOUS
<1> QED
  BY <1>1, <1>2, <1>3

LEMMA LineTypes ==
    /\ Empty \in Line /\ Text \in Line
    /\ \A n \in Nat : Number(n) \in Line
    /\ \A f, k \in Nat : <<f, k>> \in Line
BY DEF Empty, Text, Number, Line

(* applies() and the commands keep the state of the script well formed.    *)
LEMMA StateTypes ==
    ASSUME SedTypeOK
    PROVE  /\ Selected.state \in State /\ Selected.r \in BOOLEAN
           /\ \A t \in State : Flushed(t) \in State /\ Appended(t) \in Seq(Line)
           /\ \A t \in State : t.ps \in Seq(Line)
<1> USE DEF State
<1>1. s \in State /\ cp \in Nat
  BY DEF SedTypeOK
<1>2. OpenRange(s, cp) \in State /\ CloseRange(s, cp) \in State
  BY <1>1 DEF OpenRange, CloseRange
<1>3. Selected.state \in {s, OpenRange(s, cp), CloseRange(s, cp)}
  BY DEF Selected, Applies
<1>4. Lastline \in BOOLEAN
  BY DEF Lastline
<1>5. Selected.r \in BOOLEAN
  <2> DEFINE l == Lastline
  <2>1. l \in BOOLEAN
    BY <1>4
  <2> HIDE DEF l
  <2>2. Applies(script, s, cp, l).r \in BOOLEAN
    BY <2>1 DEF Applies
  <2> QED BY <2>2 DEF Selected, l
<1>6. ASSUME NEW t \in State PROVE Flushed(t) \in State /\ t.ps \in Seq(Line)
  BY <1>6 DEF Flushed
<1>7. ASSUME NEW t \in State PROVE Appended(t) \in Seq(Line)
  <2>1. t.appends \in Nat /\ Text \in Line
    BY <1>7, LineTypes
  <2> QED BY <2>1 DEF Appended
<1> QED BY <1>1, <1>2, <1>3, <1>5, <1>6, <1>7

LEMMA CommandTypes ==
    ASSUME NEW t \in State, NEW code
    PROVE  /\ RunCommand(t, code) \in State /\ Shown(t, code) \in Seq(Line)
           /\ HasNewline(t.ps) => [t EXCEPT !.ps = Tail(@)] \in State
<1>1. t.ps \in Seq(Line) /\ t.hs \in Seq(Line) /\ t.linenum \in Nat /\ t.appends \in Nat
  BY DEF State
<1>2. t.ps \o t.hs \in Seq(Line) /\ t.hs \o t.ps \in Seq(Line)
  BY <1>1
<1>3. Number(t.linenum) \in Line
  BY <1>1, LineTypes
<1>4. RunCommand(t, code) \in State
  <2>1. CASE code = "a"
    <3>1. t.appends + 1 \in Nat
      BY <1>1
    <3> QED BY <2>1, <3>1 DEF RunCommand, State
  <2>4. CASE code \in {"g", "h"}
    BY <1>1, <2>4 DEF RunCommand, State
  <2>5. CASE code = "x"
    BY <1>1, <2>5 DEF RunCommand, State
  <2>2. CASE code \in {"G", "H"}
    BY <1>1, <1>2, <2>2 DEF RunCommand, State
  <2>3. CASE code \notin {"a", "g", "h", "x", "G", "H"}
    BY <2>3 DEF RunCommand
  <2> QED BY <2>1, <2>2, <2>3, <2>4, <2>5
<1>5. Shown(t, code) \in Seq(Line)
  BY <1>1, <1>3 DEF Shown
<1>6. ASSUME HasNewline(t.ps) PROVE [t EXCEPT !.ps = Tail(@)] \in State
  <2>1. Tail(t.ps) \in Seq(Line)
    BY <1>1, <1>6 DEF HasNewline
  <2> QED BY <2>1 DEF State
<1> QED BY <1>4, <1>5, <1>6

(* process(): a step of the script.                                        *)
ScriptGoesOn ==
    spc' \in {"script", "fgets", "exit"} /\ s' \in State /\ cp' \in Nat /\ out' \in Seq(Line)
LEMMA ProcessStep ==
    ASSUME SedInv, Process PROVE SedInv'
<1>1. SedTypeOK /\ Untouched /\ EditLosesNothing
  BY DEF SedInv
<1>2. /\ UNCHANGED <<orig, disk, old, file, rest>>
      /\ spc = "script"
  BY DEF Process, cmdline, directory
<1>3. ScriptGoesOn
  <2> DEFINE t == Selected.state
             code == script[cp].code
             More == cp <= Len(script)
  <2>1. s \in State /\ cp \in Nat /\ out \in Seq(Line)
    BY <1>1, <1>2 DEF SedTypeOK
  <2>2. /\ t \in State /\ Flushed(t) \in State /\ Appended(t) \in Seq(Line)
        /\ t.ps \in Seq(Line)
    BY <1>1, StateTypes
  <2>3. Flushed(s) \in State /\ Appended(s) \in Seq(Line) /\ s.ps \in Seq(Line)
    BY <1>1, <2>1, StateTypes
  <2>4. RunCommand(t, code) \in State /\ Shown(t, code) \in Seq(Line)
    BY <2>2, CommandTypes
  <2>5. \A n \in Nat : n + 1 \in Nat
    OBVIOUS
  <2>6. HasNewline(t.ps) => [t EXCEPT !.ps = Tail(@)] \in State
    <3>1. t \in State
      BY <2>2
    <3> HIDE DEF t
    <3> QED BY <3>1, CommandTypes
  <2>7. (IF More THEN Execute ELSE EndCycle(s, s.ps))
    BY DEF Process
  <2>8. ASSUME ~More PROVE ScriptGoesOn
    <3>1. EndCycle(s, s.ps)
      BY <2>7, <2>8
    <3> QED
      BY <1>2, <2>1, <2>3, <3>1 DEF EndCycle, Reads, ScriptGoesOn
  <2>9. ASSUME More PROVE ScriptGoesOn
    <3>1. Execute
      BY <2>7, <2>9
    <3> HIDE DEF More
    <3>2. CASE ~Selected.r
      BY <1>2, <2>1, <2>2, <2>5, <3>1, <3>2 DEF Execute, ScriptGoesOn
    <3>3. CASE Selected.r /\ (code = "d" \/ (code = "D" /\ ~HasNewline(t.ps)))
      <4>1. EndCycle(t, <<>>)
        BY <3>1, <3>3 DEF Execute
      <4> HIDE DEF t
      <4> QED
        BY <1>2, <2>1, <2>2, <4>1 DEF EndCycle, Reads, ScriptGoesOn
    <3>4. CASE Selected.r /\ code = "D" /\ HasNewline(t.ps)
      <4>1. s' = [t EXCEPT !.ps = Tail(@)] /\ cp' = 1 /\ UNCHANGED <<out, spc>>
        BY <3>1, <3>4 DEF Execute
      <4>2. s' \in State
        BY <2>6, <3>4, <4>1
      <4> HIDE DEF t, code
      <4> QED
        BY <1>2, <2>1, <4>1, <4>2 DEF ScriptGoesOn
    <3>5. CASE Selected.r /\ code \in {"n", "N"}
      <4>1. /\ s' = Flushed(t)
            /\ out' = out \o (IF code = "n" THEN t.ps ELSE <<>>) \o Appended(t)
            /\ Reads(code)
        BY <3>1, <3>5 DEF Execute
      <4> HIDE DEF t, code
      <4> QED
        BY <1>2, <2>1, <2>2, <4>1 DEF Reads, ScriptGoesOn
    <3>6. CASE Selected.r /\ code = "q"
      <4>1. /\ s' = Flushed(t)
            /\ out' = out \o t.ps \o Appended(t)
            /\ spc' = "exit" /\ UNCHANGED cp
        BY <3>1, <3>6 DEF Execute
      <4> HIDE DEF t, code
      <4> QED
        BY <1>2, <2>1, <2>2, <4>1 DEF ScriptGoesOn
    <3>7. CASE Selected.r /\ code \notin {"d", "D", "n", "N", "q"}
      <4>1. /\ s' = RunCommand(t, code) /\ cp' = cp + 1
            /\ out' = out \o Shown(t, code)
            /\ UNCHANGED spc
        BY <3>1, <3>7 DEF Execute
      <4> HIDE DEF t, code
      <4> QED
        BY <1>2, <2>1, <2>4, <2>5, <4>1 DEF ScriptGoesOn
    <3> HIDE DEF t, code
    <3> QED
      BY <3>2, <3>3, <3>4, <3>5, <3>6, <3>7
  <2> QED BY <2>8, <2>9
<1> QED
  BY <1>1, <1>2, <1>3 DEF ScriptGoesOn, SedInv, SedTypeOK, Untouched, EditLosesNothing

(* mf_fgets(): a line is read, or the file is replaced.                    *)
LEMMA FgetsStep ==
    ASSUME SedInv, Fgets PROVE SedInv'
<1>1. SedTypeOK /\ Untouched /\ EditLosesNothing
  BY DEF SedInv
<1>2. /\ UNCHANGED <<orig, disk, old, file, out>>
      /\ spc = "fgets" /\ spc' = "script" /\ rest \notin {None, <<>>}
  BY DEF Fgets, cmdline, directory
<1>3. rest \in Seq(Line) /\ rest # <<>>
  BY <1>1, <1>2 DEF SedTypeOK
<1>4. rest' = Tail(rest) /\ rest' \in Seq(Line) /\ Head(rest) \in Line
  BY <1>3 DEF Fgets
<1>5. rest' # None
  BY <1>4, NoLines
<1>6. cp' \in Nat
  BY <1>1 DEF Fgets, SedTypeOK
<1>7. s' \in State
  <2> DEFINE line == Head(rest)
             N == caller = "N"
  <2>1. s \in State /\ line \in Line /\ s' = Given(s, line, N)
    BY <1>1, <1>4 DEF Fgets, SedTypeOK
  <2> HIDE DEF line, N
  <2>2. /\ s.ps \in Seq(Line) /\ s.linenum + 1 \in Nat
        /\ Append(s.ps, line) \in Seq(Line) /\ <<line>> \in Seq(Line)
    BY <2>1 DEF State
  <2> QED BY <2>1, <2>2 DEF Given, State
<1>8. SedTypeOK'
  BY <1>1, <1>2, <1>4, <1>6, <1>7 DEF SedTypeOK
<1>9. Untouched'
  BY <1>1, <1>2, <1>5 DEF Untouched
<1> QED
  BY <1>1, <1>2, <1>8, <1>9 DEF SedInv, EditLosesNothing

LEMMA ReplaceStep ==
    ASSUME SedInv, WriteFails \/ Eof \/ UnlinkBackup \/ LinkBackup \/ CloseOut \/ RenameOver
                   \/ Finish
    PROVE  SedInv'
<1> USE DEF cmdline, directory
<1>1. SedTypeOK /\ Untouched /\ EditLosesNothing
  BY DEF SedInv
<1>2. CASE WriteFails \/ Finish
  BY <1>1, <1>2 DEF WriteFails, Finish, SedInv, SedTypeOK, Untouched, EditLosesNothing
<1>3. CASE Eof
  <2>1. <<>> \in Seq(Line)
    OBVIOUS
  <2>2. rest # None
    BY <1>3, <2>1, NoLines DEF Eof
  <2> QED
    BY <1>1, <1>3, <2>2 DEF Eof, SedInv, SedTypeOK, Untouched, EditLosesNothing
<1>4. CASE UnlinkBackup
  <2>1. file \in Files /\ disk[file] = orig[file] /\ disk[file] \notin {None, Truncated}
    BY <1>1, <1>4, NoLines DEF UnlinkBackup, SedTypeOK, Untouched, Files
  <2>2. SedTypeOK'
    BY <1>1, <1>4 DEF UnlinkBackup, SedTypeOK
  <2>3. Untouched'
    BY <1>1, <1>4 DEF UnlinkBackup, Untouched
  <2>4. EditLosesNothing'
    BY <1>1, <1>4, <2>1 DEF UnlinkBackup, SedTypeOK, EditLosesNothing
  <2> QED BY <2>2, <2>3, <2>4 DEF SedInv
<1>5. CASE LinkBackup
  <2>1. file \in Files /\ disk[file] = orig[file] /\ disk[file] \in Seq(Line)
    BY <1>1, <1>5 DEF LinkBackup, SedTypeOK, Untouched, Files
  <2>2. /\ UNCHANGED <<orig, file, rest, s, cp, out>>
        /\ spc' \in {"close", "exit"} /\ spc = "link"
        /\ \/ disk' = disk
           \/ disk' = [disk EXCEPT ![file] = None] /\ spc' = "close"
        /\ old' = old \/ old' = [old EXCEPT ![file] = orig[file]]
        /\ disk' = disk \/ old' = [old EXCEPT ![file] = orig[file]]
    BY <1>5, <2>1 DEF LinkBackup
  <2>3. orig[file] \in Seq(Line)
    BY <2>1
  <2>4. SedTypeOK'
    BY <1>1, <2>2, <2>3 DEF SedTypeOK
  <2>5. Untouched'
    BY <1>1, <2>1, <2>2 DEF SedTypeOK, Untouched
  <2>6. EditLosesNothing'
    BY <1>1, <2>1, <2>2, NoLines DEF SedTypeOK, EditLosesNothing
  <2> QED BY <2>4, <2>5, <2>6 DEF SedInv
<1>6. CASE CloseOut
  <2>1. /\ UNCHANGED <<orig, disk, old, file, rest, s, cp>>
        /\ spc = "close" /\ ((spc' = "rename" /\ out' = out) \/ spc' = "exit")
    BY <1>6 DEF CloseOut, CloseFails
  <2> QED
    BY <1>1, <2>1 DEF SedInv, SedTypeOK, Untouched, EditLosesNothing
<1>7. CASE RenameOver
  <2>1. /\ file \in Files /\ out \in Seq(Line)
        /\ UNCHANGED <<orig, old, file, s, cp, out>>
        /\ spc = "rename"
        /\ \/ disk' = [disk EXCEPT ![file] = out] /\ spc' = "fgets" /\ rest' = None
           \/ spc' = "exit" /\ UNCHANGED <<disk, rest>>
    BY <1>1, <1>7 DEF RenameOver, SedTypeOK, Untouched, Files
  <2>2. SedTypeOK'
    BY <1>1, <2>1 DEF SedTypeOK
  <2>3. Untouched'
    BY <1>1, <2>1 DEF SedTypeOK, Untouched
  <2>4. EditLosesNothing'
    BY <1>1, <2>1, NoLines DEF SedTypeOK, EditLosesNothing
  <2> QED BY <2>2, <2>3, <2>4 DEF SedInv
<1> QED BY <1>2, <1>3, <1>4, <1>5, <1>6, <1>7

(* mf_fgets(): the next file is begun.                                     *)
LEMMA NextFileStep ==
    ASSUME SedInv, NextFile PROVE SedInv'
<1>1. SedTypeOK /\ Untouched /\ EditLosesNothing
  BY DEF SedInv
<1>2. /\ UNCHANGED <<orig, disk, old, spc, cp>>
      /\ spc = "fgets" /\ rest = None /\ file' = file + 1 /\ file < NFiles
      /\ rest' \in {None, orig[file']} /\ out' = <<>>
      /\ s' \in {s, Resetstate(s)}
  BY DEF NextFile, cmdline
<1>3. file' \in Files /\ file' > file /\ file' >= 1 /\ file' \in 0..NFiles
  BY <1>1, <1>2, SedAssumption DEF SedTypeOK, Files
<1>4. Resetstate(s) \in State
  <2>1. s \in State /\ <<Empty>> \in Seq(Line)
    BY <1>1, LineTypes DEF SedTypeOK
  <2> QED BY <2>1 DEF Resetstate, State
<1>5. orig[file'] \in Seq(Line) /\ <<>> \in Seq(Line)
  BY <1>1, <1>3 DEF SedTypeOK
<1>6. SedTypeOK'
  BY <1>1, <1>2, <1>3, <1>4, <1>5 DEF SedTypeOK
<1>7. \A f \in Files : f > file' => f > file
  BY <1>1, <1>2 DEF SedTypeOK, Files
<1>8. Untouched'
  BY <1>1, <1>2, <1>3, <1>7 DEF Untouched
<1> QED
  BY <1>1, <1>2, <1>6, <1>8 DEF SedInv, EditLosesNothing

(* mf_fgets(): wherever sed is killed or fails, for any script, any files  *)
(* and any number of failures, each of them has its old content or all of  *)
(* the new one, or its backup has the old one.                             *)
THEOREM EditsLoseNothing == SedSpec => []EditLosesNothing
<1>1. SedInit => SedInv
  <2> SUFFICES ASSUME SedInit PROVE SedInv
    OBVIOUS
  <2>1. PICK lens \in [Files -> Originals] :
            orig = [f \in Files |-> [k \in 1..lens[f] |-> <<f, k>>]]
    BY DEF SedInit
  <2>2. ASSUME NEW f \in Files PROVE [k \in 1..lens[f] |-> <<f, k>>] \in Seq(Line)
    <3>1. lens[f] \in Nat
      BY <2>1, SedAssumption
    <3>2. \A k \in 1..lens[f] : <<f, k>> \in Line
      BY <3>1, LineTypes DEF Files
    <3> QED BY <3>1, <3>2
  <2>3. orig \in [Files -> Seq(Line)]
    BY <2>1, <2>2
  <2>4. Blank \in State
    <3>1. <<Empty>> \in Seq(Line)
      BY LineTypes
    <3> QED BY <3>1 DEF Blank, State
  <2>5. SedTypeOK
    BY <2>3, <2>4, SedAssumption DEF SedInit, SedTypeOK
  <2>6. Untouched
    BY DEF SedInit, Untouched
  <2>7. EditLosesNothing
    BY <2>3, NoLines DEF SedInit, EditLosesNothing
  <2> QED BY <2>5, <2>6, <2>7 DEF SedInv
<1>2. SedInv /\ [SedNext]_sedvars => SedInv'
  <2>1. SedInv /\ UNCHANGED sedvars => SedInv'
    BY DEF sedvars, cmdline, directory, SedInv, SedTypeOK, Untouched, EditLosesNothing
  <2> QED BY <2>1, ProcessStep, FgetsStep, ReplaceStep, NextFileStep DEF SedNext
<1>3. SedInv => EditLosesNothing
  BY DEF SedInv
<1> QED BY <1>1, <1>2, <1>3, PTL DEF SedSpec

-----------------------------------------------------------------------------
(* ttymsg().                                                               *)
StartsOf(lens, n, g) == g = [i \in 0..n |-> IF i = 0 THEN 0 ELSE g[i - 1] + lens[i]]

LEMMA StartsExist ==
    ASSUME NEW n \in Nat, NEW lens \in [1..n -> Nat]
    PROVE  \E f \in [0..n -> Nat] : StartsOf(lens, n, f)
<1> DEFINE step == [p \in (1..n) \X Nat |-> p[2] + lens[p[1]]]
           T == Nat
<1>1. step \in Steps(n, T) /\ 0 \in T
  BY DEF Steps
<1>2. \A i \in 1..n, k \in Nat : step[<<i, k>>] = k + lens[i]
  OBVIOUS
<1> HIDE DEF step, T
<1>3. PICK f : Recursion(f, n, T, 0, step)
  BY <1>1, RecursionExists
<1>4. /\ f \in [0..n -> T] /\ f[0] = 0
      /\ \A i \in 1..n : f[i] = step[<<i, f[i - 1]>>]
  BY <1>3 DEF Recursion
<1>5. \A i \in 1..n : i - 1 \in 0..n /\ f[i - 1] \in Nat
  BY <1>4 DEF T
<1>6. \A i \in 1..n : f[i] = f[i - 1] + lens[i]
  BY <1>2, <1>4, <1>5
<1>7. \A i \in 0..n : f[i] = IF i = 0 THEN 0 ELSE f[i - 1] + lens[i]
  BY <1>4, <1>6
<1>8. f \in [0..n -> Nat]
  BY <1>4 DEF T
<1> QED
  BY <1>7, <1>8 DEF StartsOf

LEMMA StartsRecursion ==
    ASSUME NEW lens \in Seq(Nat)
    PROVE  /\ Starts(lens)[0] = 0
           /\ \A i \in 1..Len(lens) : Starts(lens)[i] = Starts(lens)[i - 1] + lens[i]
<1> DEFINE n == Len(lens)
           g == Starts(lens)
<1>1. n \in Nat /\ lens \in [1..n -> Nat]
  OBVIOUS
<1>2. \E f : StartsOf(lens, n, f)
  BY <1>1, StartsExist
<1>3. g = CHOOSE f : StartsOf(lens, n, f)
  BY DEF Starts, StartsOf
<1> HIDE DEF g, n
<1>4. StartsOf(lens, n, g)
  BY <1>2, <1>3
<1>5. /\ g[0] = 0
      /\ \A i \in 1..n : g[i] = g[i - 1] + lens[i]
  BY <1>1, <1>4 DEF StartsOf
<1> QED
  BY <1>5 DEF g, n

(* A vector of parts that follow each other, from Base to End.             *)
Base(q) == q[1].base
End(q) == q[Len(q)].base + q[Len(q)].len
Vector(q) ==
    /\ q \in Seq(PartRecord) /\ Len(q) >= 1
    /\ \A i \in 1..Len(q) : q[i].base \in Nat /\ q[i].len \in Nat
    /\ \A i \in 1..Len(q) : i # Len(q) => q[i + 1].base = q[i].base + q[i].len

(* In such a vector, what is before a part is what its place says.         *)
LEMMA VectorLemma ==
    ASSUME NEW q, Vector(q)
    PROVE  /\ \A i \in 1..Len(q) : Before(q, i) = q[i].base - Base(q)
           /\ Total(q) = End(q) - Base(q)
<1> DEFINE n == Len(q)
           b == Base(q)
           e == End(q)
           lens == Lens(q)
           f == Starts(lens)
           h == [i \in 0..n |-> (IF i = n THEN e ELSE q[i + 1].base) - b]
<1>1. n \in Nat /\ n >= 1 /\ DOMAIN q = 1..n
  BY DEF Vector
<1>2. /\ \A i \in 1..n : q[i].base \in Nat /\ q[i].len \in Nat
      /\ \A i \in 1..n : i # n => q[i + 1].base = q[i].base + q[i].len
      /\ q[1].base = b /\ e = q[n].base + q[n].len
  BY DEF Vector, Base, End
<1>3. lens = [i \in 1..n |-> q[i].len]
  BY <1>1 DEF Lens
<1> HIDE DEF f, h, n, b, e
<1>4. lens \in Seq(Nat) /\ Len(lens) = n /\ \A i \in 1..n : lens[i] = q[i].len
  <2> HIDE DEF lens
  <2>1. lens \in [1..n -> Nat] /\ \A i \in 1..n : lens[i] = q[i].len
    BY <1>3, <1>2
  <2> QED BY <1>1, <2>1
<1> HIDE DEF lens
<1>5. f[0] = 0 /\ \A i \in 1..n : f[i] = f[i - 1] + q[i].len
  BY <1>4, StartsRecursion DEF f
<1>6. \A i \in 0..n : h[i] = (IF i = n THEN e ELSE q[i + 1].base) - b
  BY DEF h
<1>7. 1 \in 1..n /\ n \in 1..n /\ 0 \in 0..n /\ n \in 0..n /\ b \in Nat /\ e \in Nat
  BY <1>1, <1>2
<1>8. h[0] = 0
  <2>1. 0 # n /\ 0 + 1 = 1
    BY <1>1
  <2>2. h[0] = q[0 + 1].base - b
    BY <1>6, <1>7, <2>1
  <2> QED BY <1>2, <1>7, <2>1, <2>2
<1>9. ASSUME NEW i \in 1..n PROVE h[i - 1] = q[i].base - b
  <2>1. i - 1 \in 0..n /\ i - 1 # n /\ (i - 1) + 1 = i
    BY <1>1
  <2> QED BY <1>6, <2>1
<1>10. ASSUME NEW i \in 1..n PROVE h[i] = h[i - 1] + q[i].len
  <2>1. h[i - 1] = q[i].base - b
    BY <1>9
  <2>2. q[i].base \in Nat /\ q[i].len \in Nat /\ i \in 0..n
    BY <1>1, <1>2
  <2>3. CASE i = n
    <3>1. h[i] = (q[i].base + q[i].len) - b
      BY <1>2, <1>6, <2>2, <2>3
    <3> QED BY <1>7, <2>1, <2>2, <3>1
  <2>4. CASE i # n
    <3>1. h[i] = (q[i].base + q[i].len) - b
      BY <1>2, <1>6, <2>2, <2>4
    <3> QED BY <1>7, <2>1, <2>2, <3>1
  <2> QED BY <2>3, <2>4
<1>11. h[n] = e - b
  BY <1>6, <1>7
<1>12. n = Len(q) /\ f = Starts(Lens(q)) /\ Len(q) = Len(Lens(q)) /\ b = Base(q) /\ e = End(q)
  BY <1>4 DEF n, f, lens, b, e
<1>13. StepsAlike(f, h, n)
  BY <1>5, <1>8, <1>10 DEF StepsAlike
<1>14. \A i \in 0..n : f[i] = h[i]
  BY <1>1, <1>13, RecursionUnique
<1>15. \A i \in 1..n : i - 1 \in 0..n /\ n \in 0..n
  BY <1>1
<1> QED
  BY <1>1, <1>9, <1>11, <1>12, <1>14, <1>15 DEF Before, Total

LEMMA ConsecutiveLemma ==
    ASSUME NEW n \in Nat, n >= 1, NEW lens \in [1..n -> Nat]
    PROVE  Vector(Consecutive(lens)) /\ Base(Consecutive(lens)) = 0
<1> DEFINE q == Consecutive(lens)
           st == Starts(lens)
<1>1. lens \in Seq(Nat) /\ Len(lens) = n /\ DOMAIN lens = 1..n
  OBVIOUS
<1>2. st[0] = 0 /\ \A i \in 1..n : st[i] = st[i - 1] + lens[i]
  BY <1>1, StartsRecursion
<1>3. q = [i \in 1..n |-> [base |-> st[i - 1], len |-> lens[i]]]
  BY <1>1 DEF Consecutive
<1> HIDE DEF q, st
<1>4. \A i \in 0..n : st[i] \in Nat
  <2> DEFINE G == {i \in Nat : i <= n => st[i] \in Nat}
  <2>1. 0 \in G
    BY <1>2
  <2>2. ASSUME NEW k \in Nat, k \in G PROVE k + 1 \in G
    <3> SUFFICES ASSUME k + 1 <= n PROVE st[k + 1] \in Nat
      OBVIOUS
    <3>1. st[k] \in Nat /\ k + 1 \in 1..n /\ (k + 1) - 1 = k
      BY <2>2
    <3>2. lens[k + 1] \in Nat /\ st[k + 1] = st[k] + lens[k + 1]
      BY <1>2, <3>1
    <3> QED BY <3>1, <3>2
  <2> HIDE DEF G
  <2>3. Nat \subseteq G
    BY <2>1, <2>2, SetInduction
  <2> QED BY <2>3 DEF G
<1>5. \A i \in 1..n : i - 1 \in 0..n
  OBVIOUS
<1>6. q \in Seq(PartRecord) /\ Len(q) = n
  <2>1. \A i \in 1..n : [base |-> st[i - 1], len |-> lens[i]] \in PartRecord
    BY <1>4, <1>5 DEF PartRecord
  <2> QED BY <1>3, <2>1
<1>7. \A i \in 1..n : q[i].base = st[i - 1] /\ q[i].len = lens[i]
  BY <1>3
<1>8. \A i \in 1..n : q[i].base \in Nat /\ q[i].len \in Nat
  BY <1>4, <1>5, <1>7
<1>9. ASSUME NEW i \in 1..n, i # n PROVE q[i + 1].base = q[i].base + q[i].len
  <2>1. i + 1 \in 1..n /\ (i + 1) - 1 = i
    BY <1>9
  <2> QED BY <1>2, <1>7, <2>1
<1>10. Vector(q)
  BY <1>6, <1>8, <1>9 DEF Vector
<1>11. Base(q) = 0
  BY <1>2, <1>7 DEF Base
<1> QED BY <1>10, <1>11 DEF q

(* The part in which a place is, where it is and what is left of it.       *)
LEMMA PartAtLemma ==
    ASSUME NEW q, Vector(q), NEW n \in Nat, n < Total(q)
    PROVE  /\ PartAt(q, n) \in 1..Len(q)
           /\ q[PartAt(q, n)].base <= Base(q) + n
           /\ Base(q) + n < q[PartAt(q, n)].base + q[PartAt(q, n)].len
           /\ Before(q, PartAt(q, n)) = q[PartAt(q, n)].base - Base(q)
<1> DEFINE L == Len(q)
           b == Base(q)
           S == {i \in 1..L : b + n < q[i].base + q[i].len}
<1>1. L \in Nat /\ L >= 1 /\ DOMAIN q = 1..L /\ b \in Nat
  BY DEF Vector, Base
<1>2. /\ \A i \in 1..L : q[i].base \in Nat /\ q[i].len \in Nat
      /\ \A i \in 1..L : i # L => q[i + 1].base = q[i].base + q[i].len
      /\ q[1].base = b
  BY DEF Vector, Base
<1>3. \A i \in 1..L : Before(q, i) = q[i].base - b
  BY VectorLemma
<1>4. n < (q[L].base + q[L].len) - b
  <2>1. End(q) = q[L].base + q[L].len /\ Total(q) = End(q) - b
    BY VectorLemma DEF End
  <2>2. n < Total(q)
    OBVIOUS
  <2>3. Total(q) = (q[L].base + q[L].len) - b
    BY <2>1
  <2> HIDE DEF L, b
  <2> QED BY <2>2, <2>3
<1> HIDE DEF L, b
<1>5. L \in S
  BY <1>1, <1>2, <1>4
<1>6. PICK k \in S : \A m \in S : k <= m
  <2>1. S \subseteq Nat /\ S # {}
    BY <1>1, <1>5
  <2> HIDE DEF S
  <2> QED BY <2>1, Least
<1>7. q[k].base <= b + n
  <2>1. CASE k = 1
    BY <1>1, <1>2, <2>1
  <2>2. CASE k # 1
    <3>1. k - 1 \in 1..L /\ k - 1 # L /\ (k - 1) + 1 = k /\ ~(k <= k - 1)
      BY <1>1, <1>6, <2>2
    <3>2. k - 1 \notin S
      BY <1>6, <3>1
    <3>3. ~(b + n < q[k - 1].base + q[k - 1].len)
      BY <3>1, <3>2
    <3>4. q[k].base = q[k - 1].base + q[k - 1].len
      BY <1>2, <3>1
    <3>5. q[k - 1].base \in Nat /\ q[k - 1].len \in Nat
      BY <1>2, <3>1
    <3> QED BY <1>1, <3>3, <3>4, <3>5
  <2> QED BY <2>1, <2>2
<1> DEFINE Here(i) == Before(q, i) <= n /\ n < Before(q, i) + q[i].len
           j == PartAt(q, n)
<1>8. Here(k) /\ k \in 1..L
  BY <1>1, <1>2, <1>3, <1>6, <1>7
<1>9. j = CHOOSE i \in 1..L : Here(i)
  BY <1>1 DEF PartAt
<1> HIDE DEF Here, j
<1>10. j \in 1..L /\ Here(j)
  BY <1>8, <1>9
<1>11. q[j].base \in Nat /\ q[j].len \in Nat /\ Before(q, j) = q[j].base - b
  BY <1>2, <1>3, <1>10
<1>12. q[j].base <= b + n /\ b + n < q[j].base + q[j].len
  BY <1>1, <1>10, <1>11 DEF Here
<1> QED BY <1>10, <1>11, <1>12 DEF j, b, L

LEMMA PrependLemma ==
    ASSUME NEW T, NEW x \in T, NEW q \in Seq(T)
    PROVE  /\ <<x>> \o q \in Seq(T) /\ Len(<<x>> \o q) = Len(q) + 1
           /\ (<<x>> \o q)[1] = x
           /\ \A i \in 2..(Len(q) + 1) : (<<x>> \o q)[i] = q[i - 1]
OBVIOUS

(* What is not written follows what is, up to the same end.                *)
LEMMA RestLemma ==
    ASSUME NEW q, Vector(q), NEW n \in Nat, n < Total(q)
    PROVE  /\ Vector(Rest(q, n))
           /\ Base(Rest(q, n)) = Base(q) + n /\ End(Rest(q, n)) = End(q)
<1> DEFINE L == Len(q)
           b == Base(q)
           j == PartAt(q, n)
           done == n - Before(q, j)
           first == [base |-> q[j].base + done, len |-> q[j].len - done]
           r == Rest(q, n)
<1>1. L \in Nat /\ L >= 1 /\ q \in Seq(PartRecord) /\ b \in Nat
  BY DEF Vector, Base
<1>2. /\ \A i \in 1..L : q[i].base \in Nat /\ q[i].len \in Nat
      /\ \A i \in 1..L : i # L => q[i + 1].base = q[i].base + q[i].len
  BY DEF Vector
<1>3. /\ j \in 1..L
      /\ q[j].base <= b + n /\ b + n < q[j].base + q[j].len
      /\ done = n - (q[j].base - b)
  BY PartAtLemma
<1>4. r = <<first>> \o SubSeq(q, j + 1, L)
  BY DEF Rest
<1>5. End(q) = q[L].base + q[L].len
  BY DEF End
<1> HIDE DEF L, b, j, done, r
<1>6. /\ first \in PartRecord /\ first.base = b + n
      /\ first.base + first.len = q[j].base + q[j].len
  <2>1. q[j].base \in Nat /\ q[j].len \in Nat
    BY <1>2, <1>3
  <2>2. /\ q[j].base + done = b + n /\ b + n \in Nat
        /\ q[j].len - done \in Nat
        /\ (q[j].base + done) + (q[j].len - done) = q[j].base + q[j].len
    <3> DEFINE x == q[j].base
               y == q[j].len
    <3>1. x \in Nat /\ y \in Nat /\ x <= b + n /\ b + n < x + y /\ done = n - (x - b)
      BY <1>3, <2>1
    <3> HIDE DEF x, y
    <3>2. x + done = b + n /\ b + n \in Nat /\ y - done \in Nat /\ (x + done) + (y - done) = x + y
      BY <1>1, <3>1
    <3> QED BY <3>2 DEF x, y
  <2> QED BY <2>2 DEF PartRecord
<1> HIDE DEF first
<1>7. /\ SubSeq(q, j + 1, L) \in Seq(PartRecord)
      /\ Len(SubSeq(q, j + 1, L)) = L - j
      /\ \A i \in 1..(L - j) : SubSeq(q, j + 1, L)[i] = q[j + i]
  BY <1>1, <1>3 DEF L
<1>8. /\ r \in Seq(PartRecord) /\ Len(r) = L - j + 1 /\ r[1] = first
      /\ \A i \in 2..(L - j + 1) : r[i] = q[j + i - 1]
  <2> DEFINE t == SubSeq(q, j + 1, L)
  <2>1. t \in Seq(PartRecord) /\ Len(t) = L - j /\ r = <<first>> \o t
    BY <1>4, <1>7
  <2>2. \A i \in 1..(L - j) : t[i] = q[j + i]
    BY <1>7
  <2> HIDE DEF t
  <2>3. <<first>> \in Seq(PartRecord) /\ L - j \in Nat
    BY <1>1, <1>3, <1>6
  <2>4. /\ r \in Seq(PartRecord) /\ Len(r) = L - j + 1 /\ r[1] = first
        /\ \A i \in 2..(L - j + 1) : r[i] = t[i - 1]
    <3>1. /\ <<first>> \o t \in Seq(PartRecord) /\ Len(<<first>> \o t) = Len(t) + 1
          /\ (<<first>> \o t)[1] = first
          /\ \A i \in 2..(Len(t) + 1) : (<<first>> \o t)[i] = t[i - 1]
      BY <1>6, <2>1, PrependLemma
    <3> QED BY <2>1, <3>1
  <2>5. ASSUME NEW i \in 2..(L - j + 1) PROVE r[i] = q[j + i - 1]
    <3>1. i - 1 \in 1..(L - j) /\ j + (i - 1) = j + i - 1
      BY <1>1, <1>3
    <3> QED BY <2>2, <2>4, <3>1
  <2> QED BY <2>4, <2>5
<1>9. ASSUME NEW i \in 1..(L - j + 1)
      PROVE  /\ r[i].base \in Nat /\ r[i].len \in Nat
             /\ r[i].base + r[i].len = q[j + i - 1].base + q[j + i - 1].len
             /\ i # 1 => r[i].base = q[j + i - 1].base
  <2>1. CASE i = 1
    <3>1. r[i] = first /\ j + i - 1 = j
      BY <1>3, <1>8, <2>1
    <3> QED BY <1>6, <2>1, <3>1 DEF PartRecord
  <2>2. CASE i # 1
    <3>1. r[i] = q[j + i - 1] /\ j + i - 1 \in 1..L
      BY <1>1, <1>3, <1>8, <2>2
    <3> QED BY <1>2, <3>1
  <2> QED BY <2>1, <2>2
<1>10. ASSUME NEW i \in 1..(L - j + 1), i # L - j + 1
       PROVE  r[i + 1].base = r[i].base + r[i].len
  <2>1. /\ i + 1 \in 1..(L - j + 1) /\ i + 1 # 1 /\ j + (i + 1) - 1 = (j + i - 1) + 1
        /\ j + i - 1 \in 1..L /\ j + i - 1 # L
    <3>1. L \in Nat /\ j \in Nat /\ j >= 1 /\ j <= L /\ i \in Nat /\ i >= 1 /\ i <= L - j + 1
      BY <1>1, <1>3
    <3> QED BY <1>10, <3>1
  <2>2. r[i + 1].base = q[(j + i - 1) + 1].base
    BY <1>9, <2>1
  <2>3. q[(j + i - 1) + 1].base = q[j + i - 1].base + q[j + i - 1].len
    BY <1>2, <2>1
  <2> QED BY <1>9, <2>2, <2>3
<1>11. L - j + 1 \in 1..(L - j + 1) /\ j + (L - j + 1) - 1 = L /\ L - j + 1 >= 1
  BY <1>1, <1>3
<1>12. Vector(r)
  BY <1>8, <1>9, <1>10, <1>11 DEF Vector
<1>13. Base(r) = b + n
  BY <1>6, <1>8 DEF Base
<1>14. End(r) = End(q)
  <2>1. r[L - j + 1].base + r[L - j + 1].len = q[L].base + q[L].len
    BY <1>9, <1>11
  <2> QED BY <1>5, <1>8, <2>1 DEF End
<1> QED BY <1>12, <1>13, <1>14 DEF r, b

(* writev() writes the first characters of what is left, in order.         *)
LEMMA PlaceLemma ==
    ASSUME NEW q, Vector(q), NEW k \in Nat, k >= 1, k <= Total(q)
    PROVE  PlaceOf(q, k) = Base(q) + k
<1> DEFINE b == Base(q)
           j == PartAt(q, k - 1)
<1>1. k - 1 \in Nat /\ k - 1 < Total(q) /\ b \in Nat
  <2>1. Base(q) \in Nat /\ End(q) \in Nat /\ Total(q) = End(q) - Base(q)
    BY VectorLemma DEF Vector, Base, End
  <2> QED BY <2>1
<1>2. j \in 1..Len(q) /\ Before(q, j) = q[j].base - b /\ q[j].base \in Nat
  BY <1>1, PartAtLemma DEF Vector
<1>3. PlaceOf(q, k) = (q[j].base + k) - Before(q, j)
  BY <1>1, <1>2 DEF PlaceOf
<1> HIDE DEF b, j
<1>4. (q[j].base + k) - (q[j].base - b) = b + k
  BY <1>1, <1>2
<1>5. PlaceOf(q, k) = b + k
  BY <1>2, <1>3, <1>4
<1> QED BY <1>5 DEF b

InOrder(q) == q \in Seq(Nat) /\ \A i \in 1..Len(q) : q[i] = i

(* What is shown goes up to where what is left begins.                     *)
TtymsgInv ==
    /\ Vector(iov) /\ message \in Nat /\ InOrder(shown)
    /\ ypc \in {"open", "writev"} =>
         Base(iov) = Len(shown) /\ End(iov) = message /\ left = message - Len(shown)
    /\ ypc = "null" /\ errno = "none" => Len(shown) = message

LEMMA AppendedLemma ==
    ASSUME NEW T, NEW q \in Seq(T), NEW t \in Seq(T)
    PROVE  /\ q \o t \in Seq(T) /\ Len(q \o t) = Len(q) + Len(t)
           /\ \A i \in 1..(Len(q) + Len(t)) :
                  (q \o t)[i] = IF i <= Len(q) THEN q[i] ELSE t[i - Len(q)]
OBVIOUS

LEMMA ShownLemma ==
    ASSUME NEW q, InOrder(q), NEW n \in Nat
    PROVE  /\ InOrder(q \o [k \in 1..n |-> Len(q) + k])
           /\ Len(q \o [k \in 1..n |-> Len(q) + k]) = Len(q) + n
<1> DEFINE t == [k \in 1..n |-> Len(q) + k]
           r == q \o t
<1>1. q \in Seq(Nat) /\ Len(q) \in Nat /\ \A i \in 1..Len(q) : q[i] = i
  BY DEF InOrder
<1>2. t \in Seq(Nat) /\ Len(t) = n /\ \A i \in 1..n : t[i] = Len(q) + i
  BY <1>1
<1> HIDE DEF t
<1>3. /\ r \in Seq(Nat) /\ Len(r) = Len(q) + n
      /\ \A i \in 1..(Len(q) + n) : r[i] = IF i <= Len(q) THEN q[i] ELSE t[i - Len(q)]
  <2>1. /\ r \in Seq(Nat) /\ Len(r) = Len(q) + Len(t)
        /\ \A i \in 1..(Len(q) + Len(t)) : r[i] = IF i <= Len(q) THEN q[i] ELSE t[i - Len(q)]
    BY <1>1, <1>2, AppendedLemma
  <2> QED BY <1>2, <2>1
<1> HIDE DEF r
<1>4. ASSUME NEW i \in 1..(Len(q) + n) PROVE r[i] = i
  <2>1. CASE i <= Len(q)
    BY <1>1, <1>3, <2>1
  <2>2. CASE ~(i <= Len(q))
    <3>1. i - Len(q) \in 1..n /\ Len(q) + (i - Len(q)) = i
      BY <1>1, <2>2
    <3> QED BY <1>2, <1>3, <2>2, <3>1
  <2> QED BY <2>1, <2>2
<1>5. InOrder(r) /\ Len(r) = Len(q) + n
  BY <1>3, <1>4 DEF InOrder
<1> QED BY <1>5 DEF r, t

LEMMA WrittenLemma ==
    ASSUME TtymsgInv, ypc = "writev", UNCHANGED message, NEW n \in 0..left, Written(n)
    PROVE  TtymsgInv'
<1>1. /\ Vector(iov) /\ message \in Nat /\ InOrder(shown)
      /\ Base(iov) = Len(shown) /\ End(iov) = message /\ left = message - Len(shown)
  BY DEF TtymsgInv
<1>2. Len(shown) \in Nat
  BY <1>1 DEF InOrder
<1>3. Total(iov) = left /\ left \in Nat
  <2>1. Total(iov) = left
    BY <1>1, VectorLemma
  <2>2. Base(iov) <= End(iov)
    <3>1. 0..left # {} /\ n \in 0..left
      OBVIOUS
    <3> QED BY <1>1, <1>2, <3>1
  <2> QED BY <1>1, <1>2, <2>1, <2>2
<1>4. n \in Nat /\ n <= left
  BY <1>3
<1>5. shown' = shown \o [k \in 1..n |-> Len(shown) + k]
  <2>1. \A k \in 1..n : PlaceOf(iov, k) = Len(shown) + k
    BY <1>1, <1>3, <1>4, PlaceLemma
  <2> QED BY <2>1 DEF Written
<1>6. InOrder(shown') /\ Len(shown') = Len(shown) + n
  BY <1>1, <1>4, <1>5, ShownLemma
<1>7. CASE n >= left /\ TtymsgReturns("null")
  <2>1. n = left
    BY <1>3, <1>4, <1>7
  <2>2. Len(shown') = message /\ ypc' = "null" /\ iov' = iov
    BY <1>1, <1>2, <1>6, <1>7, <2>1 DEF TtymsgReturns
  <2> QED BY <1>1, <1>6, <2>2 DEF TtymsgInv, Vector, InOrder, PartRecord
<1>8. CASE n > 0 /\ n < left /\ left' = left - n /\ iov' = Rest(iov, n) /\ UNCHANGED ypc
  <2>1. Vector(Rest(iov, n)) /\ Base(Rest(iov, n)) = Base(iov) + n /\ End(Rest(iov, n)) = End(iov)
    BY <1>1, <1>3, <1>4, <1>8, RestLemma
  <2> DEFINE r == iov'
             w == shown'
  <2>2. Vector(r) /\ Base(r) = Len(w) /\ End(r) = message
    BY <1>1, <1>6, <1>8, <2>1
  <2>3. left' = message - Len(w)
    BY <1>1, <1>2, <1>4, <1>6, <1>8
  <2> QED BY <1>1, <1>6, <1>8, <2>2, <2>3 DEF TtymsgInv, Vector, InOrder, Base, End, PartRecord
<1>9. CASE n = 0 /\ n < left /\ TtymsgReturns("error")
  BY <1>1, <1>6, <1>9 DEF TtymsgReturns, TtymsgInv, Vector, InOrder, PartRecord
<1> QED BY <1>7, <1>8, <1>9 DEF Written

(* ttymsg(): however many parts a message has and of whatever length, and  *)
(* wherever writev() stops, the terminal shows it in order, and all of it  *)
(* when NULL is returned without an error.                                 *)
THEOREM ShownInOrder == TtymsgSpec => []MessageInOrder
<1>1. TtymsgInit => TtymsgInv
  <2> SUFFICES ASSUME TtymsgInit PROVE TtymsgInv
    OBVIOUS
  <2>1. PICK n \in 1..MaxParts : \E lens \in [1..n -> Lengths] : iov = Consecutive(lens)
    BY DEF TtymsgInit
  <2>2. PICK lens \in [1..n -> Lengths] : iov = Consecutive(lens)
    BY <2>1
  <2>3. n \in Nat /\ n >= 1 /\ lens \in [1..n -> Nat]
    <3>1. n \in Nat /\ n >= 1 /\ \A k \in Lengths : k \in Nat
      BY TtymsgAssumption
    <3>2. \A i \in 1..n : lens[i] \in Nat
      BY <3>1
    <3> QED BY <3>1, <3>2
  <2>4. Vector(iov) /\ Base(iov) = 0
    BY <2>2, <2>3, ConsecutiveLemma
  <2>5. Total(iov) = End(iov) /\ End(iov) \in Nat
    BY <2>4, VectorLemma DEF Vector, End
  <2>6. InOrder(<<>>) /\ Len(<<>>) = 0
    BY DEF InOrder
  <2> QED BY <2>4, <2>5, <2>6 DEF TtymsgInit, TtymsgInv
<1>2. TtymsgInv /\ [TtymsgNext]_ttymsgvars => TtymsgInv'
  <2> SUFFICES ASSUME TtymsgInv, [TtymsgNext]_ttymsgvars PROVE TtymsgInv'
    OBVIOUS
  <2> USE DEF TtymsgInv, Vector, InOrder, PartRecord, Base, End
  <2>1. CASE UNCHANGED ttymsgvars \/ TtymsgDone
    BY <2>1 DEF TtymsgDone, ttymsgvars
  <2>2. CASE OpenLine
    BY <2>2 DEF OpenLine
  <2>3. ASSUME Writev, NEW e \in {"EWOULDBLOCK", "EIO", "ENODEV", "other"}, Fails(e)
        PROVE  TtymsgInv'
    BY <2>3 DEF Writev, Fails, TtymsgReturns
  <2>4. ASSUME Writev, NEW n \in 0..left, Written(n) PROVE TtymsgInv'
    BY <2>4, WrittenLemma DEF Writev
  <2> QED BY <2>1, <2>2, <2>3, <2>4 DEF TtymsgNext, Writev
<1>3. TtymsgInv => MessageInOrder
  <2> SUFFICES ASSUME TtymsgInv PROVE MessageInOrder
    OBVIOUS
  <2>1. \A i \in DOMAIN shown : shown[i] = i
    BY DEF TtymsgInv, InOrder
  <2>2. ypc = "writev" => left = message - Len(shown) /\ left = Total(iov)
    BY VectorLemma DEF TtymsgInv
  <2> QED BY <2>1, <2>2 DEF TtymsgInv, MessageInOrder
<1> QED BY <1>1, <1>2, <1>3, PTL DEF TtymsgSpec
=============================================================================

------------------------------- MODULE Timeout -------------------------------
(***************************************************************************)
(* timeout(1), Source/coreutils/timeout/timeout.c: runs a command, sends it*)
(* a signal when it is still running after the duration and, with -k,      *)
(* SIGKILL when it is still running after another interval.                *)
(*                                                                         *)
(* The program is a loop around sigsuspend(); between two sleeps all its   *)
(* signals are blocked.  Every handler runs with all of them in its mask,  *)
(* so that a sleep ends with exactly one of the pending signals handled.   *)
(* The command exits, is stopped and continued when it likes and may or may*)
(* not die of a signal other than SIGKILL.  SIGINT stands for SIGHUP and   *)
(* SIGQUIT too.  Durations are zero, which disarms the timer, or not.      *)
(* Parsing of the arguments and failing system calls are left out.         *)
(***************************************************************************)
EXTENDS Naturals, FiniteSets

CONSTANTS
    Durations,   \* the command lines, records as in CommandLine
    MaxSignals   \* bound: termination signals from others

CommandLine ==
    [foreground : BOOLEAN,             \* -f
     again      : BOOLEAN,             \* -k: do_second_kill
     killsig    : {"TERM", "INT", "KILL"},   \* -s
     first      : {0, 1},              \* duration
     second     : {0, 1},              \* interval of -k
     inherited  : BOOLEAN,             \* timeout was exec'd with a child
     stops      : BOOLEAN]             \* the command is stopped by others

ASSUME DurationsAssumption == Durations \subseteq CommandLine
ASSUME SignalsAssumption == MaxSignals \in Nat

TermSignal == {"TERM", "INT"}

VARIABLES
    topt,       \* the command line and its surroundings
    tpc,        \* "forked" (signals unblocked), "suspend", "woken", "wait"
                \* (wait() after SIGCHLD), "last" (the final wait()), "done"
                \* or "killed" (by its own SIGKILL)
    command,    \* state of the command: "run", "stop", "zombie", "reaped"
    death,      \* what it died of: "exit" or a signal
    other,      \* state of the inherited child
    alarm,      \* "off", or which interval runs: "first", "second"
    pending,    \* pending signals
    sig_chld, sig_alrm,   \* flags set by sig_handler()
    sig_term,   \* last termination signal, or "none"
    sig_ign,    \* the signal that sig_handler() is to ignore once, or "none"
    killsig,    \* next signal to send
    second_kill,\* interval to the second kill; 0 once it is used
    cpid,       \* last child waited for
    status,     \* whose status pstat is, and what of
    elapsed,    \* history: intervals that have elapsed
    sent,       \* history: kills sent
    early,      \* history: a running command was sent a later kill before
                \* the interval of -k was over
    signals     \* history: termination signals sent by others

sigvars == <<sig_chld, sig_alrm, sig_term, sig_ign>>
killvars == <<killsig, second_kill, sent, early>>
childvars == <<command, death, other>>
waitvars == <<cpid, status>>
history == <<elapsed, signals>>
timeoutvars == <<topt, tpc, childvars, alarm, pending, sigvars, killvars,
                 waitvars, history>>

TimeoutInit ==
    /\ topt \in Durations
    /\ tpc = "forked"
    /\ command = "run"
    /\ death = "none"
    /\ other = IF topt.inherited THEN "run" ELSE "none"
    /\ alarm = "off"
    /\ pending = {}
    /\ sig_chld = FALSE /\ sig_alrm = FALSE
    /\ sig_term = "none" /\ sig_ign = "none"
    /\ killsig = topt.killsig
    /\ second_kill = topt.second
    /\ cpid = "none"
    /\ status = "none"
    /\ elapsed = {}
    /\ sent = 0
    /\ early = FALSE
    /\ signals = 0

-----------------------------------------------------------------------------
(* Mutants: while a signal is to be ignored any signal is taken for it; the*)
(* alarm is recorded only before the loop.                                 *)
HandleIgnoresAny(s) ==
    IF sig_ign # "none"
    THEN sig_ign' = "none" /\ UNCHANGED <<sig_chld, sig_alrm, sig_term>>
    ELSE /\ sig_chld' = (sig_chld \/ s = "CHLD")
         /\ sig_alrm' = (sig_alrm \/ s = "ALRM")
         /\ sig_term' = IF s \in TermSignal THEN s ELSE sig_term
         /\ UNCHANGED sig_ign
HandleLosesAlarm(s) ==
    /\ sig_chld' = (sig_chld \/ s = "CHLD")
    /\ sig_alrm' = (sig_alrm \/ (s = "ALRM" /\ tpc = "forked"))
    /\ sig_term' = IF s \in TermSignal THEN s ELSE sig_term
    /\ UNCHANGED sig_ign

(* sig_handler().  A signal sent to its own process group comes back once  *)
(* and is not to be taken for a request of someone else's.                 *)
Handle(s) ==
    IF sig_ign = s
    THEN sig_ign' = "none" /\ UNCHANGED <<sig_chld, sig_alrm, sig_term>>
    ELSE /\ sig_chld' = (sig_chld \/ s = "CHLD")
         /\ sig_alrm' = (sig_alrm \/ s = "ALRM")
         /\ sig_term' = IF s \in TermSignal THEN s ELSE sig_term
         /\ UNCHANGED sig_ign

Deliver ==
    /\ tpc \in {"forked", "suspend"}
    /\ \E s \in pending :
        /\ pending' = pending \ {s}
        /\ Handle(s)
    /\ tpc' = IF tpc = "suspend" THEN "woken" ELSE tpc
    /\ UNCHANGED <<topt, childvars, alarm, killvars, waitvars, history>>

Interval(n, which) == IF n = 0 THEN "off" ELSE which

(* After fork(): the signals are blocked and the first interval is armed.  *)
StartTimer ==
    /\ tpc = "forked"
    /\ alarm' = Interval(topt.first, "first")
    /\ tpc' = "suspend"
    /\ UNCHANGED <<topt, childvars, pending, sigvars, killvars, waitvars,
                   history>>

(* Mutant: the signal that will come back is not ignored.                  *)
IgnoresNothing(s) == UNCHANGED sig_ign
IgnoresOnce(s) == sig_ign' = s

(* After a kill: with -k the next one is armed, otherwise the loop ends.   *)
Escalate ==
    IF topt.again
    THEN /\ alarm' = Interval(second_kill, "second")
         /\ second_kill' = 0
         /\ IgnoresOnce(killsig)
         /\ killsig' = "KILL"
         /\ tpc' = "suspend"
    ELSE tpc' = "last" /\ UNCHANGED <<alarm, second_kill, sig_ign, killsig>>

(* The command receives s: SIGKILL ends it, anything else may.             *)
Receives(s) ==
    \/ /\ \/ command \in {"run", "stop"} /\ s = "KILL"
          \/ command = "run" /\ s # "KILL"
       /\ command' = "zombie"
       /\ death' = s
    \/ /\ command \in {"run", "stop"} => s # "KILL"
       /\ UNCHANGED <<command, death>>

Chld == IF command' = "zombie" /\ command # "zombie" THEN {"CHLD"} ELSE {}

(* killpg(0, s) reaches timeout itself, which has SIGKILL never blocked.   *)
Killpg(s) ==
    /\ Receives(s)
    /\ IF s = "KILL"
       THEN /\ tpc' = "killed"
            /\ pending' = pending \union Chld
            /\ UNCHANGED <<alarm, second_kill, sig_ign, killsig>>
       ELSE /\ pending' = pending \union Chld \union {s}
            /\ Escalate
Kill(s) == Receives(s) /\ pending' = pending \union Chld /\ Escalate

Counted == /\ sent' = sent + 1
           /\ early' = \/ early
                       \/ /\ sent > 0
                          /\ "second" \notin elapsed
                          /\ command \in {"run", "stop"}

(* One turn of the loop after sigsuspend() returned.                       *)
WokenByChild ==
    /\ tpc = "woken"
    /\ sig_chld
    /\ sig_chld' = FALSE
    /\ tpc' = "wait"
    /\ UNCHANGED <<topt, childvars, alarm, pending, sig_alrm, sig_term,
                   sig_ign, killvars, waitvars, history>>

WokenByAlarm ==
    /\ tpc = "woken"
    /\ ~sig_chld
    /\ sig_alrm
    /\ sig_alrm' = FALSE
    /\ IF topt.foreground THEN Kill(killsig) ELSE Killpg(killsig)
    /\ Counted
    /\ UNCHANGED <<topt, other, sig_chld, sig_term, waitvars, history>>

WokenByTerm ==
    /\ tpc = "woken"
    /\ ~sig_chld
    /\ ~sig_alrm
    /\ sig_term # "none"
    /\ IF topt.foreground THEN Kill(sig_term) ELSE Killpg(killsig)
    /\ Counted
    /\ UNCHANGED <<topt, other, sig_chld, sig_alrm, sig_term, waitvars,
                   history>>

WokenForNothing ==
    /\ tpc = "woken"
    /\ ~sig_chld
    /\ ~sig_alrm
    /\ sig_term = "none"
    /\ tpc' = "suspend"
    /\ UNCHANGED <<topt, childvars, alarm, pending, sigvars, killvars,
                   waitvars, history>>

(* Mutant: the loop takes any child for its command.                       *)
AnyIsOwn(c) == c \in {"command", "other"}
IsOwn(c) == c = "command"

(* wait() with everything blocked; only the death of the command ends the  *)
(* loop.                                                                   *)
WaitChild ==
    /\ tpc = "wait"
    /\ \/ /\ command = "zombie"
          /\ command' = "reaped"
          /\ cpid' = "command"
          /\ UNCHANGED other
       \/ /\ other = "zombie"
          /\ other' = "reaped"
          /\ cpid' = "other"
          /\ UNCHANGED command
    /\ IF IsOwn(cpid')
       THEN status' = cpid' /\ tpc' = "last"
       ELSE tpc' = "suspend" /\ UNCHANGED status
    /\ UNCHANGED <<topt, death, alarm, pending, sigvars, killvars, history>>

(* The final wait, for whichever child ends first; then the exit status is *)
(* made of the status that was found.                                      *)
WaitLast ==
    /\ tpc = "last"
    /\ tpc' = "done"
    /\ \/ /\ IsOwn(cpid)
          /\ UNCHANGED <<command, other, status>>
       \/ /\ ~IsOwn(cpid)
          /\ command = "zombie"
          /\ command' = "reaped"
          /\ status' = "command"
          /\ UNCHANGED other
       \/ /\ ~IsOwn(cpid)
          /\ other = "zombie"
          /\ other' = "reaped"
          /\ status' = "other"
          /\ UNCHANGED command
    /\ UNCHANGED <<topt, death, alarm, pending, sigvars, killvars, cpid,
                   history>>

-----------------------------------------------------------------------------
(* The timer, the children and others' signals.                            *)
Alive == tpc \notin {"done", "killed"}

Expire ==
    /\ Alive
    /\ alarm # "off"
    /\ alarm' = "off"
    /\ elapsed' = elapsed \union {alarm}
    /\ pending' = pending \union {"ALRM"}
    /\ UNCHANGED <<topt, tpc, childvars, sigvars, killvars, waitvars, signals>>

(* SIGCHLD is sent for stops and continuations too: no SA_NOCLDSTOP.       *)
ChildChanges ==
    /\ Alive
    /\ \/ /\ command = "run"
          /\ command' = "zombie"
          /\ death' = "exit"
          /\ UNCHANGED other
       \/ /\ topt.stops
          /\ \/ command = "run" /\ command' = "stop"
             \/ command = "stop" /\ command' = "run"
          /\ UNCHANGED <<death, other>>
       \/ /\ other = "run"
          /\ other' = "zombie"
          /\ UNCHANGED <<command, death>>
    /\ pending' = pending \union {"CHLD"}
    /\ UNCHANGED <<topt, tpc, alarm, sigvars, killvars, waitvars, history>>

Signal ==
    /\ Alive
    /\ signals < MaxSignals
    /\ signals' = signals + 1
    /\ \E s \in TermSignal : pending' = pending \union {s}
    /\ UNCHANGED <<topt, tpc, childvars, alarm, sigvars, killvars, waitvars,
                   elapsed>>

Finished == ~Alive /\ UNCHANGED timeoutvars

Loop == \/ Deliver \/ StartTimer \/ WokenByChild \/ WokenByAlarm \/ WokenByTerm
        \/ WokenForNothing \/ WaitChild \/ WaitLast

TimeoutNext == Loop \/ Expire \/ ChildChanges \/ Signal \/ Finished

(* timeout runs whenever it can, and time passes.                          *)
TimeoutSpec == /\ TimeoutInit /\ [][TimeoutNext]_timeoutvars
               /\ WF_timeoutvars(Loop) /\ WF_timeoutvars(Expire)

-----------------------------------------------------------------------------
(* "Send a second kill signal if command is still running after time after *)
(* the first signal was sent" (timeout.1): nothing is sent a second time   *)
(* before that interval is over.                                           *)
SecondKillWaits == ~early

(* The same when nobody else sends a termination signal: the signal that   *)
(* timeout sends to its own group comes back and must not count as one.    *)
OwnSignalIgnored == signals = 0 => SecondKillWaits

(* "If command is still running after duration, it is killed" (timeout.1), *)
(* when the command is never stopped and is the only child.                *)
Plain == ~topt.stops /\ ~topt.inherited
DeadlineEnforced ==
    (Plain /\ "first" \in elapsed) ~> (sent > 0 \/ command \in {"zombie", "reaped"})

(* The end of the command is noticed, at the latest when the duration is   *)
(* over, even if it came before SIGCHLD was blocked.                       *)
EndNoticed ==
    (command = "zombie" /\ topt.first # 0 /\ ~topt.inherited) ~> ~Alive

(* "If the timeout was not reached, the exit status of command is          *)
(* returned": also when another child is there and ends first.             *)
StatusOfCommand == tpc = "done" /\ sent = 0 => status = "command"

(* What both rest on.                                                      *)
TimeoutTypeOK ==
    /\ topt \in Durations
    /\ tpc \in {"forked", "suspend", "woken", "wait", "last", "done", "killed"}
    /\ alarm \in {"off", "first", "second"}
    /\ pending \subseteq {"CHLD", "ALRM"} \union TermSignal
    /\ sig_chld \in BOOLEAN /\ sig_alrm \in BOOLEAN
    /\ sig_term \in TermSignal \union {"none"}
    /\ sig_ign \in TermSignal \union {"KILL", "none"}
    /\ killsig \in TermSignal \union {"KILL"}
    /\ sent \in Nat /\ signals \in Nat

(* Nothing but the end of the command and a kill end the loop.             *)
StatusInv ==
    tpc = "last" /\ sent = 0 => cpid = "command" /\ status = "command"

(* At most one alarm is on its way, the second only when an interval of -k *)
(* is over; of the termination signals that are pending each is the one to *)
(* be ignored, since timeout sends no second one to its group: SIGKILL is  *)
(* next, which it does not survive.                                        *)
InLoop == tpc \in {"forked", "suspend", "woken", "wait"}
OneAlarm ==
    /\ alarm # "off" => "ALRM" \notin pending /\ ~sig_alrm
    /\ ~("ALRM" \in pending /\ sig_alrm)
    /\ tpc = "forked" =>
           alarm = "off" /\ "ALRM" \notin pending /\ ~sig_alrm /\ sent = 0
    /\ sent > 0 => /\ alarm # "first"
                   /\ "ALRM" \in pending \/ sig_alrm => "second" \in elapsed
OwnSignalOnly ==
    /\ sig_term = "none"
    /\ pending \intersect TermSignal \subseteq {sig_ign}
    /\ topt.foreground => pending \intersect TermSignal = {}
    /\ IF sent = 0 THEN sig_ign = "none" ELSE killsig = "KILL"
OwnSignalInv ==
    signals = 0 => ~early /\ OneAlarm /\ (InLoop => OwnSignalOnly)
=============================================================================

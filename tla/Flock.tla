-------------------------------- MODULE Flock --------------------------------
(***************************************************************************)
(* flock(1), Source/bsdutils/flock/flock.c: scripts that lock one file     *)
(* around a command, or around what follows with a descriptor of their own.*)
(*                                                                         *)
(* Every script has at most one open file description of the lock file, and*)
(* a lock belongs to it: it lasts until all of its descriptors are closed. *)
(* flock(2) converts a lock by giving up the old one first.  Left out:     *)
(* errors of open() and of the timer calls.                                *)
(***************************************************************************)
EXTENDS Naturals

CONSTANTS
    Script,
    Calls,      \* the command lines considered: a set of CallRecords
    MaxCalls    \* bound: calls of flock(1)

Mode == {"shared", "exclusive"}
CallRecord ==
    [lock    : Mode \union {"un"},  \* -s, -x (or none of them), -u
     nb      : BOOLEAN,             \* -n
     timed   : BOOLEAN,             \* -w
     cls     : BOOLEAN,             \* -o
     command : BOOLEAN]             \* a command, or a descriptor's number

(* The restrictions of main(): -u is of descriptors, -o of commands.       *)
ASSUME CallsAssumption ==
    /\ Calls \subseteq CallRecord
    /\ \A c \in Calls : /\ c.lock = "un" => ~c.command
                        /\ c.cls => c.command
ASSUME MaxCallsAssumption == MaxCalls \in Nat

VARIABLES
    lock,      \* of each script's open file description
    call,      \* of each script: the last call of flock
    pc,        \* "script" (no flock runs), "arm" (to set the timer), "handler"
               \* (to set the handler), "flock" (to call flock(2)), "sleep" (in
               \* it), "eintr", "locked" or "command" (it was executed)
    timer,     \* the timer is armed
    expired,   \* timeout_expired
    section,   \* the lock that the script believes to hold
    calls      \* counter for the bound

vars == <<lock, call, pc, timer, expired, section, calls>>

Init ==
    /\ lock = [p \in Script |-> "none"]
    /\ call \in [Script -> Calls]
    /\ pc = [p \in Script |-> "script"]
    /\ timer = [p \in Script |-> FALSE]
    /\ expired = [p \in Script |-> FALSE]
    /\ section = [p \in Script |-> "none"]
    /\ calls = 0

Goes(p, where) == pc' = [pc EXCEPT ![p] = where]
Believes(p, l) == section' = [section EXCEPT ![p] = l]
Holds(p, l) == lock' = [lock EXCEPT ![p] = l]
Disarms(p) == timer' = [timer EXCEPT ![p] = FALSE]

(* flock is called, with a descriptor or on a file that nothing that the   *)
(* script started before has open any more.                                *)
Start(p) ==
    /\ pc[p] = "script"
    /\ calls < MaxCalls
    /\ calls' = calls + 1
    /\ \E c \in Calls :
        /\ c.command \/ call[p].command => lock[p] = "none"
        /\ call' = [call EXCEPT ![p] = c]
        /\ Goes(p, IF c.timed THEN "arm" ELSE "flock")
    /\ expired' = [expired EXCEPT ![p] = FALSE]
    /\ Believes(p, "none")
    /\ UNCHANGED <<lock, timer>>

Arm(p) ==
    /\ pc[p] = "arm"
    /\ timer' = [timer EXCEPT ![p] = TRUE]
    /\ Goes(p, "handler")
    /\ UNCHANGED <<lock, call, expired, section, calls>>

Handler(p) ==
    /\ pc[p] = "handler"
    /\ Goes(p, "flock")
    /\ UNCHANGED <<lock, call, timer, expired, section, calls>>

(* The lock the script has by its own descriptor, when flock is gone.      *)
Left(p) == IF call[p].command THEN "none" ELSE lock[p]

(* The timer expires: sigalrm() notes it and flock(2) is interrupted; a    *)
(* process that has no handler yet dies.                                   *)
Expires(p) ==
    /\ timer[p]
    /\ Disarms(p)
    /\ \/ /\ pc[p] = "handler"
          /\ Goes(p, "script")
          /\ Holds(p, Left(p))
          /\ UNCHANGED expired
       \/ /\ pc[p] # "handler"
          /\ expired' = [expired EXCEPT ![p] = TRUE]
          /\ pc' = IF pc[p] = "sleep" THEN [pc EXCEPT ![p] = "eintr"] ELSE pc
          /\ UNCHANGED lock
    /\ UNCHANGED <<call, section, calls>>

(* The kernel: exclusive locks exclude all others.                         *)
Granted(p) ==
    \A q \in Script \ {p} :
        \/ lock[q] = "none"
        \/ call[p].lock = "un"
        \/ call[p].lock = "shared" /\ lock[q] = "shared"

(* flock(2) is called: the old lock is given up in any case.               *)
Flock(p) ==
    /\ pc[p] = "flock"
    /\ \/ /\ call[p].lock = "un"
          /\ Goes(p, "locked")
          /\ Holds(p, "none")
          /\ UNCHANGED timer
       \/ /\ call[p].lock # "un" /\ Granted(p)
          /\ Goes(p, "locked")
          /\ Holds(p, call[p].lock)
          /\ UNCHANGED timer
       \/ /\ ~Granted(p) /\ call[p].nb
          /\ Goes(p, "script")
          /\ Holds(p, "none")
          /\ Disarms(p)
       \/ /\ ~Granted(p) /\ ~call[p].nb
          /\ Goes(p, "sleep")
          /\ Holds(p, "none")
          /\ UNCHANGED timer
    /\ UNCHANGED <<call, expired, section, calls>>

Wakes(p) ==
    /\ pc[p] = "sleep"
    /\ Granted(p)
    /\ Goes(p, "locked")
    /\ Holds(p, call[p].lock)
    /\ UNCHANGED <<call, timer, expired, section, calls>>

(* Mutants: any interruption is the end of the loop, as if flock(2) had    *)
(* returned 0; flock(2) is called again until it succeeds.                 *)
AfterAnyEintr(p) == "locked"
AfterNoEintr(p) == "flock"
AfterEintr(p) == IF expired[p] THEN "script" ELSE "flock"

Eintr(p) ==
    /\ pc[p] = "eintr"
    /\ Goes(p, AfterEintr(p))
    /\ timer' = [timer EXCEPT ![p] = @ /\ AfterEintr(p) # "script"]
    /\ UNCHANGED <<lock, call, expired, section, calls>>

(* With the lock: the timer is deleted, the descriptor closed with -o, and *)
(* the command executed, which may fail.                                   *)
Proceed(p) ==
    /\ pc[p] = "locked"
    /\ Disarms(p)
    /\ \/ /\ call[p].command
          /\ Goes(p, "command")
          /\ Believes(p, call[p].lock)
          /\ IF call[p].cls THEN Holds(p, "none") ELSE UNCHANGED lock
       \/ /\ call[p].command
          /\ Goes(p, "script")
          /\ Holds(p, "none")
          /\ UNCHANGED section
       \/ /\ ~call[p].command
          /\ Goes(p, "script")
          /\ Believes(p, IF call[p].lock = "un" THEN "none" ELSE call[p].lock)
          /\ UNCHANGED lock
    /\ UNCHANGED <<call, expired, calls>>

(* The command ends, and may leave processes behind that have the file     *)
(* open; these end; a script closes its descriptor.                        *)
CommandEnds(p) ==
    /\ pc[p] = "command"
    /\ Goes(p, "script")
    /\ Believes(p, "none")
    /\ UNCHANGED lock \/ Holds(p, "none")
    /\ UNCHANGED <<call, timer, expired, calls>>

Closes(p) ==
    /\ pc[p] = "script"
    /\ lock[p] # "none"
    /\ Holds(p, "none")
    /\ Believes(p, "none")
    /\ UNCHANGED <<call, pc, timer, expired, calls>>

Step(p) == \/ Start(p) \/ Arm(p) \/ Handler(p) \/ Expires(p) \/ Flock(p)
           \/ Wakes(p) \/ Eintr(p) \/ Proceed(p)
           \/ CommandEnds(p) \/ Closes(p)
Next == \E p \in Script : Step(p)

(* Time passes and flock runs; nothing is assumed of those who have locks. *)
Runs(p) == Arm(p) \/ Handler(p) \/ Expires(p) \/ Flock(p) \/ Eintr(p) \/ Proceed(p)
Fairness == \A p \in Script : WF_vars(Runs(p))
Spec == Init /\ [][Next]_vars
FairSpec == Spec /\ Fairness

-----------------------------------------------------------------------------
(* "Provide locking API for shell scripts": commands and scripts that were *)
(* given the lock exclude each other, whatever is interrupted or times out,*)
(* and however locks are converted.  Commands of -o are excepted: their    *)
(* lock is closed before they run.                                         *)
Inside(p) == section[p] # "none" /\ ~call[p].cls
MutualExclusion ==
    \A p, q \in Script :
        p # q /\ Inside(p) /\ Inside(q) => section[p] = "shared" /\ section[q] = "shared"

(* What it rests on.                                                       *)
TypeOK ==
    /\ lock \in [Script -> Mode \union {"none"}]
    /\ call \in [Script -> Calls]
    /\ pc \in [Script -> {"script", "arm", "handler", "flock", "sleep", "eintr",
                          "locked", "command"}]
    /\ section \in [Script -> Mode \union {"none"}]
LocksExclude ==
    \A p, q \in Script :
        p # q /\ lock[p] = "exclusive" => lock[q] = "none"
SectionsLocked ==
    \A p \in Script :
        /\ Inside(p) => lock[p] = section[p]
        /\ pc[p] = "locked" =>
             lock[p] = IF call[p].lock = "un" THEN "none" ELSE call[p].lock
        /\ section[p] # "none" => pc[p] \in {"script", "command"}
        /\ pc[p] \in {"sleep", "eintr"} => call[p].lock # "un" /\ lock[p] = "none"
IInv == TypeOK /\ LocksExclude /\ SectionsLocked

(* -w: a call that sleeps with its timer running does not sleep for ever,  *)
(* even if nobody ever unlocks the file.                                   *)
TimedWaitEnds ==
    \A p \in Script : pc[p] = "sleep" /\ timer[p] ~> pc[p] \in {"script", "command"}
=============================================================================

----------------------------- MODULE CommandPool -----------------------------
(***************************************************************************)
(* What a program that runs commands in parallel and reports how they went *)
(* promises, whatever it takes them from: so many at a time, every one     *)
(* waited for before it says that all succeeded, or that some failed.      *)
(***************************************************************************)
EXTENDS Naturals, FiniteSets

VARIABLES
    slots,     \* how many commands may run at once
    started,   \* commands started: 1..started
    running,   \* those not waited for
    failed,    \* those that were waited for and had failed
    outcome    \* "none" yet, "success", "failure", or "abort" for another end

poolvars == <<slots, started, running, failed, outcome>>

Init ==
    /\ slots \in Nat \ {0}
    /\ started = 0
    /\ running = {}
    /\ failed = {}
    /\ outcome = "none"

Start ==
    /\ outcome = "none"
    /\ Cardinality(running) < slots
    /\ started' = started + 1
    /\ running' = running \union {started + 1}
    /\ UNCHANGED <<slots, failed, outcome>>

Waited(c) ==
    /\ running' = running \ {c}
    /\ failed' \in {failed, failed \union {c}}

Collect ==
    /\ outcome = "none"
    /\ \E c \in running : Waited(c)
    /\ UNCHANGED <<slots, started, outcome>>

(* The end, reported truly; an abort leaves what runs to itself, and may   *)
(* come with a command that is waited for.                                 *)
Finish ==
    /\ outcome = "none"
    /\ running = {}
    /\ outcome' = IF failed = {} THEN "success" ELSE "failure"
    /\ UNCHANGED <<slots, started, running, failed>>

Abort ==
    /\ outcome = "none"
    /\ outcome' = "abort"
    /\ \/ UNCHANGED <<running, failed>>
       \/ \E c \in running : Waited(c)
    /\ UNCHANGED <<slots, started>>

Next == Start \/ Collect \/ Finish \/ Abort

Spec == Init /\ [][Next]_poolvars
=============================================================================

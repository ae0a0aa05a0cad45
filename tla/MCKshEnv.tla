------------------------------ MODULE MCKshEnv ------------------------------
(***************************************************************************)
(* Instances of KshEnv for TLC; the initial state chooses the one that     *)
(* runs.  The module's own is about control: every construct, the traps,   *)
(* -e and the interactive shell, without redirections, four environments   *)
(* deep below the script's own two, so that a break may pass a loop and an *)
(* exit be raised within a function called by a trap.  The others are      *)
(* about descriptors, of which users have two: any two redirections in     *)
(* functions and subshells, which exec may keep; and any two around and    *)
(* within pipelines that fail, with a table that becomes full; and a fork  *)
(* for $() that fails.                                                     *)
(***************************************************************************)
EXTENDS KshEnv

VARIABLE part

Control == (Kind \ {"list", "bang", "pipe"}) \union {"trap"}
Shells == {{"exittrap", "errexit"}, {"exittrap", "interactive"}, {}}

(* set -e, and commands that test others.                                  *)
Errexit == {{"errexit"}}
Tested == {"builtin", "if", "eval"}

Calls == INSTANCE KshEnv WITH
    Kinds <- {"builtin", "call", "paren"}, Modes <- {{"exittrap", "interactive"}},
    MaxEnv <- 5, MaxIo <- 2
Pipes == INSTANCE KshEnv WITH
    Kinds <- {"builtin", "list", "bang", "pipe"}, Modes <- {{"interactive"}},
    MaxEnv <- 4, MaxIo <- 2, Failures <- {"fork"}
Substitutions == INSTANCE KshEnv WITH
    Kinds <- {"builtin", "call"}, Modes <- {{"interactive"}},
    MaxEnv <- 4, MaxIo <- 0, Failures <- {"comsub"}

EnvInit == \/ part = "control" /\ Init
           \/ part = "calls" /\ Calls!Init
           \/ part = "pipes" /\ Pipes!Init
           \/ part = "substitutions" /\ Substitutions!Init

EnvNext == /\ UNCHANGED part
           /\ \/ part = "control" /\ Next
              \/ part = "calls" /\ Calls!Next
              \/ part = "pipes" /\ Pipes!Next
              \/ part = "substitutions" /\ Substitutions!Next

EnvSpec == EnvInit /\ [][EnvNext]_<<vars, part>>
=============================================================================

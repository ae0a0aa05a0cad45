----------------------------- MODULE MCKshJobs -----------------------------
(***************************************************************************)
(* Instances of KshJobs for TLC.  Each environment names what may happen   *)
(* besides commands and children that exit; the smallest numbers of jobs   *)
(* and processes for which the cases of interest occur are two jobs, one   *)
(* of them in the background, and three processes, so that one job is a    *)
(* pipeline; child_max is one zombie.                                      *)
(***************************************************************************)
EXTENDS KshJobs

(* A script: pipelines, background jobs and command substitutions.         *)
ScriptEnv == {"kill", "xxcom", "bg"}

(* A script that is signalled, and one whose children are stopped and      *)
(* continued by others.                                                    *)
SignalEnv == {"signal", "bg"}
StopEnv == {"stop", "extcont", "bg"}

(* The terminal's user stops jobs and resumes them.                        *)
MonitorEnv == {"stop", "bg", "exit"}

(* Asynchronous notification (set -o notify).                              *)
NotifyEnv == {"kill", "stop", "bg", "xxcom"}

(* A forked subshell goes on with the parent's job list.                   *)
SubshellEnv == {"kill", "bg", "subshell"}

(* fork() and openpipe() fail, job control is switched on and off, traps,  *)
(* subshells, $() and exit.                                                *)
FailureEnv == {"bg", "xxcom", "exit", "kill", "forkfail", "pipefail", "toggle", "signal",
               "subshell"}

(* Only fork() fails.                                                      *)
ForkFailEnv == {"bg", "kill", "forkfail"}

(* Liveness: children end, the shell is not signalled.                     *)
LivenessEnv == {"kill", "xxcom", "bg"}
=============================================================================

--------------------------- MODULE MCKshScenarios ---------------------------
(***************************************************************************)
(* Several shells in one state space: which of them runs is chosen in the  *)
(* initial state and does not change.  The script is the module's own      *)
(* instance, the others are instances of KshJobs with other options and    *)
(* another environment.                                                    *)
(***************************************************************************)
EXTENDS MCKshJobs

VARIABLE scenario

(* An interactive shell with job control and set -o notify.                *)
NotifyShell == INSTANCE KshJobs WITH
    MaxJobs <- 2, Talking <- TRUE, Monitor <- TRUE, Notify <- TRUE,
    Env <- NotifyEnv

(* A script with traps, and one whose children are stopped and continued by*)
(* others.                                                                 *)
SignalShell == INSTANCE KshJobs WITH MaxJobs <- 2, Env <- SignalEnv
StopShell == INSTANCE KshJobs WITH MaxJobs <- 2, Env <- StopEnv

(* A script that goes on as a forked subshell with its parent's list.      *)
SubShell == INSTANCE KshJobs WITH Env <- SubshellEnv

(* An interactive login shell with job control, whose user stops jobs,     *)
(* resumes them and leaves.                                                *)
LoginShell == INSTANCE KshJobs WITH
    MaxJobs <- 2, Talking <- TRUE, Monitor <- TRUE, Login <- TRUE,
    Env <- MonitorEnv

InitAny == \/ scenario = "script" /\ Init
           \/ scenario = "notify" /\ NotifyShell!Init
           \/ scenario = "signals" /\ SignalShell!Init
           \/ scenario = "stops" /\ StopShell!Init
           \/ scenario = "subshell" /\ SubShell!Init
           \/ scenario = "login" /\ LoginShell!Init

NextAny == /\ UNCHANGED scenario
           /\ \/ scenario = "script" /\ Next
              \/ scenario = "notify" /\ NotifyShell!Next
              \/ scenario = "signals" /\ SignalShell!Next
              \/ scenario = "stops" /\ StopShell!Next
              \/ scenario = "subshell" /\ SubShell!Next
              \/ scenario = "login" /\ LoginShell!Next

SpecAny == InitAny /\ [][NextAny]_<<vars, scenario>>

=============================================================================

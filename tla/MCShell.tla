------------------------------ MODULE MCShell ------------------------------
(***************************************************************************)
(* Three parts of the Korn shell that share no state in the models: traps, *)
(* functions and co-processes.  The initial state chooses the part that    *)
(* runs; the others stay as they are.                                      *)
(*                                                                         *)
(* Bounds.  Traps: two signals, two uses of `trap' and a search of the     *)
(* table within another are enough for traps to interfere.  Functions: two *)
(* names and a table of two slots, which four definitions expand and fill  *)
(* with deleted entries, and a call within a call; the hash functions make *)
(* the names collide or not.  Co-processes: three jobs, two of which may   *)
(* share an output, or follow each other.                                  *)
(***************************************************************************)
EXTENDS KshTrap, KshFuncs, KshCoproc

VARIABLE part   \* "traps", "functions", "coproc"

MCName == {"f", "g"}
MCHashes == {[n \in MCName |-> 1], [n \in MCName |-> IF n = "f" THEN 3 ELSE 0]}

ShellInit ==
    /\ part \in {"traps", "functions", "coproc"}
    /\ Init /\ FuncsInit /\ CoprocInit
    /\ part # "traps" => ~interactive /\ inherited = {}
    /\ part # "functions" => hash = [n \in MCName |-> 1]

ShellNext ==
    \/ part = "traps" /\ Next /\ UNCHANGED <<part, funcsvars, coprocvars>>
    \/ part = "functions" /\ FuncsNext /\ UNCHANGED <<part, vars, coprocvars>>
    \/ part = "coproc" /\ CoprocNext /\ UNCHANGED <<part, vars, funcsvars>>

ShellSpec ==
    /\ ShellInit
    /\ [][ShellNext]_<<part, vars, funcsvars, coprocvars>>
    /\ WF_coprocvars(part = "coproc" /\ JobsGo)
    /\ WF_coprocvars(part = "coproc" /\ ReadGoes)
=============================================================================

----------------------------- MODULE MCChildren -----------------------------
(***************************************************************************)
(* The two utilities that start commands and wait for them, xargs and      *)
(* timeout.  The initial state chooses the one that runs.                  *)
(*                                                                         *)
(* Bounds.  xargs: parsing is checked with commands that succeed, inputs of*)
(* up to MaxInput characters, a buffer for three to five bytes and one to  *)
(* three arguments a command; parallel commands with one-letter arguments, *)
(* one a command.  timeout: every combination of its options; two          *)
(* termination signals of others are enough for one to come back as the    *)
(* second.                                                                 *)
(***************************************************************************)
EXTENDS Xargs, Timeout

Parse(chars, z) ==
    [eofstr : {<<>>}, nargs : {2, 9}, lines : {0, 1}, x : {FALSE},
     size : {4, 6, 20}, maxprocs : {1}, zero : {z}, alphabet : {chars},
     endings : {{"zero"}}, failures : {{}}]

Fits == [eofstr : {<<>>}, nargs : {3}, lines : {0, 2}, x : {TRUE},
         size : {5}, maxprocs : {1}, zero : {FALSE},
         alphabet : {{"a", "sp", "nl"}}, endings : {{"zero"}}, failures : {{}}]

Parallel == [eofstr : {<<>>}, nargs : {1}, lines : {0}, x : {FALSE},
             size : {9}, maxprocs : 1..3, zero : {FALSE},
             alphabet : {{"a", "nl"}}, endings : {Ending},
             failures : {{}, {126, 127}}]

(* -L implies -x.                                                          *)
Lines(o) == [o EXCEPT !.x = o.x \/ o.lines > 0]

AllOptions == {Lines(o) : o \in Parse({"a", "sp", "nl", "sq", "bs"}, FALSE)
                                  \union Parse({"a", "sq", "dq", "sp"}, FALSE)
                                  \union Parse({"a", "sp", "nul", "bs"}, TRUE)
                                  \union Fits \union Parallel}

TwoAtOnce == {o \in Parallel : o.maxprocs = 2}

-----------------------------------------------------------------------------
VARIABLE utility   \* "xargs" or "timeout"

(* timeout -k 1 1 command, signalled by others.                            *)
KillAfter == {o \in CommandLine : /\ o.again /\ ~o.foreground
                                  /\ o.killsig = "TERM"
                                  /\ o.first = 1 /\ o.second = 1
                                  /\ ~o.inherited /\ ~o.stops}

ChildrenInit ==
    /\ utility \in {"xargs", "timeout"}
    /\ Init /\ TimeoutInit
    /\ utility # "xargs" => opt = CHOOSE o \in Options : TRUE
    /\ utility # "timeout" => topt = CHOOSE o \in Durations : TRUE

ChildrenNext ==
    \/ utility = "xargs" /\ Next /\ UNCHANGED <<utility, timeoutvars>>
    \/ utility = "timeout" /\ TimeoutNext /\ UNCHANGED <<utility, vars>>

ChildrenSpec ==
    /\ ChildrenInit
    /\ [][ChildrenNext]_<<utility, vars, timeoutvars>>
    /\ WF_timeoutvars(utility = "timeout" /\ Loop)
    /\ WF_timeoutvars(utility = "timeout" /\ Expire)
=============================================================================

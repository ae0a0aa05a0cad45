--------------------------------- MODULE Mv ---------------------------------
(***************************************************************************)
(* mv(1), Source/coreutils/mv/mv.c: several sources are moved, one after   *)
(* the other, by rename(), or to another file system by a copy: fastcopy() *)
(* of a regular file, or cp and rm of another file.                        *)
(*                                                                         *)
(* Every system call that changes a file is a step: mv may be killed       *)
(* between any two.  A source and its target may be hard links of one file *)
(* or, as in `mv f f', one directory entry: rename() succeeds then and does*)
(* nothing, unless it finds two mounts of the file system, which it does   *)
(* not go between.  Left out: owners, modes, times, and sources of the same*)
(* last component.                                                         *)
(***************************************************************************)
EXTENDS Naturals

CONSTANT Source    \* the sources

Regular == {"regular"}
Kind == {"regular", "other"}

VARIABLES
    kind,      \* of each source
    names,     \* a source and its target: "apart", "links" or "one" entry
    from, to,  \* what there is of each file by its old name and by its new one:
               \* "whole", "part", "none", or in to "another" file
    todo,      \* sources not moved yet
    now,       \* the source that do_move() is at work on
    mpc,       \* "main", "ask", "rename", "remove", "lstat", "open", "write",
               \* "undo", "close", "unlink", "cp", "rm" or "exit"
    failed,    \* history: sources of which an error was reported
    declined,  \* history: sources that the user did not want to be moved
    rval       \* exit status

mvvars == <<kind, names, from, to, todo, now, mpc, failed, declined, rval>>

MvInit ==
    /\ kind \in [Source -> Kind]
    /\ names \in [Source -> {"apart", "links", "one"}]
    /\ from = [f \in Source |-> "whole"]
    /\ to \in [Source -> {"none", "another", "whole"}]
    /\ \A f \in Source : names[f] = "apart" <=> to[f] # "whole"
    /\ todo = Source
    /\ now \in Source
    /\ mpc = "main"
    /\ failed = {}
    /\ declined = {}
    /\ rval = 0

GoesTo(where) == mpc' = where /\ UNCHANGED <<kind, names, todo, now>>
Keeps == UNCHANGED <<from, to>>
Gets(what) == to' = [to EXCEPT ![now] = what] /\ UNCHANGED from
Leaves(what) == from' = [from EXCEPT ![now] = what] /\ UNCHANGED to
GoesOn == UNCHANGED <<failed, declined, rval>>

(* do_move() returns; 1 is the exit status if it ever does.  Mutant: if it *)
(* did last.                                                               *)
LastFailed(result) == result
Failed(result) == IF result = 1 THEN 1 ELSE rval
Returns(result) ==
    /\ GoesTo("main")
    /\ rval' = Failed(result)
    /\ failed' = IF result = 1 THEN failed \union {now} ELSE failed
    /\ UNCHANGED declined

Main ==
    /\ mpc = "main"
    /\ \/ \E f \in todo : now' = f /\ todo' = todo \ {f} /\ mpc' = "ask"
       \/ todo = {} /\ mpc' = "exit" /\ UNCHANGED <<now, todo>>
    /\ UNCHANGED <<kind, names, from, to, failed, declined, rval>>

(* A target that exists may be asked about, when the source can be reached.*)
Ask ==
    /\ mpc = "ask"
    /\ Keeps
    /\ \/ GoesTo("rename") /\ GoesOn
       \/ to[now] # "none" /\ Returns(1)
       \/ /\ to[now] # "none"
          /\ GoesTo("main")
          /\ declined' = declined \union {now}
          /\ UNCHANGED <<failed, rval>>

(* rename() has no effect on two names of one file.  EXDEV is the one error*)
(* that has the file copied.                                               *)
Renamed ==
    IF names[now] = "apart"
    THEN /\ from' = [from EXCEPT ![now] = "none"]
         /\ to' = [to EXCEPT ![now] = "whole"]
    ELSE Keeps
Rename ==
    /\ mpc = "rename"
    /\ \/ Renamed /\ Returns(0)
       \/ Keeps /\ Returns(1)
       \/ Keeps /\ GoesTo("remove") /\ GoesOn

Remove ==
    /\ mpc = "remove"
    /\ \/ /\ to' = [to EXCEPT ![now] = "none"]
          /\ from' = [from EXCEPT ![now] = IF names[now] = "one" THEN "none" ELSE @]
          /\ GoesTo("lstat") /\ GoesOn
       \/ to[now] # "none" /\ Keeps /\ Returns(1)

Lstat ==
    /\ mpc = "lstat"
    /\ Keeps
    /\ \/ /\ from[now] # "none"
          /\ GoesTo(IF kind[now] \in Regular THEN "open" ELSE "cp") /\ GoesOn
       \/ Returns(1)

(* fastcopy().                                                             *)
Open ==
    /\ mpc = "open"
    /\ \/ Keeps /\ Returns(1)
       \/ Gets("part") /\ Returns(1)
       \/ Gets("part") /\ GoesTo("write") /\ GoesOn

(* Mutant: what was not written is not noticed.                            *)
ShortIgnored == "close"
ShortWrite == "undo"
Write ==
    /\ mpc = "write"
    /\ GoesOn
    /\ \/ Gets("whole") /\ GoesTo("close")
       \/ Keeps /\ GoesTo(ShortWrite)

Undo ==
    /\ mpc = "undo"
    /\ Returns(1)
    /\ Gets("none") \/ Keeps

(* Errors of a write may be reported as late as by close().                *)
Close ==
    /\ mpc = "close"
    /\ \/ Keeps /\ GoesTo("unlink") /\ GoesOn
       \/ Gets("part") /\ Returns(1)

Unlink ==
    /\ mpc = "unlink"
    /\ \/ Leaves("none") /\ Returns(0)
       \/ Keeps /\ Returns(1)

(* copy(): each child may fail, or be killed, when it has done a part.     *)
Cp ==
    /\ mpc = "cp"
    /\ \/ Gets("whole") /\ GoesTo("rm") /\ GoesOn
       \/ \E what \in {"none", "part", "whole"} : Gets(what) /\ Returns(1)

Rm ==
    /\ mpc = "rm"
    /\ \/ Leaves("none") /\ Returns(0)
       \/ \E what \in {"part", "whole"} : Leaves(what) /\ Returns(1)

MvNext == \/ Main \/ Ask \/ Rename \/ Remove \/ Lstat \/ Open \/ Write \/ Undo
        \/ Close \/ Unlink \/ Cp \/ Rm

MvSpec == MvInit /\ [][MvNext]_mvvars

-----------------------------------------------------------------------------
(* In every state, that is, wherever mv or a child of it fails or is       *)
(* killed, a file is whole under one of its names, unless both are the same*)
(* entry.                                                                  *)
NothingLost ==
    \A f \in Source : names[f] # "one" => from[f] = "whole" \/ to[f] = "whole"

(* A file was moved if it is under its new name only; one that had both    *)
(* names before may keep them.                                             *)
Moved(f) ==
    /\ to[f] = "whole"
    /\ from[f] = "none" \/ (names[f] # "apart" /\ from[f] = "whole")

(* "The mv utility exits 0 on success, and >0 if an error occurs" (mv.1):  *)
(* after 0 every file was moved, but those that the user declined, which   *)
(* are where they were.                                                    *)
SuccessMeansMoved ==
    mpc = "exit" =>
        /\ rval = 0 <=> failed = {}
        /\ \A f \in declined : from[f] = "whole"
        /\ rval = 0 => \A f \in Source \ declined : Moved(f)

(* What both rest on.                                                      *)
Place == {"whole", "part", "none", "another"}
MvTypeOK ==
    /\ from \in [Source -> Place]
    /\ to \in [Source -> Place]
    /\ todo \subseteq Source
    /\ now \in Source
    /\ failed \subseteq Source
    /\ declined \subseteq Source
    /\ rval \in {0, 1}
    /\ mpc \in {"main", "ask", "rename", "remove", "lstat", "open", "write", "undo",
               "close", "unlink", "cp", "rm", "exit"}
AtWork == mpc \notin {"main", "exit"}
WholeUntilCopied ==
    /\ \A f \in todo : from[f] = "whole" /\ (names[f] = "apart" <=> to[f] # "whole")
    /\ AtWork => now \notin todo
    /\ mpc \in {"ask", "rename", "remove"} => from[now] = "whole"
    /\ mpc \in {"ask", "rename"} => (names[now] = "apart" <=> to[now] # "whole")
    /\ mpc \in {"lstat", "open", "write", "undo", "close", "cp"} /\ names[now] # "one" =>
           from[now] = "whole"
    /\ mpc \in {"close", "unlink", "rm"} => to[now] = "whole"
OthersMoved ==
    /\ \A f \in Source \ (todo \union failed \union declined) :
           (AtWork /\ f = now) \/ Moved(f)
    /\ \A f \in declined : from[f] = "whole" /\ f \notin todo /\ ~(AtWork /\ f = now)
    /\ rval = 0 <=> failed = {}
    /\ mpc = "exit" => todo = {}
MvInv == MvTypeOK /\ NothingLost /\ WholeUntilCopied /\ OthersMoved
=============================================================================

----------------------------- MODULE SedInPlace -----------------------------
(***************************************************************************)
(* sed -i and sed -I: the cycle of process() in Source/sed/process.c and   *)
(* mf_fgets() in Source/sed/main.c, which goes from file to file and puts  *)
(* the edited file, a temporary file until then, in the place of the       *)
(* original, which may be backed up.                                       *)
(*                                                                         *)
(* A pattern or hold space is the sequence of its lines.                   *)
(* Every system call of the replacement is a step: sed may be killed       *)
(* between any two of them.  Left out: branches, s, y, c, i, l, P, r and w,*)
(* last lines without a newline, and sed without -i or -I.                 *)
(***************************************************************************)
EXTENDS Integers, Sequences

CONSTANTS
    NFiles,       \* bound: files named on the command line
    Scripts,      \* the scripts considered: sequences of [addr, code]
    Originals,    \* what a file may contain: a set of natural numbers, of lines
    MaxFaults     \* bound: calls that fail without ending sed

ASSUME SedAssumption == NFiles \in Nat /\ MaxFaults \in Nat /\ Originals \subseteq Nat

(* Lines: those of the files, <<file, line>>, an empty one, the text of a  *)
(* and the number of =.  A file that does not exist, and one with less than*)
(* sed has written, are no sequences of those.                             *)
Files == 1..NFiles
Empty == <<0, 0>>
Text == <<0, -1>>
Number(n) == <<0, n>>
None == <<<<-1, 0>>>>
Truncated == <<<<-1, 1>>>>

VARIABLES
    script, ispan, backup,  \* the command line: the script, -I, an extension
    unreadable,             \* files that cannot be opened
    orig,                   \* what the files contained
    disk, old, tmp,         \* the directory: each file, its backup (None if there
                            \* is none), and the files whose temporary file exists
    file,                   \* the last file begun
    rest,                   \* what is not read of infile; None if infile is NULL
    s,                      \* the state of the script
    cp,                     \* the next command
    caller,                 \* of mf_fgets(): "cycle", "n" or "N"
    out,                    \* what was written to outfile
    spc,                    \* "script", "fgets", "unlink" (the old backup), "link",
                            \* "close" (outfile), "rename", "exit"
    crossed,                \* history: n or N read from another file, or q was used
    faults                  \* history: calls that failed

cmdline == <<script, ispan, backup, unreadable, orig>>
directory == <<disk, old, tmp>>
sedvars == <<cmdline, directory, file, rest, s, cp, caller, out, spc, crossed, faults>>

Blank == [ps |-> <<Empty>>, hs |-> <<Empty>>, range |-> {}, linenum |-> 0, appends |-> 0]

SedInit ==
    /\ script \in Scripts
    /\ ispan \in BOOLEAN
    /\ backup \in BOOLEAN
    /\ unreadable \in {{}, {1}}
    /\ \E lens \in [Files -> Originals] :
           orig = [f \in Files |-> [k \in 1..lens[f] |-> <<f, k>>]]
    /\ disk = orig
    /\ old = [f \in Files |-> None]
    /\ tmp = {}
    /\ file = 0
    /\ rest = None
    /\ s = Blank
    /\ cp = 1
    /\ caller = "cycle"
    /\ out = <<>>
    /\ spc = "fgets"
    /\ crossed = FALSE
    /\ faults = 0

-----------------------------------------------------------------------------
(* applies(), for command i of a script: the state with its range opened or*)
(* closed, and whether it is selected.                                     *)
OpenRange(t, i) == [t EXCEPT !.range = @ \union {i}]
CloseRange(t, i) == [t EXCEPT !.range = @ \ {i}]
Applies(prog, t, i, last) ==
    LET addr == prog[i].addr
        ends == IF addr = "1,2" THEN t.linenum = 2 ELSE last
        missed == addr = "1,2" /\ t.linenum > 2
    IN  CASE addr = "" -> [state |-> t, r |-> TRUE]
          [] addr = "1" -> [state |-> t, r |-> t.linenum = 1]
          [] addr = "$" -> [state |-> t, r |-> last]
          [] addr = "$!" -> [state |-> t, r |-> ~last]
          [] i \in t.range -> IF ends THEN [state |-> CloseRange(t, i), r |-> TRUE]
                              ELSE IF missed THEN [state |-> CloseRange(t, i), r |-> FALSE]
                              ELSE [state |-> t, r |-> TRUE]
          [] OTHER -> IF t.linenum = 1 THEN [state |-> OpenRange(t, i), r |-> TRUE]
                      ELSE [state |-> t, r |-> FALSE]

(* The commands that read no line.  D looks for a newline before the last  *)
(* character only.                                                         *)
HasNewline(ps) == Len(ps) > 1 /\ ps # <<ps[1], Empty>>
RunCommand(t, code) ==
    CASE code = "a" -> [t EXCEPT !.appends = @ + 1]
      [] code = "g" -> [t EXCEPT !.ps = t.hs]
      [] code = "G" -> [t EXCEPT !.ps = @ \o t.hs]
      [] code = "h" -> [t EXCEPT !.hs = t.ps]
      [] code = "H" -> [t EXCEPT !.hs = @ \o t.ps]
      [] code = "x" -> [t EXCEPT !.ps = t.hs, !.hs = t.ps]
      [] OTHER -> t
Shown(t, code) == CASE code = "p" -> t.ps
                    [] code = "=" -> <<Number(t.linenum)>>
                    [] OTHER -> <<>>
Appended(t) == [k \in 1..t.appends |-> Text]
Flushed(t) == [t EXCEPT !.appends = 0]

(* A line is read, by the cycle and n or by N.                             *)
Given(t, line, append) ==
    [t EXCEPT !.ps = IF append THEN Append(@, line) ELSE <<line>>, !.linenum = @ + 1]

(* resetstate(), and the line number.  Mutant: the hold space is forgotten.*)
ResetNoHold(t) == [t EXCEPT !.range = {}, !.linenum = 0]
Resetstate(t) == [t EXCEPT !.range = {}, !.hs = <<Empty>>, !.linenum = 0]

(* lastline().  Mutant: of this file in any case.                          *)
LaterLines(f) == \E g \in Files \ unreadable : g > f /\ orig[g] # <<>>
LastOfFile == rest = <<>>
Lastline == rest = <<>> /\ ~(ispan /\ LaterLines(file))

-----------------------------------------------------------------------------
(* process(): the next command of the script, or the end of the cycle.     *)
Reads(who) == spc' = "fgets" /\ caller' = who /\ UNCHANGED cp

Selected == Applies(script, s, cp, Lastline)

EndCycle(t, printed) ==
    /\ s' = Flushed(t)
    /\ out' = out \o printed \o Appended(t)
    /\ Reads("cycle")
    /\ UNCHANGED crossed

Execute ==
    LET t == Selected.state
        code == script[cp].code
    IN  CASE ~Selected.r ->
               /\ s' = t /\ cp' = cp + 1
               /\ UNCHANGED <<out, spc, caller, crossed>>
          [] Selected.r /\ (code = "d" \/ (code = "D" /\ ~HasNewline(t.ps))) -> EndCycle(t, <<>>)
          [] Selected.r /\ code = "D" /\ HasNewline(t.ps) ->
               /\ s' = [t EXCEPT !.ps = Tail(@)] /\ cp' = 1
               /\ UNCHANGED <<out, spc, caller, crossed>>
          [] Selected.r /\ code \in {"n", "N"} ->
               /\ s' = Flushed(t)
               /\ out' = out \o (IF code = "n" THEN t.ps ELSE <<>>) \o Appended(t)
               /\ Reads(code)
               /\ UNCHANGED crossed
          [] Selected.r /\ code = "q" ->
               /\ s' = Flushed(t)
               /\ out' = out \o t.ps \o Appended(t)
               /\ spc' = "exit"
               /\ crossed' = TRUE
               /\ UNCHANGED <<cp, caller>>
          [] OTHER ->
               /\ s' = RunCommand(t, code) /\ cp' = cp + 1
               /\ out' = out \o Shown(t, code)
               /\ UNCHANGED <<spc, caller, crossed>>

Process ==
    /\ spc = "script"
    /\ IF cp <= Len(script) THEN Execute ELSE EndCycle(s, s.ps)
    /\ UNCHANGED <<cmdline, directory, file, rest, faults>>

(* flush_appends() finds that writing has failed.                          *)
WriteFails ==
    /\ spc = "script" /\ cp > Len(script)
    /\ spc' = "exit"
    /\ faults' = faults + 1
    /\ UNCHANGED <<cmdline, directory, file, rest, s, cp, caller, out, crossed>>

-----------------------------------------------------------------------------
(* mf_fgets(): a line of infile,                                           *)
Fgets ==
    /\ spc = "fgets"
    /\ rest \notin {None, <<>>}
    /\ s' = Given(s, Head(rest), caller = "N")
    /\ rest' = Tail(rest)
    /\ spc' = "script"
    /\ cp' = IF caller = "cycle" THEN 1 ELSE cp + 1
    /\ UNCHANGED <<cmdline, directory, file, caller, out, crossed, faults>>

(* or at its end the replacement of the file,                              *)
Eof ==
    /\ spc = "fgets"
    /\ rest = <<>>
    /\ spc' = IF backup THEN "unlink" ELSE "close"
    /\ UNCHANGED <<cmdline, directory, file, rest, s, cp, caller, out, crossed, faults>>

UnlinkBackup ==
    /\ spc = "unlink"
    /\ old' = [old EXCEPT ![file] = None]
    /\ spc' = "link"
    /\ UNCHANGED <<cmdline, disk, tmp, file, rest, s, cp, caller, out, crossed, faults>>

(* link(), or rename() if that fails; if that fails too, sed exits.        *)
LinkBackup ==
    /\ spc = "link"
    /\ \/ /\ old' = [old EXCEPT ![file] = disk[file]]
          /\ spc' = "close"
          /\ UNCHANGED <<disk, tmp, faults>>
       \/ /\ faults < MaxFaults
          /\ faults' = faults + 1
          /\ old' = [old EXCEPT ![file] = disk[file]]
          /\ disk' = [disk EXCEPT ![file] = None]
          /\ spc' = "close"
          /\ UNCHANGED tmp
       \/ /\ faults' = faults + 1
          /\ tmp' = tmp \ {file}
          /\ spc' = "exit"
          /\ UNCHANGED <<disk, old>>
    /\ UNCHANGED <<cmdline, file, rest, s, cp, caller, out, crossed>>

(* What is in the buffer may not fit on the disk.  Mutant: nobody cares.   *)
CloseAnyway == "rename"
CloseFails == "exit"
CloseOut ==
    /\ spc = "close"
    /\ \/ spc' = "rename" /\ UNCHANGED <<tmp, out, faults>>
       \/ /\ spc' = CloseFails
          /\ tmp' = IF CloseFails = "exit" THEN tmp \ {file} ELSE tmp
          /\ out' = Truncated
          /\ faults' = faults + 1
    /\ UNCHANGED <<cmdline, disk, old, file, rest, s, cp, caller, crossed>>

(* and then the next file is begun.                                        *)
RenameOver ==
    /\ spc = "rename"
    /\ tmp' = tmp \ {file}
    /\ \/ /\ disk' = [disk EXCEPT ![file] = out]
          /\ spc' = "fgets"
          /\ rest' = None
          /\ UNCHANGED faults
       \/ /\ spc' = "exit"
          /\ faults' = faults + 1
          /\ UNCHANGED <<disk, rest>>
    /\ UNCHANGED <<cmdline, old, file, s, cp, caller, out, crossed>>

(* -i treats files independently.                                          *)
NextFile ==
    /\ spc = "fgets"
    /\ rest = None
    /\ file < NFiles
    /\ file' = file + 1
    /\ tmp' = tmp \union {file'}
    /\ out' = <<>>
    /\ s' = IF ispan THEN s ELSE Resetstate(s)
    /\ rest' = IF file' \in unreadable THEN None ELSE orig[file']
    /\ crossed' = (crossed \/ (caller # "cycle" /\ file' \notin unreadable))
    /\ UNCHANGED <<cmdline, disk, old, cp, caller, spc, faults>>

Finish ==
    /\ spc = "fgets"
    /\ rest = None
    /\ file = NFiles
    /\ spc' = "exit"
    /\ UNCHANGED <<cmdline, directory, file, rest, s, cp, caller, out, crossed, faults>>

SedNext == \/ Process \/ WriteFails \/ Fgets \/ Eof \/ UnlinkBackup \/ LinkBackup
           \/ CloseOut \/ RenameOver \/ NextFile \/ Finish

SedSpec == SedInit /\ [][SedNext]_sedvars

-----------------------------------------------------------------------------
(* In every state, that is, wherever sed is killed or fails: a file has its*)
(* old content, or all of the new one, or its old content is in the backup.*)
EditLosesNothing ==
    \A f \in Files : disk[f] \in {None, Truncated} => old[f] = orig[f]
=============================================================================

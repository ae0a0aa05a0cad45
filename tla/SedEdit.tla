------------------------------ MODULE SedEdit ------------------------------
(***************************************************************************)
(* What sed -i and sed -I promise of the contents of files: what sed of one*)
(* stream of lines would write, which is a recursive function on the lines *)
(* (process(), Source/sed/process.c, with a single file).                  *)
(***************************************************************************)
EXTENDS SedInPlace

LOCAL INSTANCE SequencesExt   \* for FlattenSeq

(* sed on one stream of lines: what it writes from command i on.           *)
RECURSIVE Run(_, _, _)
Edit(lines) == IF lines = <<>> THEN <<>>
               ELSE Run(Given(Blank, Head(lines), FALSE), Tail(lines), 1)
Cycle(t, lines) == IF lines = <<>> THEN <<>>
                   ELSE Run(Given(t, Head(lines), FALSE), Tail(lines), 1)
Run(t, lines, i) ==
    LET a == Applies(script, t, i, lines = <<>>)
        u == a.state
        code == script[i].code
    IN  IF i > Len(script) THEN t.ps \o Appended(t) \o Cycle(Flushed(t), lines)
        ELSE IF ~a.r THEN Run(u, lines, i + 1)
        ELSE CASE code = "d" -> Appended(u) \o Cycle(Flushed(u), lines)
               [] code = "D" ->
                    IF HasNewline(u.ps) THEN Run([u EXCEPT !.ps = Tail(@)], lines, 1)
                    ELSE Appended(u) \o Cycle(Flushed(u), lines)
               [] code = "n" ->
                    u.ps \o Appended(u) \o
                    (IF lines = <<>> THEN <<>>
                     ELSE Run(Given(Flushed(u), Head(lines), FALSE), Tail(lines), i + 1))
               [] code = "N" ->
                    Appended(u) \o
                    (IF lines = <<>> THEN <<>>
                     ELSE Run(Given(Flushed(u), Head(lines), TRUE), Tail(lines), i + 1))
               [] code = "q" -> u.ps \o Appended(u)
               [] OTHER -> Shown(u, code) \o Run(RunCommand(u, code), lines, i + 1)

Undisturbed == spc = "exit" /\ faults = 0 /\ unreadable = {}

(* -i: "The net result is as though each file were edited by a separate sed*)
(* instance" (sed.1), unless n or N reads on into the next file, or q ends *)
(* the editing of all of them.                                             *)
FilesIndependent ==
    Undisturbed /\ ~ispan /\ ~crossed => \A f \in Files : disk[f] = Edit(orig[f])

(* -I: "a single continuous line address space covering all files": what   *)
(* the files contain in the end is what one sed would have written for all,*)
(* also where n, N and D span two of them.                                 *)
Quits == \E i \in DOMAIN script : script[i].code = "q"
StreamEdited ==
    Undisturbed /\ ispan /\ ~Quits => FlattenSeq(disk) = Edit(FlattenSeq(orig))
=============================================================================

----------------------------- MODULE MCUtilities -----------------------------
(***************************************************************************)
(* Six utilities that share nothing: flock, the message of wall, compress, *)
(* find, sed -i and mv.  The initial state chooses the one that runs; the  *)
(* others stay as they are.                                                *)
(*                                                                         *)
(* Bounds.  flock: two scripts, four calls.  ttymsg: three parts of up to  *)
(* three characters, so that writev() stops before, in, and after each.    *)
(* compress: two characters and codes of two to four bits, so that inputs  *)
(* of MaxInput characters widen the codes, fill the table and clear it.    *)
(* find: all command lines of five tokens over two tests; three files, so  *)
(* that a full set of -exec and a begun one occur.  sed: two files of up   *)
(* to two lines, scripts of two commands.  mv: two files.                  *)
(***************************************************************************)
EXTENDS Flock, Mv, Ttymsg, SedEdit

CONSTANTS
    Bits,      \* of compress: values of -b
    MaxInput   \* of compress

VARIABLES
    utility,                                             \* the one that runs
    input, infile, maxbits, z, d, output, written, zpc,  \* of Compress
    tokens, plan, files, batch, commands, wanted, fpc    \* of FindPlan

compressvars == <<input, infile, maxbits, z, d, output, written, zpc>>
findvars == <<tokens, plan, files, batch, commands, wanted, fpc>>

Call(l, nb, timed, cls, command) ==
    [lock |-> l, nb |-> nb, timed |-> timed, cls |-> cls, command |-> command]
FlockCalls ==
    {Call(l, FALSE, timed, FALSE, command) :
        l \in Mode, timed \in BOOLEAN, command \in BOOLEAN}
    \union {Call("exclusive", TRUE, FALSE, FALSE, FALSE),
            Call("un", FALSE, FALSE, FALSE, FALSE),
            Call("exclusive", FALSE, FALSE, TRUE, TRUE)}

Commands(addresses, codes) == [addr : addresses, code : codes]
SedScripts ==
    {<<c>> : c \in Commands({"", "1", "$", "$!", "1,2", "1,$"},
                           {"p", "d", "n", "N", "q", "=", "a"})}
    \union {<<c1, c2>> : c1 \in Commands({"", "$!", "1"}, {"N", "n", "a", "h", "x", "H"}),
                         c2 \in Commands({"", "$", "1,2", "1,$"},
                                        {"D", "G", "p", "x", "=", "g", "d"})}

Lzw == INSTANCE Compress WITH
           pc <- zpc, CLEAR <- 2, BYTE <- 2, INIT_BITS <- 2, MINBITS <- 3,
           CHECK_GAP <- 2, Char <- {0, 1}
Find == INSTANCE FindPlan WITH
            pc <- fpc, Test <- {"a", "b"}, MaxTokens <- 5, MaxFiles <- 3, Maxargs <- 2

UtilitiesInit ==
    /\ utility \in {"flock", "ttymsg", "compress", "find", "sed", "mv"}
    /\ call = [p \in Script |-> Call("un", FALSE, FALSE, FALSE, FALSE)]
    /\ utility # "ttymsg" => iov = Consecutive(<<0>>)
    /\ utility # "compress" => maxbits = CHOOSE b \in Bits : TRUE
    /\ utility # "find" => tokens = <<>>
    /\ utility # "sed" => /\ script = CHOOSE c \in SedScripts : TRUE
                          /\ ispan = FALSE /\ backup = FALSE /\ unreadable = {}
                          /\ orig = <<<<>>, <<>>>>
    /\ utility # "mv" => /\ kind = [f \in Source |-> "regular"]
                         /\ names = [f \in Source |-> "apart"]
                         /\ now = CHOOSE f \in Source : TRUE
                         /\ to = [f \in Source |-> "none"]
    /\ Init /\ TtymsgInit /\ Lzw!Init /\ Find!Init /\ SedInit /\ MvInit

UtilitiesNext ==
    \/ /\ utility = "flock" /\ Next
       /\ UNCHANGED <<utility, ttymsgvars, compressvars, findvars, sedvars, mvvars>>
    \/ /\ utility = "ttymsg" /\ TtymsgNext
       /\ UNCHANGED <<utility, vars, compressvars, findvars, sedvars, mvvars>>
    \/ /\ utility = "compress" /\ Lzw!Next
       /\ UNCHANGED <<utility, vars, ttymsgvars, findvars, sedvars, mvvars>>
    \/ /\ utility = "find" /\ Find!Next
       /\ UNCHANGED <<utility, vars, ttymsgvars, compressvars, sedvars, mvvars>>
    \/ /\ utility = "sed" /\ SedNext
       /\ UNCHANGED <<utility, vars, ttymsgvars, compressvars, findvars, mvvars>>
    \/ /\ utility = "mv" /\ MvNext
       /\ UNCHANGED <<utility, vars, ttymsgvars, compressvars, findvars, sedvars>>

UtilitiesSpec ==
    /\ UtilitiesInit
    /\ [][UtilitiesNext]_<<utility, vars, ttymsgvars, compressvars, findvars, sedvars, mvvars>>
    /\ \A p \in Script : WF_vars(utility = "flock" /\ Runs(p))

-----------------------------------------------------------------------------
(* zread() gets back what zwrite() has written.                            *)
RoundTrip == Lzw!RoundTrip

(* "uncompress restores the compressed files to their original form".      *)
FileRestored == Lzw!FileRestored

(* find's plan evaluates what the expression says.                         *)
PlanMeansExpression == Find!PlanMeansExpression

(* -exec ... {} + is given each file once.                                 *)
ExecutedOnce == Find!ExecutedOnce
=============================================================================

------------------------------ MODULE FindPlan ------------------------------
(***************************************************************************)
(* find(1): how the arguments become a plan (find_formplan() in            *)
(* Source/findutils/find/find.c, the squishes in operator.c), how the plan *)
(* is evaluated for each file (find_execute() and f_expr(), f_not(),       *)
(* f_or() in function.c), and how -exec ... {} + collects files            *)
(* (f_exec(), run_f_exec(), plan_cleanup()).                               *)
(*                                                                         *)
(* Left out: the walk itself, -a (which makes no node), the length of what *)
(* -exec collects, and all primaries but tests, -exec ... {} + and -print. *)
(***************************************************************************)
EXTENDS Integers, SequencesExt

CONSTANTS
    Test,        \* primaries that are true or false of a file
    MaxTokens,   \* bound: length of the command line
    MaxFiles,    \* bound: files visited
    Maxargs      \* ep_maxargs

VARIABLES
    tokens,      \* the command line
    plan,        \* the plan, or Error
    files,       \* the number of files visited so far
    batch,       \* what each -exec has collected, by its place
    commands,    \* what the commands were executed with, by place
    wanted,      \* history: the files for which each primary was evaluated
    pc           \* "walk", "cleanup", "exit"

vars == <<tokens, plan, files, batch, commands, wanted, pc>>

(* "exec" is -exec ... {} +.  A node knows the place of its primary.       *)
Primary == Test \union {"exec", "print"}
Operator == {"!", "-o", "(", ")"}
Node(type, place, left, right) ==
    [type |-> type, place |-> place, left |-> left, right |-> right]

Nodes(line) == [i \in DOMAIN line |-> Node(line[i], i, <<>>, <<>>)]
Error == <<Node("error", 0, <<>>, <<>>)>>
IsError(p) == p = Error

-----------------------------------------------------------------------------
(* yankexpr() within parentheses: [nodes, rest] up to the closing one.     *)
RECURSIVE Inner(_, _), Paren_squish(_), Not_squish(_), Or_squish(_, _)
Inner(rest, done) ==
    IF rest = <<>> THEN [nodes |-> Error, rest |-> <<>>]
    ELSE CASE Head(rest).type = ")" ->
                [nodes |-> IF done = <<>> THEN Error ELSE done, rest |-> Tail(rest)]
           [] Head(rest).type = "(" ->
                LET in == Inner(Tail(rest), <<>>)
                IN  IF IsError(in.nodes) THEN in
                    ELSE Inner(in.rest, Append(done,
                             Node("expr", Head(rest).place, in.nodes, <<>>)))
           [] OTHER -> Inner(Tail(rest), Append(done, Head(rest)))

Paren_squish(p) ==
    IF p = <<>> THEN <<>>
    ELSE LET in == Inner(Tail(p), <<>>)
             first == IF Head(p).type = "("
                      THEN IF IsError(in.nodes) THEN Error
                           ELSE <<Node("expr", Head(p).place, in.nodes, <<>>)>>
                      ELSE <<Head(p)>>
             others == Paren_squish(IF Head(p).type = "(" THEN in.rest ELSE Tail(p))
         IN  IF Head(p).type = ")" \/ IsError(first) \/ IsError(others) THEN Error
             ELSE first \o others

(* A run of nots is one or none of them.  Mutant: it is one.               *)
OneLeft(level) == TRUE
NotLeft(level) == level % 2 = 1

Not_squish(p) ==
    IF p = <<>> THEN <<>>
    ELSE LET level == SelectInSeq(p, LAMBDA n : n.type # "!") - 1
             node == p[level + 1]
             inner == Not_squish(node.left)
             whole == IF node.type = "expr" THEN [node EXCEPT !.left = inner] ELSE node
             first == IF level > 0 /\ NotLeft(level)
                      THEN Node("!", Head(p).place, <<whole>>, <<>>) ELSE whole
             others == Not_squish(SubSeq(p, level + 2, Len(p)))
         IN  IF level < 0 THEN Error
             ELSE IF \/ level > 0 /\ node.type = "-o"
                     \/ node.type = "expr" /\ IsError(inner)
                     \/ IsError(others)
                  THEN Error
             ELSE <<first>> \o others

(* What was collected before an -o is its first plan.                      *)
Or_squish(p, done) ==
    IF p = <<>> THEN done
    ELSE LET n == Head(p)
             inner == Or_squish(n.left, <<>>)
             second == Or_squish(Tail(p), <<>>)
         IN  CASE n.type = "-o" ->
                    IF done = <<>> \/ second = <<>> \/ IsError(second) THEN Error
                    ELSE <<Node("-o", n.place, done, second)>>
               [] n.type \in {"expr", "!"} ->
                    IF IsError(inner) THEN Error
                    ELSE Or_squish(Tail(p), Append(done, [n EXCEPT !.left = inner]))
               [] OTHER -> Or_squish(Tail(p), Append(done, n))

(* Without a primary that acts, -print is done of what is true.            *)
Line(line) ==
    IF "exec" \in ToSet(line) THEN line
    ELSE IF line = <<>> THEN <<"print">>
    ELSE <<"(">> \o line \o <<")", "print">>

Find_formplan(line) ==
    LET parens == Paren_squish(Nodes(Line(line)))
        nots == IF IsError(parens) THEN Error ELSE Not_squish(parens)
    IN  IF IsError(nots) THEN Error ELSE Or_squish(nots, <<>>)

-----------------------------------------------------------------------------
(* Evaluation of a list of nodes: [state, done], with the places of the    *)
(* primaries that were evaluated, in order; out[t] is what a test says.    *)
RECURSIVE Eval(_, _), EvalNode(_, _)
Eval(p, out) ==
    LET first == EvalNode(Head(p), out)
        rest == Eval(Tail(p), out)
    IN  IF p = <<>> THEN [state |-> TRUE, done |-> <<>>]
        ELSE IF ~first.state THEN first
        ELSE [rest EXCEPT !.done = first.done \o @]

EvalNode(n, out) ==
    LET first == Eval(n.left, out)
        second == Eval(n.right, out)
    IN  CASE n.type = "expr" -> first
          [] n.type = "!" -> [first EXCEPT !.state = ~@]
          [] n.type = "-o" ->
               IF first.state THEN first ELSE [second EXCEPT !.done = first.done \o @]
          [] n.type \in Test -> [state |-> out[n.type], done |-> <<n.place>>]
          [] OTHER -> [state |-> TRUE, done |-> <<n.place>>]

(* find_traverse(): the places of the nodes that it looks at.              *)
RECURSIVE TraversedAll(_), Traversed(_)
TraversedAll(p) ==
    UNION {{p[i].place} \union TraversedAll(p[i].left) \union TraversedAll(p[i].right) :
              i \in DOMAIN p}
Traversed(p) ==
    UNION {IF p[i].type \in {"expr", "-o"}
           THEN {p[i].place} \union Traversed(p[i].left) \union Traversed(p[i].right)
           ELSE {p[i].place} : i \in DOMAIN p}

-----------------------------------------------------------------------------
Init ==
    /\ \E n \in 0..MaxTokens : tokens \in [1..n -> Test \union {"exec"} \union Operator]
    /\ plan = Find_formplan(tokens)
    /\ files = 0
    /\ batch = [i \in DOMAIN Line(tokens) |-> <<>>]
    /\ commands = batch
    /\ wanted = batch
    /\ pc = IF IsError(plan) THEN "exit" ELSE "walk"

(* f_exec(): the command is run as soon as it has all its arguments.       *)
(* Mutant: the file that would be one too many is dropped.                 *)
CollectedShort(b, file) == IF Len(b) = Maxargs - 1 THEN b ELSE Append(b, file)
Collected(b, file) == Append(b, file)

Visit ==
    /\ pc = "walk"
    /\ files < MaxFiles
    /\ files' = files + 1
    /\ \E out \in [Test -> BOOLEAN] :
        LET done == ToSet(Eval(plan, out).done)
            now == [i \in DOMAIN batch |->
                       IF i \in done /\ Line(tokens)[i] = "exec"
                       THEN Collected(batch[i], files + 1) ELSE batch[i]]
            Full(i) == Len(now[i]) = Maxargs
        IN  /\ batch' = [i \in DOMAIN batch |-> IF Full(i) THEN <<>> ELSE now[i]]
            /\ commands' = [i \in DOMAIN batch |->
                               IF Full(i) THEN commands[i] \o now[i] ELSE commands[i]]
            /\ wanted' = [i \in DOMAIN batch |->
                             IF i \in done THEN Append(wanted[i], files + 1) ELSE wanted[i]]
    /\ UNCHANGED <<tokens, plan, pc>>

Cleanup ==
    /\ pc = "walk"
    /\ pc' = "exit"
    /\ commands' = [i \in DOMAIN batch |->
                       IF i \in Traversed(plan) THEN commands[i] \o batch[i] ELSE commands[i]]
    /\ batch' = [i \in DOMAIN batch |-> IF i \in Traversed(plan) THEN <<>> ELSE batch[i]]
    /\ UNCHANGED <<tokens, plan, files, wanted>>

Next == Visit \/ Cleanup

Spec == Init /\ [][Next]_vars

-----------------------------------------------------------------------------
(* The grammar of find.1, "in order of decreasing precedence": ( ), !,     *)
(* juxtaposition, -o.  What lies between i and j of a line is split at its *)
(* first -o outside parentheses.                                           *)
Depth(line, i, j) ==
    Cardinality({k \in i..j : line[k] = "("}) - Cardinality({k \in i..j : line[k] = ")"})
Closing(line, i, j) == {k \in i..j : line[k] = ")" /\ Depth(line, i, k) = 0}
Splits(line, i, j) == {k \in i..j : line[k] = "-o" /\ Depth(line, i, k) = 0}
Least(S) == CHOOSE k \in S : \A l \in S : k <= l

Bad == [ok |-> FALSE, state |-> FALSE, done |-> <<>>]
RECURSIVE Or(_, _, _, _), And(_, _, _, _)
Or(line, i, j, out) ==
    IF Splits(line, i, j) = {} THEN And(line, i, j, out)
    ELSE LET k == Least(Splits(line, i, j))
             left == And(line, i, k - 1, out)
             right == Or(line, k + 1, j, out)
         IN  IF ~left.ok \/ ~right.ok THEN Bad
             ELSE IF left.state THEN left ELSE [right EXCEPT !.done = left.done \o @]

(* The first factor ends at f.                                             *)
And(line, i, j, out) ==
    LET nots == IF \A k \in i..j : line[k] = "!" THEN j - i + 1
                ELSE Least({k \in i..j : line[k] # "!"}) - i
        b == i + nots
        f == IF line[b] = "(" THEN Least(Closing(line, b, j)) ELSE b
        bare == IF line[b] = "(" THEN Or(line, b + 1, f - 1, out)
                ELSE [ok |-> TRUE, done |-> <<b>>,
                      state |-> IF line[b] \in Test THEN out[line[b]] ELSE TRUE]
        factor == [bare EXCEPT !.state = IF nots % 2 = 1 THEN ~@ ELSE @]
        others == And(line, f + 1, j, out)
    IN  IF b > j THEN Bad
        ELSE IF line[b] = ")" \/ (line[b] = "(" /\ Closing(line, b, j) = {}) \/ ~bare.ok THEN Bad
        ELSE IF f = j THEN factor
        ELSE IF ~others.ok THEN Bad
        ELSE IF ~factor.state THEN factor
        ELSE [others EXCEPT !.done = factor.done \o @]

(* The plan evaluates the primaries the expression says, in its order, and *)
(* there is none exactly if the expression is not one.                     *)
PlanMeansExpression ==
    files = 0 =>
        \A out \in [Test -> BOOLEAN] :
            LET line == Line(tokens)
                meant == Or(line, 1, Len(line), out)
            IN  /\ IsError(plan) <=> ~meant.ok
                /\ meant.ok =>
                     Eval(plan, out) = [state |-> meant.state, done |-> meant.done]

(* "The utility will be executed once per set": each file for which -exec  *)
(* was evaluated is passed to it once, in order, but after a ! at the end. *)
Negated(i) == i \notin Traversed(plan)
ExecutedOnce ==
    pc = "exit" /\ ~IsError(plan) =>
        \A i \in DOMAIN batch : Line(tokens)[i] = "exec" /\ ~Negated(i) =>
            commands[i] = wanted[i]
=============================================================================

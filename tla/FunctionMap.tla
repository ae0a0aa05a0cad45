----------------------------- MODULE FunctionMap -----------------------------
(***************************************************************************)
(* What a shell promises of its functions: a name has the body it was last *)
(* given, and a call runs the body its function had when it was called, to *)
(* the end, whatever becomes of the function meanwhile.                    *)
(***************************************************************************)
EXTENDS Naturals, Sequences

CONSTANTS Name, Body, None

VARIABLES
    body,    \* of each function, or None
    calls    \* the bodies of the calls in progress

Init == body = [n \in Name |-> None] /\ calls = <<>>

Define == /\ UNCHANGED calls
          /\ \E n \in Name : /\ body'[n] \in Body \union {None}
                             /\ body' = [body EXCEPT ![n] = body'[n]]

Call == \E n \in Name :
            /\ body[n] # None
            /\ calls' = Append(calls, body[n])
            /\ UNCHANGED body

Return == /\ calls # <<>>
          /\ calls' = SubSeq(calls, 1, Len(calls) - 1)
          /\ UNCHANGED body

Next == Define \/ Call \/ Return

Spec == Init /\ [][Next]_<<body, calls>>
=============================================================================

------------------------------- MODULE Ttymsg -------------------------------
(***************************************************************************)
(* ttymsg(), Library/ttymsg.c, by which wall(1) shows a message on a       *)
(* terminal: writev() of a vector of parts, which may write some of it or  *)
(* fail.  Left out: the checks of the line's name.                         *)
(***************************************************************************)
EXTENDS Integers, Sequences

CONSTANTS
    Lengths,    \* the lengths of a part
    MaxParts    \* bound: parts

ASSUME TtymsgAssumption == Lengths \subseteq Nat /\ MaxParts \in Nat

VARIABLES
    iov,        \* the parts to write: of each, where it begins and its length
    left,       \* the length of all of them
    shown,      \* the places of the message on the terminal, in order
    message,    \* the length of the message
    errno,      \* of the last writev(), or "none"
    ypc         \* "open", "writev", "null" (it returned NULL), "error"

ttymsgvars == <<iov, left, shown, message, errno, ypc>>

PartRecord == [base : Nat, len : Nat]

(* Where each of the parts with these lengths starts, and the end of all.  *)
Starts(lens) ==
    LET start[i \in 0..Len(lens)] == IF i = 0 THEN 0 ELSE start[i - 1] + lens[i]
    IN  start
Lens(parts) == [i \in DOMAIN parts |-> parts[i].len]
Before(parts, i) == Starts(Lens(parts))[i - 1]
Total(parts) == Starts(Lens(parts))[Len(parts)]

(* A vector of consecutive parts of the given lengths.                     *)
Consecutive(lens) ==
    [i \in DOMAIN lens |-> [base |-> Starts(lens)[i - 1], len |-> lens[i]]]

(* The part to which n characters come: the first one they do not fill.    *)
PartAt(parts, n) ==
    CHOOSE i \in DOMAIN parts :
        Before(parts, i) <= n /\ n < Before(parts, i) + parts[i].len

TtymsgInit ==
    /\ \E n \in 1..MaxParts : \E lens \in [1..n -> Lengths] : iov = Consecutive(lens)
    /\ left = Total(iov)
    /\ shown = <<>>
    /\ message = left
    /\ errno = "none"
    /\ ypc = "open"

(* Terminals that others have for themselves are passed over.              *)
OpenLine ==
    /\ ypc = "open"
    /\ \/ ypc' = "writev" /\ errno' = "none"
       \/ ypc' = "null" /\ errno' \in {"EBUSY", "EACCES"}
       \/ ypc' = "error" /\ errno' = "other"
    /\ UNCHANGED <<iov, left, shown, message>>

TtymsgReturns(what) == ypc' = what /\ UNCHANGED <<iov, left>>

(* The parts that were written are dropped, and the part that was begun is *)
(* shortened.  Mutant: it still begins where it did.                       *)
RestUnmoved(parts, n) ==
    LET i == PartAt(parts, n)
        done == n - Before(parts, i)
    IN  <<[base |-> parts[i].base, len |-> parts[i].len - done]>>
            \o SubSeq(parts, i + 1, Len(parts))
Rest(parts, n) ==
    LET i == PartAt(parts, n)
        done == n - Before(parts, i)
    IN  <<[base |-> parts[i].base + done, len |-> parts[i].len - done]>>
            \o SubSeq(parts, i + 1, Len(parts))

(* Where in the message the k-th character of a vector is, both counted    *)
(* from 1; writev() writes the first n of them.                            *)
PlaceOf(parts, k) ==
    LET i == PartAt(parts, k - 1)
    IN  parts[i].base + k - Before(parts, i)

Written(n) ==
    /\ shown' = shown \o [k \in 1..n |-> PlaceOf(iov, k)]
    /\ errno' = "none"
    /\ \/ n >= left /\ TtymsgReturns("null")
       \/ /\ n > 0 /\ n < left
          /\ left' = left - n
          /\ iov' = Rest(iov, n)
          /\ UNCHANGED ypc
       \/ n = 0 /\ n < left /\ TtymsgReturns("error")

(* An error is -1, and wret is unsigned: -1 >= left.                       *)
Fails(e) ==
    /\ errno' = e
    /\ TtymsgReturns("null")
    /\ UNCHANGED shown

Writev ==
    /\ ypc = "writev"
    /\ \/ \E n \in 0..left : Written(n)
       \/ \E e \in {"EWOULDBLOCK", "EIO", "ENODEV", "other"} : Fails(e)
    /\ UNCHANGED message

TtymsgDone == ypc \in {"null", "error"} /\ UNCHANGED ttymsgvars

TtymsgNext == OpenLine \/ Writev \/ TtymsgDone

TtymsgSpec == TtymsgInit /\ [][TtymsgNext]_ttymsgvars

-----------------------------------------------------------------------------
(* The terminal shows the message from its beginning, in order and without *)
(* repetition, however it was split and wherever writev() stopped; when it *)
(* is taken to be all written, it is, unless there was an error.           *)
MessageInOrder ==
    /\ \A i \in DOMAIN shown : shown[i] = i
    /\ ypc = "writev" => left = message - Len(shown) /\ left = Total(iov)
    /\ ypc = "null" /\ errno = "none" => Len(shown) = message
=============================================================================

----------------------------- MODULE KshJobList -----------------------------
(***************************************************************************)
(* The list operations of Source/ksh/jobs.c as operators on sequences: a   *)
(* job list is a sequence of jobs without repetitions, jb a function that  *)
(* gives each job's structure, and a removal or an insertion does what the *)
(* C code does with its Job **prev.                                        *)
(***************************************************************************)
EXTENDS Integers, Sequences, SequencesExt

Jobs(L) == {L[i] : i \in DOMAIN L}
NoRepeats(L) == \A i, k \in DOMAIN L : L[i] = L[k] => i = k

(* The position of job j in a list that has it.                            *)
Index(L, j) == CHOOSE i \in DOMAIN L : L[i] = j

(* The unlinking in remove_job() and put_job().                            *)
Without(L, j) == IF j \in Jobs(L) THEN RemoveAt(L, Index(L, j)) ELSE L

(* put_job(j, PJ_ON_FRONT).                                                *)
OnFront(L, j) == Cons(j, Without(L, j))

(* put_job(j, PJ_PAST_STOPPED): M is L with j moved behind the n stopped   *)
(* jobs the list begins with, not behind all the stopped ones.             *)
LeadingStopped(L, jb, n) ==
    /\ \A i \in 1..n : jb[L[i]].state = "stopped"
    /\ n < Len(L) => jb[L[n + 1]].state # "stopped"

(* Mutant: the job is linked in again without being unlinked.              *)
PastStoppedTwice(L, jb, j, M) ==
    \E n \in 0..Len(L) : LeadingStopped(L, jb, n) /\ M = InsertAt(L, n + 1, j)

PastStopped(L, jb, j, M) ==
    \E n \in 0..Len(Without(L, j)) :
        /\ LeadingStopped(Without(L, j), jb, n)
        /\ M = InsertAt(Without(L, j), n + 1, j)
=============================================================================

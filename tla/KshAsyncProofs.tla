--------------------------- MODULE KshAsyncProofs ---------------------------
(***************************************************************************)
(* Proofs about the two parts of the shell whose state signal handlers     *)
(* change at any time: the table of signals, trap.c (KshTrap), and the     *)
(* co-processes of io.c and jobs.c (KshCoproc).                            *)
(*                                                                         *)
(* Traps.  First: no signal that came is forgotten by the shell, whatever  *)
(* the number of signals, of uses of `trap' and of traps within traps.  The*)
(* invariant needs the types (with them, that setexecsig() never meets a   *)
(* signal whose original disposition was not noted, its internal error),   *)
(* and that a search of the table is under way while the shell is in       *)
(* runtraps() or in the command of a trap.  Second: what the kernel does   *)
(* with a signal is what `trap' lists, and a program that is executed finds*)
(* what it should.                                                         *)
(*                                                                         *)
(* Co-processes.  Their descriptors, their number and what each of them    *)
(* holds are right, for any number of jobs, wherever the SIGCHLD handler   *)
(* runs (CoprocInv).  The operations of io.c are functions of the pair of  *)
(* fds and coproc.  Each is first shown to close some of the fields (Shut),*)
(* or to open one on a new pipe; Sound is what the invariant says of such  *)
(* a pair.                                                                 *)
(***************************************************************************)
EXTENDS KshTrap, KshCoproc, FiniteSetTheorems, SequenceTheorems, TLAPS

-----------------------------------------------------------------------------
(* The table of signals.                                                   *)
Position == Nat \ {0}

TypeInv == /\ sigtraps \in [Signal -> Trap]
           /\ stack \in Seq(Position)

IntNoted == sigtraps["INT"].orig # "unknown"

Searching == pc \in {"loop", "command"} => stack # <<>>

IInv == TypeInv /\ IntNoted /\ Searching /\ NoTrapForgotten

(* What every function of trap.c makes of an entry t of the table.         *)
Kept(t, u) == u \in Trap /\ (t.orig # "unknown" => u.orig # "unknown")

-----------------------------------------------------------------------------
(* The table has the signals.                                              *)
LEMMA TableSignals == /\ DOMAIN Table = 1..5 /\ Len(Table) = 5
                      /\ \A i \in 1..5 : Table[i] \in Signal
                      /\ \A i, j \in 1..5 : Table[i] = Table[j] => i = j
  BY DEF Table, Signal

(* setexecsig(), where its check does not fail.                            *)
LEMMA SetexecsigKeeps ==
    ASSUME NEW t \in Trap, t.orig # "unknown",
           NEW restore \in {"orig", "curr", "ign", "dfl"}
    PROVE  LET u == Setexecsig(t, restore)
           IN  u \in Trap /\ u.orig = t.orig /\ u.set = t.set
<1> DEFINE e == CASE restore = "orig" -> t.orig
                  [] restore = "curr" -> "current"
                  [] OTHER -> restore
<1>1. e \in {"current", "ign", "dfl"}
  BY DEF Trap
<1>2. Setexecsig(t, restore) = [t EXCEPT !.exec = e]
  BY DEF Setexecsig
<1> HIDE DEF e
<1> QED
  BY <1>1, <1>2 DEF Trap

(* setsig() leaves alone whether the signal came, and has its original     *)
(* disposition noted, whether or not it is forced or allowed.              *)
LEMMA SetsigKeeps ==
    ASSUME NEW s \in Signal, NEW t \in Trap,
           NEW act \in {"ign", "dfl", "trapsig"},
           NEW restore \in {"orig", "curr", "ign", "dfl"},
           NEW v, \/ v = Noted(s, t)
                  \/ v = [Setexecsig(Noted(s, t), restore) EXCEPT !.act = act]
    PROVE  v \in Trap /\ v.orig # "unknown" /\ v.set = t.set
<1> DEFINE n == Noted(s, t)
           m == Setexecsig(n, restore)
           u == [m EXCEPT !.act = act]
<1>1. n \in Trap /\ n.orig # "unknown" /\ n.set = t.set
  <2> DEFINE o == IF s \in inherited THEN "ign" ELSE "dfl"
  <2>1. o \in {"ign", "dfl"}
    OBVIOUS
  <2>2. n = IF t.orig = "unknown" THEN [t EXCEPT !.orig = o, !.act = "ign"] ELSE t
    BY DEF Noted
  <2> HIDE DEF o, n
  <2> QED
    BY <2>1, <2>2 DEF Trap
<1>2. m \in Trap /\ m.orig # "unknown" /\ m.set = t.set
  <2> HIDE DEF n
  <2> QED
    BY <1>1, SetexecsigKeeps
<1>3. u \in Trap /\ u.orig # "unknown" /\ u.set = t.set
  <2> HIDE DEF m
  <2> QED
    BY <1>2 DEF Trap
<1>4. v = n \/ v = u
  OBVIOUS
<1> HIDE DEF n, m, u
<1> QED
  BY <1>1, <1>3, <1>4

(* settrap().                                                              *)
LEMMA SettrapKeeps ==
    ASSUME NEW s \in Signal, NEW t \in Trap, NEW text \in TrapText, NEW talk
    PROVE  LET v == Settrap(s, t, text, talk) IN Kept(t, v) /\ v.set = t.set
<1> DEFINE u == [t EXCEPT !.trap = text, !.user = TRUE]
           wanted == CASE text = "command" -> "trapsig"
                       [] text = "ignore" -> "ign"
                       [] OTHER -> IF AlwaysCaught(s) THEN "trapsig" ELSE "dfl"
           e == IF wanted = "ign" THEN "ign" ELSE "dfl"
<1>1. u \in Trap /\ u.orig = t.orig /\ u.set = t.set
  BY DEF Trap
<1>2. wanted \in {"ign", "dfl", "trapsig"} /\ e \in {"current", "ign", "dfl"}
  BY DEF TrapText
<1>3. Settrap(s, t, text, talk) =
        IF s \notin ShellUses THEN Setsig(s, u, wanted, "curr", FALSE, talk)
        ELSE IF u.orig = "ign" /\ ~talk THEN u ELSE [u EXCEPT !.exec = e]
  BY DEF Settrap
<1> HIDE DEF u, wanted, e
<1> DEFINE v == Setsig(s, u, wanted, "curr", FALSE, talk)
<1>4. v \in Trap /\ v.orig # "unknown" /\ v.set = u.set
  <2>1. \/ v = Noted(s, u)
        \/ v = [Setexecsig(Noted(s, u), "curr") EXCEPT !.act = wanted]
    BY DEF Setsig
  <2> HIDE DEF v
  <2> QED
    BY <1>1, <1>2, <2>1, SetsigKeeps
<1>5. LET w == [u EXCEPT !.exec = e]
      IN  w \in Trap /\ w.orig = u.orig /\ w.set = u.set
  BY <1>1, <1>2 DEF Trap
<1> HIDE DEF v
<1> QED
  BY <1>1, <1>3, <1>4, <1>5 DEF Kept, v

(* cleartraps(): no signal of the parent's is left to a child.             *)
LEMMA ClearedForgets ==
    ASSUME NEW s \in Signal, NEW t \in Trap
    PROVE  Kept(t, Cleared(s, t)) /\ Cleared(s, t).set = FALSE
<1> DEFINE c == [t EXCEPT !.set = FALSE]
<1>1. c \in Trap /\ c.orig = t.orig /\ c.set = FALSE
  BY DEF Trap
<1>2. Cleared(s, t) = IF c.user /\ c.trap = "command"
                      THEN Settrap(s, c, "none", FALSE) ELSE c
  BY DEF Cleared
<1> HIDE DEF c
<1>3. LET v == Settrap(s, c, "none", FALSE) IN Kept(c, v) /\ v.set = c.set
  BY <1>1, SettrapKeeps DEF TrapText
<1> QED
  BY <1>1, <1>2, <1>3 DEF Kept

(* restoresigs().                                                          *)
LEMMA RestoredKeeps ==
    ASSUME NEW s \in Signal, NEW t \in Trap
    PROVE  Kept(t, Restored(s, t)) /\ Restored(s, t).set = t.set
<1>1. CASE t.exec = "current"
  BY <1>1 DEF Restored, Kept
<1>2. CASE t.exec # "current"
  <2>1. t.exec \in {"ign", "dfl"}
    BY <1>2 DEF Trap
  <2> DEFINE v == Setsig(s, t, t.exec, "curr", TRUE, FALSE)
  <2>2. \/ v = Noted(s, t)
        \/ v = [Setexecsig(Noted(s, t), "curr") EXCEPT !.act = t.exec]
    BY DEF Setsig
  <2>3. v \in Trap /\ v.orig # "unknown" /\ v.set = t.set
    <3> HIDE DEF v
    <3> QED
      BY <2>1, <2>2, SetsigKeeps
  <2> QED
    BY <1>2, <2>3 DEF Restored, Kept
<1> QED
  BY <1>1, <1>2

(* The table as a whole: one entry changes and none is newly set.          *)
LEMMA EntryLemma ==
    ASSUME IInv, NEW s \in Signal, NEW u,
           Kept(sigtraps[s], u), u.set => sigtraps[s].set,
           sigtraps' = [sigtraps EXCEPT ![s] = u]
    PROVE  /\ sigtraps' \in [Signal -> Trap]
           /\ IntNoted'
           /\ \A q \in Signal : sigtraps'[q].set => sigtraps[q].set
<1>1. sigtraps \in [Signal -> Trap] /\ sigtraps["INT"].orig # "unknown"
      /\ "INT" \in Signal
  BY DEF IInv, TypeInv, IntNoted, Signal
<1>2. \A q \in Signal : sigtraps'[q] = IF q = s THEN u ELSE sigtraps[q]
  BY <1>1
<1>3. sigtraps' \in [Signal -> Trap]
  BY <1>1 DEF Kept
<1>4. sigtraps'["INT"].orig # "unknown"
  BY <1>1, <1>2 DEF Kept
<1> QED
  BY <1>2, <1>3, <1>4 DEF IntNoted

(* A step that sets no signal and leaves the searches alone.               *)
LEMMA QuietLemma ==
    ASSUME IInv, Alive,
           sigtraps' \in [Signal -> Trap], IntNoted',
           \A q \in Signal : sigtraps'[q].set => sigtraps[q].set,
           stack' = stack, trap' = trap, unwound' = unwound,
           pc' = pc \/ pc' \notin {"loop", "command"}
    PROVE  IInv'
<1>1. ASSUME ~unwound', NEW i \in DOMAIN Table, sigtraps'[Table[i]].set
      PROVE  trap' \/ \E k \in DOMAIN stack' : stack'[k] <= i
  <2>1. sigtraps[Table[i]].set
    BY <1>1, TableSignals
  <2>2. trap \/ \E k \in DOMAIN stack : stack[k] <= i
    BY <1>1, <2>1 DEF IInv, NoTrapForgotten
  <2> QED
    BY <2>2
<1>2. NoTrapForgotten'
  BY <1>1 DEF NoTrapForgotten
<1>3. TypeInv' /\ Searching'
  BY DEF IInv, TypeInv, Searching
<1> QED
  BY <1>2, <1>3 DEF IInv

(* A signal arrives: it is announced.                                      *)
LEMMA ArrivesLemma == ASSUME IInv, Arrives PROVE IInv'
<1>1. PICK s \in Signal :
        \/ /\ Trapsig(s) /\ UNCHANGED <<stack, pc>>
        \/ /\ pc' = "gone" /\ stack' = <<>> /\ UNCHANGED <<sigtraps, flags>>
  BY DEF Arrives
<1>2. CASE Trapsig(s) /\ UNCHANGED <<stack, pc>>
  <2> DEFINE u == [sigtraps[s] EXCEPT !.set = TRUE]
  <2>1. sigtraps[s] \in Trap
    BY DEF IInv, TypeInv
  <2>2. u \in Trap /\ u.orig = sigtraps[s].orig
    BY <2>1 DEF Trap
  <2>3. sigtraps' = [sigtraps EXCEPT ![s] = u]
    BY <1>2, <2>1 DEF Trapsig, IInv, TypeInv
  <2>4. sigtraps' \in [Signal -> Trap] /\ IntNoted'
    <3> HIDE DEF u
    <3>1. sigtraps' \in [Signal -> Trap]
      BY <2>2, <2>3 DEF IInv, TypeInv
    <3>2. "INT" \in Signal
      BY DEF Signal
    <3>3. sigtraps'["INT"].orig = sigtraps["INT"].orig
      BY <2>2, <2>3, <3>2 DEF IInv, TypeInv
    <3> QED
      BY <3>1, <3>3 DEF IInv, IntNoted
  <2> QED
    BY <1>2, <2>4 DEF Trapsig, IInv, TypeInv, Searching, NoTrapForgotten
<1>3. CASE pc' = "gone" /\ stack' = <<>> /\ UNCHANGED <<sigtraps, flags>>
  BY <1>3 DEF IInv, TypeInv, IntNoted, Searching, NoTrapForgotten, Alive
<1> QED
  BY <1>1, <1>2, <1>3

(* `trap'.                                                                 *)
LEMMA C_trapLemma == ASSUME IInv, C_trap PROVE IInv'
<1>1. PICK s \in Signal, text \in TrapText :
        sigtraps' = [sigtraps EXCEPT ![s] = Settrap(s, @, text, talking)]
  BY DEF C_trap
<1> DEFINE u == Settrap(s, sigtraps[s], text, talking)
<1>2. sigtraps[s] \in Trap
  BY DEF IInv, TypeInv
<1>3. Kept(sigtraps[s], u) /\ u.set = sigtraps[s].set
  BY <1>2, SettrapKeeps
<1>4. sigtraps' = [sigtraps EXCEPT ![s] = u]
  BY <1>1 DEF IInv, TypeInv
<1> HIDE DEF u
<1> QED
  BY <1>3, <1>4, EntryLemma, QuietLemma DEF C_trap, flags, Alive

(* runtrap(): the signal it looks at is dealt with, no other is.           *)
LEMMA RuntrapLemma ==
    ASSUME IInv, NEW i \in DOMAIN Table, NEW rest \in Seq(Position),
           Runtrap(Table[i], rest)
    PROVE  /\ sigtraps' \in [Signal -> Trap]
           /\ IntNoted'
           /\ \A j \in DOMAIN Table :
                 sigtraps'[Table[j]].set => j # i /\ sigtraps[Table[j]].set
           /\ stack' \in Seq(Position)
           /\ \/ ~Alive' /\ pc' \notin {"loop", "command"}
              \/ unwound' /\ pc' \notin {"loop", "command"}
              \/ /\ stack' = rest /\ unwound' = unwound
                 /\ \/ pc' = pc
                    \/ pc' = "command" /\ sigtraps[Table[i]].trap = "command"
<1> DEFINE s == Table[i]
           u == [sigtraps[s] EXCEPT !.set = FALSE]
<1>1. s \in Signal /\ sigtraps[s] \in Trap
  BY TableSignals DEF IInv, TypeInv
<1>2. u \in Trap /\ u.orig = sigtraps[s].orig /\ u.set = FALSE
  <2> HIDE DEF s
  <2> QED
    BY <1>1 DEF Trap
<1>3. sigtraps' = [sigtraps EXCEPT ![s] = u]
  BY <1>1 DEF Runtrap, IInv, TypeInv
<1> HIDE DEF u
<1>4. /\ sigtraps' \in [Signal -> Trap]
      /\ IntNoted'
      /\ \A q \in Signal : sigtraps'[q].set => sigtraps[q].set
  <2> HIDE DEF s
  <2> QED
    BY <1>1, <1>2, <1>3, EntryLemma DEF Kept
<1>5. sigtraps'[s].set = FALSE
  BY <1>1, <1>2, <1>3 DEF IInv, TypeInv
<1>6. \A j \in DOMAIN Table :
        sigtraps'[Table[j]].set => j # i /\ sigtraps[Table[j]].set
  BY <1>4, <1>5, TableSignals
<1>7. stack' \in Seq(Position)
  <2>1. <<>> \in Seq(Position)
    OBVIOUS
  <2> QED
    BY <2>1 DEF Runtrap, UnwindIntr, Unwind
<1>8. \/ ~Alive' /\ pc' \notin {"loop", "command"}
      \/ unwound' /\ pc' \notin {"loop", "command"}
      \/ /\ stack' = rest /\ unwound' = unwound
         /\ \/ pc' = pc
            \/ pc' = "command" /\ sigtraps[Table[i]].trap = "command"
  BY DEF Runtrap, UnwindIntr, Unwind, Alive
<1> QED
  BY <1>4, <1>6, <1>7, <1>8

(* Leaving a search, or going on with it.                                  *)
LEMMA FrontLemma ==
    ASSUME NEW q \in Seq(Position), q # <<>>
    PROVE  /\ Len(q) \in Nat /\ Len(q) >= 1
           /\ Last(q) = q[Len(q)] /\ q[Len(q)] \in Position
           /\ Front(q) \in Seq(Position) /\ Len(Front(q)) = Len(q) - 1
           /\ \A k \in 1..(Len(q) - 1) : Front(q)[k] = q[k]
<1>1. Len(q) \in Nat /\ Len(q) >= 1
  OBVIOUS
<1>2. Front(q) \in Seq(Position) /\ Len(Front(q)) = Len(q) - 1
  <2>1. Front(q) = [k \in 1..(Len(q) - 1) |-> q[k]]
    BY <1>1 DEF Front
  <2>2. Len(q) - 1 \in Nat /\ \A k \in 1..(Len(q) - 1) : q[k] \in Position
    BY <1>1
  <2> QED
    BY <2>1, <2>2
<1>3. \A k \in 1..(Len(q) - 1) : Front(q)[k] = q[k]
  BY <1>1 DEF Front
<1>4. Last(q) = q[Len(q)] /\ q[Len(q)] \in Position
  BY <1>1 DEF Last
<1> QED
  BY <1>1, <1>2, <1>3, <1>4

(* runtraps(0) clears the flag and will look at the whole table.           *)
LEMMA RuntrapsStartsLemma == ASSUME IInv, RuntrapsStarts PROVE IInv'
<1> DEFINE n == Len(stack) + 1
<1>1. stack \in Seq(Position) /\ stack' = Append(stack, 1) /\ UNCHANGED sigtraps
  BY DEF RuntrapsStarts, IInv, TypeInv
<1>2. stack' \in Seq(Position) /\ stack' # <<>> /\ n \in DOMAIN stack' /\ stack'[n] = 1
  <2>1. 1 \in Position
    BY DEF Position
  <2> QED
    BY <1>1, <2>1
<1>3. \A i \in DOMAIN Table : stack'[n] <= i
  BY <1>2, TableSignals
<1> HIDE DEF n
<1>4. NoTrapForgotten'
  BY <1>2, <1>3 DEF NoTrapForgotten
<1> QED
  BY <1>1, <1>2, <1>4 DEF IInv, TypeInv, IntNoted, Searching

(* Its loop: whatever is pending further on stays ahead of it.             *)
LEMMA RuntrapsNextLemma == ASSUME IInv, RuntrapsNext PROVE IInv'
<1>1. PICK i \in Pending :
        (\A k \in Pending : i <= k) /\ Runtrap(Table[i], Append(Front(stack), i + 1))
  BY DEF RuntrapsNext
<1> DEFINE n == Len(stack)
           rest == Append(Front(stack), i + 1)
<1>2. stack \in Seq(Position) /\ stack # <<>> /\ n \in Nat /\ n >= 1
  BY DEF RuntrapsNext, IInv, TypeInv, Searching
<1>3. Last(stack) = stack[n] /\ stack[n] \in Position
  BY <1>2, FrontLemma
<1>4. i \in DOMAIN Table /\ i \in Nat
  <2>1. i \in Last(stack)..5
    BY TableSignals DEF Pending
  <2>2. i \in 1..5
    BY <1>3, <2>1 DEF Position
  <2> QED
    BY <2>2, TableSignals
<1>5. Front(stack) \in Seq(Position) /\ Len(Front(stack)) = n - 1
      /\ \A k \in 1..(n - 1) : Front(stack)[k] = stack[k]
  BY <1>2, FrontLemma
<1>6. /\ rest \in Seq(Position) /\ rest # <<>> /\ DOMAIN rest = 1..n
      /\ rest[n] = i + 1
      /\ \A k \in 1..(n - 1) : rest[k] = stack[k]
  <2> DEFINE f == Front(stack)
  <2>1. f \in Seq(Position) /\ Len(f) = n - 1 /\ i + 1 \in Position
        /\ \A k \in 1..(n - 1) : f[k] = stack[k]
    BY <1>4, <1>5 DEF Position
  <2> HIDE DEF f
  <2>2. LET r == Append(f, i + 1)
        IN  /\ r \in Seq(Position) /\ r # <<>> /\ DOMAIN r = 1..n
            /\ r[n] = i + 1
            /\ \A k \in 1..(n - 1) : r[k] = stack[k]
    <3> HIDE DEF n
    <3> QED
      BY <1>2, <2>1
  <2> QED
    BY <2>2 DEF f
<1>7. Runtrap(Table[i], rest)
  BY <1>1
<1>8. UNCHANGED trap
  BY DEF RuntrapsNext, flags
<1>9. ASSUME NEW j \in DOMAIN Table, j # i, sigtraps[Table[j]].set, ~unwound
      PROVE  trap \/ \E k \in DOMAIN rest : rest[k] <= j
  <2>1. CASE trap
    BY <2>1
  <2>2. CASE ~trap
    <3>1. PICK k \in DOMAIN stack : stack[k] <= j
      BY <1>9, <2>2 DEF IInv, NoTrapForgotten, RuntrapsNext, Alive
    <3>2. k \in 1..n
      BY <1>2
    <3>3. CASE k = n
      <4>1. j \in Pending
        BY <1>3, <1>9, <3>1, <3>3, TableSignals DEF Pending
      <4>2. j \in Nat /\ i + 1 <= j
        BY <1>1, <1>4, <1>9, <4>1, TableSignals
      <4> QED
        BY <1>2, <1>6, <4>2
    <3>4. CASE k # n
      <4>1. k \in 1..(n - 1) /\ k \in 1..n
        BY <1>2, <3>2, <3>4
      <4> HIDE DEF rest, n
      <4> QED
        BY <1>6, <3>1, <4>1
    <3> QED
      BY <3>3, <3>4
  <2> QED
    BY <2>1, <2>2
<1> HIDE DEF rest, n
<1>10. /\ sigtraps' \in [Signal -> Trap]
       /\ IntNoted'
       /\ \A j \in DOMAIN Table :
             sigtraps'[Table[j]].set => j # i /\ sigtraps[Table[j]].set
       /\ stack' \in Seq(Position)
       /\ \/ ~Alive' /\ pc' \notin {"loop", "command"}
          \/ unwound' /\ pc' \notin {"loop", "command"}
          \/ stack' = rest /\ unwound' = unwound
  BY <1>4, <1>6, <1>7, RuntrapLemma
<1>11. NoTrapForgotten'
  BY <1>8, <1>9, <1>10 DEF NoTrapForgotten
<1> QED
  BY <1>6, <1>10, <1>11 DEF IInv, TypeInv, Searching

(* It returns when nothing ahead of it is pending.                         *)
LEMMA RuntrapsReturnsLemma == ASSUME IInv, RuntrapsReturns PROVE IInv'
<1> DEFINE n == Len(stack)
<1>1. stack \in Seq(Position) /\ stack # <<>> /\ n \in Nat /\ n >= 1
  BY DEF RuntrapsReturns, IInv, TypeInv, Searching
<1>2. Last(stack) = stack[n]
  BY <1>1, FrontLemma
<1>3. /\ stack' \in Seq(Position) /\ Len(stack') = n - 1
      /\ DOMAIN stack' = 1..(n - 1)
      /\ \A k \in 1..(n - 1) : stack'[k] = stack[k]
  BY <1>1, FrontLemma DEF RuntrapsReturns
<1>4. trap' = trap /\ UNCHANGED <<sigtraps, unwound>> /\ pc = "loop" /\ Pending = {}
  BY DEF RuntrapsReturns, FlagAtEnd
<1>5. ASSUME NEW j \in DOMAIN Table, sigtraps[Table[j]].set, ~unwound, ~trap
      PROVE  \E k \in DOMAIN stack' : stack'[k] <= j
  <2>1. PICK k \in DOMAIN stack : stack[k] <= j
    BY <1>4, <1>5 DEF IInv, NoTrapForgotten, Alive
  <2>2. k # n
    <3> SUFFICES ASSUME k = n PROVE FALSE
      OBVIOUS
    <3>1. j \in Pending
      BY <1>1, <1>2, <1>5, <2>1, TableSignals DEF Pending
    <3> QED
      BY <1>4, <3>1
  <2>3. k \in 1..(n - 1)
    BY <1>1, <2>2
  <2> QED
    BY <1>3, <2>1, <2>3
<1>6. NoTrapForgotten'
  BY <1>4, <1>5 DEF NoTrapForgotten
<1>7. Searching'
  <2>1. pc' = "ready" \/ Len(stack') # 0
    BY <1>1, <1>3 DEF RuntrapsReturns
  <2>2. pc' = "ready" \/ stack' # <<>>
    BY <2>1
  <2> QED
    BY <2>2 DEF Searching
<1> QED
  BY <1>3, <1>4, <1>6, <1>7 DEF IInv, TypeInv, IntNoted

(* The command of a trap ends, or is left.                                 *)
LEMMA CommandEndsLemma == ASSUME IInv, CommandEnds PROVE IInv'
<1>1. UNCHANGED <<sigtraps, trap>> /\ pc = "command"
  BY DEF CommandEnds, flags
<1>2. CASE pc' = "loop" /\ UNCHANGED <<stack, unwound>>
  BY <1>1, <1>2 DEF IInv, TypeInv, IntNoted, Searching, NoTrapForgotten, Alive
<1>3. CASE Unwind
  BY <1>1, <1>3 DEF Unwind, IInv, TypeInv, IntNoted, Searching, NoTrapForgotten
<1> QED
  BY <1>2, <1>3 DEF CommandEnds

(* intrcheck() never starts the command of a trap.                         *)
LEMMA IntrcheckLemma == ASSUME IInv, Intrcheck, Alive PROVE IInv'
<1>1. PICK i \in Untrapped : Runtrap(Table[i], stack)
  BY DEF Intrcheck
<1>2. i \in DOMAIN Table /\ sigtraps[Table[i]].trap # "command"
  BY DEF Untrapped
<1>3. stack \in Seq(Position) /\ UNCHANGED trap
  BY DEF IInv, TypeInv, Intrcheck
<1>4. /\ sigtraps' \in [Signal -> Trap]
      /\ IntNoted'
      /\ \A j \in DOMAIN Table :
            sigtraps'[Table[j]].set => j # i /\ sigtraps[Table[j]].set
      /\ stack' \in Seq(Position)
      /\ \/ ~Alive' /\ pc' \notin {"loop", "command"}
         \/ unwound' /\ pc' \notin {"loop", "command"}
         \/ stack' = stack /\ unwound' = unwound /\ pc' = pc
  BY <1>1, <1>2, <1>3, RuntrapLemma
<1>5. NoTrapForgotten'
  BY <1>3, <1>4 DEF IInv, NoTrapForgotten
<1> QED
  BY <1>4, <1>5 DEF IInv, TypeInv, Searching

(* print -p changes only what the shell does about SIGPIPE.                *)
LEMMA PrintLemma ==
    ASSUME IInv, PrintStarts \/ PrintInterrupted \/ PrintReturns PROVE IInv'
<1> DEFINE t == sigtraps["PIPE"]
           Pipe(act) == Setsig("PIPE", t, act, "curr", FALSE, FALSE)
<1>1. "PIPE" \in Signal /\ t \in Trap /\ sigtraps \in [Signal -> Trap]
  BY DEF IInv, TypeInv, Signal
<1>2. ASSUME NEW act \in {"ign", "dfl"}
      PROVE  Kept(t, Pipe(act)) /\ Pipe(act).set = t.set
  <2>1. \/ Pipe(act) = Noted("PIPE", t)
        \/ Pipe(act) = [Setexecsig(Noted("PIPE", t), "curr") EXCEPT !.act = act]
    BY DEF Setsig
  <2> HIDE DEF t, Pipe
  <2> QED
    BY <1>1, <2>1, SetsigKeeps DEF Kept
<1>3. \/ sigtraps' = [sigtraps EXCEPT !["PIPE"] = Pipe("ign")]
      \/ sigtraps' = [sigtraps EXCEPT !["PIPE"] = Pipe("dfl")]
      \/ sigtraps' = sigtraps
  BY <1>1 DEF PrintStarts, PrintInterrupted, PrintReturns, Blockpipe, Restorepipe
<1> HIDE DEF Pipe
<1>4. /\ sigtraps' \in [Signal -> Trap]
      /\ IntNoted'
      /\ \A q \in Signal : sigtraps'[q].set => sigtraps[q].set
  <2>1. CASE sigtraps' = [sigtraps EXCEPT !["PIPE"] = Pipe("ign")]
    BY <1>1, <1>2, <2>1, EntryLemma
  <2>2. CASE sigtraps' = [sigtraps EXCEPT !["PIPE"] = Pipe("dfl")]
    BY <1>1, <1>2, <2>2, EntryLemma
  <2>3. CASE sigtraps' = sigtraps
    BY <1>1, <2>3 DEF IInv, IntNoted
  <2> QED
    BY <1>3, <2>1, <2>2, <2>3
<1>5. /\ Alive /\ pc' \notin {"loop", "command"}
      /\ UNCHANGED <<stack, trap, unwound>>
  BY DEF PrintStarts, PrintInterrupted, PrintReturns, Alive, flags
<1> QED
  BY <1>4, <1>5, QuietLemma

(* A child begins with no signal.                                          *)
LEMMA ForkedForgets ==
    ASSUME IInv, NEW bg \in BOOLEAN
    PROVE  /\ Forked(bg) \in [Signal -> Trap]
           /\ Forked(bg)["INT"].orig # "unknown"
           /\ \A s \in Signal : Forked(bg)[s].set = FALSE
<1>1. sigtraps \in [Signal -> Trap] /\ sigtraps["INT"].orig # "unknown"
      /\ "INT" \in Signal
  BY DEF IInv, TypeInv, IntNoted, Signal
<1>2. Quiet \in Trap /\ Quiet.orig # "unknown"
  <2>1. \/ Quiet = Noted("INT", sigtraps["INT"])
        \/ Quiet = [Setexecsig(Noted("INT", sigtraps["INT"]), "ign")
                      EXCEPT !.act = "ign"]
    BY DEF Quiet, Quietly, Setsig
  <2>2. sigtraps["INT"] \in Trap
    BY <1>1
  <2> QED
    BY <1>1, <2>1, <2>2, SetsigKeeps
<1> DEFINE t(s) == IF s = "INT" /\ bg /\ ~talking THEN Quiet ELSE sigtraps[s]
<1>3. Forked(bg) = [s \in Signal |-> Cleared(s, t(s))]
  BY DEF Forked
<1>4. \A s \in Signal : t(s) \in Trap
  BY <1>1, <1>2
<1>5. t("INT").orig # "unknown"
  BY <1>1, <1>2
<1> HIDE DEF t
<1>6. \A s \in Signal : Kept(t(s), Cleared(s, t(s))) /\ Cleared(s, t(s)).set = FALSE
  BY <1>4, ClearedForgets
<1> QED
  BY <1>1, <1>3, <1>5, <1>6 DEF Kept

(* fork(): whoever goes on as a shell owes its parent's signals nothing.   *)
LEMMA ForkShellLemma == ASSUME IInv, ForkShell PROVE IInv'
<1>1. PICK bg \in BOOLEAN : Child(bg) /\ sigtraps' = Forked(bg)
  BY DEF ForkShell
<1>2. /\ sigtraps' \in [Signal -> Trap] /\ IntNoted'
      /\ \A s \in Signal : sigtraps'[s].set = FALSE
  BY <1>1, ForkedForgets DEF IntNoted
<1>3. pc = "ready" /\ pc' = pc /\ stack' = stack
  BY <1>1 DEF ForkShell, Child
<1>4. NoTrapForgotten'
  BY <1>2, TableSignals DEF NoTrapForgotten
<1> QED
  BY <1>2, <1>3, <1>4 DEF IInv, TypeInv, Searching

(* exec().                                                                 *)
LEMMA ExecLemma == ASSUME IInv, ForkCommand \/ ExecLast PROVE IInv'
<1>1. ASSUME NEW old \in [Signal -> Trap], old["INT"].orig # "unknown",
             sigtraps' = [s \in Signal |-> Restored(s, old[s])]
      PROVE  sigtraps' \in [Signal -> Trap] /\ IntNoted'
  <2>1. \A s \in Signal : Kept(old[s], Restored(s, old[s]))
    BY <1>1, RestoredKeeps
  <2>2. "INT" \in Signal
    BY DEF Signal
  <2> QED
    BY <1>1, <2>1, <2>2 DEF Kept, IntNoted
<1>2. sigtraps' \in [Signal -> Trap] /\ IntNoted'
  <2>1. CASE ForkCommand
    <3>1. sigtraps' = [s \in Signal |-> Restored(s, Forked(FALSE)[s])]
      BY <2>1 DEF ForkCommand
    <3>2. FALSE \in BOOLEAN
      OBVIOUS
    <3>3. /\ Forked(FALSE) \in [Signal -> Trap]
          /\ Forked(FALSE)["INT"].orig # "unknown"
      BY <3>2, ForkedForgets
    <3> QED
      BY <1>1, <3>1, <3>3
  <2>2. CASE ExecLast
    <3> DEFINE i == Setexecsig(sigtraps["INT"], "orig")
               old == [s \in Signal |-> IF s = "INT" THEN i ELSE sigtraps[s]]
    <3>1. /\ sigtraps \in [Signal -> Trap] /\ "INT" \in Signal
          /\ sigtraps["INT"] \in Trap /\ sigtraps["INT"].orig # "unknown"
      BY DEF IInv, TypeInv, IntNoted, Signal
    <3>2. i \in Trap /\ i.orig # "unknown"
      BY <3>1, SetexecsigKeeps
    <3>3. old \in [Signal -> Trap] /\ old["INT"].orig # "unknown"
      <4> HIDE DEF i
      <4> QED
        BY <3>1, <3>2
    <3>4. sigtraps' = [s \in Signal |-> Restored(s, old[s])]
      BY <2>2 DEF ExecLast
    <3> HIDE DEF old
    <3> QED
      BY <1>1, <3>3, <3>4
  <2> QED
    BY <2>1, <2>2
<1>3. pc' = "execed" /\ stack' = stack
  BY DEF ForkCommand, ExecLast
<1>4. NoTrapForgotten'
  BY <1>3 DEF NoTrapForgotten, Alive
<1> QED
  BY <1>2, <1>3, <1>4 DEF IInv, TypeInv, Searching

-----------------------------------------------------------------------------
(* inittraps(), j_init(): no signal came yet.                              *)
LEMMA InitLemma == ASSUME Init PROVE IInv
<1> DEFINE Caught == ShellUses \union Interrupting \union Fatal
<1>1. Unset \in Trap /\ Unset.set = FALSE
  BY DEF Unset, Trap, TrapText
<1>2. DOMAIN sigtraps = Signal /\ sigtraps = [s \in Signal |-> sigtraps[s]]
  BY DEF Init
<1>3. \A s \in Signal :
        \/ s \notin Caught /\ sigtraps[s] = Unset
        \/ sigtraps[s] = Noted(s, Unset)
        \/ sigtraps[s] = [Setexecsig(Noted(s, Unset), "orig") EXCEPT !.act = "trapsig"]
  BY DEF Init, Setsig
<1>4. \A s \in Signal : /\ sigtraps[s] \in Trap /\ sigtraps[s].set = FALSE
                        /\ s \in Caught => sigtraps[s].orig # "unknown"
  <2> HIDE DEF Caught
  <2> TAKE s \in Signal
  <2>1. CASE s \notin Caught /\ sigtraps[s] = Unset
    BY <1>1, <2>1
  <2>2. CASE \/ sigtraps[s] = Noted(s, Unset)
             \/ sigtraps[s] = [Setexecsig(Noted(s, Unset), "orig")
                                 EXCEPT !.act = "trapsig"]
    <3> DEFINE v == sigtraps[s]
    <3>1. v \in Trap /\ v.orig # "unknown" /\ v.set = Unset.set
      <4>1. \/ v = Noted(s, Unset)
            \/ v = [Setexecsig(Noted(s, Unset), "orig") EXCEPT !.act = "trapsig"]
        BY <2>2
      <4> HIDE DEF v
      <4> QED
        BY <1>1, <4>1, SetsigKeeps
    <3> QED
      BY <1>1, <3>1
  <2> QED
    BY <1>3, <2>1, <2>2
<1>5. IntNoted
  BY <1>4 DEF IntNoted, Signal, Interrupting
<1>6. NoTrapForgotten
  BY <1>4, TableSignals DEF NoTrapForgotten
<1>7. sigtraps \in [Signal -> Trap]
  BY <1>2, <1>4
<1>8. stack \in Seq(Position) /\ Searching
  <2>1. stack = <<>> /\ pc = "ready"
    BY DEF Init
  <2> QED
    BY <2>1 DEF Searching
<1> QED
  BY <1>5, <1>6, <1>7, <1>8 DEF IInv, TypeInv

(* Every action keeps the invariant.                                       *)
LEMMA StepLemma == IInv /\ [Next]_vars => IInv'
<1> SUFFICES ASSUME IInv, [Next]_vars PROVE IInv'
  OBVIOUS
<1>1. CASE Arrives
  BY <1>1, ArrivesLemma
<1>2. CASE C_trap
  BY <1>2, C_trapLemma
<1>3. CASE RuntrapsStarts
  BY <1>3, RuntrapsStartsLemma
<1>4. CASE RuntrapsNext
  BY <1>4, RuntrapsNextLemma
<1>5. CASE RuntrapsReturns
  BY <1>5, RuntrapsReturnsLemma
<1>6. CASE CommandEnds
  BY <1>6, CommandEndsLemma
<1>7. CASE Interrupted \/ PrintAborts
  BY <1>7, IntrcheckLemma DEF Interrupted, PrintAborts, Alive
<1>8. CASE PrintStarts \/ PrintInterrupted \/ PrintReturns
  BY <1>8, PrintLemma
<1>9. CASE ForkShell
  BY <1>9, ForkShellLemma
<1>10. CASE ForkCommand \/ ExecLast
  BY <1>10, ExecLemma
<1>11. CASE Ended \/ UNCHANGED vars
  BY <1>11 DEF Ended, vars, flags, IInv, TypeInv, IntNoted, Searching,
               NoTrapForgotten, Alive
<1> QED
  BY <1>1, <1>2, <1>3, <1>4, <1>5, <1>6, <1>7, <1>8, <1>9, <1>10, <1>11 DEF Next

(* trapsig(), runtraps(), runtrap(): a signal that came is announced by    *)
(* `trap' or ahead of a search of the table that is under way, until a trap*)
(* is unwound, however many come and however deep the traps are.           *)
THEOREM NothingForgotten == Spec => []NoTrapForgotten
<1>1. Init => IInv
  BY InitLemma
<1>2. IInv => NoTrapForgotten
  BY DEF IInv
<1> QED
  BY <1>1, <1>2, StepLemma, PTL DEF Spec

(* setexecsig()'s internal error, "unset signal", does not occur where its *)
(* callers have not just noted the disposition themselves: comexec() calls *)
(* it for SIGINT, whose original disposition is always known.              *)
THEOREM IntAlwaysNoted == Spec => []IntNoted
<1>1. Init => IInv
  BY InitLemma
<1>2. IInv => IntNoted
  BY DEF IInv
<1> QED
  BY <1>1, <1>2, StepLemma, PTL DEF Spec

-----------------------------------------------------------------------------
(***************************************************************************)
(* Dispositions.  That the kernel does what `trap' lists is not inductive: *)
(* what exec() restores (t.exec) and what print -p undoes (restore_dfl)    *)
(* must be known too, and what the entry is when SIGPIPE is not ignored for*)
(* a moment.                                                               *)
(***************************************************************************)
(* Those of which the shell notes the original disposition at once.        *)
Caught == ShellUses \union Interrupting \union Fatal

(* What a signal s that was not ignored when the first shell began is set  *)
(* to, and what exec() will make of it: t.exec.                            *)
Does(s, t, as) ==
    \/ t.trap = "command" /\ t.act = "trapsig" /\ t.exec = "current"
    \/ t.trap = "ignore" /\ t.act = "ign" /\ t.exec \in {"current", "ign"}
    \/ t.trap = "none" /\ s \in Fatal /\ t.act = "trapsig" /\ t.exec # "ign"
    \/ /\ t.trap = "none" /\ s \in Interrupting
       /\ \/ t.act = "trapsig" /\ t.exec # "ign" /\ (as => t.user)
          \/ as /\ t.act = "ign" /\ t.exec = "ign"
    \/ t.trap = "none" /\ s \notin Caught /\ t.act = "dfl" /\ t.exec = "current"

(* The entry t of any signal s; as: the shell is an asynchronous child.    *)
Right(s, t, as) ==
    /\ t.orig \in {"unknown", IF s \in inherited THEN "ign" ELSE "dfl"}
    /\ t.orig = "unknown" =>
          s \notin Caught /\ ~t.user /\ t.exec = "current"
    /\ ~t.user => t.trap = "none"
    /\ s \in ShellUses =>
          t.act = "trapsig" /\ t.exec = IF t.trap = "ignore" THEN "ign" ELSE "dfl"
    /\ t.orig # "unknown" /\ s \in inherited /\ (~interactive \/ ~t.user) =>
          t.act = "ign" /\ t.exec \in {"current", "ign"}
    /\ t.orig # "unknown" /\ s \notin inherited \union ShellUses => Does(s, t, as)

(* print -p has SIGPIPE ignored for a moment.                              *)
Proper(s) == IF s = "PIPE" /\ pc = "print" /\ restore_dfl
             THEN [sigtraps[s] EXCEPT !.act = "dfl"] ELSE sigtraps[s]
Blocked ==
    pc = "print" =>
       /\ sigtraps["PIPE"].orig # "unknown"
       /\ restore_dfl => sigtraps["PIPE"].act = IF "PIPE" \in inherited THEN "dfl" ELSE "ign"
       /\ ~restore_dfl => sigtraps["PIPE"].act # "dfl"
Shells == /\ inherited \subseteq {"INT", "USR", "PIPE"} /\ (talking => interactive)
          /\ talking \in BOOLEAN /\ interactive \in BOOLEAN /\ async \in BOOLEAN
Dispositions ==
    /\ Shells
    /\ Alive => ~last /\ Blocked /\ \A s \in Signal : Right(s, Proper(s), async)

LEMMA Kinds ==
    /\ \A s \in Signal : /\ s \in Interrupting <=> s = "INT"
                         /\ s \in Fatal <=> s = "HUP"
                         /\ s \in ShellUses <=> s = "CHLD"
                         /\ s \in Caught <=> s \in {"HUP", "INT", "CHLD"}
    /\ "INT" \in Signal /\ "PIPE" \in Signal
  BY DEF Signal, Interrupting, Fatal, ShellUses, Caught

(* setsig(), field by field.                                               *)
Origin(s, t) == IF t.orig # "unknown" THEN t.orig
                ELSE IF s \in inherited THEN "ign" ELSE "dfl"

LEMMA NotedFields ==
    ASSUME NEW s \in Signal, NEW t \in Trap
    PROVE  LET n == Noted(s, t)
           IN  /\ n \in Trap /\ n.trap = t.trap /\ n.user = t.user
               /\ n.orig = Origin(s, t) /\ n.orig \in {"ign", "dfl"}
               /\ n.act = IF t.orig = "unknown" THEN "ign" ELSE t.act
               /\ n.exec = t.exec
<1> DEFINE o == IF s \in inherited THEN "ign" ELSE "dfl"
           n == Noted(s, t)
<1>1. o \in {"ign", "dfl"}
  OBVIOUS
<1>2. n = IF t.orig = "unknown" THEN [t EXCEPT !.orig = o, !.act = "ign"] ELSE t
  BY DEF Noted
<1>3. Origin(s, t) = IF t.orig # "unknown" THEN t.orig ELSE o
  BY DEF Origin
<1> HIDE DEF o, n
<1>4. /\ n \in Trap /\ n.trap = t.trap /\ n.user = t.user
      /\ n.orig = Origin(s, t) /\ n.orig \in {"ign", "dfl"}
      /\ n.act = IF t.orig = "unknown" THEN "ign" ELSE t.act
      /\ n.exec = t.exec
  BY <1>1, <1>2, <1>3 DEF Trap
<1> QED
  BY <1>4 DEF n

(* setsig() where nothing forbids it, field by field.                      *)
Taken(s, t, act, restore) == [Setexecsig(Noted(s, t), restore) EXCEPT !.act = act]

LEMMA SetFields ==
    ASSUME NEW s \in Signal, NEW t \in Trap, NEW act \in {"ign", "dfl", "trapsig"},
           NEW restore \in {"orig", "curr", "ign", "dfl"},
           NEW v, v = Taken(s, t, act, restore)
    PROVE  /\ v \in Trap /\ v.trap = t.trap /\ v.user = t.user
           /\ v.orig = Origin(s, t) /\ v.act = act
           /\ restore = "orig" => v.exec = Origin(s, t)
           /\ restore = "curr" => v.exec = "current"
           /\ restore \in {"ign", "dfl"} => v.exec = restore
<1> DEFINE n == Noted(s, t)
           x == CASE restore = "orig" -> n.orig
                  [] restore = "curr" -> "current"
                  [] OTHER -> restore
           m == [n EXCEPT !.exec = x]
           w == [m EXCEPT !.act = act]
<1>1. /\ n \in Trap /\ n.trap = t.trap /\ n.user = t.user
      /\ n.orig = Origin(s, t) /\ n.orig \in {"ign", "dfl"}
  BY NotedFields
<1>2. v = w
  BY DEF Setexecsig, Taken
<1> HIDE DEF n
<1>3. x \in {"current", "ign", "dfl"}
  BY <1>1
<1>4. /\ restore = "orig" => x = Origin(s, t)
      /\ restore = "curr" => x = "current"
      /\ restore \in {"ign", "dfl"} => x = restore
  BY <1>1
<1> HIDE DEF x
<1>5. /\ w \in Trap /\ w.trap = n.trap /\ w.user = n.user
      /\ w.exec = x /\ w.orig = n.orig /\ w.act = act
  BY <1>1, <1>3 DEF Trap
<1> HIDE DEF w
<1> QED
  BY <1>1, <1>2, <1>4, <1>5

(* settrap(): the kernel does what the trap says.                          *)
LEMMA SettrapRight ==
    ASSUME NEW s \in Signal, NEW t \in Trap, NEW text \in TrapText, NEW as,
           NEW talk \in BOOLEAN, talk => interactive, Shells, Right(s, t, as)
    PROVE  Right(s, Settrap(s, t, text, talk), as)
<1> DEFINE u == [t EXCEPT !.trap = text, !.user = TRUE]
           wanted == CASE text = "command" -> "trapsig"
                       [] text = "ignore" -> "ign"
                       [] OTHER -> IF AlwaysCaught(s) THEN "trapsig" ELSE "dfl"
           v == Setsig(s, u, wanted, "curr", FALSE, talk)
           e == IF wanted = "ign" THEN "ign" ELSE "dfl"
           c == [u EXCEPT !.exec = e]
<1>1. /\ u \in Trap /\ u.trap = text /\ u.user = TRUE /\ u.orig = t.orig
      /\ u.act = t.act /\ u.exec = t.exec
  BY DEF Trap
<1>2. /\ wanted \in {"ign", "dfl", "trapsig"} /\ text \in {"none", "ignore", "command"}
      /\ text = "command" => wanted = "trapsig"
      /\ text = "ignore" => wanted = "ign"
      /\ text = "none" => wanted = IF s \in {"INT", "HUP"} THEN "trapsig" ELSE "dfl"
  BY Kinds DEF TrapText, AlwaysCaught
<1>3. Settrap(s, t, text, talk) = IF s \notin ShellUses THEN v
                                  ELSE IF u.orig = "ign" /\ ~talk THEN u ELSE c
  BY DEF Settrap
<1>4. e \in {"ign", "dfl"}
  OBVIOUS
<1>10. e = IF text = "ignore" THEN "ign" ELSE "dfl"
  BY <1>2
<1> HIDE DEF u, wanted
<1>5. /\ v.trap = text /\ v.user = TRUE /\ v.orig = Origin(s, t)
      /\ v.act = IF v.orig = "ign" /\ ~talk
                 THEN IF t.orig = "unknown" THEN "ign" ELSE t.act ELSE wanted
      /\ v.exec = IF v.orig = "ign" /\ ~talk THEN t.exec ELSE "current"
  <2> DEFINE n == Noted(s, u)
             w == [Setexecsig(Noted(s, u), "curr") EXCEPT !.act = wanted]
  <2>1. v = IF n.orig = "ign" /\ ~talk THEN n ELSE w
    BY DEF Setsig
  <2>2. /\ n.trap = u.trap /\ n.user = u.user /\ n.orig = Origin(s, u)
        /\ n.act = IF u.orig = "unknown" THEN "ign" ELSE u.act
        /\ n.exec = u.exec
    BY <1>1, NotedFields
  <2>3. /\ w.trap = u.trap /\ w.user = u.user
        /\ w.orig = Origin(s, u) /\ w.act = wanted /\ w.exec = "current"
    <3>1. w = Taken(s, u, wanted, "curr")
      BY DEF Taken
    <3> HIDE DEF w
    <3> QED
      BY <1>1, <1>2, <3>1, SetFields
  <2>4. Origin(s, u) = Origin(s, t)
    BY <1>1 DEF Origin
  <2> HIDE DEF n, w, v
  <2> QED
    BY <1>1, <2>1, <2>2, <2>3, <2>4
<1>6. /\ c.trap = text /\ c.user = TRUE /\ c.orig = t.orig /\ c.act = t.act
      /\ c.exec = e
  <2> HIDE DEF e
  <2> QED
    BY <1>1, <1>4 DEF Trap
<1> HIDE DEF v, c
<1>7. CASE s \in ShellUses
  <2>1. s \notin inherited /\ u.orig # "ign" /\ s \in Caught
    BY <1>1, <1>7, Kinds DEF Shells, Right
  <2>2. Settrap(s, t, text, talk) = c
    BY <1>3, <1>7, <2>1
  <2> QED
    BY <1>6, <1>7, <1>10, <2>1, <2>2 DEF Right
<1>8. CASE s \notin ShellUses
  <2>1. Settrap(s, t, text, talk) = v
    BY <1>3, <1>8
  <2>2. t.orig \in {"unknown", IF s \in inherited THEN "ign" ELSE "dfl"}
        /\ v.orig = (IF s \in inherited THEN "ign" ELSE "dfl")
    BY <1>5 DEF Right, Origin
  <2>3. CASE s \in inherited
    <3>1. ~interactive => v.act = "ign" /\ v.exec \in {"current", "ign"}
      BY <1>5, <2>2, <2>3 DEF Right
    <3> QED
      BY <1>5, <1>8, <2>1, <2>2, <2>3, <3>1 DEF Right
  <2>4. CASE s \notin inherited
    <3>1. v.act = wanted /\ v.exec = "current"
      BY <1>5, <2>2, <2>4
    <3>2. Does(s, v, as)
      BY <1>2, <1>5, <1>8, <3>1, Kinds DEF Does
    <3> QED
      BY <1>5, <1>8, <2>1, <2>2, <2>4, <3>2 DEF Right
  <2> QED
    BY <2>3, <2>4
<1> QED
  BY <1>7, <1>8

(* cleartraps(); a signal of which exchild() has made nothing goes on as it*)
(* was, whether or not the child is asynchronous.                          *)
LEMMA SetFlagRight ==
    ASSUME NEW s \in Signal, NEW t \in Trap, NEW b \in BOOLEAN, NEW as, Right(s, t, as)
    PROVE  Right(s, [t EXCEPT !.set = b], as)
<1> DEFINE c == [t EXCEPT !.set = b]
<1>1. /\ c.trap = t.trap /\ c.user = t.user /\ c.orig = t.orig /\ c.act = t.act
      /\ c.exec = t.exec
  BY DEF Trap
<1> HIDE DEF c
<1> QED
  BY <1>1 DEF Right, Does, c

LEMMA ClearedRight ==
    ASSUME NEW s \in Signal, NEW t \in Trap, NEW as, Shells, Right(s, t, as)
    PROVE  Right(s, Cleared(s, t), as)
<1> DEFINE c == [t EXCEPT !.set = FALSE]
<1>1. c \in Trap /\ Right(s, c, as)
  BY SetFlagRight DEF Trap
<1>2. Cleared(s, t) = IF c.user /\ c.trap = "command"
                      THEN Settrap(s, c, "none", FALSE) ELSE c
  BY DEF Cleared
<1> HIDE DEF c
<1>3. "none" \in TrapText /\ FALSE \in BOOLEAN /\ (FALSE => interactive)
  BY DEF TrapText
<1> QED
  BY <1>1, <1>2, <1>3, SettrapRight

LEMMA OtherRight ==
    ASSUME NEW s \in Signal, s # "INT", NEW t \in Trap, NEW as, NEW now, Right(s, t, as)
    PROVE  Right(s, t, now)
  BY Kinds DEF Right, Does

(* exchild(): an asynchronous child ignores SIGINT, and what it executes   *)
(* will, unless the script has a trap for it, which is cleared.            *)
LEMMA QuietRight ==
    ASSUME NEW t \in Trap, t.orig # "unknown", Shells, Right("INT", t, async)
    PROVE  LET q == Setsig("INT", t, "ign", "ign", TRUE, FALSE)
           IN  q \in Trap /\ Right("INT", Cleared("INT", q), TRUE)
<1> DEFINE q == Setsig("INT", t, "ign", "ign", TRUE, FALSE)
           c == [q EXCEPT !.set = FALSE]
<1>1. /\ q \in Trap /\ q.trap = t.trap /\ q.user = t.user /\ q.orig = t.orig
      /\ q.act = "ign" /\ q.exec = "ign"
  <2> DEFINE w == [Setexecsig(Noted("INT", t), "ign") EXCEPT !.act = "ign"]
  <2>1. q = w
    BY DEF Setsig
  <2>2. /\ w \in Trap /\ w.trap = t.trap /\ w.user = t.user
        /\ w.orig = Origin("INT", t) /\ w.act = "ign" /\ w.exec = "ign"
    <3>1. w = Taken("INT", t, "ign", "ign")
      BY DEF Taken
    <3> HIDE DEF w
    <3> QED
      BY <3>1, Kinds, SetFields
  <2> HIDE DEF w
  <2> QED
    BY <2>1, <2>2 DEF Origin
<1> HIDE DEF q
<1>2. /\ c \in Trap /\ c.trap = t.trap /\ c.user = t.user /\ c.orig = t.orig
      /\ c.act = "ign" /\ c.exec = "ign"
  BY <1>1 DEF Trap
<1>3. Cleared("INT", q) = IF c.user /\ c.trap = "command"
                          THEN Settrap("INT", c, "none", FALSE) ELSE c
  BY DEF Cleared
<1> HIDE DEF c
<1>4. t.trap \in {"none", "ignore", "command"}
  BY DEF Trap, TrapText
<1>5. CASE ~(c.user /\ c.trap = "command")
  <2>1. t.trap \in {"none", "ignore"}
    BY <1>2, <1>4, <1>5 DEF Right
  <2> QED
    BY <1>1, <1>2, <1>3, <1>5, <2>1, Kinds DEF Right, Does, q
<1>6. CASE c.user /\ c.trap = "command"
  <2> DEFINE u == [c EXCEPT !.trap = "none", !.user = TRUE]
             v == Setsig("INT", u, "trapsig", "curr", FALSE, FALSE)
  <2>1. u \in Trap /\ u.trap = "none" /\ u.user = TRUE /\ u.orig = c.orig
        /\ u.act = "ign" /\ u.exec = "ign"
    BY <1>2 DEF Trap, TrapText
  <2>2. Settrap("INT", c, "none", FALSE) = v
    BY Kinds DEF Settrap, AlwaysCaught
  <2> HIDE DEF u
  <2>3. /\ v.trap = "none" /\ v.user = TRUE /\ v.orig = c.orig
        /\ v.act = IF v.orig = "ign" THEN "ign" ELSE "trapsig"
        /\ v.exec = IF v.orig = "ign" THEN "ign" ELSE "current"
    <3> DEFINE n == Noted("INT", u)
               w == [Setexecsig(Noted("INT", u), "curr") EXCEPT !.act = "trapsig"]
    <3>1. v = IF n.orig = "ign" THEN n ELSE w
      BY DEF Setsig
    <3>2. u.orig # "unknown" /\ Origin("INT", u) = c.orig
      BY <1>2, <2>1 DEF Origin
    <3>3. /\ n.trap = u.trap /\ n.user = u.user /\ n.orig = Origin("INT", u)
          /\ n.act = IF u.orig = "unknown" THEN "ign" ELSE u.act
          /\ n.exec = u.exec
      BY <2>1, Kinds, NotedFields
    <3>4. /\ w.trap = u.trap /\ w.user = u.user /\ w.orig = Origin("INT", u)
          /\ w.act = "trapsig" /\ w.exec = "current"
      <4>1. w = Taken("INT", u, "trapsig", "curr")
        BY DEF Taken
      <4> HIDE DEF w
      <4> QED
        BY <2>1, <4>1, Kinds, SetFields
    <3> HIDE DEF n, w, v
    <3> QED
      BY <2>1, <3>1, <3>2, <3>3, <3>4
  <2> HIDE DEF v
  <2>4. Cleared("INT", q) = v
    BY <1>3, <1>6, <2>2
  <2>5. /\ c.orig \in {IF "INT" \in inherited THEN "ign" ELSE "dfl"}
        /\ c.orig # "unknown"
    BY <1>2 DEF Right
  <2>6. Right("INT", v, TRUE)
    BY <2>3, <2>5, Kinds DEF Right, Does
  <2> QED
    BY <1>1, <2>4, <2>6 DEF q
<1> QED
  BY <1>5, <1>6 DEF q

(* Whether the signal came is nothing to what is done about it.            *)
Same(t, u) == /\ u.trap = t.trap /\ u.user = t.user /\ u.orig = t.orig
              /\ u.act = t.act /\ u.exec = t.exec

LEMMA SameRight ==
    ASSUME NEW s, NEW t, NEW u, NEW as, Same(t, u), Right(s, t, as)
    PROVE  Right(s, u, as)
  BY DEF Same, Right, Does

(* The dispositions after a step, from what they are then made of.         *)
LEMMA NextRight ==
    ASSUME NEW s \in Signal, NEW u, NEW now, Right(s, u, now),
           inherited' = inherited, interactive' = interactive,
           async' = now, Same(u, Proper(s)')
    PROVE  Right(s, Proper(s), async)'
<1> DEFINE v == Proper(s)'
<1>1. Right(s, v, now)
  BY SameRight
<1>2. v = Proper(s)'
  OBVIOUS
<1> HIDE DEF v
<1> QED
  BY <1>1, <1>2 DEF Right, Does

LEMMA KeepLemma ==
    ASSUME IInv, Dispositions, Alive,
           \A s \in Signal : Same(sigtraps[s], sigtraps'[s]),
           UNCHANGED <<restore_dfl, modes>>,
           pc' = pc \/ (pc # "print" /\ pc' # "print")
    PROVE  Dispositions'
<1>1. Shells' /\ ~last'
  BY DEF Dispositions, Shells, modes
<1>2. "PIPE" \in Signal
  BY Kinds
<1>3. Blocked'
  BY <1>2 DEF Dispositions, Blocked, Same, modes
<1>4. ASSUME NEW s \in Signal
      PROVE  Right(s, Proper(s), async)'
  <2>1. Right(s, Proper(s), async)
    BY DEF Dispositions
  <2>2. sigtraps[s] \in Trap /\ (sigtraps' \in [Signal -> Trap] => sigtraps'[s] \in Trap)
    BY DEF IInv, TypeInv
  <2>3. Same(Proper(s), Proper(s)')
    BY <2>2 DEF Proper, Same, Trap
  <2> QED
    BY <2>1, <2>3, NextRight DEF modes
<1> QED
  BY <1>1, <1>3, <1>4 DEF Dispositions

(* inittraps(), j_init().                                                  *)
LEMMA InitRight == ASSUME Init PROVE Dispositions
<1>1. /\ inherited \subseteq {"INT", "USR", "PIPE"} /\ async = FALSE /\ ~last
      /\ pc = "ready" /\ interactive \in BOOLEAN /\ talking = interactive
  BY DEF Init
<1>2. /\ Unset \in Trap /\ Unset.trap = "none" /\ Unset.user = FALSE
      /\ Unset.orig = "unknown" /\ Unset.exec = "current" /\ Unset.act = "dfl"
  BY DEF Unset, Trap, TrapText
<1>3. ASSUME NEW s \in Signal PROVE Right(s, sigtraps[s], FALSE)
  <2> DEFINE n == Noted(s, Unset)
             w == Taken(s, Unset, "trapsig", "orig")
             v == sigtraps[s]
  <2> SUFFICES Right(s, v, FALSE)
    OBVIOUS
  <2>1. v = IF s \in Caught
            THEN IF n.orig = "ign" /\ s \notin ShellUses THEN n ELSE w
            ELSE Unset
    BY DEF Init, Setsig, Caught, Taken
  <2>2. /\ n.trap = "none" /\ n.user = FALSE /\ n.orig = Origin(s, Unset)
        /\ n.act = "ign" /\ n.exec = "current"
    BY <1>2, NotedFields
  <2>3. /\ w.trap = "none" /\ w.user = FALSE /\ w.orig = Origin(s, Unset)
        /\ w.act = "trapsig" /\ w.exec = Origin(s, Unset)
    <3> HIDE DEF w
    <3>1. w = Taken(s, Unset, "trapsig", "orig")
      BY DEF w
    <3> QED
      BY <1>2, <3>1, SetFields
  <2>4. Origin(s, Unset) = IF s \in inherited THEN "ign" ELSE "dfl"
    BY <1>2 DEF Origin
  <2>5. s \in {"HUP", "INT", "CHLD", "USR", "PIPE"}
    BY DEF Signal
  <2>6. s \in inherited => s \notin {"HUP", "CHLD"}
    BY <1>1
  <2> HIDE DEF n, w
  <2>7. CASE s \notin Caught
    <3>1. v = Unset
      BY <2>1, <2>7
    <3> HIDE DEF v
    <3> QED
      BY <1>2, <2>7, <3>1, Kinds DEF Right
  <2>8. CASE s \in Caught /\ s \in inherited
    <3>1. v = n
      BY <2>1, <2>2, <2>4, <2>6, <2>8, Kinds
    <3> HIDE DEF v
    <3> QED
      BY <2>2, <2>4, <2>6, <2>8, <3>1, Kinds DEF Right
  <2>9. CASE s \in Caught /\ s \notin inherited
    <3>1. v = w
      BY <2>1, <2>2, <2>4, <2>9
    <3> HIDE DEF v
    <3>2. s \notin ShellUses => Does(s, v, FALSE)
      BY <2>3, <2>4, <2>9, <3>1, Kinds DEF Does
    <3> QED
      BY <2>3, <2>4, <2>9, <3>1, <3>2, Kinds DEF Right
  <2> QED
    BY <2>7, <2>8, <2>9
<1>4. \A s \in Signal : Proper(s) = sigtraps[s]
  BY <1>1 DEF Proper
<1> QED
  BY <1>1, <1>3, <1>4 DEF Dispositions, Shells, Blocked

(* `trap', by which nothing but the entry of its signal changes.           *)
LEMMA C_trapRight == ASSUME IInv, Dispositions, C_trap PROVE Dispositions'
<1>1. PICK s \in Signal, text \in TrapText :
        sigtraps' = [sigtraps EXCEPT ![s] = Settrap(s, @, text, talking)]
  BY DEF C_trap
<1>2. /\ sigtraps \in [Signal -> Trap] /\ pc \in {"ready", "command"} /\ pc' = pc
      /\ UNCHANGED modes
  BY DEF C_trap, IInv, TypeInv
<1>3. Shells' /\ ~last' /\ Blocked'
  BY <1>2 DEF Dispositions, Shells, Blocked, modes, Alive
<1>4. ASSUME NEW q \in Signal PROVE Right(q, sigtraps'[q], async)
  <2>1. Right(q, sigtraps[q], async)
    BY <1>2 DEF Dispositions, Alive, Proper
  <2>2. CASE q # s
    BY <1>1, <1>2, <2>1, <2>2
  <2>3. CASE q = s
    <3>1. Right(s, Settrap(s, sigtraps[s], text, talking), async)
      BY <1>2, <2>1, <2>3, SettrapRight DEF Dispositions, Shells
    <3> QED
      BY <1>1, <1>2, <2>3, <3>1
  <2> QED
    BY <2>2, <2>3
<1>5. ASSUME NEW q \in Signal PROVE Right(q, Proper(q), async)'
  <2>1. Proper(q)' = sigtraps'[q]
    BY <1>2 DEF Proper
  <2>2. Same(sigtraps'[q], Proper(q)')
    BY <2>1 DEF Same
  <2> QED
    BY <1>2, <1>4, <2>2, NextRight DEF modes
<1> QED
  BY <1>3, <1>5 DEF Dispositions

(* runtrap() touches only the flag of its signal.                          *)
LEMMA RuntrapSame ==
    ASSUME IInv, NEW s, NEW rest, Runtrap(s, rest)
    PROVE  /\ \A q \in Signal : Same(sigtraps[q], sigtraps'[q])
           /\ pc' = pc \/ pc' \in {"command", "gone", "ready"}
<1>1. \A q \in Signal : sigtraps[q] \in Trap
  BY DEF IInv, TypeInv
<1>2. sigtraps' = [sigtraps EXCEPT ![s].set = FALSE]
  BY DEF Runtrap
<1>3. ASSUME NEW q \in Signal PROVE Same(sigtraps[q], sigtraps'[q])
  <2>1. sigtraps'[q] = IF q = s THEN [sigtraps[q] EXCEPT !.set = FALSE] ELSE sigtraps[q]
    BY <1>2 DEF IInv, TypeInv
  <2> QED
    BY <1>1, <2>1 DEF Same, Trap
<1> QED
  BY <1>3 DEF Runtrap, UnwindIntr, Unwind

LEMMA ArrivesRight == ASSUME IInv, Dispositions, Arrives PROVE Dispositions'
<1>1. /\ Alive /\ UNCHANGED <<restore_dfl, modes>>
  BY DEF Arrives
<1>2. PICK s \in Signal :
        \/ Trapsig(s) /\ UNCHANGED <<stack, pc>>
        \/ pc' = "gone" /\ UNCHANGED sigtraps
  BY DEF Arrives
<1>3. CASE Trapsig(s) /\ UNCHANGED <<stack, pc>>
  <2>1. ASSUME NEW q \in Signal PROVE Same(sigtraps[q], sigtraps'[q])
    <3>1. sigtraps'[q] = IF q = s THEN [sigtraps[q] EXCEPT !.set = TRUE] ELSE sigtraps[q]
      BY <1>3 DEF Trapsig, IInv, TypeInv
    <3>2. sigtraps[q] \in Trap
      BY DEF IInv, TypeInv
    <3> QED
      BY <3>1, <3>2 DEF Same, Trap
  <2> QED
    BY <1>1, <1>3, <2>1, KeepLemma
<1>4. CASE pc' = "gone" /\ UNCHANGED sigtraps
  BY <1>1, <1>4 DEF Dispositions, Shells, Alive, modes
<1> QED
  BY <1>2, <1>3, <1>4

LEMMA RuntrapsRight ==
    ASSUME IInv, Dispositions,
           \/ RuntrapsStarts \/ RuntrapsNext \/ RuntrapsReturns \/ CommandEnds
           \/ Interrupted \/ PrintAborts
    PROVE  Dispositions'
<1>1. /\ Alive /\ pc # "print" /\ UNCHANGED <<restore_dfl, modes>>
  BY DEF RuntrapsStarts, RuntrapsNext, RuntrapsReturns, CommandEnds, Interrupted,
         PrintAborts, Intrcheck, Alive
<1>2. /\ \A q \in Signal : Same(sigtraps[q], sigtraps'[q])
      /\ pc' # "print"
  <2>1. CASE RuntrapsStarts \/ RuntrapsReturns \/ CommandEnds
    BY <2>1 DEF RuntrapsStarts, RuntrapsReturns, CommandEnds, Unwind, Same
  <2>2. CASE RuntrapsNext \/ Interrupted \/ PrintAborts
    <3>1. PICK s, rest : Runtrap(s, rest)
      BY <2>2 DEF RuntrapsNext, Interrupted, PrintAborts, Intrcheck
    <3> QED
      BY <1>1, <3>1, RuntrapSame
  <2> QED
    BY <2>1, <2>2
<1> QED
  BY <1>1, <1>2, KeepLemma

(* block_pipe(): what it undoes later is the default.                      *)
LEMMA BlockpipeRight ==
    ASSUME IInv, Dispositions, PrintStarts
    PROVE  Blocked' /\ Right("PIPE", Proper("PIPE"), async)'
<1> DEFINE t == sigtraps["PIPE"]
           b == Setsig("PIPE", t, "ign", "curr", FALSE, FALSE)
           n == Noted("PIPE", t)
           w == Taken("PIPE", t, "ign", "curr")
<1>1. /\ "PIPE" \in Signal /\ t \in Trap /\ sigtraps \in [Signal -> Trap]
      /\ pc' = "print" /\ UNCHANGED modes /\ Blockpipe
      /\ "PIPE" \notin Caught /\ "PIPE" \notin ShellUses
  BY Kinds DEF IInv, TypeInv, PrintStarts
<1>2. Right("PIPE", t, async)
  BY <1>1 DEF Dispositions, Proper, PrintStarts, Alive
<1>3. /\ n \in Trap /\ n.trap = t.trap /\ n.user = t.user /\ n.orig = Origin("PIPE", t)
      /\ n.act = IF t.orig = "unknown" THEN "ign" ELSE t.act
      /\ n.exec = t.exec
  BY <1>1, NotedFields
<1>4. /\ w \in Trap /\ w.trap = t.trap /\ w.user = t.user /\ w.orig = Origin("PIPE", t)
      /\ w.act = "ign" /\ w.exec = "current"
  <2> HIDE DEF w
  <2>1. w = Taken("PIPE", t, "ign", "curr")
    BY DEF w
  <2> QED
    BY <1>1, <2>1, SetFields
<1>5. b = IF n.orig = "ign" THEN n ELSE w
  BY DEF Setsig, Taken
<1>6. Origin("PIPE", t) = IF "PIPE" \in inherited THEN "ign" ELSE "dfl"
  BY <1>2 DEF Origin, Right
<1>7. t.act \in {"ign", "dfl", "trapsig"} /\ restore_dfl' \in BOOLEAN
  BY <1>1 DEF Trap, Blockpipe
<1> DEFINE now == sigtraps'["PIPE"]
           p == Proper("PIPE")'
<1>8. \/ /\ t.orig = "unknown" \/ t.act = "dfl"
         /\ now = b /\ restore_dfl' = (t.orig # "unknown" \/ b.orig = "dfl")
      \/ /\ t.orig # "unknown" /\ t.act # "dfl"
         /\ now = t /\ restore_dfl' = FALSE
  BY <1>1 DEF Blockpipe, NeedsBlocking
<1> HIDE DEF b, n, w, t
<1>9. now \in Trap
  BY <1>1, <1>3, <1>4, <1>5, <1>8
<1>10. now.orig # "unknown" /\ (restore_dfl' => now.act = IF "PIPE" \in inherited THEN "dfl" ELSE "ign")
       /\ (~restore_dfl' => now.act # "dfl")
  <2>1. CASE "PIPE" \in inherited
    BY <1>2, <1>3, <1>5, <1>6, <1>8, <2>1 DEF Right
  <2>2. CASE "PIPE" \notin inherited
    BY <1>2, <1>4, <1>3, <1>5, <1>6, <1>8, <2>2 DEF Right
  <2> QED
    BY <2>1, <2>2
<1>11. Blocked'
  BY <1>1, <1>10 DEF Blocked, modes
<1>12. /\ p.trap = now.trap /\ p.user = now.user /\ p.orig = now.orig
       /\ p.exec = now.exec /\ p.act = IF restore_dfl' THEN "dfl" ELSE now.act
  <2>1. p = IF restore_dfl' THEN [now EXCEPT !.act = "dfl"] ELSE now
    BY <1>1 DEF Proper
  <2> HIDE DEF p, now
  <2> QED
    BY <1>9, <2>1 DEF Trap
<1> HIDE DEF p, now
<1>13. Right("PIPE", p, async)
  <2>1. CASE "PIPE" \in inherited
    BY <1>1, <1>2, <1>3, <1>5, <1>6, <1>8, <1>12, <2>1 DEF Right
  <2>2. CASE "PIPE" \notin inherited
    <3>1. CASE t.orig = "unknown" \/ t.act = "dfl"
      <4>1. /\ now.trap = t.trap /\ now.user = t.user /\ now.orig = "dfl"
            /\ now.exec = "current" /\ restore_dfl' = TRUE
        BY <1>2, <1>3, <1>4, <1>5, <1>6, <1>8, <2>2, <3>1
      <4>2. t.trap = "none"
        BY <1>1, <1>2, <2>2, <3>1 DEF Right, Does
      <4>3. Does("PIPE", p, async)
        BY <1>1, <1>12, <4>1, <4>2 DEF Does
      <4> QED
        BY <1>1, <1>12, <2>2, <4>1, <4>2, <4>3 DEF Right
    <3>2. CASE t.orig # "unknown" /\ t.act # "dfl"
      <4>1. Same(t, p)
        BY <1>8, <1>12, <3>2 DEF Same
      <4> QED
        BY <1>2, <4>1, SameRight
    <3> QED
      BY <3>1, <3>2
  <2> QED
    BY <2>1, <2>2
<1>14. p = Proper("PIPE")' /\ Same(p, Proper("PIPE")')
  BY DEF p, Same
<1>15. Right("PIPE", Proper("PIPE"), async)'
  BY <1>1, <1>13, <1>14, NextRight DEF modes
<1> QED
  BY <1>11, <1>15

(* restore_pipe(): SIGPIPE is as it was before.                            *)
LEMMA RestorepipeSame ==
    ASSUME IInv, Dispositions, pc = "print"
    PROVE  Same(Proper("PIPE"), Restorepipe["PIPE"])
<1> DEFINE t == sigtraps["PIPE"]
           v == Setsig("PIPE", t, "dfl", "curr", FALSE, FALSE)
           n == Noted("PIPE", t)
           w == Taken("PIPE", t, "dfl", "curr")
           p == [t EXCEPT !.act = "dfl"]
<1>1. /\ "PIPE" \in Signal /\ t \in Trap /\ sigtraps \in [Signal -> Trap]
      /\ "PIPE" \notin Caught /\ "PIPE" \notin ShellUses
  BY Kinds DEF IInv, TypeInv
<1>2. Right("PIPE", Proper("PIPE"), async) /\ Blocked
  BY <1>1 DEF Dispositions, Alive
<1>3. CASE ~restore_dfl
  BY <1>3 DEF Proper, Restorepipe, Same
<1>4. CASE restore_dfl
  <2>1. Proper("PIPE") = p /\ Restorepipe["PIPE"] = v
    BY <1>1, <1>4 DEF Proper, Restorepipe
  <2>2. /\ p.trap = t.trap /\ p.user = t.user /\ p.orig = t.orig
        /\ p.exec = t.exec /\ p.act = "dfl"
    <3> HIDE DEF t
    <3> QED
      BY <1>1 DEF Trap
  <2>3. t.orig # "unknown" /\ t.act = IF "PIPE" \in inherited THEN "dfl" ELSE "ign"
    BY <1>2, <1>4 DEF Blocked
  <2>4. /\ n.trap = t.trap /\ n.user = t.user /\ n.orig = Origin("PIPE", t)
        /\ n.act = IF t.orig = "unknown" THEN "ign" ELSE t.act
        /\ n.exec = t.exec
    BY <1>1, NotedFields
  <2>5. /\ w.trap = t.trap /\ w.user = t.user /\ w.orig = Origin("PIPE", t)
        /\ w.act = "dfl" /\ w.exec = "current"
    <3> HIDE DEF w
    <3>1. w = Taken("PIPE", t, "dfl", "curr")
      BY DEF w
    <3> QED
      BY <1>1, <3>1, SetFields
  <2>6. v = IF n.orig = "ign" THEN n ELSE w
    BY DEF Setsig, Taken
  <2>7. Origin("PIPE", t) = t.orig
    BY <2>3 DEF Origin
  <2>8. Right("PIPE", p, async)
    BY <1>2, <2>1
  <2> HIDE DEF t, v, n, w, p
  <2>9. CASE "PIPE" \in inherited
    <3>1. t.orig = "ign"
      BY <2>2, <2>3, <2>8, <2>9 DEF Right
    <3>2. Same(p, v)
      BY <2>2, <2>3, <2>4, <2>6, <2>7, <2>9, <3>1 DEF Same
    <3> QED
      BY <2>1, <3>2
  <2>10. CASE "PIPE" \notin inherited
    <3>1. t.orig = "dfl" /\ p.exec = "current"
      BY <1>1, <2>2, <2>3, <2>8, <2>10 DEF Right, Does
    <3>2. Same(p, v)
      BY <2>2, <2>4, <2>5, <2>6, <2>7, <3>1 DEF Same
    <3> QED
      BY <2>1, <3>2
  <2> QED
    BY <2>9, <2>10
<1> QED
  BY <1>3, <1>4

LEMMA PrintRight ==
    ASSUME IInv, Dispositions, PrintStarts \/ PrintInterrupted \/ PrintReturns
    PROVE  Dispositions'
<1>1. /\ Alive /\ Alive' /\ UNCHANGED modes /\ "PIPE" \in Signal
      /\ sigtraps \in [Signal -> Trap]
  BY Kinds DEF PrintStarts, PrintInterrupted, PrintReturns, Alive, IInv, TypeInv
<1>2. Shells' /\ ~last'
  BY <1>1 DEF Dispositions, Shells, modes
<1>3. ASSUME NEW s \in Signal, s # "PIPE" PROVE Right(s, Proper(s), async)'
  <2>1. Right(s, sigtraps[s], async)
    BY <1>1, <1>3 DEF Dispositions, Proper
  <2>2. sigtraps'[s] = sigtraps[s]
    BY <1>1, <1>3 DEF PrintStarts, PrintInterrupted, PrintReturns, Blockpipe,
                      Restorepipe
  <2>3. Proper(s)' = sigtraps[s]
    BY <1>3, <2>2 DEF Proper
  <2>4. Same(sigtraps[s], Proper(s)')
    BY <2>3 DEF Same
  <2> QED
    BY <1>1, <2>1, <2>4, NextRight DEF modes
<1>4. Blocked' /\ Right("PIPE", Proper("PIPE"), async)'
  <2>1. CASE PrintStarts
    BY <2>1, BlockpipeRight
  <2>2. CASE PrintInterrupted \/ PrintReturns
    <3>1. /\ pc = "print" /\ pc' \in {"eintr", "ready"}
          /\ sigtraps' = Restorepipe
      BY <2>2 DEF PrintInterrupted, PrintReturns
    <3>2. Proper("PIPE")' = Restorepipe["PIPE"]
      BY <3>1 DEF Proper
    <3>3. Same(Proper("PIPE"), Proper("PIPE")')
      BY <3>1, <3>2, RestorepipeSame
    <3>4. Right("PIPE", Proper("PIPE"), async)
      BY <1>1 DEF Dispositions
    <3>5. Right("PIPE", Proper("PIPE"), async)'
      BY <1>1, <3>3, <3>4, NextRight DEF modes
    <3>6. Blocked'
      BY <3>1 DEF Blocked
    <3> QED
      BY <3>5, <3>6
  <2> QED
    BY <2>1, <2>2
<1> QED
  BY <1>2, <1>3, <1>4 DEF Dispositions

(* exchild(): the traps of a child.                                        *)
LEMMA ForkedRight ==
    ASSUME IInv, Dispositions, pc = "ready", NEW bg \in BOOLEAN, NEW s \in Signal,
           NEW now, now = (async \/ (bg /\ ~talking))
    PROVE  Forked(bg)[s] \in Trap /\ Right(s, Forked(bg)[s], now)
<1> DEFINE t == sigtraps[s]
           q == Setsig("INT", sigtraps["INT"], "ign", "ign", TRUE, FALSE)
<1>1. t \in Trap /\ Right(s, t, async) /\ Shells
      /\ sigtraps["INT"] \in Trap /\ sigtraps["INT"].orig # "unknown"
      /\ Right("INT", sigtraps["INT"], async)
  BY Kinds DEF IInv, TypeInv, IntNoted, Dispositions, Proper, Alive
<1>2. Forked(bg) \in [Signal -> Trap]
  BY ForkedForgets
<1>3. async \in BOOLEAN /\ talking \in BOOLEAN
  BY <1>1 DEF Shells
<1>4. CASE s = "INT" /\ bg /\ ~talking
  <2>1. Forked(bg)[s] = Cleared("INT", q)
    BY <1>4 DEF Forked, Quiet, Quietly
  <2>2. now = TRUE
    BY <1>3, <1>4
  <2>3. Right("INT", Cleared("INT", q), TRUE)
    BY <1>1, QuietRight
  <2> QED
    BY <1>2, <1>4, <2>1, <2>2, <2>3
<1>5. CASE ~(s = "INT" /\ bg /\ ~talking)
  <2>1. Forked(bg)[s] = Cleared(s, t)
    BY <1>5 DEF Forked
  <2>2. Right(s, Cleared(s, t), async)
    BY <1>1, ClearedRight
  <2>3. CASE s = "INT"
    <3>1. now = async
      BY <1>3, <1>5, <2>3
    <3> QED
      BY <1>2, <2>1, <2>2, <3>1
  <2>4. CASE s # "INT"
    <3>1. Right(s, Forked(bg)[s], async) /\ Forked(bg)[s] \in Trap
      BY <1>2, <2>1, <2>2
    <3> HIDE DEF t, q
    <3> QED
      BY <2>4, <3>1, OtherRight
  <2> QED
    BY <2>3, <2>4
<1> QED
  BY <1>4, <1>5

LEMMA ForkShellRight == ASSUME IInv, Dispositions, ForkShell PROVE Dispositions'
<1>1. PICK bg \in BOOLEAN : Child(bg) /\ sigtraps' = Forked(bg)
  BY DEF ForkShell
<1>2. /\ pc = "ready" /\ pc' = "ready" /\ talking' = FALSE
      /\ UNCHANGED <<interactive, last, inherited>>
      /\ async' = (async \/ (bg /\ ~talking))
  BY <1>1 DEF ForkShell, Child
<1>3. Shells' /\ ~last' /\ Blocked'
  BY <1>2 DEF Dispositions, Shells, Blocked, Alive
<1>4. ASSUME NEW s \in Signal PROVE Right(s, Proper(s), async)'
  <2>1. Right(s, sigtraps'[s], async')
    BY <1>1, <1>2, ForkedRight
  <2>2. Proper(s)' = sigtraps'[s]
    BY <1>2 DEF Proper
  <2>3. Same(sigtraps'[s], Proper(s)')
    BY <2>2 DEF Same
  <2> QED
    BY <1>2, <2>1, <2>3, NextRight
<1> QED
  BY <1>3, <1>4 DEF Dispositions

(* What an executed program finds for a signal whose entry is t.           *)
Found(s, t) ==
    LET d == IF t.orig # "unknown" THEN t.act
             ELSE IF s \in inherited THEN "ign" ELSE "dfl"
    IN  IF d = "trapsig" THEN "dfl" ELSE d

(* restoresigs(): it finds what `trap' says.                               *)
LEMMA RestoredFields ==
    ASSUME NEW s \in Signal, NEW t \in Trap
    PROVE  /\ Restored(s, t).trap = t.trap /\ Restored(s, t).user = t.user
           /\ t.exec = "current" => Restored(s, t) = t
           /\ t.exec # "current" => /\ Restored(s, t).act = t.exec
                                    /\ Restored(s, t).orig # "unknown"
<1> DEFINE w == Taken(s, t, t.exec, "curr")
<1>1. CASE t.exec = "current"
  BY <1>1 DEF Restored
<1>2. CASE t.exec # "current"
  <2>1. t.exec \in {"ign", "dfl"}
    BY <1>2 DEF Trap
  <2>2. Restored(s, t) = w
    BY <1>2 DEF Restored, Setsig, Taken
  <2>3. w.trap = t.trap /\ w.user = t.user /\ w.act = t.exec /\ w.orig = Origin(s, t)
    <3> HIDE DEF w
    <3>1. w = Taken(s, t, t.exec, "curr")
      BY DEF w
    <3> QED
      BY <2>1, <3>1, SetFields
  <2>4. Origin(s, t) # "unknown"
    BY DEF Origin
  <2> QED
    BY <1>2, <2>2, <2>3, <2>4
<1> QED
  BY <1>1, <1>2

LEMMA RestoredFound ==
    ASSUME NEW s \in Signal, NEW t \in Trap, NEW as \in BOOLEAN, Shells, Right(s, t, as),
           NEW r, r = Restored(s, t)
    PROVE  /\ r.trap = t.trap /\ r.user = t.user
           /\ ~(s \in inherited /\ interactive) /\ (as => s # "INT") =>
                 Found(s, r) = IF s \in inherited \/ t.trap = "ignore" THEN "ign" ELSE "dfl"
           /\ s = "INT" /\ as /\ ~t.user => Found(s, r) = "ign"
<1>1. /\ r.trap = t.trap /\ r.user = t.user
      /\ t.exec = "current" => r = t
      /\ t.exec # "current" => r.act = t.exec /\ r.orig # "unknown"
      /\ t.exec \in {"current", "ign", "dfl"} /\ t.act \in {"ign", "dfl", "trapsig"}
      /\ t.trap \in {"none", "ignore", "command"}
  BY RestoredFields DEF Trap, TrapText
<1> DEFINE d == IF t.exec # "current" THEN t.exec
                ELSE IF t.orig # "unknown" THEN t.act
                ELSE IF s \in inherited THEN "ign" ELSE "dfl"
<1>2. Found(s, r) = IF d = "trapsig" THEN "dfl" ELSE d
  BY <1>1 DEF Found
<1>3. interactive \in BOOLEAN /\ inherited \subseteq {"INT", "USR", "PIPE"}
  BY DEF Shells
<1>4. ASSUME s \in inherited, ~interactive \/ ~t.user
      PROVE  d = "ign"
  BY <1>1, <1>4 DEF Right
<1>5. ASSUME s \notin inherited, as => s # "INT"
      PROVE  Found(s, r) = IF t.trap = "ignore" THEN "ign" ELSE "dfl"
  <2>1. CASE t.orig = "unknown"
    BY <1>1, <1>2, <1>5, <2>1 DEF Right
  <2>2. CASE t.orig # "unknown" /\ s \in ShellUses
    BY <1>1, <1>2, <1>5, <2>2 DEF Right
  <2>3. CASE t.orig # "unknown" /\ s \notin ShellUses
    <3>1. Does(s, t, as)
      BY <1>5, <2>3 DEF Right
    <3> QED
      BY <1>1, <1>2, <1>5, <2>3, <3>1, Kinds DEF Does
  <2> QED
    BY <2>1, <2>2, <2>3
<1>6. ASSUME s = "INT", as, ~t.user, s \notin inherited
      PROVE  Found(s, r) = "ign"
  <2>1. Does(s, t, as) /\ t.trap = "none"
    BY <1>6, Kinds DEF Right
  <2> QED
    BY <1>1, <1>2, <1>6, <2>1, Kinds DEF Does
<1> HIDE DEF d
<1> QED
  BY <1>1, <1>2, <1>3, <1>4, <1>5, <1>6

LEMMA ExecRight ==
    ASSUME IInv, Dispositions, ForkCommand \/ ExecLast
    PROVE  Dispositions' /\ ExecDispositions'
<1>1. /\ pc = "ready" /\ pc' = "execed" /\ UNCHANGED <<interactive, inherited>>
      /\ Shells /\ ~last /\ Alive
      /\ async' = async /\ (talking' = talking \/ talking' = FALSE)
  BY DEF ForkCommand, ExecLast, Child, Dispositions, Alive, Shells
<1>2. Dispositions'
  <2>1. Shells'
    <3>1. CASE talking' = talking
      BY <1>1, <3>1 DEF Shells
    <3>2. CASE talking' = FALSE
      BY <1>1, <3>2 DEF Shells
    <3> QED
      BY <1>1, <3>1, <3>2
  <2>2. ~Alive'
    BY <1>1 DEF Alive
  <2> QED
    BY <2>1, <2>2 DEF Dispositions
<1>3. \A s \in Signal : ProgramGets(s)' = Found(s, sigtraps'[s])
  BY <1>1 DEF ProgramGets, Disposition, Found
<1>4. /\ sigtraps \in [Signal -> Trap] /\ async \in BOOLEAN
      /\ \A s \in Signal : Right(s, sigtraps[s], async)
      /\ "INT" \in Signal
  BY <1>1, Kinds DEF IInv, TypeInv, Dispositions, Proper, Shells
<1>5. ExecDispositions'
  <2>1. CASE ForkCommand
    <3>1. /\ last' = last /\ sigtraps' = [s \in Signal |-> Restored(s, Forked(FALSE)[s])]
      BY <2>1 DEF ForkCommand
    <3> DEFINE old == Forked(FALSE)
    <3>2. \A s \in Signal : old[s] \in Trap /\ Right(s, old[s], async)
      <4>1. FALSE \in BOOLEAN /\ async = (async \/ (FALSE /\ ~talking))
        BY <1>4
      <4> QED
        BY <1>1, <4>1, ForkedRight
    <3> HIDE DEF old
    <3>3. \A s \in Signal : sigtraps'[s] = Restored(s, old[s])
      BY <3>1 DEF old
    <3>4. ASSUME NEW s \in Signal
          PROVE  /\ sigtraps'[s].trap = old[s].trap /\ sigtraps'[s].user = old[s].user
                 /\ ~(s \in inherited /\ interactive) /\ (async => s # "INT") =>
                       Found(s, sigtraps'[s]) =
                          IF s \in inherited \/ old[s].trap = "ignore" THEN "ign" ELSE "dfl"
                 /\ s = "INT" /\ async /\ ~old[s].user => Found(s, sigtraps'[s]) = "ign"
      BY <1>1, <1>4, <3>2, <3>3, RestoredFound
    <3>5. ASSUME NEW s \in Signal \ ((IF interactive THEN inherited ELSE {})
                                     \union (IF async \/ last THEN {"INT"} ELSE {}))
          PROVE  ProgramGets(s)' = IF s \in inherited \/ sigtraps'[s].trap = "ignore"
                                   THEN "ign" ELSE "dfl"
      BY <1>3, <3>4, <3>5
    <3>6. async /\ ~sigtraps'["INT"].user => ProgramGets("INT")' = "ign"
      BY <1>3, <1>4, <3>4
    <3> QED
      BY <1>1, <3>1, <3>5, <3>6 DEF ExecDispositions, IgnoresInt
  <2>2. CASE ExecLast
    <3>1. /\ last' = TRUE
          /\ \A s \in Signal : s # "INT" => sigtraps'[s] = Restored(s, sigtraps[s])
      BY <2>2 DEF ExecLast
    <3>2. ASSUME NEW s \in Signal, s # "INT"
          PROVE  /\ sigtraps'[s].trap = sigtraps[s].trap
                 /\ ~(s \in inherited /\ interactive) =>
                       Found(s, sigtraps'[s]) =
                          IF s \in inherited \/ sigtraps[s].trap = "ignore"
                          THEN "ign" ELSE "dfl"
      BY <1>1, <1>4, <3>1, <3>2, RestoredFound
    <3> QED
      BY <1>1, <1>3, <1>4, <3>1, <3>2 DEF ExecDispositions
  <2> QED
    BY <2>1, <2>2
<1> QED
  BY <1>2, <1>5

LEMMA ForceLemma == ASSUME IInv, Dispositions PROVE TrapsInForce
<1>1. ASSUME pc = "print", "PIPE" \notin inherited PROVE Disposition("PIPE") # "dfl"
  BY <1>1 DEF Dispositions, Blocked, Disposition, Alive
<1>2. ASSUME pc \in {"ready", "loop", "command"},
             NEW s \in Signal \ (ShellUses \union IF interactive THEN inherited ELSE {})
      PROVE  Disposition(s) \in
                IF s \in inherited THEN {"ign"}
                ELSE IF sigtraps[s].trap = "command" THEN {"trapsig"}
                ELSE IF sigtraps[s].trap = "ignore" THEN {"ign"}
                ELSE IF s \in Fatal THEN {"trapsig"}
                ELSE IF s \in Interrupting
                THEN CASE ~async -> {"trapsig"}
                       [] async /\ ~sigtraps[s].user -> {"ign"}
                       [] OTHER -> {"ign", "trapsig"}
                ELSE {"dfl"}
  <2> DEFINE t == sigtraps[s]
  <2>1. /\ Right(s, t, async) /\ t.trap \in {"none", "ignore", "command"}
        /\ s \notin ShellUses /\ (s \in inherited => ~interactive)
        /\ async \in BOOLEAN /\ interactive \in BOOLEAN
    BY <1>2 DEF Dispositions, Shells, Proper, Alive, IInv, TypeInv, Trap, TrapText
  <2>2. Disposition(s) = IF t.orig # "unknown" THEN t.act
                         ELSE IF s \in inherited THEN "ign" ELSE "dfl"
    BY DEF Disposition
  <2> HIDE DEF t
  <2>3. CASE s \in inherited
    BY <2>1, <2>2, <2>3 DEF Right
  <2>4. CASE s \notin inherited /\ t.orig = "unknown"
    <3>1. t.trap = "none" /\ s \notin Fatal \union Interrupting
      BY <2>1, <2>4 DEF Right, Caught
    <3> QED
      BY <2>2, <2>4, <3>1 DEF t
  <2>5. CASE s \notin inherited /\ t.orig # "unknown"
    <3>1. Does(s, t, async) /\ Disposition(s) = t.act
      BY <2>1, <2>2, <2>5 DEF Right
    <3>2. (s \in Fatal => s \notin Interrupting) /\ (s \in Caught <=> s \in Fatal \union Interrupting)
      BY <2>1, Kinds DEF Caught
    <3> QED
      BY <2>1, <2>5, <3>1, <3>2 DEF Does, t
  <2> QED
    BY <2>3, <2>4, <2>5
<1> QED
  BY <1>1, <1>2 DEF TrapsInForce

LEMMA DispositionsStep ==
    IInv /\ Dispositions /\ ExecDispositions /\ [Next]_vars
        => Dispositions' /\ ExecDispositions'
<1> SUFFICES ASSUME IInv, Dispositions, ExecDispositions, [Next]_vars
             PROVE  Dispositions' /\ ExecDispositions'
  OBVIOUS
<1>1. CASE Arrives \/ C_trap \/ RuntrapsStarts \/ RuntrapsNext \/ RuntrapsReturns
           \/ CommandEnds \/ Interrupted \/ PrintAborts \/ ForkShell
           \/ PrintStarts \/ PrintInterrupted \/ PrintReturns
  <2>1. Dispositions'
    BY <1>1, ArrivesRight, C_trapRight, RuntrapsRight, ForkShellRight, PrintRight
  <2>2. pc' # "execed"
    <3>1. CASE RuntrapsNext \/ Interrupted \/ PrintAborts
      <4>1. PICK s, rest : Runtrap(s, rest)
        BY <3>1 DEF RuntrapsNext, Interrupted, PrintAborts, Intrcheck
      <4>2. pc # "execed"
        BY <3>1 DEF RuntrapsNext, Interrupted, PrintAborts
      <4> QED
        BY <4>1, <4>2, RuntrapSame
    <3> QED
      BY <1>1, <3>1 DEF Arrives, C_trap, RuntrapsStarts, RuntrapsReturns, CommandEnds,
           Unwind, ForkShell, Child, PrintStarts, PrintInterrupted, PrintReturns, Alive
  <2> QED
    BY <2>1, <2>2 DEF ExecDispositions
<1>2. CASE ForkCommand \/ ExecLast
  BY <1>2, ExecRight
<1>3. CASE Ended \/ UNCHANGED vars
  <2>1. UNCHANGED <<sigtraps, pc, restore_dfl, talking, interactive, async, last, inherited>>
    BY <1>3 DEF Ended, vars, modes
  <2>2. Dispositions'
    <3>1. \A s \in Signal : Same(Proper(s), Proper(s)')
      BY <2>1 DEF Proper, Same
    <3>2. Shells' /\ (Alive' => Alive /\ ~last' /\ Blocked')
      BY <2>1 DEF Dispositions, Shells, Alive, Blocked
    <3>3. Alive' => \A s \in Signal : Right(s, Proper(s), async)'
      BY <2>1, <3>1, <3>2, NextRight DEF Dispositions
    <3> QED
      BY <3>2, <3>3 DEF Dispositions
  <2>3. ExecDispositions'
    BY <2>1 DEF ExecDispositions, ProgramGets, Disposition, IgnoresInt
  <2> QED
    BY <2>2, <2>3
<1> QED
  BY <1>1, <1>2, <1>3 DEF Next

(* settrap(), setsig(), block_pipe(), restore_pipe(), exchild(): while the *)
(* shell runs, the kernel does what `trap' lists for every signal but those*)
(* an interactive shell found ignored, whatever came, was trapped, printed *)
(* or forked before.                                                       *)
THEOREM TrapsHold == Spec => []TrapsInForce
<1>1. Init => IInv /\ Dispositions /\ ExecDispositions
  BY InitLemma, InitRight DEF Init, ExecDispositions
<1>2. IInv /\ Dispositions => TrapsInForce
  BY ForceLemma
<1> QED
  BY <1>1, <1>2, StepLemma, DispositionsStep, PTL DEF Spec

(* restoresigs(), comexec(): an executed program ignores what the user said*)
(* or what was ignored from the beginning, and SIGINT if exchild() made it *)
(* an asynchronous command.                                                *)
THEOREM ExecutedRight == Spec => []ExecDispositions
<1>1. Init => IInv /\ Dispositions /\ ExecDispositions
  BY InitLemma, InitRight DEF Init, ExecDispositions
<1> QED
  BY <1>1, StepLemma, DispositionsStep, PTL DEF Spec

-----------------------------------------------------------------------------
(* Co-processes.                                                           *)
StateSet == [fds : [Fd -> What], coproc : CoprocRecord]
Field == {"read", "readw", "write"}

(* What closing the fields F makes of s.                                   *)
Shut(s, t, F) ==
    /\ t \in StateSet
    /\ t.coproc.njobs = s.coproc.njobs /\ t.coproc.id = s.coproc.id
    /\ t.coproc.job = s.coproc.job
    /\ t.coproc.read = IF "read" \in F THEN NoFd ELSE s.coproc.read
    /\ t.coproc.readw = IF "readw" \in F THEN NoFd ELSE s.coproc.readw
    /\ t.coproc.write = IF "write" \in F THEN NoFd ELSE s.coproc.write
    /\ \A fd \in Fd :
           t.fds[fd] = IF \/ "read" \in F /\ fd = s.coproc.read
                          \/ "readw" \in F /\ fd = s.coproc.readw
                          \/ "write" \in F /\ fd = s.coproc.write
                       THEN Closed ELSE s.fds[fd]

LEMMA FdFacts ==
    /\ Shell = {10, 11, 12, 13, 14} /\ Fd = {0, 1, 4} \union Shell
    /\ Shell \subseteq Fd /\ NoFd \notin Fd /\ 0 \notin Shell /\ 1 \notin Shell
    /\ 4 \notin Shell
    /\ \A fd \in Shell \union {NoFd} : fd >= 0 <=> fd # NoFd
    /\ Closed \in What
    /\ \A n \in Int : /\ File(n) \in What /\ File(n) # Closed
                      /\ Input(n, "r") \in What /\ Input(n, "w") \in What
                      /\ Output(n, "r") \in What /\ Output(n, "w") \in What
BY DEF Shell, FDBASE, Fd, NoFd, What, Closed, File, Input, Output

(* The ends of pipes are all different.                                    *)
LEMMA EndsDiffer ==
    ASSUME NEW n \in Int, NEW m \in Int
    PROVE  /\ Input(n, "w") # Output(m, "r") /\ Input(n, "w") # Output(m, "w")
           /\ Output(n, "r") # Output(m, "w") /\ Input(n, "r") # Input(m, "w")
           /\ Input(n, "r") # Output(m, "r") /\ Input(n, "r") # Output(m, "w")
           /\ Input(n, "w") = Input(m, "w") => n = m
           /\ Output(n, "r") = Output(m, "r") => n = m
           /\ Closed # Input(n, "w") /\ Closed # Output(n, "r")
           /\ Closed # Output(n, "w") /\ Closed # Input(n, "r")
           /\ File(m) # Input(n, "w") /\ File(m) # Output(n, "r")
BY DEF Input, Output, Closed, File

LEMMA CloseFieldLemma ==
    ASSUME NEW s \in StateSet, NEW f \in Field
    PROVE  Shut(s, CloseField(s, f), {f})
<1>1. /\ s.fds \in [Fd -> What] /\ s.coproc \in CoprocRecord
      /\ s = [fds |-> s.fds, coproc |-> s.coproc]
  BY DEF StateSet
<1>2. s.coproc.read \in Shell \union {NoFd} /\ s.coproc.readw \in Shell \union {NoFd}
      /\ s.coproc.write \in Shell \union {NoFd}
  BY <1>1 DEF CoprocRecord
<1>3. NoFd \notin Fd /\ Shell \subseteq Fd /\ Closed \in What
  BY FdFacts
<1> DEFINE c == [s.coproc EXCEPT ![f] = NoFd]
           g == [s.fds EXCEPT ![s.coproc[f]] = Closed]
<1>4. /\ c \in CoprocRecord
      /\ c.njobs = s.coproc.njobs /\ c.id = s.coproc.id /\ c.job = s.coproc.job
      /\ c.read = IF f = "read" THEN NoFd ELSE s.coproc.read
      /\ c.readw = IF f = "readw" THEN NoFd ELSE s.coproc.readw
      /\ c.write = IF f = "write" THEN NoFd ELSE s.coproc.write
  BY <1>1 DEF CoprocRecord, Field
<1>5. CASE s.coproc[f] = NoFd
  <2>1. CloseField(s, f) = s
    BY <1>5 DEF CloseField
  <2> QED BY <1>2, <1>3, <1>5, <2>1 DEF Shut, Field
<1>6. CASE s.coproc[f] # NoFd
  <2>1. CloseField(s, f) = [fds |-> g, coproc |-> c]
    BY <1>1, <1>6 DEF CloseField
  <2>2. /\ g \in [Fd -> What]
        /\ \A fd \in Fd : g[fd] = IF fd = s.coproc[f] THEN Closed ELSE s.fds[fd]
    BY <1>1, <1>3
  <2> HIDE DEF c, g
  <2>3. [fds |-> g, coproc |-> c] \in StateSet
    BY <1>4, <2>2 DEF StateSet
  <2> QED BY <1>4, <2>1, <2>2, <2>3 DEF Shut, Field
<1> QED BY <1>5, <1>6

LEMMA ShutLemma ==
    ASSUME NEW s \in StateSet
    PROVE  /\ Shut(s, s, {})
           /\ \A t, u, F, G : Shut(s, t, F) /\ Shut(t, u, G) => Shut(s, u, F \union G)
<1>1. NoFd \notin Fd
  BY FdFacts
<1> QED BY <1>1 DEF Shut

(* coproc_cleanup(), coproc_read_close() and coproc_write_close().         *)
LEMMA CleanupLemma ==
    ASSUME NEW s \in StateSet, NEW reuse \in BOOLEAN
    PROVE  LET t == Coproc_cleanup(s, reuse)
           IN  \/ /\ reuse /\ s.coproc.readw >= 0 /\ s.coproc.read >= 0
                  /\ Shut(s, t, {"write"})
               \/ /\ ~(reuse /\ s.coproc.readw >= 0 /\ s.coproc.read >= 0)
                  /\ Shut(s, t, Field)
<1>1. CASE reuse /\ s.coproc.readw >= 0 /\ s.coproc.read >= 0
  BY <1>1, CloseFieldLemma DEF Coproc_cleanup, Field
<1>2. CASE ~(reuse /\ s.coproc.readw >= 0 /\ s.coproc.read >= 0)
  <2> DEFINE t == CloseField(s, "read")  u == CloseField(t, "readw")
  <2>1. Shut(s, t, {"read"})
    BY CloseFieldLemma DEF Field
  <2>2. t \in StateSet
    BY <2>1 DEF Shut
  <2>3. Shut(t, u, {"readw"})
    BY <2>2, CloseFieldLemma DEF Field
  <2>4. u \in StateSet
    BY <2>3 DEF Shut
  <2>5. Shut(u, CloseField(u, "write"), {"write"})
    BY <2>4, CloseFieldLemma DEF Field
  <2>6. Shut(s, u, {"read"} \union {"readw"})
    BY <2>1, <2>3, ShutLemma
  <2>7. Shut(s, CloseField(u, "write"), ({"read"} \union {"readw"}) \union {"write"})
    BY <2>5, <2>6, ShutLemma
  <2>8. Coproc_cleanup(s, reuse) = CloseField(u, "write")
    BY <1>2 DEF Coproc_cleanup
  <2>9. ({"read"} \union {"readw"}) \union {"write"} = Field
    BY DEF Field
  <2> HIDE DEF t, u
  <2> QED BY <1>2, <2>7, <2>8, <2>9
<1> QED BY <1>1, <1>2

LEMMA ReadCloseLemma ==
    ASSUME NEW s \in StateSet, NEW fd
    PROVE  /\ \/ Shut(s, Coproc_readw_close(s, fd), {})
              \/ Shut(s, Coproc_readw_close(s, fd), {"readw"})
           /\ IF s.coproc.read >= 0 /\ fd = s.coproc.read
              THEN Shut(s, Coproc_read_close(s, fd), {"read", "readw"})
              ELSE Shut(s, Coproc_read_close(s, fd), {})
<1>1. CASE ~(s.coproc.read >= 0 /\ fd = s.coproc.read)
  BY <1>1, ShutLemma DEF Coproc_readw_close, Coproc_read_close
<1>2. CASE s.coproc.read >= 0 /\ fd = s.coproc.read
  <2> DEFINE t == CloseField(s, "readw")  u == CloseField(t, "read")
  <2>1. Shut(s, t, {"readw"})
    BY CloseFieldLemma DEF Field
  <2>2. t \in StateSet
    BY <2>1 DEF Shut
  <2>3. Shut(t, u, {"read"})
    BY <2>2, CloseFieldLemma DEF Field
  <2>4. Shut(s, u, {"readw"} \union {"read"})
    BY <2>1, <2>3, ShutLemma
  <2>5. {"readw"} \union {"read"} = {"read", "readw"}
    OBVIOUS
  <2>6. Coproc_readw_close(s, fd) = t /\ Coproc_read_close(s, fd) = u
    BY <1>2 DEF Coproc_readw_close, Coproc_read_close
  <2> HIDE DEF t, u
  <2> QED BY <1>2, <2>1, <2>4, <2>5, <2>6
<1> QED BY <1>1, <1>2

LEMMA WriteCloseLemma ==
    ASSUME NEW s \in StateSet, NEW fd
    PROVE  IF s.coproc.write >= 0 /\ fd = s.coproc.write
           THEN Shut(s, Coproc_write_close(s, fd), {"write"})
           ELSE Shut(s, Coproc_write_close(s, fd), {})
BY CloseFieldLemma, ShutLemma DEF Coproc_write_close, Field

-----------------------------------------------------------------------------
(* What the invariant says of fds and coproc, given the jobs and pipes.    *)
Fields(s) == {s.coproc.read, s.coproc.readw, s.coproc.write} \ {NoFd}
Unit4(s, p) == \A n \in Int : /\ s.fds[4] = Input(n, "w") => n <= p
                              /\ s.fds[4] = Output(n, "r") => n <= s.coproc.id
Sound(s, jb, p) ==
    /\ s \in StateSet
    /\ s.coproc.read >= 0 => /\ s.coproc.id > 0
                             /\ s.fds[s.coproc.read] = Output(s.coproc.id, "r")
                             /\ s.fds[4] # s.fds[s.coproc.read]
    /\ s.coproc.readw >= 0 => /\ s.coproc.read >= 0
                              /\ s.fds[s.coproc.readw] = Output(s.coproc.id, "w")
    /\ s.coproc.write >= 0 => /\ \E n \in 0..p : s.fds[s.coproc.write] = Input(n, "w")
                              /\ s.fds[4] # s.fds[s.coproc.write]
    /\ s.coproc.job \in {NoJob} \union DOMAIN jb
    /\ s.coproc.write >= 0 /\ s.coproc.job # NoJob =>
           s.fds[s.coproc.write] = Input(jb[s.coproc.job].input, "w")
    /\ \A fd \in Shell : s.fds[fd] # Closed <=> fd \in Fields(s)
    /\ Unit4(s, p)

LEMMA StateFacts ==
    ASSUME NEW s \in StateSet
    PROVE  /\ s.fds \in [Fd -> What] /\ s.coproc \in CoprocRecord
           /\ s.coproc.read \in Shell \union {NoFd}
           /\ s.coproc.readw \in Shell \union {NoFd}
           /\ s.coproc.write \in Shell \union {NoFd}
           /\ s.coproc.njobs \in Int /\ s.coproc.id \in Nat /\ s.coproc.job \in Nat
           /\ \A fd \in {s.coproc.read, s.coproc.readw, s.coproc.write} :
                  /\ fd >= 0 <=> fd # NoFd
                  /\ fd # NoFd => fd \in Shell /\ fd \in Fd /\ fd # 4
                                  /\ fd # 0 /\ fd # 1
<1>1. s.fds \in [Fd -> What] /\ s.coproc \in CoprocRecord
  BY DEF StateSet
<1>2. /\ s.coproc.read \in Shell \union {NoFd}
      /\ s.coproc.readw \in Shell \union {NoFd}
      /\ s.coproc.write \in Shell \union {NoFd}
      /\ s.coproc.njobs \in Int /\ s.coproc.id \in Nat /\ s.coproc.job \in Nat
  BY <1>1 DEF CoprocRecord
<1> QED BY <1>1, <1>2, FdFacts

(* The fields are different descriptors.                                   *)
LEMMA FieldsDiffer ==
    ASSUME NEW s, NEW jb, NEW p \in Nat, Sound(s, jb, p)
    PROVE  /\ s.coproc.read >= 0 => s.coproc.read # s.coproc.readw
                                    /\ s.coproc.read # s.coproc.write
           /\ s.coproc.readw >= 0 => s.coproc.readw # s.coproc.write
<1>1. s \in StateSet /\ s.coproc.id \in Int
  BY StateFacts DEF Sound
<1>2. \A n \in 0..p : n \in Int
  OBVIOUS
<1> QED BY <1>1, <1>2, EndsDiffer DEF Sound

LEMMA SoundShut ==
    ASSUME NEW s, NEW t, NEW F, NEW jb, NEW p \in Nat,
           Sound(s, jb, p), Shut(s, t, F), "read" \in F => "readw" \in F
    PROVE  Sound(t, jb, p)
<1>1. s \in StateSet /\ t \in StateSet
  BY DEF Sound, Shut
<1>2. t.coproc.job = s.coproc.job /\ t.coproc.id = s.coproc.id
      /\ t.fds[4] = s.fds[4]
  BY <1>1, StateFacts, FdFacts DEF Shut
<1>3. Unit4(t, p) /\ t.coproc.job \in {NoJob} \union DOMAIN jb
  BY <1>2 DEF Sound, Unit4
<1>4. ASSUME t.coproc.read >= 0
      PROVE  t.coproc.read = s.coproc.read /\ t.fds[t.coproc.read] = s.fds[s.coproc.read]
  BY <1>1, <1>4, StateFacts, FieldsDiffer DEF Shut
<1>5. ASSUME t.coproc.readw >= 0
      PROVE  /\ t.coproc.readw = s.coproc.readw /\ t.coproc.read = s.coproc.read
             /\ t.fds[t.coproc.readw] = s.fds[s.coproc.readw]
  BY <1>1, <1>5, StateFacts, FieldsDiffer DEF Shut
<1>6. ASSUME t.coproc.write >= 0
      PROVE  t.coproc.write = s.coproc.write /\ t.fds[t.coproc.write] = s.fds[s.coproc.write]
  BY <1>1, <1>6, StateFacts, FieldsDiffer DEF Shut
<1>7. ASSUME NEW fd \in Shell PROVE t.fds[fd] # Closed <=> fd \in Fields(t)
  <2>1. fd \in Fd /\ fd # NoFd
    BY FdFacts
  <2>2. s.fds[fd] # Closed <=> fd \in Fields(s)
    BY DEF Sound
  <2>3. CASE fd \notin Fields(s)
    BY <1>1, <2>1, <2>2, <2>3 DEF Shut, Fields
  <2>4. CASE fd = s.coproc.read
    BY <1>1, <2>1, <2>2, <2>4, StateFacts, FieldsDiffer DEF Shut, Fields
  <2>5. CASE fd = s.coproc.readw
    BY <1>1, <2>1, <2>2, <2>5, StateFacts, FieldsDiffer DEF Shut, Fields
  <2>6. CASE fd = s.coproc.write
    BY <1>1, <2>1, <2>2, <2>6, StateFacts, FieldsDiffer DEF Shut, Fields
  <2> QED BY <2>3, <2>4, <2>5, <2>6 DEF Fields
<1> QED BY <1>1, <1>2, <1>3, <1>4, <1>5, <1>6, <1>7 DEF Sound

(* It does not depend on njobs, nor on what of jobs is not their input; and*)
(* job may be forgotten.                                                   *)
SameInputs(jb, kb) ==
    \A j \in DOMAIN jb : j \in DOMAIN kb /\ kb[j].input = jb[j].input

LEMMA SoundLike ==
    ASSUME NEW s, NEW t \in StateSet, NEW jb, NEW kb, NEW p \in Nat, NEW q \in Nat,
           Sound(s, jb, p), p <= q, t.fds = s.fds,
           t.coproc.read = s.coproc.read, t.coproc.readw = s.coproc.readw,
           t.coproc.write = s.coproc.write, t.coproc.id = s.coproc.id,
           t.coproc.job \in {s.coproc.job, NoJob},
           SameInputs(jb, kb)
    PROVE  Sound(t, kb, q)
<1>1. Unit4(t, q)
  <2> SUFFICES ASSUME NEW n \in Int
               PROVE  /\ t.fds[4] = Input(n, "w") => n <= q
                      /\ t.fds[4] = Output(n, "r") => n <= t.coproc.id
    BY DEF Unit4
  <2> QED BY DEF Sound, Unit4
<1>2. Fields(t) = Fields(s)
  BY DEF Fields
<1> QED BY <1>1, <1>2 DEF Sound, SameInputs

(* How many jobs write to the last output, and who reads the input.        *)
Writers(jb, id) == {j \in DOMAIN jb : /\ jb[j].state # "reaped"
                                      /\ jb[j].coproc_id = id /\ id # 0}
Numbered(jb, c) ==
    /\ \A j \in DOMAIN jb : jb[j].coproc_id <= c.id
    /\ c.njobs = Cardinality(Writers(jb, c.id))
    /\ c.job # NoJob => jb[c.job].state # "reaped"

JobType == [coproc_id : Nat, input : Nat, holds : SUBSET What,
            state : {"running", "zombie", "reaped"}]

LEMMA FromInv ==
    ASSUME CoprocInv
    PROVE  /\ State \in StateSet /\ Sound(State, jobs, pipes) /\ Numbered(jobs, coproc)
           /\ State.fds = fds /\ State.coproc = coproc
           /\ jobs \in Seq(JobType) /\ pipes \in Nat /\ use \in Fd \union {NoFd}
           /\ copc \in {"shell", "fork", "dup", "read"}
           /\ CoprocIsolated /\ Prepared /\ Asked
<1>1. State \in StateSet /\ State.fds = fds /\ State.coproc = coproc
  BY DEF CoprocInv, CoprocTypeOK, State, StateSet
<1>2. Numbered(jobs, coproc)
  BY DEF CoprocInv, CoprocSound, NjobsCounts, PipesMade, Numbered, Writers
<1>3. Sound(State, jobs, pipes)
  BY <1>1 DEF CoprocInv, CoprocSound, DescriptorsSound, PipesMade, NotShared, Sound,
              Unit4, Fields
<1> QED BY <1>1, <1>2, <1>3 DEF CoprocInv, CoprocSound, CoprocTypeOK, JobType

LEMMA ToInv ==
    ASSUME NEW s, Become(s), pipes' \in Nat, Sound(s, jobs', pipes'),
           Numbered(jobs', s.coproc), jobs' \in Seq(JobType), use' \in Fd \union {NoFd},
           copc' \in {"shell", "fork", "dup", "read"},
           CoprocIsolated', Prepared', Asked'
    PROVE  CoprocInv'
<1>1. fds' = s.fds /\ coproc' = s.coproc /\ s \in StateSet
  BY DEF Become, Sound
<1>2. CoprocTypeOK'
  BY <1>1, StateFacts DEF CoprocTypeOK, JobType
<1>3. DescriptorsSound' /\ NotShared' /\ PipesMade'
  BY <1>1 DEF DescriptorsSound, NotShared, PipesMade, Sound, Unit4, Fields, Numbered
<1>4. NjobsCounts'
  BY <1>1 DEF NjobsCounts, Numbered, Writers
<1> QED BY <1>2, <1>3, <1>4 DEF CoprocInv, CoprocSound

(* Steps of the shell that leave descriptors and jobs alone.               *)
LEMMA SameLemma ==
    ASSUME CoprocInv, UNCHANGED <<fds, coproc, jobs, pipes>>,
           use' \in Fd \union {NoFd},
           copc' \in {"shell", "fork", "dup", "read"}, Prepared', Asked'
    PROVE  CoprocInv'
<1>1. Become(State) /\ jobs' = jobs /\ pipes' = pipes /\ CoprocIsolated'
  BY FromInv DEF Become, CoprocIsolated, Running
<1> QED BY <1>1, FromInv, ToInv

-----------------------------------------------------------------------------
(* savefd() and openpipe() find a descriptor: of the five that the model   *)
(* has, no more than three are open.                                       *)
LEMMA LowestLemma ==
    ASSUME NEW s, NEW a, NEW b, NEW c,
           \A fd \in Shell : s.fds[fd] # Closed => fd \in {a, b, c}
    PROVE  Lowest(s) \in Shell /\ s.fds[Lowest(s)] = Closed
<1> DEFINE P(fd) == s.fds[fd] = Closed /\ \A g \in FDBASE..fd - 1 : s.fds[g] # Closed
<1>1. /\ FDBASE..10 - 1 = {} /\ FDBASE..11 - 1 = {10}
      /\ FDBASE..12 - 1 = {10, 11} /\ FDBASE..13 - 1 = {10, 11, 12}
  BY DEF FDBASE
<1>2. Shell = {10, 11, 12, 13, 14}
  BY FdFacts
<1>3. s.fds[10] = Closed \/ s.fds[11] = Closed \/ s.fds[12] = Closed \/ s.fds[13] = Closed
  BY <1>2
<1>4. \E fd \in Shell : P(fd)
  <2>1. CASE s.fds[10] = Closed
    BY <1>1, <1>2, <2>1
  <2>2. CASE s.fds[10] # Closed /\ s.fds[11] = Closed
    BY <1>1, <1>2, <2>2
  <2>3. CASE s.fds[10] # Closed /\ s.fds[11] # Closed /\ s.fds[12] = Closed
    BY <1>1, <1>2, <2>3
  <2>4. CASE s.fds[10] # Closed /\ s.fds[11] # Closed /\ s.fds[12] # Closed
    BY <1>1, <1>2, <1>3, <2>4
  <2> QED BY <2>1, <2>2, <2>3, <2>4
<1>5. Lowest(s) = CHOOSE fd \in Shell : P(fd)
  BY DEF Lowest
<1> HIDE DEF P
<1>6. P(Lowest(s)) /\ Lowest(s) \in Shell
  BY <1>4, <1>5
<1> QED BY <1>6 DEF P

LEMMA RoomLemma ==
    ASSUME NEW s, NEW jb, NEW p, Sound(s, jb, p)
    PROVE  Lowest(s) \in Shell /\ s.fds[Lowest(s)] = Closed
BY LowestLemma DEF Sound, Fields

(* The descriptors that scripts use: what 4 may be open on.                *)
OnUnit4(s, w, p) ==
    /\ s.coproc.read >= 0 => w # s.fds[s.coproc.read]
    /\ s.coproc.write >= 0 => w # s.fds[s.coproc.write]
    /\ \A n \in Int : /\ w = Input(n, "w") => n <= p
                      /\ w = Output(n, "r") => n <= s.coproc.id
SetUnit(s, u, w) == [s EXCEPT !.fds[u] = w]
IsSet(s, t, u, w) ==
    /\ t \in StateSet /\ t.coproc = s.coproc
    /\ \A fd \in Fd : t.fds[fd] = IF fd = u THEN w ELSE s.fds[fd]

LEMMA SetLemma ==
    ASSUME NEW s \in StateSet, NEW u \in {0, 1, 4}, NEW w \in What
    PROVE  IsSet(s, SetUnit(s, u, w), u, w)
<1> DEFINE t == SetUnit(s, u, w)  g == [s.fds EXCEPT ![u] = w]
<1>1. s.fds \in [Fd -> What] /\ s.coproc \in CoprocRecord
      /\ s = [fds |-> s.fds, coproc |-> s.coproc] /\ u \in Fd
  BY FdFacts DEF StateSet
<1>2. t = [fds |-> g, coproc |-> s.coproc]
  BY <1>1 DEF SetUnit
<1>3. g \in [Fd -> What] /\ \A fd \in Fd : g[fd] = IF fd = u THEN w ELSE s.fds[fd]
  BY <1>1
<1> HIDE DEF g, t
<1>4. IsSet(s, t, u, w)
  BY <1>1, <1>2, <1>3 DEF StateSet, IsSet
<1> QED BY <1>4 DEF t

LEMMA UnitLemma ==
    ASSUME NEW s, NEW jb, NEW p \in Nat, Sound(s, jb, p),
           NEW u \in {0, 1, 4}, NEW w \in What, u = 4 => OnUnit4(s, w, p)
    PROVE  Sound(SetUnit(s, u, w), jb, p)
<1> DEFINE t == SetUnit(s, u, w)
<1>1. s \in StateSet /\ u \in Fd /\ u \notin Shell
  BY FdFacts DEF Sound
<1>4. /\ t \in StateSet /\ t.coproc = s.coproc
      /\ \A fd \in Fd : t.fds[fd] = IF fd = u THEN w ELSE s.fds[fd]
  BY <1>1, SetLemma DEF IsSet
<1> HIDE DEF t
<1>5. /\ \A fd \in Shell : t.fds[fd] = s.fds[fd]
      /\ t.fds[4] = IF u = 4 THEN w ELSE s.fds[4]
  BY <1>1, <1>4, FdFacts
<1>6. Unit4(t, p)
  BY <1>4, <1>5 DEF Sound, Unit4, OnUnit4
<1>7. Fields(t) = Fields(s)
  BY <1>4 DEF Fields
<1>8. Sound(t, jb, p)
  BY <1>1, <1>4, <1>5, <1>6, <1>7, StateFacts DEF Sound, OnUnit4
<1> QED BY <1>8 DEF t

(* TCOPROC opens the pipe to the co-process,                               *)
LEMMA InputLemma ==
    ASSUME NEW s, NEW jb, NEW p \in Nat, Sound(s, jb, p), s.coproc.write = NoFd
    PROVE  LET t == WithInput(s, p + 1)
           IN  /\ Sound(t, jb, p + 1)
               /\ t.coproc.read = s.coproc.read /\ t.coproc.readw = s.coproc.readw
               /\ t.coproc.njobs = s.coproc.njobs /\ t.coproc.id = s.coproc.id
               /\ t.coproc.job = NoJob /\ t.coproc.write >= 0
               /\ t.fds[t.coproc.write] = Input(p + 1, "w")
               /\ t.fds[0] = Input(p + 1, "r") /\ t.fds[1] = s.fds[1]
<1> DEFINE l == Lowest(s)
           t == WithInput(s, p + 1)
           g == [s.fds EXCEPT ![0] = Input(p + 1, "r"), ![l] = Input(p + 1, "w")]
           c == [s.coproc EXCEPT !.write = l, !.job = NoJob]
<1>1. /\ s \in StateSet /\ s.fds \in [Fd -> What] /\ s.coproc \in CoprocRecord
      /\ s = [fds |-> s.fds, coproc |-> s.coproc]
  BY DEF Sound, StateSet
<1>2. l \in Shell /\ s.fds[l] = Closed
  BY RoomLemma
<1>3. t = [fds |-> g, coproc |-> c]
  <2>1. t = [s EXCEPT !.fds = g, !.coproc = c]
    BY DEF WithInput
  <2> HIDE DEF t, g, c
  <2> QED BY <1>1, <2>1 DEF StateSet
<1>4. Input(p + 1, "w") \in What /\ Input(p + 1, "r") \in What /\ 0 \in Fd /\ l \in Fd
      /\ l # 0 /\ l # 1 /\ l # 4 /\ l # NoFd /\ l >= 0 /\ 1 \in Fd /\ 4 \in Fd
  BY <1>2, FdFacts
<1> HIDE DEF l
<1>5. /\ g \in [Fd -> What]
      /\ \A fd \in Fd : g[fd] = IF fd = l THEN Input(p + 1, "w")
                                ELSE IF fd = 0 THEN Input(p + 1, "r") ELSE s.fds[fd]
  BY <1>1, <1>4
<1>6. /\ c \in CoprocRecord /\ c.read = s.coproc.read /\ c.readw = s.coproc.readw
      /\ c.write = l /\ c.njobs = s.coproc.njobs /\ c.id = s.coproc.id /\ c.job = NoJob
  BY <1>1, <1>2 DEF CoprocRecord, NoJob
<1> HIDE DEF g, c
<1>7. t \in StateSet /\ t.fds = g /\ t.coproc = c
  BY <1>3, <1>5, <1>6 DEF StateSet
<1> HIDE DEF t
<1>8. \A fd \in Shell \ {l} : t.fds[fd] = s.fds[fd]
  BY <1>5, <1>7, FdFacts
<1>9. Unit4(t, p + 1)
  BY <1>4, <1>5, <1>6, <1>7 DEF Sound, Unit4
<1>10. \A fd \in Shell : t.fds[fd] # Closed <=> fd \in Fields(t)
  <2>1. Fields(t) = Fields(s) \union {l}
    BY <1>1, <1>4, <1>6, <1>7 DEF Fields
  <2>2. t.fds[l] # Closed
    BY <1>4, <1>5, <1>7, EndsDiffer
  <2> QED BY <1>8, <2>1, <2>2 DEF Sound
<1>11. s.fds[4] # Input(p + 1, "w")
  BY DEF Sound, Unit4
<1>12. /\ s.coproc.read >= 0 => s.coproc.read \in Shell /\ s.coproc.read # l
       /\ s.coproc.readw >= 0 => s.coproc.readw \in Shell /\ s.coproc.readw # l
  BY <1>1, <1>2, StateFacts, EndsDiffer DEF Sound
<1>13. Sound(t, jb, p + 1)
  <2>1. t.fds[4] = s.fds[4] /\ t.fds[l] = Input(p + 1, "w") /\ p + 1 \in 0..p + 1
    BY <1>4, <1>5, <1>7
  <2> QED BY <1>6, <1>7, <1>8, <1>9, <1>10, <1>11, <1>12, <2>1 DEF Sound
<1>14. t.fds[0] = Input(p + 1, "r") /\ t.fds[1] = s.fds[1] /\ t.fds[l] = Input(p + 1, "w")
  BY <1>4, <1>5, <1>7
<1> QED BY <1>4, <1>6, <1>7, <1>13, <1>14 DEF t

(* and the one from it, if there is none to use again.                     *)
LEMMA OutputLemma ==
    ASSUME NEW s, NEW jb, NEW p \in Nat, Sound(s, jb, p),
           s.coproc.read = NoFd, s.coproc.readw = NoFd
    PROVE  LET t == WithOutput(s)
           IN  /\ Sound(t, jb, p)
               /\ t.coproc.read >= 0 /\ t.coproc.readw >= 0
               /\ t.coproc.njobs = 0 /\ t.coproc.id = s.coproc.id + 1
               /\ t.coproc.job = s.coproc.job /\ t.coproc.write = s.coproc.write
               /\ \A fd \in {0, 1, 4, s.coproc.write} :
                      fd \in Fd => t.fds[fd] = s.fds[fd]
<1> DEFINE id == s.coproc.id + 1
           r == Lowest(s)
           q == Place(s, Output(id, "r"))
           w == Lowest(q)
           t == WithOutput(s)
           g == [s.fds EXCEPT ![r] = Output(id, "r"), ![w] = Output(id, "w")]
           c == [s.coproc EXCEPT !.read = r, !.readw = w, !.njobs = 0, !.id = id]
<1>1. /\ s \in StateSet /\ s.fds \in [Fd -> What] /\ s.coproc \in CoprocRecord
      /\ s = [fds |-> s.fds, coproc |-> s.coproc] /\ s.coproc.id \in Nat
      /\ s.coproc.write \in Shell \union {NoFd}
  BY StateFacts DEF Sound, StateSet
<1>2. r \in Shell /\ s.fds[r] = Closed
  BY RoomLemma
<1>3. \A fd \in Shell : s.fds[fd] # Closed <=> fd = s.coproc.write
  BY FdFacts DEF Sound, Fields
<1>4. w \in Shell /\ q.fds[w] = Closed
  <2>1. \A fd \in Shell : q.fds[fd] # Closed => fd \in {r, s.coproc.write, r}
    <3>1. q.fds = [s.fds EXCEPT ![r] = Output(id, "r")]
      BY <1>1 DEF Place
    <3> HIDE DEF q, r
    <3> QED BY <1>1, <1>2, <1>3, <3>1, FdFacts
  <2> HIDE DEF q, r
  <2> QED BY <2>1, LowestLemma
<1>5. w # r /\ s.fds[w] = Closed
  <2>1. q.fds = [s.fds EXCEPT ![r] = Output(id, "r")]
    BY <1>1 DEF Place
  <2>2. id \in Int /\ Output(id, "r") # Closed
    BY <1>1, EndsDiffer
  <2> HIDE DEF q, r, w, id
  <2> QED BY <1>1, <1>2, <1>4, <2>1, <2>2, FdFacts
<1>6. t = [fds |-> g, coproc |-> c]
  <2>1. ~(s.coproc.readw >= 0)
    BY FdFacts DEF NoFd
  <2>2. t = [s EXCEPT !.fds = g, !.coproc = c]
    BY <2>1 DEF WithOutput
  <2> HIDE DEF t, g, c
  <2> QED BY <1>1, <2>2 DEF StateSet
<1>7. /\ id \in Nat /\ Output(id, "r") \in What /\ Output(id, "w") \in What
      /\ r \in Fd /\ w \in Fd /\ r >= 0 /\ w >= 0 /\ r # NoFd /\ w # NoFd
      /\ r \notin {0, 1, 4} /\ w \notin {0, 1, 4} /\ 4 \in Fd
      /\ r # s.coproc.write /\ w # s.coproc.write
  <2>1. r # s.coproc.write /\ w # s.coproc.write
    BY <1>2, <1>3, <1>4, <1>5
  <2> QED BY <1>1, <1>2, <1>4, <2>1, FdFacts
<1> HIDE DEF id, r, w, q, t
<1>8. /\ g \in [Fd -> What]
      /\ \A fd \in Fd : g[fd] = IF fd = w THEN Output(id, "w")
                                ELSE IF fd = r THEN Output(id, "r") ELSE s.fds[fd]
  BY <1>1, <1>7
<1>9. /\ c \in CoprocRecord /\ c.read = r /\ c.readw = w /\ c.write = s.coproc.write
      /\ c.njobs = 0 /\ c.id = id /\ c.job = s.coproc.job
  <2> DEFINE a == [s.coproc EXCEPT !.read = r]  b == [a EXCEPT !.readw = w]
             d == [b EXCEPT !.njobs = 0]
  <2>1. /\ a \in CoprocRecord /\ a.read = r /\ a.readw = s.coproc.readw
        /\ a.write = s.coproc.write /\ a.id = s.coproc.id /\ a.job = s.coproc.job
    BY <1>1, <1>2 DEF CoprocRecord
  <2>2. c = [d EXCEPT !.id = id]
    OBVIOUS
  <2> HIDE DEF a, c
  <2>3. /\ b \in CoprocRecord /\ b.read = r /\ b.readw = w
        /\ b.write = s.coproc.write /\ b.id = s.coproc.id /\ b.job = s.coproc.job
    BY <1>4, <2>1 DEF CoprocRecord
  <2> HIDE DEF b
  <2>4. /\ d \in CoprocRecord /\ d.read = r /\ d.readw = w /\ d.njobs = 0
        /\ d.write = s.coproc.write /\ d.id = s.coproc.id /\ d.job = s.coproc.job
    BY <2>3 DEF CoprocRecord
  <2> HIDE DEF d
  <2> QED BY <1>7, <2>2, <2>4 DEF CoprocRecord
<1> HIDE DEF g, c
<1>10. t \in StateSet /\ t.fds = g /\ t.coproc = c
  BY <1>6, <1>8, <1>9 DEF StateSet
<1>11. /\ t.fds[4] = s.fds[4] /\ t.fds[r] = Output(id, "r") /\ t.fds[w] = Output(id, "w")
       /\ \A fd \in {0, 1, 4, s.coproc.write} : fd \in Fd => t.fds[fd] = s.fds[fd]
  BY <1>5, <1>7, <1>8, <1>10
<1>12. Unit4(t, p) /\ s.fds[4] # Output(id, "r")
  BY <1>1, <1>9, <1>10, <1>11 DEF Sound, Unit4, id
<1>13. ASSUME NEW fd \in Shell PROVE t.fds[fd] # Closed <=> fd \in Fields(t)
  <2>1. fd \in Fields(t) <=> fd \in {r, w, s.coproc.write}
    BY <1>9, <1>10, FdFacts DEF Fields
  <2>2. Output(id, "r") # Closed /\ Output(id, "w") # Closed /\ fd \in Fd
    BY <1>7, FdFacts, EndsDiffer
  <2> QED BY <1>3, <1>8, <1>10, <2>1, <2>2
<1>14. Sound(t, jb, p)
  <2>1. s.coproc.write >= 0 => s.coproc.write \in Fd
    BY <1>1, StateFacts
  <2>2. id > 0
    BY <1>1 DEF id
  <2> QED BY <1>7, <1>9, <1>10, <1>11, <1>12, <1>13, <2>1, <2>2 DEF Sound
<1> QED BY <1>7, <1>9, <1>10, <1>11, <1>14 DEF t, id

-----------------------------------------------------------------------------
(* Steps of the shell that close fields of coproc, and no more.            *)
LEMMA ShutInv ==
    ASSUME CoprocInv, NEW t, NEW F, Shut(State, t, F), "read" \in F => "readw" \in F,
           Become(t), UNCHANGED <<jobs, pipes>>, use' = NoFd, copc # "fork", copc' = "shell"
    PROVE  CoprocInv'
<1>1. Sound(t, jobs, pipes)
  BY FromInv, SoundShut
<1>2. Numbered(jobs, t.coproc)
  BY FromInv DEF Numbered, Shut
<1>3. CoprocIsolated' /\ Asked'
  BY FromInv DEF CoprocIsolated, Running, Asked
<1>4. Prepared'
  <2>1. t.fds[0] = fds[0] /\ t.fds[1] = fds[1]
    BY FromInv, StateFacts, FdFacts DEF Shut
  <2>2. fds'[0] = File(0) /\ fds'[1] = File(1)
    BY FromInv, <2>1 DEF Prepared, Become
  <2> QED BY <2>2 DEF Prepared
<1>5. jobs' = jobs /\ pipes' = pipes /\ use' = NoFd
  OBVIOUS
<1> QED BY <1>1, <1>2, <1>3, <1>4, <1>5, FromInv, ToInv

LEMMA ReadEofStep == ASSUME CoprocInv, ReadEof PROVE CoprocInv'
<1> DEFINE t == Coproc_read_close(State, use)
<1>1. Become(t) /\ copc = "read" /\ copc' = "shell" /\ UNCHANGED <<jobs, pipes>> /\ use' = NoFd
  BY DEF ReadEof
<1>2. State \in StateSet
  BY FromInv
<1>3. Shut(State, t, {"read", "readw"}) \/ Shut(State, t, {})
  BY <1>2, ReadCloseLemma
<1> HIDE DEF t
<1> QED BY <1>1, <1>3, ShutInv

(* Steps that neither open nor close anything.                             *)
LEMMA ReadStep == ASSUME CoprocInv, Read \/ ReadLine \/ Redirect PROVE CoprocInv'
<1>1. UNCHANGED <<fds, coproc, jobs, pipes>>
  BY DEF Read, ReadLine, Redirect
<1>2. coproc.read \in Shell \union {NoFd} /\ coproc.write \in Shell \union {NoFd}
  BY FromInv, StateFacts
<1>3. use' \in Fd \union {NoFd} /\ copc' \in {"shell", "fork", "dup", "read"}
  BY <1>2, FromInv, FdFacts DEF Read, ReadLine, Redirect
<1>4. copc' # "fork" /\ copc # "fork"
  BY DEF Read, ReadLine, Redirect
<1>5. Prepared'
  BY <1>1, <1>4, FromInv DEF Prepared
<1>6. Asked'
  <2>1. CASE Redirect
    BY <1>1, <1>2, <2>1, FdFacts DEF Redirect, Asked
  <2>2. CASE Read \/ ReadLine
    BY <2>2 DEF Read, ReadLine, Asked
  <2> QED BY <2>1, <2>2
<1> QED BY <1>1, <1>3, <1>5, <1>6, SameLemma

(* exec 4>&- *)
LEMMA CloseUnitStep == ASSUME CoprocInv, CloseUnit PROVE CoprocInv'
<1> DEFINE t == SetUnit(State, 4, Closed)
<1>1. /\ fds' = [fds EXCEPT ![4] = Closed] /\ UNCHANGED <<coproc, jobs, copc, use, pipes>>
      /\ copc = "shell"
  BY DEF CloseUnit
<1>2. Become(t)
  BY <1>1 DEF Become, State, SetUnit
<1>3. \A n \in Int : Closed # Input(n, "w") /\ Closed # Output(n, "r")
  BY EndsDiffer
<1>4. Closed \in What /\ (State.coproc.read >= 0 => Closed # State.fds[State.coproc.read])
      /\ (State.coproc.write >= 0 => Closed # State.fds[State.coproc.write])
  <2>1. State.coproc.id \in Int /\ \A n \in 0..pipes : n \in Int
    BY FromInv, StateFacts
  <2> QED BY <1>3, <2>1, FromInv, FdFacts DEF Sound
<1>5. Sound(t, jobs, pipes) /\ IsSet(State, t, 4, Closed)
  <2>1. OnUnit4(State, Closed, pipes)
    BY <1>3, <1>4 DEF OnUnit4
  <2> QED BY <1>4, <2>1, FromInv, UnitLemma, SetLemma
<1> HIDE DEF t
<1>6. Prepared' /\ Asked' /\ CoprocIsolated'
  <2>1. fds'[0] = fds[0] /\ fds'[1] = fds[1]
    BY <1>1, FromInv, FdFacts DEF StateSet
  <2> QED BY <1>1, <2>1, FromInv DEF Prepared, Asked, CoprocIsolated, Running
<1>7. Numbered(jobs, t.coproc)
  BY <1>5, FromInv DEF IsSet
<1> QED BY <1>1, <1>2, <1>5, <1>6, <1>7, FromInv, ToInv

-----------------------------------------------------------------------------
(* A job more.                                                             *)
LEMMA NewJob ==
    ASSUME NEW jb \in Seq(JobType), NEW new \in JobType
    PROVE  LET kb == Append(jb, new)  n == Len(jb) + 1
           IN  /\ kb \in Seq(JobType) /\ n \in Nat /\ n # NoJob /\ n \notin DOMAIN jb
               /\ DOMAIN kb = DOMAIN jb \union {n} /\ kb[n] = new
               /\ \A j \in DOMAIN jb : kb[j] = jb[j]
<1>1. /\ Len(jb) \in Nat /\ DOMAIN jb = 1..Len(jb)
      /\ Append(jb, new) \in Seq(JobType)
      /\ DOMAIN Append(jb, new) = 1..Len(jb) + 1
  OBVIOUS
<1>2. Append(jb, new)[Len(jb) + 1] = new
      /\ \A j \in 1..Len(jb) : Append(jb, new)[j] = jb[j]
  OBVIOUS
<1>3. 1..Len(jb) + 1 = 1..Len(jb) \union {Len(jb) + 1} /\ Len(jb) + 1 \notin 1..Len(jb)
  BY <1>1
<1> QED BY <1>1, <1>2, <1>3 DEF NoJob

LEMMA WritersFinite ==
    ASSUME NEW jb \in Seq(JobType), NEW id
    PROVE  IsFiniteSet(Writers(jb, id))
<1>1. DOMAIN jb = 1..Len(jb) /\ Len(jb) \in Nat
  OBVIOUS
<1>2. Writers(jb, id) \subseteq 1..Len(jb)
  BY <1>1 DEF Writers
<1>3. IsFiniteSet(1..Len(jb))
  BY <1>1, FS_Interval
<1> QED BY <1>2, <1>3, FS_Subset

(* exchild() puts 0 and 1 back.                                            *)
IsPutBack(s, t) ==
    /\ t \in StateSet /\ t.coproc = s.coproc
    /\ t.fds[0] = File(0) /\ t.fds[1] = File(1)
    /\ \A fd \in Fd \ {0, 1} : t.fds[fd] = s.fds[fd]

LEMMA PutBackLemma ==
    ASSUME NEW s, NEW jb, NEW p \in Nat, Sound(s, jb, p)
    PROVE  Sound(PutBack(s), jb, p) /\ IsPutBack(s, PutBack(s))
<1> DEFINE a == SetUnit(s, 0, File(0))
<1>1. File(0) \in What /\ File(1) \in What /\ s \in StateSet /\ 0 \in Fd /\ 1 \in Fd
  BY FdFacts DEF Sound
<1>2. Sound(a, jb, p) /\ IsSet(s, a, 0, File(0))
  BY <1>1, UnitLemma, SetLemma
<1>3. PutBack(s) = SetUnit(a, 1, File(1))
  BY DEF PutBack, SetUnit
<1> HIDE DEF a
<1>4. a \in StateSet
  BY <1>2 DEF IsSet
<1>5. Sound(SetUnit(a, 1, File(1)), jb, p) /\ IsSet(a, SetUnit(a, 1, File(1)), 1, File(1))
  BY <1>1, <1>2, <1>4, UnitLemma, SetLemma
<1>6. Sound(PutBack(s), jb, p) /\ IsSet(a, PutBack(s), 1, File(1))
  BY <1>3, <1>5
<1> QED BY <1>1, <1>2, <1>6 DEF IsSet, IsPutBack

LEMMA SubshellStep == ASSUME CoprocInv, Subshell PROVE CoprocInv'
<1> DEFINE new == [coproc_id |-> 0, input |-> 0, state |-> "running", holds |-> Holds(State)]
           n == Len(jobs) + 1
<1>1. /\ jobs' = Append(jobs, new) /\ UNCHANGED <<fds, coproc, copc, use, pipes>>
  BY DEF Subshell
<1>2. new \in JobType
  <2>1. Holds(State) \subseteq What
    BY FromInv, FdFacts DEF Holds, StateSet
  <2> QED BY <2>1 DEF JobType
<1>3. new.coproc_id = 0 /\ new.state = "running"
  OBVIOUS
<1> HIDE DEF new
<1>4. /\ jobs' \in Seq(JobType) /\ n \notin DOMAIN jobs
      /\ DOMAIN jobs' = DOMAIN jobs \union {n} /\ jobs'[n] = new
      /\ \A j \in DOMAIN jobs : jobs'[j] = jobs[j]
  BY <1>1, <1>2, FromInv, NewJob
<1> HIDE DEF n
<1>5. Sound(State, jobs', pipes)
  BY <1>4, FromInv, SoundLike DEF SameInputs
<1>6. Numbered(jobs', coproc)
  <2>1. Writers(jobs', coproc.id) = Writers(jobs, coproc.id)
    BY <1>3, <1>4 DEF Writers
  <2>2. coproc.job \in {NoJob} \union DOMAIN jobs /\ coproc.id \in Nat
    BY FromInv, StateFacts DEF Sound
  <2> QED BY <1>3, <1>4, <2>1, <2>2, FromInv DEF Numbered
<1>7. CoprocIsolated'
  BY <1>3, <1>4, FromInv DEF CoprocIsolated, Running
<1>8. Become(State) /\ Prepared' /\ Asked'
  BY <1>1, FromInv DEF Become, Prepared, Asked
<1> QED BY <1>1, <1>4, <1>5, <1>6, <1>7, <1>8, FromInv, ToInv

(* What a co-process is left.                                              *)
LEMMA HoldsLemma ==
    ASSUME CoprocInv, copc = "fork"
    PROVE  /\ CoprocHolds(State) \subseteq What
           /\ Input(pipes, "w") \notin CoprocHolds(State)
           /\ Output(coproc.id, "r") \notin CoprocHolds(State)
<1> DEFINE t == Coproc_cleanup(State, FALSE)
<1>1. State \in StateSet /\ Sound(State, jobs, pipes) /\ State.fds = fds
      /\ State.coproc = coproc /\ pipes \in Int /\ coproc.id \in Int
  BY FromInv, StateFacts
<1>2. Shut(State, t, Field)
  BY <1>1, CleanupLemma
<1>3. CoprocHolds(State) = {t.fds[fd] : fd \in Fd} \ {Closed}
  BY DEF CoprocHolds, Holds
<1> HIDE DEF t
<1>4. \A fd \in Shell : t.fds[fd] = Closed
  BY <1>1, <1>2, FdFacts DEF Sound, Shut, Fields, Field
<1>5. /\ t \in StateSet /\ t.fds[0] = fds[0] /\ t.fds[1] = fds[1] /\ t.fds[4] = fds[4]
  BY <1>1, <1>2, StateFacts, FdFacts DEF Shut
<1>6. /\ fds[0] = Input(pipes, "r") /\ fds[1] = Output(coproc.id, "w")
      /\ fds[4] # Input(pipes, "w") /\ fds[4] # Output(coproc.id, "r")
  BY <1>1, FromInv DEF Sound, Prepared
<1>7. ASSUME NEW fd \in Fd, t.fds[fd] # Closed
      PROVE  t.fds[fd] # Input(pipes, "w") /\ t.fds[fd] # Output(coproc.id, "r")
  <2>1. fd \in {0, 1, 4}
    BY <1>4, <1>7, FdFacts
  <2> QED BY <1>1, <1>5, <1>6, <2>1, EndsDiffer
<1>8. CoprocHolds(State) \subseteq What
  BY <1>3, <1>5 DEF StateSet
<1> QED BY <1>3, <1>7, <1>8

LEMMA ForkFailedStep ==
    ASSUME CoprocInv, copc = "fork", copc' = "shell", Become(PutBack(State)),
           UNCHANGED <<jobs, use, pipes>>
    PROVE  CoprocInv'
<1> DEFINE t == PutBack(State)
<1>1. Sound(t, jobs, pipes) /\ IsPutBack(State, t)
  BY FromInv, PutBackLemma
<1> HIDE DEF t
<1>2. Numbered(jobs, t.coproc)
  BY <1>1, FromInv DEF IsPutBack
<1>3. Prepared' /\ Asked' /\ CoprocIsolated'
  <2>1. fds'[0] = File(0) /\ fds'[1] = File(1)
    BY <1>1 DEF IsPutBack, Become, t
  <2> QED BY <2>1, FromInv DEF Prepared, Asked, CoprocIsolated, Running
<1> QED BY <1>1, <1>2, <1>3, FromInv, ToInv DEF t

LEMMA ForkedStep ==
    ASSUME CoprocInv, copc = "fork", copc' = "shell",
           jobs' = Append(jobs, [coproc_id |-> coproc.id, input |-> pipes,
                                 state |-> "running", holds |-> CoprocHolds(State)]),
           Become([PutBack(State) EXCEPT
                      !.coproc = [@ EXCEPT !.njobs = coproc.njobs + 1, !.job = Len(jobs) + 1]]),
           UNCHANGED <<use, pipes>>
    PROVE  CoprocInv'
<1> DEFINE new == [coproc_id |-> coproc.id, input |-> pipes, state |-> "running",
                   holds |-> CoprocHolds(State)]
           n == Len(jobs) + 1
           u == PutBack(State)
           c == [u.coproc EXCEPT !.njobs = coproc.njobs + 1, !.job = n]
           t == [u EXCEPT !.coproc = [@ EXCEPT !.njobs = coproc.njobs + 1, !.job = n]]
<1>1. /\ State \in StateSet /\ Sound(State, jobs, pipes) /\ State.fds = fds
      /\ State.coproc = coproc /\ pipes \in Nat /\ coproc.id \in Nat
      /\ coproc.read >= 0 /\ coproc.write >= 0 /\ coproc.id > 0 /\ coproc.job = NoJob
      /\ fds[coproc.write] = Input(pipes, "w")
  BY FromInv, StateFacts DEF Prepared, Sound
<1>2. new \in JobType
  BY <1>1, HoldsLemma DEF JobType
<1>3. /\ new.coproc_id = coproc.id /\ new.input = pipes /\ new.state = "running"
      /\ new.holds = CoprocHolds(State)
  OBVIOUS
<1> HIDE DEF new
<1>4. /\ jobs' \in Seq(JobType) /\ n \notin DOMAIN jobs /\ n # NoJob /\ n \in Nat
      /\ DOMAIN jobs' = DOMAIN jobs \union {n} /\ jobs'[n] = new
      /\ \A j \in DOMAIN jobs : jobs'[j] = jobs[j]
  BY <1>2, FromInv, NewJob DEF new
<1>5. Sound(u, jobs, pipes) /\ IsPutBack(State, u)
  BY FromInv, PutBackLemma
<1>6. t = [fds |-> u.fds, coproc |-> c]
  <2>1. u \in StateSet
    BY <1>5 DEF Sound
  <2>2. t = [u EXCEPT !.coproc = c]
    OBVIOUS
  <2> HIDE DEF u, n, t, c
  <2> QED BY <2>1, <2>2 DEF StateSet
<1>7. u.coproc = coproc /\ u \in StateSet
  BY <1>1, <1>5 DEF IsPutBack
<1>8. Become(t)
  OBVIOUS
<1> HIDE DEF u, n
<1>9. /\ c \in CoprocRecord /\ c.read = coproc.read /\ c.readw = coproc.readw
      /\ c.write = coproc.write /\ c.njobs = coproc.njobs + 1 /\ c.id = coproc.id
      /\ c.job = n
  <2> DEFINE a == [u.coproc EXCEPT !.njobs = coproc.njobs + 1]
  <2>1. u.coproc \in CoprocRecord
    BY <1>7 DEF StateSet
  <2>2. /\ a \in CoprocRecord /\ a.read = coproc.read /\ a.readw = coproc.readw
        /\ a.write = coproc.write /\ a.njobs = coproc.njobs + 1 /\ a.id = coproc.id
    BY <1>7, <2>1 DEF CoprocRecord
  <2>3. c = [a EXCEPT !.job = n]
    OBVIOUS
  <2> HIDE DEF a, c
  <2> QED BY <1>4, <2>2, <2>3 DEF CoprocRecord
<1> HIDE DEF c, t
<1>10. t \in StateSet /\ t.fds = u.fds /\ t.coproc = c
  BY <1>6, <1>7, <1>9 DEF StateSet
<1>11. Sound(t, jobs', pipes)
  <2>1. Unit4(t, pipes) /\ Fields(t) = Fields(u)
    BY <1>5, <1>7, <1>9, <1>10 DEF Sound, Unit4, Fields
  <2>2. u.fds[coproc.write] = Input(pipes, "w")
    BY <1>1, <1>5, StateFacts DEF IsPutBack
  <2> QED BY <1>3, <1>4, <1>5, <1>7, <1>9, <1>10, <2>1, <2>2 DEF Sound
<1>12. Numbered(jobs', c)
  <2>1. Writers(jobs', coproc.id) = Writers(jobs, coproc.id) \union {n}
    BY <1>1, <1>3, <1>4 DEF Writers
  <2>2. n \notin Writers(jobs, coproc.id)
    BY <1>4 DEF Writers
  <2>3. IsFiniteSet(Writers(jobs, coproc.id))
    BY FromInv, WritersFinite
  <2>4. Cardinality(Writers(jobs', coproc.id)) = Cardinality(Writers(jobs, coproc.id)) + 1
    BY <2>1, <2>2, <2>3, FS_AddElement
  <2>5. jobs'[n].state # "reaped" /\ \A j \in DOMAIN jobs' : jobs'[j].coproc_id <= coproc.id
    BY <1>1, <1>3, <1>4, FromInv DEF Numbered
  <2> QED BY <1>9, <2>4, <2>5, FromInv DEF Numbered
<1>13. CoprocIsolated'
  <2>1. /\ Input(new.input, "w") \notin new.holds
        /\ Output(new.coproc_id, "r") \notin new.holds
    BY <1>3, HoldsLemma
  <2> QED BY <1>3, <1>4, <2>1, FromInv DEF CoprocIsolated, Running
<1>14. Prepared' /\ Asked'
  <2>1. fds'[0] = File(0) /\ fds'[1] = File(1)
    BY <1>5, <1>8, <1>10 DEF IsPutBack, Become
  <2> QED BY <2>1 DEF Prepared, Asked
<1> QED BY <1>4, <1>8, <1>10, <1>11, <1>12, <1>13, <1>14, FromInv, ToInv

LEMMA ForkStep == ASSUME CoprocInv, Fork PROVE CoprocInv'
BY ForkFailedStep, ForkedStep DEF Fork

(* TCOPROC: the pipes are closed that are of no use any more,              *)
LEMMA CleanLemma ==
    ASSUME CoprocInv, copc = "shell"
    PROVE  LET clean == Coproc_cleanup(State, TRUE)
           IN  /\ Sound(clean, jobs, pipes) /\ clean.coproc.write = NoFd
               /\ clean.coproc.id = coproc.id /\ clean.coproc.njobs = coproc.njobs
               /\ clean.coproc.read = NoFd <=> clean.coproc.readw = NoFd
               /\ clean.fds[0] = File(0) /\ clean.fds[1] = File(1)
               /\ \E F : Shut(State, clean, F) /\ ("read" \in F => "readw" \in F)
<1> DEFINE t == Coproc_cleanup(State, TRUE)
<1>1. /\ State \in StateSet /\ Sound(State, jobs, pipes) /\ State.fds = fds
      /\ State.coproc = coproc /\ pipes \in Nat
  BY FromInv
<1>2. \/ /\ coproc.readw >= 0 /\ coproc.read >= 0
         /\ Shut(State, t, {"write"})
      \/ Shut(State, t, Field)
  BY <1>1, CleanupLemma
<1> HIDE DEF t
<1>3. PICK F : Shut(State, t, F) /\ F \in {Field, {"write"}}
  BY <1>2
<1>4. "read" \in F => "readw" \in F
  BY <1>3 DEF Field
<1>5. Sound(t, jobs, pipes)
  BY <1>1, <1>3, <1>4, SoundShut
<1>6. /\ t.coproc.write = NoFd /\ t.coproc.id = coproc.id /\ t.coproc.njobs = coproc.njobs
      /\ t.coproc.read = NoFd <=> t.coproc.readw = NoFd
  BY <1>1, <1>2, StateFacts DEF Shut, Field
<1>7. t.fds[0] = fds[0] /\ t.fds[1] = fds[1]
  BY <1>1, <1>3, StateFacts, FdFacts DEF Shut
<1>8. fds[0] = File(0) /\ fds[1] = File(1)
  BY FromInv DEF Prepared
<1> QED BY <1>3, <1>4, <1>5, <1>6, <1>7, <1>8 DEF t

(* and those that are missing are opened,                                  *)
LEMMA PrepareLemma ==
    ASSUME NEW s, NEW jb, NEW p \in Nat, Sound(s, jb, p), s.coproc.write = NoFd,
           s.coproc.read = NoFd <=> s.coproc.readw = NoFd
    PROVE  LET t == WithOutput(WithInput(s, p + 1))
           IN  /\ Sound(t, jb, p + 1)
               /\ t.coproc.read >= 0 /\ t.coproc.readw >= 0 /\ t.coproc.write >= 0
               /\ t.coproc.job = NoJob
               /\ \/ t.coproc.id = s.coproc.id /\ t.coproc.njobs = s.coproc.njobs
                  \/ t.coproc.id = s.coproc.id + 1 /\ t.coproc.njobs = 0
               /\ t.fds[t.coproc.write] = Input(p + 1, "w")
               /\ t.fds[0] = Input(p + 1, "r")
<1> DEFINE i == WithInput(s, p + 1)  t == WithOutput(i)
<1>1. /\ Sound(i, jb, p + 1)
      /\ i.coproc.read = s.coproc.read /\ i.coproc.readw = s.coproc.readw
      /\ i.coproc.njobs = s.coproc.njobs /\ i.coproc.id = s.coproc.id
      /\ i.coproc.job = NoJob /\ i.coproc.write >= 0
      /\ i.fds[i.coproc.write] = Input(p + 1, "w") /\ i.fds[0] = Input(p + 1, "r")
  BY InputLemma
<1> HIDE DEF i
<1>2. /\ i \in StateSet /\ i.coproc.write \in Fd /\ 0 \in Fd
      /\ i.coproc.readw >= 0 <=> i.coproc.readw # NoFd
      /\ i.coproc.read >= 0 <=> i.coproc.read # NoFd
      /\ i.coproc.write # NoFd
  BY <1>1, StateFacts, FdFacts DEF Sound
<1>3. CASE i.coproc.readw >= 0
  <2>1. t = i
    BY <1>3 DEF WithOutput
  <2> QED BY <1>1, <1>2, <1>3, <2>1 DEF i
<1>4. CASE ~(i.coproc.readw >= 0)
  <2>1. i.coproc.read = NoFd /\ i.coproc.readw = NoFd
    BY <1>1, <1>2, <1>4
  <2>2. p + 1 \in Nat
    OBVIOUS
  <2>3. /\ Sound(t, jb, p + 1) /\ t.coproc.read >= 0 /\ t.coproc.readw >= 0
        /\ t.coproc.njobs = 0 /\ t.coproc.id = i.coproc.id + 1
        /\ t.coproc.job = i.coproc.job /\ t.coproc.write = i.coproc.write
        /\ \A fd \in {0, 1, 4, i.coproc.write} : fd \in Fd => t.fds[fd] = i.fds[fd]
    BY <1>1, <2>1, <2>2, OutputLemma
  <2> QED BY <1>1, <1>2, <2>3 DEF i
<1> QED BY <1>3, <1>4

LEMMA TcoprocStep == ASSUME CoprocInv, Tcoproc PROVE CoprocInv'
<1> DEFINE clean == Coproc_cleanup(State, TRUE)
           input == WithInput(clean, pipes + 1)
           s == WithOutput(input)
<1>1. /\ copc = "shell" /\ pipes' = pipes + 1 /\ UNCHANGED <<jobs, use>>
      /\ pipes \in Nat /\ pipes' \in Nat /\ pipes <= pipes'
  BY FromInv DEF Tcoproc
<1>2. /\ Sound(clean, jobs, pipes) /\ clean.coproc.write = NoFd
      /\ clean.coproc.id = coproc.id /\ clean.coproc.njobs = coproc.njobs
      /\ clean.coproc.read = NoFd <=> clean.coproc.readw = NoFd
      /\ clean.fds[0] = File(0) /\ clean.fds[1] = File(1)
      /\ \E F : Shut(State, clean, F) /\ ("read" \in F => "readw" \in F)
  BY <1>1, CleanLemma
<1>3. /\ \/ Become([s EXCEPT !.fds[1] = s.fds[s.coproc.readw]]) /\ copc' = "fork"
         \/ Become(clean) /\ copc' = copc
         \/ Become([input EXCEPT !.fds[0] = File(0)]) /\ copc' = copc
  BY DEF Tcoproc
<1>4. CoprocIsolated' /\ (copc' # "dup" => Asked')
  BY <1>1, FromInv DEF CoprocIsolated, Running, Asked
<1> HIDE DEF clean
<1>5. CASE Become([s EXCEPT !.fds[1] = s.fds[s.coproc.readw]]) /\ copc' = "fork"
  <2> DEFINE w == s.fds[s.coproc.readw]  t == SetUnit(s, 1, w)
  <2>1. /\ Sound(s, jobs, pipes')
        /\ s.coproc.read >= 0 /\ s.coproc.readw >= 0 /\ s.coproc.write >= 0
        /\ s.coproc.job = NoJob
        /\ \/ s.coproc.id = coproc.id /\ s.coproc.njobs = coproc.njobs
           \/ s.coproc.id = coproc.id + 1 /\ s.coproc.njobs = 0
        /\ s.fds[s.coproc.write] = Input(pipes', "w") /\ s.fds[0] = Input(pipes', "r")
    BY <1>1, <1>2, PrepareLemma
  <2> HIDE DEF s
  <2>2. s \in StateSet /\ w \in What /\ w = Output(s.coproc.id, "w")
    BY <2>1, StateFacts DEF Sound
  <2>3. Sound(t, jobs, pipes') /\ IsSet(s, t, 1, w)
    BY <1>1, <2>1, <2>2, UnitLemma, SetLemma
  <2>4. Become(t)
    BY <1>5 DEF SetUnit
  <2> HIDE DEF t, w
  <2>5. /\ t.coproc = s.coproc /\ t.fds[0] = s.fds[0] /\ t.fds[1] = w
        /\ t.fds[s.coproc.write] = s.fds[s.coproc.write]
    BY <2>1, <2>2, <2>3, StateFacts, FdFacts DEF IsSet
  <2>6. Prepared'
    BY <1>5, <2>1, <2>2, <2>4, <2>5 DEF Prepared, Become
  <2>7. Numbered(jobs, t.coproc)
    <3>1. CASE s.coproc.id = coproc.id /\ s.coproc.njobs = coproc.njobs
      BY <2>1, <2>5, <3>1, FromInv DEF Numbered
    <3>2. CASE s.coproc.id = coproc.id + 1 /\ s.coproc.njobs = 0
      <4>1. coproc.id \in Nat
        BY FromInv, StateFacts
      <4>2. \A j \in DOMAIN jobs : jobs[j].coproc_id \in Nat
        <5>1. ASSUME NEW j \in DOMAIN jobs PROVE jobs[j].coproc_id \in Nat
          <6>1. jobs \in Seq(JobType)
            BY FromInv
          <6>2. jobs[j] \in JobType
            BY <6>1
          <6> QED BY <6>2 DEF JobType
        <5> QED BY <5>1
      <4>3. \A j \in DOMAIN jobs : jobs[j].coproc_id < coproc.id + 1
        <5>1. \A j \in DOMAIN jobs : jobs[j].coproc_id <= coproc.id
          BY FromInv DEF Numbered
        <5> QED BY <4>1, <4>2, <5>1
      <4>4. Writers(jobs, coproc.id + 1) = {}
        BY <4>1, <4>2, <4>3 DEF Writers
      <4>5. Cardinality({}) = 0
        BY FS_EmptySet
      <4>6. t.coproc.id = coproc.id + 1 /\ t.coproc.njobs = 0 /\ t.coproc.job = NoJob
        BY <2>1, <2>5, <3>2
      <4>7. \A j \in DOMAIN jobs : jobs[j].coproc_id <= t.coproc.id
        BY <4>1, <4>2, <4>3, <4>6
      <4>8. t.coproc.njobs = Cardinality(Writers(jobs, t.coproc.id))
        BY <4>4, <4>5, <4>6
      <4> QED BY <4>6, <4>7, <4>8 DEF Numbered
    <3> QED BY <2>1, <3>1, <3>2
  <2> QED BY <1>1, <1>4, <1>5, <2>3, <2>4, <2>6, <2>7, FromInv, ToInv
<1>6. CASE Become(clean) /\ copc' = copc
  <2>1. clean \in StateSet
    BY <1>2 DEF Sound
  <2>2. Sound(clean, jobs, pipes')
    BY <1>1, <1>2, <2>1, SoundLike DEF SameInputs
  <2>3. Numbered(jobs, clean.coproc)
    BY <1>2, FromInv DEF Numbered, Shut
  <2>4. Prepared'
    BY <1>1, <1>2, <1>6 DEF Prepared, Become
  <2> QED BY <1>1, <1>4, <1>6, <2>2, <2>3, <2>4, FromInv, ToInv
<1>7. CASE Become([input EXCEPT !.fds[0] = File(0)]) /\ copc' = copc
  <2> DEFINE t == SetUnit(input, 0, File(0))
  <2>1. /\ Sound(input, jobs, pipes')
        /\ input.coproc.njobs = coproc.njobs /\ input.coproc.id = coproc.id
        /\ input.coproc.job = NoJob /\ input.fds[1] = File(1)
    BY <1>1, <1>2, InputLemma
  <2> HIDE DEF input
  <2>2. input \in StateSet /\ File(0) \in What /\ 0 \in Fd /\ 1 \in Fd
    BY <2>1, FdFacts DEF Sound
  <2>3. Sound(t, jobs, pipes') /\ IsSet(input, t, 0, File(0))
    BY <1>1, <2>1, <2>2, UnitLemma, SetLemma
  <2>4. Become(t)
    BY <1>7 DEF SetUnit
  <2> HIDE DEF t
  <2>5. Numbered(jobs, t.coproc)
    BY <2>1, <2>3, FromInv DEF Numbered, IsSet
  <2>6. Prepared'
    BY <1>1, <1>7, <2>1, <2>2, <2>3, <2>4 DEF Prepared, Become, IsSet
  <2> QED BY <1>1, <1>4, <1>7, <2>3, <2>4, <2>5, <2>6, FromInv, ToInv
<1> QED BY <1>3, <1>5, <1>6, <1>7

-----------------------------------------------------------------------------
(* A pair is what its parts are.                                           *)
LEMMA StateEq ==
    ASSUME NEW s \in StateSet, NEW t \in StateSet,
           s.coproc.read = t.coproc.read, s.coproc.readw = t.coproc.readw,
           s.coproc.write = t.coproc.write, s.coproc.njobs = t.coproc.njobs,
           s.coproc.id = t.coproc.id, s.coproc.job = t.coproc.job,
           \A fd \in Fd : s.fds[fd] = t.fds[fd]
    PROVE  s = t
<1> DEFINE Whole(c) == [read |-> c.read, readw |-> c.readw, write |-> c.write,
                        njobs |-> c.njobs, id |-> c.id, job |-> c.job]
<1>1. /\ s.fds \in [Fd -> What] /\ t.fds \in [Fd -> What]
      /\ s = [fds |-> s.fds, coproc |-> s.coproc]
      /\ t = [fds |-> t.fds, coproc |-> t.coproc]
      /\ s.coproc \in CoprocRecord /\ t.coproc \in CoprocRecord
  BY DEF StateSet
<1>2. s.coproc = Whole(s.coproc) /\ t.coproc = Whole(t.coproc)
  BY <1>1 DEF CoprocRecord
<1>3. s.coproc = t.coproc
  BY <1>2
<1>4. s.fds = t.fds
  BY <1>1
<1> QED BY <1>1, <1>3, <1>4

(* The end that descriptor 4 gets is one that the fields lose.             *)
LEMMA MoveLemma ==
    ASSUME NEW s, NEW jb, NEW p \in Nat, Sound(s, jb, p), NEW F, NEW w \in What,
           NEW t, IsSet(s, t, 4, w), NEW v, Shut(t, v, F),
           NEW x, Shut(s, x, F), "read" \in F => "readw" \in F, OnUnit4(x, w, p)
    PROVE  Sound(v, jb, p)
<1> DEFINE y == SetUnit(x, 4, w)
<1>1. s \in StateSet /\ x \in StateSet /\ v \in StateSet /\ t \in StateSet
  BY DEF Sound, Shut, IsSet
<1>2. Sound(x, jb, p)
  BY SoundShut
<1>3. Sound(y, jb, p) /\ IsSet(x, y, 4, w)
  BY <1>1, <1>2, UnitLemma, SetLemma
<1> HIDE DEF y
<1>4. y \in StateSet
  BY <1>3 DEF IsSet
<1>5. /\ v.coproc.read = y.coproc.read /\ v.coproc.readw = y.coproc.readw
      /\ v.coproc.write = y.coproc.write /\ v.coproc.njobs = y.coproc.njobs
      /\ v.coproc.id = y.coproc.id /\ v.coproc.job = y.coproc.job
  BY <1>3 DEF Shut, IsSet
<1>6. 4 # s.coproc.read /\ 4 # s.coproc.readw /\ 4 # s.coproc.write
  BY <1>1, StateFacts, FdFacts DEF NoFd
<1>7. \A fd \in Fd : v.fds[fd] = y.fds[fd]
  BY <1>3, <1>6 DEF Shut, IsSet
<1>8. v = y
  BY <1>1, <1>4, <1>5, <1>7, StateEq
<1> QED BY <1>3, <1>8

LEMMA DupStep == ASSUME CoprocInv, Dup PROVE CoprocInv'
<1> DEFINE q == IF fds[4] = Closed THEN State ELSE Place(State, fds[4])
           w == q.fds[use]
           t == SetUnit(State, 4, w)
           v == Coproc_write_close(Coproc_read_close(t, use), use)
<1>1. /\ copc = "dup" /\ copc' = "shell" /\ UNCHANGED <<jobs, pipes>> /\ use' = NoFd
      /\ Become(IF w = Closed THEN State ELSE v)
  BY DEF Dup, SetUnit
<1>2. /\ State \in StateSet /\ Sound(State, jobs, pipes) /\ State.fds = fds
      /\ State.coproc = coproc /\ pipes \in Nat /\ fds \in [Fd -> What]
      /\ use \in Shell /\ use \in Fd /\ use >= 0
      /\ fds[use] = Closed \/ use \in {coproc.read, coproc.write}
  BY <1>1, FromInv, FdFacts DEF Asked, StateSet, NoFd
<1>3. w = fds[use] \/ (w = fds[4] /\ fds[use] = Closed)
  <2>1. CASE fds[4] = Closed
    BY <1>2, <2>1
  <2>2. CASE fds[4] # Closed
    <3>1. Lowest(State) \in Shell /\ fds[Lowest(State)] = Closed
      BY <1>2, RoomLemma
    <3>2. q.fds = [fds EXCEPT ![Lowest(State)] = fds[4]]
      BY <1>2, <2>2 DEF Place, StateSet
    <3> HIDE DEF q
    <3> QED BY <1>2, <3>1, <3>2, FdFacts
  <2> QED BY <2>1, <2>2
<1>4. w \in What
  BY <1>2, <1>3, FdFacts
<1> HIDE DEF q, w
<1>5. IsSet(State, t, 4, w) /\ t \in StateSet /\ t.coproc = coproc
  BY <1>2, <1>4, SetLemma DEF IsSet
<1> HIDE DEF t
<1>6. CASE w = Closed
  <2>1. Become(State) /\ Shut(State, State, {})
    BY <1>1, <1>2, <1>6, ShutLemma
  <2> QED BY <1>1, <2>1, ShutInv
<1>7. CASE w # Closed /\ fds[use] = Closed
  <2>1. use # coproc.read /\ use # coproc.write
    BY <1>2, <1>7, FdFacts DEF Sound, Fields
  <2>2. Shut(t, Coproc_read_close(t, use), {})
    BY <1>5, <2>1, ReadCloseLemma
  <2>3. Coproc_read_close(t, use) \in StateSet
        /\ Coproc_read_close(t, use).coproc.write = coproc.write
    BY <1>5, <2>2 DEF Shut
  <2>4. Shut(Coproc_read_close(t, use), v, {})
    BY <2>1, <2>3, WriteCloseLemma
  <2>5. Shut(t, v, {} \union {})
    BY <1>5, <2>2, <2>4, ShutLemma
  <2> HIDE DEF v
  <2>6. Shut(State, v, {})
    BY <1>2, <1>3, <1>5, <1>7, <2>5 DEF Shut, IsSet
  <2> QED BY <1>1, <1>7, <2>6, ShutInv
<1>8. CASE w # Closed /\ fds[use] # Closed
  <2>1. /\ w = fds[use] /\ use \in {coproc.read, coproc.write} /\ Become(v)
    BY <1>1, <1>2, <1>3, <1>8
  <2>2. coproc.id \in Int /\ \A n \in 0..pipes : n \in Int
    BY <1>2, StateFacts
  <2>3. PICK F, x : /\ Shut(t, v, F) /\ Shut(State, x, F) /\ OnUnit4(x, w, pipes)
                    /\ "read" \in F => "readw" \in F
    <3>1. CASE use = coproc.read
      <4> DEFINE x == Coproc_read_close(State, use)
      <4>1. /\ use # coproc.write /\ w = Output(coproc.id, "r")
            /\ coproc.read # coproc.readw
        BY <1>2, <2>1, <3>1, FieldsDiffer DEF Sound
      <4>2. /\ Shut(t, Coproc_read_close(t, use), {"read", "readw"})
            /\ Shut(State, x, {"read", "readw"})
        BY <1>2, <1>5, <3>1, ReadCloseLemma
      <4>3. Coproc_read_close(t, use) \in StateSet
            /\ Coproc_read_close(t, use).coproc.write = coproc.write
        BY <1>5, <4>2 DEF Shut
      <4>4. Shut(Coproc_read_close(t, use), v, {})
        BY <4>1, <4>3, WriteCloseLemma
      <4>5. Shut(t, v, {"read", "readw"} \union {})
        BY <1>5, <4>2, <4>4, ShutLemma
      <4>6. {"read", "readw"} \union {} = {"read", "readw"}
        OBVIOUS
      <4>7. OnUnit4(x, w, pipes)
        <5> HIDE DEF x
        <5>1. Sound(x, jobs, pipes)
          BY <1>2, <4>2, SoundShut
        <5>2. x.coproc.read = NoFd /\ x.coproc.id = coproc.id
          BY <1>2, <4>2 DEF Shut
        <5>3. x.coproc.write >= 0 => w # x.fds[x.coproc.write]
          BY <2>2, <4>1, <5>1, EndsDiffer DEF Sound
        <5>4. \A n \in Int : w # Input(n, "w") /\ (w = Output(n, "r") => n = coproc.id)
          BY <2>2, <4>1, EndsDiffer
        <5> QED BY <2>2, <5>2, <5>3, <5>4 DEF OnUnit4, NoFd
      <4> QED BY <4>2, <4>5, <4>6, <4>7
    <3>2. CASE use = coproc.write /\ use # coproc.read
      <4> DEFINE x == Coproc_write_close(State, use)
      <4>1. PICK n \in 0..pipes : w = Input(n, "w")
        BY <1>2, <2>1, <3>2 DEF Sound
      <4>2. /\ Shut(t, Coproc_read_close(t, use), {})
            /\ Shut(State, x, {"write"})
        BY <1>2, <1>5, <3>2, ReadCloseLemma, WriteCloseLemma
      <4>3. Coproc_read_close(t, use) \in StateSet
            /\ Coproc_read_close(t, use).coproc.write = coproc.write
        BY <1>5, <4>2 DEF Shut
      <4>4. Shut(Coproc_read_close(t, use), v, {"write"})
        BY <1>2, <3>2, <4>3, WriteCloseLemma
      <4>5. Shut(t, v, {} \union {"write"})
        BY <1>5, <4>2, <4>4, ShutLemma
      <4>6. {} \union {"write"} = {"write"}
        OBVIOUS
      <4>7. OnUnit4(x, w, pipes)
        <5> HIDE DEF x
        <5>1. Sound(x, jobs, pipes)
          BY <1>2, <4>2, SoundShut
        <5>2. x.coproc.write = NoFd /\ x.coproc.id = coproc.id
          BY <1>2, <4>2 DEF Shut
        <5>3. x.coproc.read >= 0 => w # x.fds[x.coproc.read]
          BY <2>2, <4>1, <5>1, <5>2, EndsDiffer DEF Sound
        <5>4. \A m \in Int : w # Output(m, "r") /\ (w = Input(m, "w") => n = m)
          BY <2>2, <4>1, EndsDiffer
        <5> QED BY <2>2, <4>1, <5>2, <5>3, <5>4 DEF OnUnit4, NoFd
      <4> QED BY <4>2, <4>5, <4>6, <4>7
    <3> QED BY <2>1, <3>1, <3>2
  <2> HIDE DEF v
  <2>4. Sound(v, jobs, pipes)
    BY <1>2, <1>4, <1>5, <2>3, MoveLemma
  <2>5. Numbered(jobs, v.coproc)
    BY <1>5, <2>3, FromInv DEF Numbered, Shut
  <2>6. Prepared' /\ Asked' /\ CoprocIsolated'
    <3>1. v.fds[0] = fds[0] /\ v.fds[1] = fds[1]
      BY <1>2, <1>5, <2>3, StateFacts, FdFacts DEF Shut, IsSet
    <3>2. fds'[0] = File(0) /\ fds'[1] = File(1)
      BY <1>1, <2>1, <3>1, FromInv DEF Prepared, Become
    <3> QED BY <1>1, <3>2, FromInv DEF Prepared, Asked, CoprocIsolated, Running
  <2> QED BY <1>1, <2>1, <2>4, <2>5, <2>6, FromInv, ToInv
<1> QED BY <1>6, <1>7, <1>8

-----------------------------------------------------------------------------
(* A job ends.                                                             *)
LEMMA EndsStep == ASSUME CoprocInv, NEW j \in DOMAIN jobs, Ends(j) PROVE CoprocInv'
<1>1. /\ jobs[j].state = "running"
      /\ jobs' = [jobs EXCEPT ![j] = [@ EXCEPT !.state = "zombie", !.holds = {}]]
      /\ UNCHANGED <<fds, coproc, copc, use, pipes>>
  BY DEF Ends
<1>2. jobs \in Seq(JobType) /\ jobs[j] \in JobType
  BY FromInv
<1> DEFINE r == [jobs[j] EXCEPT !.state = "zombie", !.holds = {}]
<1>3. /\ r \in JobType /\ r.state = "zombie" /\ r.input = jobs[j].input
      /\ r.coproc_id = jobs[j].coproc_id
  BY <1>2 DEF JobType
<1> HIDE DEF r
<1>4. /\ jobs' \in Seq(JobType) /\ DOMAIN jobs' = DOMAIN jobs /\ jobs'[j] = r
      /\ \A k \in DOMAIN jobs \ {j} : jobs'[k] = jobs[k]
  BY <1>1, <1>2, <1>3 DEF r
<1>5. /\ \A k \in DOMAIN jobs : /\ jobs'[k].input = jobs[k].input
                                /\ jobs'[k].coproc_id = jobs[k].coproc_id
                                /\ jobs'[k].state = "reaped" <=> jobs[k].state = "reaped"
  BY <1>1, <1>3, <1>4
<1>6. Sound(State, jobs', pipes)
  <2>1. SameInputs(jobs, jobs')
    BY <1>4, <1>5 DEF SameInputs
  <2>2. State \in StateSet /\ Sound(State, jobs, pipes) /\ pipes \in Nat
    BY FromInv
  <2> QED BY <2>1, <2>2, SoundLike
<1>7. Numbered(jobs', coproc)
  <2>1. Writers(jobs', coproc.id) = Writers(jobs, coproc.id)
    <3>1. ASSUME NEW k PROVE k \in Writers(jobs', coproc.id) <=> k \in Writers(jobs, coproc.id)
      BY <1>4, <1>5 DEF Writers
    <3> QED BY <3>1
  <2>2. coproc.job \in {NoJob} \union DOMAIN jobs
    BY FromInv DEF Sound
  <2> QED BY <1>4, <1>5, <2>1, <2>2, FromInv DEF Numbered
<1>8. CoprocIsolated'
  BY <1>3, <1>4, FromInv DEF CoprocIsolated, Running
<1>9. Become(State) /\ Prepared' /\ Asked'
  BY <1>1, FromInv DEF Become, Prepared, Asked
<1> QED BY <1>1, <1>4, <1>6, <1>7, <1>8, <1>9, FromInv, ToInv

(* check_job() of the job that reads the input                             *)
LEMMA InputDoneLemma ==
    ASSUME NEW s, NEW jb, NEW p \in Nat, Sound(s, jb, p), NEW j \in Nat \ {NoJob}
    PROVE  LET t == InputDone(s, j)
           IN  /\ Sound(t, jb, p)
               /\ t.coproc.read = s.coproc.read /\ t.coproc.id = s.coproc.id
               /\ t.coproc.njobs = s.coproc.njobs
               /\ t.coproc.job = IF s.coproc.job = j THEN NoJob ELSE s.coproc.job
               /\ s.coproc.job = NoJob => t = s
               /\ t.coproc.write \in {s.coproc.write, NoFd}
               /\ \A fd \in Fd : \/ t.fds[fd] = s.fds[fd]
                                 \/ fd \in Shell /\ t.fds[fd] = Closed
               /\ s.coproc.write >= 0 /\ t.coproc.write = NoFd =>
                      t.fds[s.coproc.write] = Closed
<1>1. s \in StateSet /\ s.coproc \in CoprocRecord
  BY StateFacts DEF Sound
<1>2. CASE s.coproc.job # j
  <2>1. InputDone(s, j) = s
    BY <1>2 DEF InputDone
  <2>2. ~(s.coproc.write >= 0 /\ s.coproc.write = NoFd)
    BY DEF NoFd
  <2> QED BY <1>2, <2>1, <2>2
<1>3. CASE s.coproc.job = j
  <2> DEFINE c == [s.coproc EXCEPT !.job = NoJob]
             i == [s EXCEPT !.coproc.job = NoJob]
             t == Coproc_write_close(i, s.coproc.write)
  <2>1. /\ c \in CoprocRecord /\ c.read = s.coproc.read /\ c.readw = s.coproc.readw
        /\ c.write = s.coproc.write /\ c.njobs = s.coproc.njobs /\ c.id = s.coproc.id
        /\ c.job = NoJob
    BY <1>1 DEF CoprocRecord, NoJob
  <2>2. i = [s EXCEPT !.coproc = c]
    OBVIOUS
  <2> HIDE DEF c, i
  <2>3. i \in StateSet /\ i.fds = s.fds /\ i.coproc = c
    BY <1>1, <2>1, <2>2 DEF StateSet
  <2>4. Sound(i, jb, p)
    BY <2>1, <2>3, SoundLike DEF SameInputs
  <2>5. PICK F \in {{"write"}, {}} : /\ Shut(i, t, F)
                                     /\ i.coproc.write >= 0 <=> "write" \in F
    BY <2>1, <2>3, WriteCloseLemma
  <2>6. Sound(t, jb, p)
    BY <2>4, <2>5, SoundShut
  <2>7. InputDone(s, j) = t
    BY <1>3 DEF InputDone, i
  <2> HIDE DEF t
  <2>8. \A fd \in Fd : \/ t.fds[fd] = s.fds[fd]
                       \/ fd \in Shell /\ t.fds[fd] = Closed
    BY <1>1, <2>1, <2>3, <2>5, StateFacts, FdFacts DEF Shut
  <2>9. s.coproc.write >= 0 /\ t.coproc.write = NoFd => t.fds[s.coproc.write] = Closed
    BY <1>1, <2>1, <2>3, <2>5, StateFacts, FdFacts DEF Shut
  <2>10. /\ t.coproc.read = s.coproc.read /\ t.coproc.id = s.coproc.id
         /\ t.coproc.njobs = s.coproc.njobs /\ t.coproc.job = NoJob
         /\ t.coproc.write \in {s.coproc.write, NoFd}
    BY <2>1, <2>3, <2>5 DEF Shut
  <2> QED BY <1>3, <2>6, <2>7, <2>8, <2>9, <2>10
<1> QED BY <1>2, <1>3

(* and of one that writes to the output.                                   *)
LEMMA OutputDoneLemma ==
    ASSUME NEW s, NEW p \in Nat, Sound(s, jobs, p), NEW j \in DOMAIN jobs
    PROVE  LET t == OutputDone(s, j)
           IN  /\ Sound(t, jobs, p)
               /\ t.coproc.read = s.coproc.read /\ t.coproc.id = s.coproc.id
               /\ t.coproc.write = s.coproc.write /\ t.coproc.job = s.coproc.job
               /\ t.coproc.njobs = IF Counts(s, j) THEN s.coproc.njobs - 1
                                   ELSE s.coproc.njobs
               /\ \A fd \in Fd : \/ t.fds[fd] = s.fds[fd]
                                 \/ fd \in Shell /\ t.fds[fd] = Closed
               /\ s.coproc.write >= 0 => t.fds[s.coproc.write] = s.fds[s.coproc.write]
<1>1. s \in StateSet /\ s.coproc \in CoprocRecord
  BY StateFacts DEF Sound
<1>2. CASE ~Counts(s, j)
  <2>1. OutputDone(s, j) = s
    BY <1>2 DEF OutputDone
  <2> QED BY <1>2, <2>1
<1>3. CASE Counts(s, j)
  <2> DEFINE c == [s.coproc EXCEPT !.njobs = @ - 1]
             i == [s EXCEPT !.coproc.njobs = @ - 1]
             t == OutputDone(s, j)
  <2>1. /\ c \in CoprocRecord /\ c.read = s.coproc.read /\ c.readw = s.coproc.readw
        /\ c.write = s.coproc.write /\ c.njobs = s.coproc.njobs - 1
        /\ c.id = s.coproc.id /\ c.job = s.coproc.job
    BY <1>1 DEF CoprocRecord
  <2>2. i = [s EXCEPT !.coproc = c]
    OBVIOUS
  <2> HIDE DEF c
  <2>3. t \in {i, Coproc_readw_close(i, i.coproc.read)}
    BY <1>3 DEF OutputDone
  <2> HIDE DEF i, t
  <2>4. i \in StateSet /\ i.fds = s.fds /\ i.coproc = c
    BY <1>1, <2>1, <2>2 DEF StateSet
  <2>5. Sound(i, jobs, p)
    BY <2>1, <2>4, SoundLike DEF SameInputs
  <2>6. PICK F \in {{"readw"}, {}} : Shut(i, t, F)
    BY <2>3, <2>4, ReadCloseLemma, ShutLemma
  <2>7. Sound(t, jobs, p)
    BY <2>5, <2>6, SoundShut
  <2>8. \A fd \in Fd : \/ t.fds[fd] = s.fds[fd]
                       \/ fd \in Shell /\ t.fds[fd] = Closed
    BY <1>1, <2>1, <2>4, <2>6, StateFacts, FdFacts DEF Shut
  <2>9. s.coproc.write >= 0 => t.fds[s.coproc.write] = s.fds[s.coproc.write]
    BY <1>1, <2>1, <2>4, <2>6, StateFacts, FieldsDiffer, FdFacts DEF Shut
  <2>10. /\ t.coproc.read = s.coproc.read /\ t.coproc.id = s.coproc.id
         /\ t.coproc.write = s.coproc.write /\ t.coproc.job = s.coproc.job
         /\ t.coproc.njobs = s.coproc.njobs - 1
    BY <2>1, <2>4, <2>6 DEF Shut
  <2> QED BY <1>3, <2>7, <2>8, <2>9, <2>10 DEF t
<1> QED BY <1>2, <1>3

LEMMA ReapStep == ASSUME CoprocInv, NEW j \in DOMAIN jobs, Reap(j) PROVE CoprocInv'
<1> DEFINE i == InputDone(State, j)  o == OutputDone(i, j)
<1>1. /\ jobs[j].state = "zombie" /\ jobs' = [jobs EXCEPT ![j] = [@ EXCEPT !.state = "reaped"]]
      /\ Become(o) /\ UNCHANGED <<copc, use, pipes>>
  BY DEF Reap
<1>2. /\ jobs \in Seq(JobType) /\ jobs[j] \in JobType /\ j \in Nat \ {NoJob}
      /\ State \in StateSet /\ Sound(State, jobs, pipes) /\ State.fds = fds
      /\ State.coproc = coproc /\ pipes \in Nat
  <2>1. jobs \in Seq(JobType) /\ DOMAIN jobs = 1..Len(jobs)
    BY FromInv
  <2> QED BY <2>1, FromInv DEF NoJob
<1>3. /\ Sound(i, jobs, pipes)
      /\ i.coproc.read = coproc.read /\ i.coproc.id = coproc.id
      /\ i.coproc.njobs = coproc.njobs
      /\ i.coproc.job = IF coproc.job = j THEN NoJob ELSE coproc.job
      /\ coproc.job = NoJob => i = State
      /\ i.coproc.write \in {coproc.write, NoFd}
      /\ \A fd \in Fd : \/ i.fds[fd] = fds[fd]
                        \/ fd \in Shell /\ i.fds[fd] = Closed
      /\ coproc.write >= 0 /\ i.coproc.write = NoFd => i.fds[coproc.write] = Closed
  BY <1>2, InputDoneLemma
<1> HIDE DEF i
<1>4. /\ Sound(o, jobs, pipes)
      /\ o.coproc.read = i.coproc.read /\ o.coproc.id = i.coproc.id
      /\ o.coproc.write = i.coproc.write /\ o.coproc.job = i.coproc.job
      /\ o.coproc.njobs = IF Counts(i, j) THEN i.coproc.njobs - 1 ELSE i.coproc.njobs
      /\ \A fd \in Fd : \/ o.fds[fd] = i.fds[fd]
                        \/ fd \in Shell /\ o.fds[fd] = Closed
      /\ i.coproc.write >= 0 => o.fds[i.coproc.write] = i.fds[i.coproc.write]
  BY <1>2, <1>3, OutputDoneLemma
<1> HIDE DEF o
<1> DEFINE r == [jobs[j] EXCEPT !.state = "reaped"]
<1>5. /\ r \in JobType /\ r.state = "reaped" /\ r.input = jobs[j].input
      /\ r.coproc_id = jobs[j].coproc_id
  BY <1>2 DEF JobType
<1>6. /\ jobs' \in Seq(JobType) /\ DOMAIN jobs' = DOMAIN jobs /\ jobs'[j] = r
      /\ \A k \in DOMAIN jobs \ {j} : jobs'[k] = jobs[k]
  <2> HIDE DEF r
  <2> QED BY <1>1, <1>2, <1>5 DEF r
<1> HIDE DEF r
<1>7. \A k \in DOMAIN jobs : /\ jobs'[k].input = jobs[k].input
                             /\ jobs'[k].coproc_id = jobs[k].coproc_id
  BY <1>5, <1>6
<1>8. Sound(o, jobs', pipes)
  <2>1. o \in StateSet
    BY <1>4 DEF Sound
  <2>2. SameInputs(jobs, jobs')
    BY <1>6, <1>7 DEF SameInputs
  <2> QED BY <1>2, <1>4, <2>1, <2>2, SoundLike
<1>9. Numbered(jobs', o.coproc)
  <2>1. Counts(i, j) <=> j \in Writers(jobs, coproc.id)
    BY <1>1, <1>2, <1>3 DEF Counts, Writers
  <2>2. Writers(jobs', coproc.id) = Writers(jobs, coproc.id) \ {j}
    BY <1>5, <1>6 DEF Writers
  <2>3. IsFiniteSet(Writers(jobs, coproc.id))
    BY <1>2, WritersFinite
  <2>4. Cardinality(Writers(jobs', coproc.id))
            = IF Counts(i, j) THEN Cardinality(Writers(jobs, coproc.id)) - 1
              ELSE Cardinality(Writers(jobs, coproc.id))
    BY <2>1, <2>2, <2>3, FS_RemoveElement
  <2>5. o.coproc.job # NoJob => jobs'[o.coproc.job].state # "reaped"
    <3>1. coproc.job \in {NoJob} \union DOMAIN jobs
      BY <1>2 DEF Sound
    <3> QED BY <1>3, <1>4, <1>6, <3>1, FromInv DEF Numbered
  <2>6. \A k \in DOMAIN jobs' : jobs'[k].coproc_id <= o.coproc.id
    BY <1>3, <1>4, <1>6, <1>7, FromInv DEF Numbered
  <2> QED BY <1>3, <1>4, <2>4, <2>5, <2>6, FromInv DEF Numbered
<1>10. CoprocIsolated'
  BY <1>5, <1>6, FromInv DEF CoprocIsolated, Running
<1>11. fds'[0] = fds[0] /\ fds'[1] = fds[1]
  BY <1>1, <1>3, <1>4, FdFacts DEF Become
<1>12. Prepared'
  <2>1. CASE copc = "fork"
    <3>1. /\ coproc.read >= 0 /\ coproc.write >= 0 /\ coproc.job = NoJob
          /\ fds[0] = Input(pipes, "r") /\ fds[1] = Output(coproc.id, "w")
          /\ fds[coproc.write] = Input(pipes, "w")
      BY <2>1, FromInv DEF Prepared
    <3>2. i = State
      BY <1>3, <3>1
    <3> QED BY <1>1, <1>2, <1>3, <1>4, <1>11, <2>1, <3>1, <3>2 DEF Prepared, Become
  <2>2. CASE copc # "fork"
    BY <1>1, <1>11, <2>2, FromInv DEF Prepared
  <2> QED BY <2>1, <2>2
<1>13. Asked'
  <2> SUFFICES ASSUME copc = "dup"
               PROVE  /\ use \in Shell
                      /\ o.fds[use] = Closed \/ use \in {o.coproc.read, o.coproc.write}
    BY <1>1 DEF Asked, Become
  <2>1. use \in Shell /\ (fds[use] = Closed \/ use \in {coproc.read, coproc.write})
        /\ use \in Fd /\ use >= 0 /\ use # NoFd
    BY FromInv, FdFacts DEF Asked, NoFd
  <2> QED BY <1>3, <1>4, <2>1
<1> QED BY <1>1, <1>6, <1>8, <1>9, <1>10, <1>12, <1>13, FromInv, ToInv

-----------------------------------------------------------------------------
LEMMA CoprocInitInv == ASSUME CoprocInit PROVE CoprocInv
<1>1. /\ fds = [fd \in Fd |-> IF fd \in Shell THEN Closed ELSE File(fd)]
      /\ coproc.read = NoFd /\ coproc.readw = NoFd /\ coproc.write = NoFd
      /\ coproc.njobs = 0 /\ coproc.id = 0 /\ coproc.job = NoJob
      /\ jobs = <<>> /\ copc = "shell" /\ use = NoFd /\ pipes = 0
  BY DEF CoprocInit
<1>2. CoprocTypeOK
  <2>1. coproc \in CoprocRecord
    BY DEF CoprocInit, CoprocRecord, NoJob
  <2>2. fds \in [Fd -> What]
    BY <1>1, FdFacts DEF Fd, Shell, FDBASE
  <2> QED BY <1>1, <2>1, <2>2 DEF CoprocTypeOK
<1>3. ~(coproc.read >= 0) /\ ~(coproc.readw >= 0) /\ ~(coproc.write >= 0)
  BY <1>1 DEF NoFd
<1>4. /\ fds[0] = File(0) /\ fds[1] = File(1) /\ fds[4] = File(4)
      /\ \A fd \in Shell : fds[fd] = Closed
  BY <1>1, FdFacts
<1>5. DescriptorsSound
  BY <1>1, <1>3, <1>4 DEF DescriptorsSound
<1>6. NjobsCounts
  <2>1. {j \in DOMAIN jobs : /\ jobs[j].state # "reaped"
                             /\ jobs[j].coproc_id = coproc.id /\ coproc.id # 0} = {}
    BY <1>1
  <2> QED BY <1>1, <2>1, FS_EmptySet DEF NjobsCounts
<1>7. CoprocIsolated
  BY <1>1 DEF CoprocIsolated, Running
<1>8. PipesMade
  <2>1. \A n \in Int : File(4) # Input(n, "w") /\ File(4) # Output(n, "r")
    BY EndsDiffer
  <2>2. DOMAIN jobs = {}
    BY <1>1
  <2> QED BY <1>1, <1>3, <1>4, <2>1, <2>2 DEF PipesMade
<1>9. NotShared /\ Prepared /\ Asked
  BY <1>1, <1>3, <1>4 DEF NotShared, Prepared, Asked
<1> QED BY <1>2, <1>5, <1>6, <1>7, <1>8, <1>9 DEF CoprocInv, CoprocSound

LEMMA CoprocStep == ASSUME CoprocInv, [CoprocNext]_coprocvars PROVE CoprocInv'
<1>1. CASE UNCHANGED coprocvars
  <2>1. UNCHANGED <<fds, coproc, jobs, pipes, copc, use>>
    BY <1>1 DEF coprocvars
  <2>2. Prepared' /\ Asked'
    BY <2>1, FromInv DEF Prepared, Asked
  <2> QED BY <2>1, <2>2, FromInv, SameLemma
<1>2. CASE CoprocNext
  BY <1>2, TcoprocStep, ForkStep, SubshellStep, ReadStep, DupStep, CloseUnitStep,
     ReadEofStep, EndsStep, ReapStep DEF CoprocNext
<1> QED BY <1>1, <1>2

(* io.c, check_job() and exchild(): wherever the SIGCHLD handler runs, the *)
(* fields of coproc name the ends they are for and nothing else is open,   *)
(* njobs counts the jobs that can still write, coproc.job is one that was  *)
(* not reaped, and no co-process keeps the other end of its own pipes, for *)
(* any number of jobs and pipes.                                           *)
THEOREM CoprocIsSound == CoprocSpec => []CoprocSound
<1>1. CoprocInv => CoprocSound
  BY DEF CoprocInv
<1> QED BY <1>1, CoprocInitInv, CoprocStep, PTL DEF CoprocSpec
=============================================================================

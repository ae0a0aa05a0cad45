----------------------------- MODULE KshEnvProofs -----------------------------
(***************************************************************************)
(* The environments of the shell unwind as they should, and the descriptors*)
(* of the user come back, however deep commands, functions, files and traps*)
(* are nested.                                                             *)
(*                                                                         *)
(* First part: the invariant says how types of environments may be nested  *)
(* (Nested), at what the innermost one is (AtWork), what a subshell is left*)
(* with (ChildLeaves), and, while a break or continue is under way, that   *)
(* only environments that pass it on are within its loop (Aimed, PassedOn).*)
(* Most actions change fields of the innermost environment that this does  *)
(* not mention, push one or quit some: StayControl, PushControl,           *)
(* QuitControl, all from FrameLemma.                                       *)
(*                                                                         *)
(* Second part: the invariant follows a descriptor of the user through the *)
(* stack of environments: what it was before one is what it was before the *)
(* next one within, unless this one has put it aside, and then a descriptor*)
(* of the shell has it that nothing else uses (Sound).  So quitting the    *)
(* innermost environment gives back what was before it, and the same can be*)
(* said of those that are left (SoundPop).  A pipeline puts 0 and 1 aside  *)
(* after its traps have run and has one of them back before it ends        *)
(* (Pipes).  None of the shell's own descriptors is lost.                  *)
(***************************************************************************)
EXTENDS KshEnv, WellFoundedInduction, FiniteSetTheorems, TLAPS

FdState == File \union {Closed}
Place == Fd \union {Unsaved, Shut}

(* An environment, with no bound on its redirections.                      *)
Env ==
    [type   : {"none", "parse", "func", "incl", "loop", "exec"},
     kind   : Kind \union Text,
     stage  : {"begun", "cond", "part"},
     status : {0, 1}, pass : BOOLEAN, xerrok : BOOLEAN, xexec : BOOLEAN,
     ios    : Nat, savefd : [UserFd -> Place],
     was    : [UserFd -> FdState]]

TypeInv == /\ e \in Seq(Env) /\ fd \in [Fd -> FdState]
           /\ rv \in {0, 1} /\ target \in Nat
           /\ child \in BOOLEAN /\ interactive \in BOOLEAN

-----------------------------------------------------------------------------
(* Free descriptors: there is a lowest one.                                *)
LEMMA LowestLemma ==
    ASSUME NEW ks \in SUBSET Nat, ks # {}
    PROVE  Lowest(ks) \in ks
<1> DEFINE R == OpToRel(<, Nat)
<1>1. PICK x \in ks : \A y \in ks : <<y, x>> \notin R
  <2> HIDE DEF R
  <2>1. IsWellFoundedOn(R, Nat)
    BY NatLessThanWellFounded DEF R
  <2> QED
    BY <2>1, WFMin
<1>2. \A y \in ks : ~ (y < x)
  BY <1>1 DEF OpToRel
<1>3. \A y \in ks : x <= y
  BY <1>2
<1> QED
  BY <1>3 DEF Lowest

LEMMA FreeLemma ==
    ASSUME NEW fds \in [Fd -> FdState], NEW base \in Nat, Free(fds, base) # {}
    PROVE  /\ Lowest(Free(fds, base)) \in Fd
           /\ Lowest(Free(fds, base)) >= base
           /\ fds[Lowest(Free(fds, base))] = Closed
<1>1. Free(fds, base) \in SUBSET Nat
  BY EnvAssumption DEF Free, Fd
<1> QED
  BY <1>1, LowestLemma DEF Free

(* Users have the descriptors below FDBASE.                                *)
LEMMA UserLemma == UserFd \subseteq Fd /\ 0 \in UserFd /\ 1 \in UserFd
                   /\ Fd \subseteq Nat /\ Unsaved \notin Fd /\ Shut \notin Fd
  BY EnvAssumption DEF UserFd, Fd, Unsaved, Shut

(* newenv() puts nothing aside.                                            *)
LEMMA NewenvLemma ==
    ASSUME NEW fds \in [Fd -> FdState]
    PROVE  /\ [u \in UserFd |-> fds[u]] \in [UserFd -> FdState]
           /\ NoSaves \in [UserFd -> Place]
  BY UserLemma DEF NoSaves, Place

(* quitenv(): a table again.                                               *)
LEMMA QuitenvLemma ==
    ASSUME NEW env \in Env, NEW fds \in [Fd -> FdState]
    PROVE  Quitenv(env, fds) \in [Fd -> FdState]
<1>1. \A u \in UserFd : env.savefd[u] \in Place
  BY DEF Env
<1>2. \A k \in Fd : fds[k] \in FdState /\ Closed \in FdState
  BY DEF FdState
<1>3. \A u \in UserFd : env.savefd[u] \notin {Unsaved, Shut} => env.savefd[u] \in Fd
  BY <1>1 DEF Place
<1> QED
  BY <1>2, <1>3 DEF Quitenv

(* The innermost environment changes, another is pushed, or some are quit. *)
LEMMA TopLemma ==
    ASSUME NEW q \in Seq(Env), q # <<>>, NEW r \in Env
    PROVE  LET s == [q EXCEPT ![Len(q)] = r]
           IN  /\ s \in Seq(Env) /\ Len(s) = Len(q) /\ s[Len(q)] = r
               /\ \A i \in 1..Len(q) - 1 : s[i] = q[i]
  OBVIOUS

LEMMA PushLemma ==
    ASSUME NEW q \in Seq(Env), NEW r \in Env
    PROVE  LET s == Append(q, r)
           IN  /\ s \in Seq(Env) /\ Len(s) = Len(q) + 1 /\ s[Len(q) + 1] = r
               /\ \A i \in 1..Len(q) : s[i] = q[i]
  OBVIOUS

LEMMA QuitLemma ==
    ASSUME NEW q \in Seq(Env), NEW n \in 0..Len(q)
    PROVE  LET s == SubSeq(q, 1, n)
           IN  /\ s \in Seq(Env) /\ Len(s) = n
               /\ \A i \in 1..n : s[i] = q[i]
<1>1. SubSeq(q, 1, n) = [i \in 1..n |-> q[i]]
  OBVIOUS
<1>2. n \in Nat /\ \A i \in 1..n : q[i] \in Env
  OBVIOUS
<1> QED
  BY <1>1, <1>2

LEMMA FrontLemma ==
    ASSUME NEW q \in Seq(Env), q # <<>>
    PROVE  /\ Len(q) \in Nat /\ Len(q) >= 1
           /\ Last(q) = q[Len(q)] /\ q[Len(q)] \in Env
           /\ Front(q) \in Seq(Env) /\ Len(Front(q)) = Len(q) - 1
           /\ \A i \in 1..Len(q) - 1 : Front(q)[i] = q[i]
<1>1. Len(q) \in Nat /\ Len(q) >= 1
  OBVIOUS
<1>2. Len(q) - 1 \in 0..Len(q)
  BY <1>1
<1>3. Last(q) = q[Len(q)] /\ q[Len(q)] \in Env
  BY <1>1 DEF Last
<1> QED
  BY <1>1, <1>2, <1>3, QuitLemma DEF Front

-----------------------------------------------------------------------------
(* What unwinding depends on, and what most actions leave alone.           *)
Same(r, s) == /\ r.type = s.type /\ r.kind = s.kind
              /\ r.pass = s.pass /\ r.xexec = s.xexec

-----------------------------------------------------------------------------
(* The invariant.  Environments of execute() are within others of its or   *)
(* what is read; files and texts within the command that reads them.       *)
Running == {"exec", "loop", "func"}

NestedAt(i) ==
    IF i = 1 THEN e[1].type = IF child THEN "exec" ELSE "none"
    ELSE /\ e[i].type # "none"
         /\ e[i].type \in Running => e[i - 1].type \in Running \union {"parse"}
         /\ e[i].type = "incl" => e[i - 1].type = "exec"
         /\ e[i].type = "parse" =>
               /\ e[i].kind \in Text
               /\ e[i].kind = "dot" => e[i - 1].type = "incl"
               /\ e[i].kind \in {"eval", "trap"} => e[i - 1].type = "exec"
Nested == \A i \in 1..Len(e) : NestedAt(i)

(* What the innermost one is for.                                          *)
AtWork == /\ pc # "exited" => e # <<>>
          /\ pc = "prompt" => e[Len(e)].type = "parse"
          /\ pc = "redirect" => e[Len(e)].type = "exec"
          /\ pc \in {"back", "break"} => e[Len(e)].type \in Running

(* A subshell is what its first command leaves with an exit, or the EXIT   *)
(* trap that is run then.                                                  *)
Ending == pc \in {"raise", "unwind", "exited"}
ChildLeaves ==
    child => /\ ~interactive
             /\ Len(e) = 1 => Ending
             /\ Len(e) >= 2 => \/ e[2].type \in Running /\ e[2].xexec
                               \/ e[2].type = "parse" /\ e[2].kind = "exittrap"

(* A break or continue is under way: the loop it is meant for takes it,    *)
(* and those within pass it on.  At other times no loop does.              *)
Leaving == Ending /\ how \in {"LBREAK", "LCONTIN"}
Aimed ==
    Leaving => /\ target \in 1..Len(e)
               /\ e[target].type = "loop" /\ ~e[target].pass
               /\ \A i \in target + 1..Len(e) :
                     \/ e[i].type = "exec"
                     \/ e[i].type = "loop" /\ e[i].pass
PassedOn == \A i \in 1..Len(e) : e[i].pass => Leaving /\ i > target

Control == Nested /\ AtWork /\ ChildLeaves /\ Aimed /\ PassedOn

(* Most steps leave the environments as they are, up to the innermost ones.*)
LEMMA FrameLemma ==
    ASSUME TypeInv, Control, e' \in Seq(Env), child' = child,
           interactive' = interactive,
           \A i \in 1..Len(e') :
               \/ i <= Len(e) /\ Same(e'[i], e[i])
               \/ i >= Len(e) /\ NestedAt(i)' /\ ~e'[i].pass,
           AtWork', ChildLeaves',
           Leaving' => /\ Leaving /\ target' = target
                       /\ target <= Len(e') /\ Len(e') <= Len(e)
                       /\ \A i \in 1..Len(e') : Same(e'[i], e[i]),
           Leaving /\ ~Leaving' => Len(e') <= target
    PROVE  Control'
<1>1. /\ Len(e) \in Nat /\ Len(e') \in Nat /\ target \in Nat
      /\ DOMAIN e = 1..Len(e) /\ DOMAIN e' = 1..Len(e')
  BY DEF TypeInv
<1>2. Nested'
  <2> SUFFICES ASSUME NEW i \in 1..Len(e') PROVE NestedAt(i)'
    BY DEF Nested
  <2>1. CASE i <= Len(e) /\ Same(e'[i], e[i])
    <3>1. NestedAt(i)
      BY <1>1, <2>1 DEF Control, Nested
    <3>2. CASE i = 1
      BY <2>1, <3>1, <3>2 DEF NestedAt, Same
    <3>3. CASE i # 1
      <4>1. i - 1 \in 1..Len(e') /\ i - 1 < Len(e)
        BY <1>1, <2>1, <3>3
      <4>2. Same(e'[i - 1], e[i - 1])
        BY <1>1, <4>1
      <4> QED
        BY <2>1, <3>1, <3>3, <4>2 DEF NestedAt, Same
    <3> QED
      BY <3>2, <3>3
  <2> QED
    BY <2>1
<1>3. Aimed'
  <2> SUFFICES ASSUME Leaving'
               PROVE  /\ target \in 1..Len(e')
                      /\ e'[target].type = "loop" /\ ~e'[target].pass
                      /\ \A i \in target + 1..Len(e') :
                            \/ e'[i].type = "exec"
                            \/ e'[i].type = "loop" /\ e'[i].pass
    BY DEF Aimed
  <2>1. /\ target \in 1..Len(e)
        /\ e[target].type = "loop" /\ ~e[target].pass
        /\ \A i \in target + 1..Len(e) :
              \/ e[i].type = "exec"
              \/ e[i].type = "loop" /\ e[i].pass
    BY DEF Control, Aimed
  <2>2. target \in 1..Len(e') /\ target + 1..Len(e') \subseteq 1..Len(e')
        /\ target + 1..Len(e') \subseteq target + 1..Len(e)
    BY <1>1, <2>1
  <2> QED
    BY <2>1, <2>2 DEF Same
<1>4. PassedOn'
  <2> SUFFICES ASSUME NEW i \in 1..Len(e'), e'[i].pass
               PROVE  Leaving' /\ i > target'
    BY DEF PassedOn
  <2>1. i <= Len(e) /\ Same(e'[i], e[i])
    OBVIOUS
  <2>2. e[i].pass /\ i \in 1..Len(e)
    BY <1>1, <2>1 DEF Same
  <2>3. Leaving /\ i > target
    BY <2>2 DEF Control, PassedOn
  <2> QED
    BY <1>1, <2>3
<1> QED
  BY <1>2, <1>3, <1>4 DEF Control

IInv == TypeInv /\ Control

Busy == pc \in {"prompt", "redirect", "back", "break"}

LEMMA OneOrMore == \A n \in Nat : n >= 1 => n = 1 \/ n >= 2
  OBVIOUS

LEMMA TwoOrThree == \A n \in Nat : /\ n - 1 = 1 => n = 2
                                   /\ n - 2 = 1 => n - 1 = 2
  OBVIOUS

(* While commands are executed nothing unwinds, and there is at least one. *)
LEMMA BusyLemma ==
    ASSUME IInv, Busy
    PROVE  /\ Len(e) \in Nat /\ Len(e) >= 2 /\ e # <<>> /\ Depth = Len(e)
           /\ Top = e[Len(e)] /\ Top \in Env
           /\ ~Leaving /\ \A i \in 1..Len(e) : ~e[i].pass
           /\ pc = "prompt" => Top.type = "parse"
           /\ pc = "redirect" => Top.type = "exec"
           /\ pc \in {"back", "break"} => Top.type \in Running
<1>1. e # <<>> /\ e \in Seq(Env)
  BY DEF IInv, TypeInv, Control, AtWork, Busy
<1>2. Len(e) \in Nat /\ Len(e) >= 1 /\ Top = e[Len(e)] /\ Top \in Env
  BY <1>1, FrontLemma DEF Top
<1>3. ~Leaving /\ \A i \in 1..Len(e) : ~e[i].pass
  BY DEF IInv, Control, PassedOn, Leaving, Ending, Busy
<1>4. /\ pc = "prompt" => Top.type = "parse"
      /\ pc = "redirect" => Top.type = "exec"
      /\ pc \in {"back", "break"} => Top.type \in Running
  BY <1>2 DEF IInv, Control, AtWork
<1>5. Len(e) # 1
  <2> SUFFICES ASSUME Len(e) = 1 PROVE FALSE
    OBVIOUS
  <2>1. NestedAt(1) /\ ~child
    BY DEF IInv, Control, Nested, ChildLeaves, Ending, Busy
  <2>2. Top.type = "none"
    BY <1>2, <2>1 DEF NestedAt
  <2> QED
    BY <1>4, <2>2 DEF Busy, Running
<1>6. Len(e) >= 2
  <2>1. Len(e) \in Nat /\ Len(e) >= 1
    BY <1>2
  <2> QED
    BY <1>5, <2>1, OneOrMore
<1> QED
  BY <1>1, <1>2, <1>3, <1>4, <1>6, Zenon DEF Depth

(* Environments may be quit, or only the fields of them change that do not *)
(* matter.                                                                 *)
LEMMA QuitControl ==
    ASSUME IInv, e' \in Seq(Env), Len(e') <= Len(e),
           \A i \in 1..Len(e') : Same(e'[i], e[i]),
           child' = child, interactive' = interactive, AtWork',
           child /\ Len(e') = 1 => Ending',
           Leaving' => Leaving /\ target' = target /\ target <= Len(e'),
           Leaving /\ ~Leaving' => Len(e') <= target
    PROVE  Control'
<1>1. /\ Len(e) \in Nat /\ Len(e') \in Nat
      /\ \A i \in 1..Len(e') : i <= Len(e) /\ Same(e'[i], e[i])
  BY DEF IInv, TypeInv
<1>2. ChildLeaves'
  <2>1. CASE Len(e') >= 2
    <3>1. Same(e'[2], e[2]) /\ Len(e) >= 2
      BY <1>1, <2>1
    <3> QED
      BY <2>1, <3>1 DEF IInv, Control, ChildLeaves, Same
  <2>2. CASE ~(Len(e') >= 2)
    BY <1>1, <2>2 DEF IInv, Control, ChildLeaves
  <2> QED
    BY <2>1, <2>2
<1> QED
  BY <1>1, <1>2, FrameLemma DEF IInv

LEMMA StayControl ==
    ASSUME IInv, Busy, e' \in Seq(Env), Len(e') = Len(e),
           \A i \in 1..Len(e) : Same(e'[i], e[i]),
           child' = child, interactive' = interactive,
           \/ pc' = pc
           \/ pc' = "raise" /\ how' \notin {"LBREAK", "LCONTIN"}
           \/ pc \in {"redirect", "back"} /\ pc' \in {"back", "break"}
    PROVE  Control'
<1>1. /\ Len(e) \in Nat /\ Len(e) >= 2 /\ ~Leaving
      /\ pc = "prompt" => e[Len(e)].type = "parse"
      /\ pc = "redirect" => e[Len(e)].type = "exec"
      /\ pc \in {"back", "break"} => e[Len(e)].type \in Running
  BY BusyLemma
<1>2. ~Leaving'
  BY DEF Leaving, Ending, Busy
<1>3. e'[Len(e)].type = e[Len(e)].type /\ e' # <<>>
  BY <1>1 DEF Same
<1>4. AtWork'
  BY <1>1, <1>3 DEF AtWork, Running, Busy
<1> QED
  BY <1>1, <1>2, <1>4, QuitControl

(* One is pushed.                                                          *)
LEMMA PushControl ==
    ASSUME IInv, ~Leaving, ~Leaving', e # <<>>,
           e' \in Seq(Env), Len(e') = Len(e) + 1,
           \A i \in 1..Len(e) : Same(e'[i], e[i]),
           ~e'[Len(e')].pass, NestedAt(Len(e))',
           child' = child, interactive' = interactive, AtWork',
           \/ Len(e) >= 2
           \/ e'[Len(e')].type = "parse" /\ e'[Len(e')].kind = "exittrap"
    PROVE  Control'
<1>1. Len(e) \in Nat /\ Len(e) >= 1 /\ Len(e') \in Nat
  BY DEF IInv, TypeInv
<1>2. \A i \in 1..Len(e') :
        \/ i <= Len(e) /\ Same(e'[i], e[i])
        \/ i >= Len(e) /\ NestedAt(i)' /\ ~e'[i].pass
  <2> TAKE i \in 1..Len(e')
  <2>1. CASE i = Len(e) + 1
    <3>1. i = Len(e')
      BY <2>1
    <3>2. NestedAt(i)'
      BY <3>1 DEF NestedAt
    <3> QED
      BY <1>1, <2>1, <3>1, <3>2
  <2>2. CASE i # Len(e) + 1
    BY <1>1, <2>2
  <2> QED
    BY <2>1, <2>2
<1>3. ChildLeaves'
  <2>1. CASE Len(e) >= 2
    <3>1. Same(e'[2], e[2])
      BY <1>1, <2>1
    <3> QED
      BY <1>1, <2>1, <3>1 DEF IInv, Control, ChildLeaves, Same
  <2>2. CASE Len(e) = 1
    <3>1. Len(e') = 2
      BY <2>2
    <3>2. e'[2].type = "parse" /\ e'[2].kind = "exittrap"
      BY <2>2, <3>1
    <3> QED
      BY <3>1, <3>2 DEF IInv, Control, ChildLeaves
  <2>3. Len(e) = 1 \/ Len(e) >= 2
    BY <1>1, OneOrMore
  <2> QED
    BY <2>1, <2>2, <2>3
<1> QED
  BY <1>2, <1>3, FrameLemma DEF IInv

-----------------------------------------------------------------------------
(* execute() is called, by shell() or for a part of a command.             *)
LEMMA ExecLemma ==
    ASSUME IInv, pc \in {"prompt", "redirect", "back"},
           NEW q \in Seq(Env), Len(q) = Len(e),
           \A i \in 1..Len(e) : Same(q[i], e[i]),
           NEW k \in Kind, NEW xerrok \in BOOLEAN,
           e' = Append(q, Newenv("exec", k, xerrok, FALSE, fd)),
           pc' = "redirect", rv' = 0, UNCHANGED <<fd, child, interactive, target>>
    PROVE  IInv'
<1> DEFINE n == Newenv("exec", k, xerrok, FALSE, fd)
<1>1. /\ Len(e) \in Nat /\ Len(e) >= 2 /\ e # <<>>
      /\ Top = e[Len(e)] /\ ~Leaving
      /\ Top.type \in Running \union {"parse"}
  BY BusyLemma DEF Busy, Running
<1>2. n \in Env /\ n.type = "exec" /\ n.pass = FALSE
  BY NewenvLemma DEF IInv, TypeInv, Newenv, Env
<1>3. e' = Append(q, n)
  OBVIOUS
<1> HIDE DEF n
<1>4. /\ e' \in Seq(Env) /\ Len(e') = Len(e) + 1 /\ e'[Len(e) + 1] = n
      /\ \A i \in 1..Len(e) : e'[i] = q[i]
  <2> DEFINE a == Append(q, n)
  <2>1. /\ a \in Seq(Env) /\ Len(a) = Len(q) + 1 /\ a[Len(q) + 1] = n
        /\ \A i \in 1..Len(q) : a[i] = q[i]
    BY <1>2, PushLemma
  <2>2. e' = a
    BY <1>3
  <2> HIDE DEF a
  <2> QED
    BY <2>1, <2>2
<1>5. \A i \in 1..Len(e) : Same(e'[i], e[i])
  BY <1>4
<1>6. e'[Len(e')] = n /\ e'[Len(e') - 1].type = Top.type /\ Len(e') # 1
  <2>1. Len(e') - 1 = Len(e) /\ Len(e) \in 1..Len(e) /\ Len(e') # 1
    BY <1>1, <1>4
  <2> QED
    BY <1>1, <1>4, <1>5, <2>1 DEF Same
<1>7. NestedAt(Len(e))'
  BY <1>1, <1>2, <1>6 DEF NestedAt, Running
<1>8. ~Leaving' /\ AtWork'
  <2>1. e' # <<>>
    <3>1. Len(e') # 0
      BY <1>1, <1>4
    <3> QED
      BY <3>1
  <2> QED
    BY <1>2, <1>6, <2>1 DEF Leaving, Ending, AtWork
<1>9. Control'
  BY <1>1, <1>2, <1>4, <1>5, <1>6, <1>7, <1>8, PushControl
<1> QED
  BY <1>4, <1>9 DEF IInv, TypeInv

(* The innermost environment changes in a way that does not matter.        *)
LEMMA SameLemma ==
    ASSUME IInv, e # <<>>, NEW r \in Env, Same(r, e[Len(e)])
    PROVE  LET q == [e EXCEPT ![Len(e)] = r]
           IN  /\ q \in Seq(Env) /\ Len(q) = Len(e)
               /\ \A i \in 1..Len(e) : Same(q[i], e[i])
<1> DEFINE q == [e EXCEPT ![Len(e)] = r]
<1>1. e \in Seq(Env) /\ Len(e) \in Nat
  BY DEF IInv, TypeInv
<1>2. /\ q \in Seq(Env) /\ Len(q) = Len(e) /\ q[Len(e)] = r
      /\ \A i \in 1..Len(e) - 1 : q[i] = e[i]
  BY <1>1, TopLemma
<1> HIDE DEF q
<1>3. \A i \in 1..Len(e) : Same(q[i], e[i])
  <2> TAKE i \in 1..Len(e)
  <2>1. CASE i = Len(e)
    BY <1>2, <2>1
  <2>2. CASE i # Len(e)
    BY <1>1, <1>2, <2>2 DEF Same
  <2> QED
    BY <2>1, <2>2
<1> QED
  BY <1>2, <1>3 DEF q

LEMMA ExecuteLemma ==
    ASSUME IInv, pc \in {"prompt", "redirect", "back"},
           NEW stage \in {"begun", "cond", "part"}, NEW xerrok \in BOOLEAN,
           Execute(stage, xerrok, FALSE)
    PROVE  IInv'
<1> DEFINE r == [Top EXCEPT !.stage = stage]
           q == [e EXCEPT ![Len(e)] = r]
<1>1. /\ Top \in Env /\ Depth = Len(e) /\ Top = e[Len(e)] /\ e \in Seq(Env)
      /\ e # <<>>
  BY BusyLemma DEF Busy, IInv, TypeInv
<1>2. r \in Env /\ Same(r, Top)
  BY <1>1 DEF Env, Same
<1>3. PICK k \in Fitting(Depth) :
        e' = Append([e EXCEPT ![Depth].stage = stage],
                    Newenv("exec", k, xerrok, FALSE, fd))
  BY DEF Execute
<1>4. k \in Kind
  BY DEF Fitting, Kind
<1>5. [e EXCEPT ![Depth].stage = stage] = q
  BY <1>1
<1> HIDE DEF r
<1>6. /\ q \in Seq(Env) /\ Len(q) = Len(e)
      /\ \A i \in 1..Len(e) : Same(q[i], e[i])
  BY <1>1, <1>2, SameLemma
<1> HIDE DEF q
<1> QED
  BY <1>3, <1>4, <1>5, <1>6, ExecLemma DEF Execute, modes

(* shell() is called by c_eval() or runtrap().                             *)
LEMMA ReadLemma ==
    ASSUME IInv, pc = "redirect", NEW text \in {"eval", "trap"}, Read(text)
    PROVE  IInv'
<1> DEFINE n == Newenv("parse", text, FALSE, FALSE, fd)
<1>1. /\ Len(e) \in Nat /\ Len(e) >= 2 /\ e # <<>> /\ Depth = Len(e)
      /\ Top = e[Len(e)] /\ ~Leaving /\ Top.type = "exec"
  BY BusyLemma DEF Busy
<1>2. n \in Env /\ n.type = "parse" /\ n.kind = text /\ n.pass = FALSE
  BY NewenvLemma DEF IInv, TypeInv, Newenv, Env, Text
<1>3. e' = Append(e, n)
  BY DEF Read
<1> HIDE DEF n
<1>4. /\ e' \in Seq(Env) /\ Len(e') = Len(e) + 1 /\ e'[Len(e) + 1] = n
      /\ \A i \in 1..Len(e) : e'[i] = e[i]
  BY <1>2, <1>3, PushLemma DEF IInv, TypeInv
<1>5. \A i \in 1..Len(e) : Same(e'[i], e[i])
  BY <1>4 DEF Same
<1>6. e'[Len(e')] = n /\ e'[Len(e') - 1].type = "exec" /\ Len(e') # 1
  BY <1>1, <1>4
<1>7. NestedAt(Len(e))'
  BY <1>1, <1>2, <1>6 DEF NestedAt, Text, Running
<1>8. ~Leaving' /\ AtWork'
  <2>1. e' # <<>>
    BY <1>1, <1>4
  <2> QED
    BY <1>2, <1>6, <2>1 DEF Leaving, Ending, AtWork, Read
<1>9. Control'
  BY <1>1, <1>2, <1>4, <1>5, <1>6, <1>7, <1>8, PushControl DEF Read, modes
<1> QED
  BY <1>4, <1>9 DEF IInv, TypeInv, Read, modes

(* unwind() runs the EXIT trap.                                            *)
LEMMA RunExitTrapLemma == ASSUME IInv, RunExitTrap PROVE IInv'
<1> DEFINE n == Newenv("parse", "exittrap", FALSE, FALSE, fd)
<1>1. Len(e) \in Nat /\ Len(e) >= 1 /\ e # <<>>
  BY DEF IInv, TypeInv, Control, AtWork, RunExitTrap
<1>2. n \in Env /\ n.type = "parse" /\ n.kind = "exittrap" /\ n.pass = FALSE
  BY NewenvLemma DEF IInv, TypeInv, Newenv, Env, Text
<1>3. e' = Append(e, n)
  BY DEF RunExitTrap
<1> HIDE DEF n
<1>4. /\ e' \in Seq(Env) /\ Len(e') = Len(e) + 1 /\ e'[Len(e) + 1] = n
      /\ \A i \in 1..Len(e) : e'[i] = e[i]
  BY <1>2, <1>3, PushLemma DEF IInv, TypeInv
<1>5. \A i \in 1..Len(e) : Same(e'[i], e[i])
  BY <1>4 DEF Same
<1>6. e'[Len(e')] = n /\ Len(e') # 1
  BY <1>1, <1>4
<1>7. NestedAt(Len(e))'
  BY <1>1, <1>2, <1>6 DEF NestedAt, Text, Running
<1>8. ~Leaving /\ ~Leaving' /\ AtWork'
  <2>1. e' # <<>>
    BY <1>1, <1>4
  <2> QED
    BY <1>2, <1>6, <2>1 DEF Leaving, Ending, AtWork, RunExitTrap, Exits
<1>9. Control'
  BY <1>1, <1>2, <1>4, <1>5, <1>6, <1>7, <1>8, PushControl DEF RunExitTrap
<1> QED
  BY <1>4, <1>9 DEF IInv, TypeInv, RunExitTrap

-----------------------------------------------------------------------------
(* The environments stay.                                                  *)
StaysAt == \/ pc' = pc
           \/ pc' = "raise" /\ how' \notin {"LBREAK", "LCONTIN"}
           \/ pc \in {"redirect", "back"} /\ pc' \in {"back", "break"}

LEMMA StayLemma ==
    ASSUME IInv, Busy, e' = e, fd' \in [Fd -> FdState], rv' \in {0, 1},
           UNCHANGED <<child, interactive, target>>, StaysAt
    PROVE  IInv'
<1>1. /\ e' \in Seq(Env) /\ Len(e') = Len(e)
      /\ \A i \in 1..Len(e) : Same(e'[i], e[i])
  BY DEF IInv, TypeInv, Same
<1>2. Control'
  BY <1>1, StayControl DEF StaysAt
<1> QED
  BY <1>1, <1>2 DEF IInv, TypeInv

LEMMA ChangeLemma ==
    ASSUME IInv, Busy, NEW r \in Env, Same(r, Top), e' = [e EXCEPT ![Len(e)] = r],
           fd' \in [Fd -> FdState], rv' \in {0, 1},
           UNCHANGED <<child, interactive, target>>, StaysAt
    PROVE  IInv'
<1>1. e # <<>> /\ Same(r, e[Len(e)])
  BY BusyLemma
<1>2. /\ e' \in Seq(Env) /\ Len(e') = Len(e)
      /\ \A i \in 1..Len(e) : Same(e'[i], e[i])
  BY <1>1, SameLemma
<1>3. Control'
  BY <1>2, StayControl DEF StaysAt
<1> QED
  BY <1>2, <1>3 DEF IInv, TypeInv

(* A command ends where it is, or an error, an exit or an interrupt is     *)
(* raised there.                                                           *)
LEMMA EndsLemma ==
    ASSUME IInv, pc \in {"redirect", "back"}, NEW v \in {0, 1}, Ends(v) PROVE IInv'
  BY StayLemma DEF Ends, Busy, StaysAt, IInv, TypeInv, modes

LEMMA SimpleLemma ==
    ASSUME IInv, Ordinary \/ Errorf \/ EndOfScript \/ Comexec \/ IosetupFails
                 \/ Paren \/ PipeCannot
    PROVE  IInv'
<1>1. e' = e /\ fd' = fd /\ rv' \in {0, 1} /\ UNCHANGED <<child, interactive, target>>
  BY DEF Ordinary, Errorf, EndOfScript, Comexec, IosetupFails, Paren, PipeCannot,
         IInv, TypeInv, modes
<1>2. Busy /\ StaysAt
  BY DEF Ordinary, Errorf, EndOfScript, Comexec, IosetupFails, Paren, PipeCannot,
         Builtin, Body, Redirectable, Leaves, Raise, Busy, StaysAt
<1> QED
  BY <1>1, <1>2, StayLemma DEF IInv, TypeInv

(* fork() fails with the pipes open.                                       *)
LEMMA ForkFails == ASSUME IInv, ComsubFails \/ PipeFails PROVE IInv'
<1> DEFINE n == Lowest(Free(fd, FDBASE))
           m == Lowest(Free(fd, FDBASE) \ {n})
<1>1. fd[1] \in FdState /\ "pipe" \in FdState
  BY UserLemma DEF IInv, TypeInv, FdState, File
<1>2. \/ fd' = [fd EXCEPT ![n] = "pipe", ![m] = fd[1], ![1] = "pipe"]
      \/ fd' = [fd EXCEPT ![n] = "pipe", ![m] = "pipe"]
  BY DEF ComsubFails, PipeFails
<1> HIDE DEF n, m
<1>3. fd' \in [Fd -> FdState]
  BY <1>1, <1>2 DEF IInv, TypeInv
<1>4. e' = e /\ rv' = rv /\ UNCHANGED <<child, interactive, target>> /\ Busy /\ StaysAt
  BY DEF ComsubFails, PipeFails, modes, Back, Raise, Busy, StaysAt
<1> QED
  BY <1>3, <1>4, StayLemma DEF IInv, TypeInv

(* The innermost environment's fields.                                     *)
LEMMA WorkLemma ==
    ASSUME IInv, Busy
    PROVE  /\ Top \in Env /\ Depth = Len(e) /\ e # <<>> /\ Top = e[Len(e)]
           /\ Top.xerrok \in BOOLEAN /\ Top.status \in {0, 1}
           /\ Top.savefd \in [UserFd -> Place] /\ Top.ios \in Nat
           /\ e \in Seq(Env) /\ fd \in [Fd -> FdState] /\ rv \in {0, 1}
<1>1. Top \in Env /\ Depth = Len(e) /\ e # <<>> /\ Top = e[Len(e)]
  BY BusyLemma
<1> QED
  BY <1>1 DEF Env, IInv, TypeInv

(* The parts of a compound command.                                        *)
LEMMA CompoundLemma ==
    ASSUME IInv, Command \/ Begin \/ List \/ If \/ Bang \/ Function PROVE IInv'
<1>1. Busy /\ pc \in {"prompt", "redirect", "back"}
  BY DEF Command, Begin, List, If, Bang, Function, Body, Back, Busy
<1>2. Top.xerrok \in BOOLEAN /\ rv \in {0, 1} /\ 1 - rv \in {0, 1}
  BY <1>1, WorkLemma
<1>3. CASE Execute("cond", TRUE, FALSE)
  BY <1>1, <1>3, ExecuteLemma
<1>4. CASE Execute("part", Top.xerrok, FALSE)
  BY <1>1, <1>2, <1>4, ExecuteLemma
<1>5. CASE Execute("begun", FALSE, FALSE)
  BY <1>1, <1>5, ExecuteLemma
<1>6. ASSUME NEW v \in {0, 1}, Ends(v), pc # "prompt" PROVE IInv'
  BY <1>1, <1>6, EndsLemma
<1> QED
  BY <1>2, <1>3, <1>4, <1>5, <1>6
     DEF Command, Begin, List, If, Bang, Function, Back

(* `true && false': what is left of it is what -e does not look at.        *)
LEMMA AndLemma == ASSUME IInv, And PROVE IInv'
<1>1. Busy /\ pc = "back"
  BY DEF And, Back, Busy
<1>2. Top \in Env /\ Top.xerrok \in BOOLEAN /\ rv \in {0, 1} /\ Depth = Len(e)
      /\ Top = e[Len(e)] /\ e \in Seq(Env)
  BY <1>1, WorkLemma
<1>3. CASE Execute("part", Top.xerrok, FALSE)
  BY <1>1, <1>2, <1>3, ExecuteLemma
<1>4. CASE Ends(rv)
  BY <1>1, <1>2, <1>4, EndsLemma
<1>5. CASE /\ e' = [e EXCEPT ![Depth].xerrok = TRUE]
           /\ pc' = "break"
           /\ UNCHANGED <<fd, how, rv, modes, target, failed>>
  <2> DEFINE r == [Top EXCEPT !.xerrok = TRUE]
  <2>1. r \in Env /\ Same(r, Top)
    BY <1>2 DEF Env, Same
  <2>2. e' = [e EXCEPT ![Len(e)] = r]
    BY <1>2, <1>5
  <2> HIDE DEF r
  <2> QED
    BY <1>1, <1>5, <2>1, <2>2, ChangeLemma DEF IInv, TypeInv, StaysAt, modes
<1> QED
  BY <1>3, <1>4, <1>5 DEF And

(* Loops execute their condition with XERROK.                              *)
LEMMA LoopLemma == ASSUME IInv, Loop PROVE IInv'
<1>1. Busy /\ pc = "back"
  BY DEF Loop, Back, Busy
<1>2. Top \in Env /\ Top.xerrok \in BOOLEAN /\ rv \in {0, 1} /\ Depth = Len(e)
      /\ Top = e[Len(e)] /\ e \in Seq(Env) /\ e # <<>> /\ Top.status \in {0, 1}
  BY <1>1, WorkLemma
<1>3. CASE Execute("part", Top.xerrok, FALSE)
  BY <1>1, <1>2, <1>3, ExecuteLemma
<1>4. CASE Ends(Top.status)
  BY <1>1, <1>2, <1>4, EndsLemma
<1>5. ASSUME NEW k \in Fitting(Depth),
             e' = Append([e EXCEPT ![Depth].stage = "cond",
                            ![Depth].status = IF Top.stage = "part" THEN rv ELSE 0],
                         Newenv("exec", k, TRUE, FALSE, fd)),
             pc' = "redirect", rv' = 0,
             UNCHANGED <<fd, how, modes, target, failed>>
      PROVE  IInv'
  <2> DEFINE s == IF Top.stage = "part" THEN rv ELSE 0
             r == [Top EXCEPT !.stage = "cond", !.status = s]
             q == [e EXCEPT ![Len(e)] = r]
  <2>1. s \in {0, 1} /\ k \in Kind /\ TRUE \in BOOLEAN
    BY <1>2 DEF Fitting, Kind
  <2>2. [e EXCEPT ![Depth].stage = "cond", ![Depth].status = s] = q
    <3> HIDE DEF s
    <3> QED
      BY <1>2
  <2>3. r \in Env /\ Same(r, Top)
    <3> HIDE DEF s
    <3> QED
      BY <1>2, <2>1 DEF Env, Same
  <2> HIDE DEF r
  <2>4. /\ q \in Seq(Env) /\ Len(q) = Len(e)
        /\ \A i \in 1..Len(e) : Same(q[i], e[i])
    BY <1>2, <2>3, SameLemma
  <2>5. e' = Append(q, Newenv("exec", k, TRUE, FALSE, fd))
    BY <1>5, <2>2
  <2> HIDE DEF q
  <2> QED
    BY <1>1, <1>5, <2>1, <2>4, <2>5, ExecLemma DEF modes
<1> QED
  BY <1>3, <1>4, <1>5 DEF Loop

(* A loop or a function begins.                                            *)
LEMMA MarkLemma ==
    ASSUME IInv, NEW kind \in {"loop", "call"}, NEW type \in {"loop", "func"},
           Mark(kind, type)
    PROVE  IInv'
<1> DEFINE r == [Top EXCEPT !.type = type]
<1>1. Busy /\ pc = "redirect" /\ pc' = "back"
  BY DEF Mark, Body, Busy
<1>2. Top \in Env /\ Depth = Len(e) /\ Top = e[Len(e)] /\ e \in Seq(Env) /\ e # <<>>
  BY <1>1, WorkLemma
<1>3. Len(e) \in Nat /\ Len(e) >= 2 /\ ~Leaving /\ Top.type = "exec"
      /\ \A i \in 1..Len(e) : ~e[i].pass
  BY <1>1, BusyLemma
<1>4. /\ r \in Env /\ r.type = type /\ r.kind = Top.kind /\ r.pass = Top.pass
      /\ r.xexec = Top.xexec
  BY <1>2 DEF Env
<1>5. e' = [e EXCEPT ![Len(e)] = r]
  BY <1>2 DEF Mark
<1> HIDE DEF r
<1>6. /\ e' \in Seq(Env) /\ Len(e') = Len(e) /\ e'[Len(e)] = r
      /\ \A i \in 1..Len(e) - 1 : e'[i] = e[i]
  BY <1>2, <1>4, <1>5, TopLemma
<1>7. NestedAt(Len(e))'
  <2>1. NestedAt(Len(e))
    BY <1>3 DEF IInv, Control, Nested
  <2>2. Len(e) # 1 /\ Len(e) - 1 \in 1..Len(e) - 1
    BY <1>3
  <2>3. e'[Len(e) - 1].type \in Running \union {"parse"}
    BY <1>2, <1>3, <1>6, <2>1, <2>2 DEF NestedAt, Running
  <2> QED
    BY <1>4, <1>6, <2>2, <2>3 DEF NestedAt, Running
<1>8. AtWork'
  BY <1>1, <1>2, <1>4, <1>6 DEF AtWork, Running
<1>9. ~Leaving'
  BY <1>1 DEF Leaving, Ending
<1>10. \A i \in 1..Len(e') :
         \/ i <= Len(e) /\ Same(e'[i], e[i])
         \/ i >= Len(e) /\ NestedAt(i)' /\ ~e'[i].pass
  <2> TAKE i \in 1..Len(e')
  <2>1. CASE i = Len(e)
    <3>1. NestedAt(i)' /\ i = Len(e')
      BY <1>6, <1>7, <2>1 DEF NestedAt
    <3> QED
      BY <1>2, <1>3, <1>4, <1>6, <2>1, <3>1
  <2>2. CASE i # Len(e)
    BY <1>3, <1>6, <2>2 DEF Same
  <2> QED
    BY <2>1, <2>2
<1>11. ChildLeaves'
  <2>1. CASE Len(e) = 2
    BY <1>2, <1>3, <1>4, <1>6, <2>1 DEF IInv, Control, ChildLeaves, Mark, modes, Running
  <2>2. CASE Len(e) # 2
    <3>1. e'[2] = e[2] /\ Len(e') # 1
      BY <1>3, <1>6, <2>2
    <3> QED
      BY <1>3, <1>6, <3>1 DEF IInv, Control, ChildLeaves, Mark, modes
  <2> QED
    BY <2>1, <2>2
<1>12. Control'
  BY <1>6, <1>8, <1>9, <1>3, <1>10, <1>11, FrameLemma DEF IInv, Mark, modes
<1> QED
  BY <1>6, <1>12 DEF IInv, TypeInv, Mark, modes

-----------------------------------------------------------------------------
(* Redirections, pipelines and exec change the descriptors.                *)
LEMMA SavefdLemma ==
    ASSUME NEW fds \in [Fd -> FdState], NEW u \in UserFd
    PROVE  /\ ~CannotSave(fds, u) => Savefd(fds, u) \in Place
           /\ Copied(fds, u, Savefd(fds, u)) \in [Fd -> FdState]
<1>1. ~CannotSave(fds, u) => Savefd(fds, u) \in Place
  <2>1. FDBASE \in Nat
    BY EnvAssumption
  <2> QED
    BY <2>1, FreeLemma DEF Savefd, CannotSave, Place
<1>2. fds[u] \in FdState
  BY UserLemma
<1> QED
  BY <1>1, <1>2 DEF Copied

(* A redirection that is done: x is what the innermost environment has of u*)
PutAside(u, x) ==
    /\ x \in Place
    /\ \E r \in Env : /\ e' = [e EXCEPT ![Len(e)] = r] /\ Same(r, Top)
                      /\ r.was = Top.was
                      /\ r.savefd = [Top.savefd EXCEPT ![u] = x]

(* A redirection that is done: what the innermost environment becomes.     *)
LEMMA RedirectedTop ==
    ASSUME IInv, pc = "redirect", NEW fds \in [Fd -> FdState], NEW u \in UserFd,
           NEW from, NEW opened, Redirected(fds, u, from, opened),
           ~(NeedsSave(u) /\ from # u /\ CannotSave(fds, u))
    PROVE  LET n == IF from = u THEN Shut ELSE Savefd(fds, u)
           IN  PutAside(u, IF NeedsSave(u) THEN n ELSE Top.savefd[u])
<1> DEFINE n == IF from = u THEN Shut ELSE Savefd(fds, u)
           x == IF NeedsSave(u) THEN n ELSE Top.savefd[u]
           a == Top.ios + 1
           r == [Top EXCEPT !.ios = a, !.savefd[u] = x]
<1>1. /\ Top \in Env /\ Depth = Len(e) /\ e # <<>> /\ Top = e[Len(e)]
      /\ Top.savefd \in [UserFd -> Place] /\ Top.ios \in Nat /\ e \in Seq(Env)
  BY WorkLemma DEF Busy
<1>2. x \in Place
  BY <1>1, SavefdLemma DEF Place
<1>3. e' = [e EXCEPT ![Len(e)].ios = a, ![Len(e)].savefd[u] = x]
  <2>1. e' = [e EXCEPT ![Depth].ios = @ + 1,
                       ![Depth].savefd[u] = IF NeedsSave(u) THEN n ELSE @]
    BY DEF Redirected
  <2>2. /\ e[Depth].ios + 1 = a
        /\ (IF NeedsSave(u) THEN n ELSE e[Depth].savefd[u]) = x
    BY <1>1
  <2> HIDE DEF n, a, x
  <2> QED
    BY <1>1, <2>1, <2>2
<1> HIDE DEF n, x
<1>4. e' = [e EXCEPT ![Len(e)] = r]
  <2> DEFINE L == Len(e)
  <2>1. L \in 1..Len(e) /\ e[L] \in Env /\ e \in Seq(Env) /\ e[L] = Top
    BY <1>1
  <2> HIDE DEF L, a
  <2>2. [e EXCEPT ![L].ios = a, ![L].savefd[u] = x]
          = [e EXCEPT ![L] = [e[L] EXCEPT !.ios = a, !.savefd[u] = x]]
    BY <2>1 DEF Env
  <2> QED
    BY <1>3, <2>1, <2>2 DEF L
<1>5. /\ r \in Env /\ Same(r, Top) /\ r.was = Top.was
      /\ r.savefd = [Top.savefd EXCEPT ![u] = x]
  <2>1. [Top.savefd EXCEPT ![u] = x] \in [UserFd -> Place] /\ a \in Nat
    BY <1>1, <1>2
  <2> HIDE DEF a
  <2> QED
    BY <1>1, <2>1 DEF Env, Same
<1> QED
  BY <1>2, <1>4, <1>5 DEF n, x, PutAside

LEMMA RedirectedLemma ==
    ASSUME IInv, pc = "redirect", NEW fds \in [Fd -> FdState], NEW u \in UserFd,
           NEW from \in Fd \union {Shut}, NEW opened \in BOOLEAN,
           Redirected(fds, u, from, opened)
    PROVE  IInv'
<1> DEFINE n == IF from = u THEN Shut ELSE Savefd(fds, u)
           saved == IF NeedsSave(u) THEN Copied(fds, u, n) ELSE fds
           moved == IF from \in {u, Shut} THEN saved
                    ELSE [saved EXCEPT ![u] = saved[from]]
<1>1. Busy /\ fd \in [Fd -> FdState] /\ rv \in {0, 1}
  BY WorkLemma DEF Busy
<1>2. CASE NeedsSave(u) /\ from # u /\ CannotSave(fds, u)
  <2>1. fd' = fds /\ e' = e /\ rv' = rv /\ UNCHANGED <<child, interactive, target>>
        /\ StaysAt
    BY <1>2 DEF Redirected, Raise, modes, StaysAt
  <2> QED
    BY <1>1, <2>1, StayLemma
<1>3. CASE ~(NeedsSave(u) /\ from # u /\ CannotSave(fds, u))
  <2>1. fd' = IF opened /\ from # u THEN [moved EXCEPT ![from] = Closed]
              ELSE IF from = Shut THEN [moved EXCEPT ![u] = Closed]
              ELSE moved
    BY <1>3 DEF Redirected
  <2>2. saved \in [Fd -> FdState]
    BY SavefdLemma DEF Copied
  <2>3. Closed \in FdState /\ u \in Fd
    BY UserLemma DEF FdState
  <2>4. fd' \in [Fd -> FdState]
    <3> HIDE DEF saved
    <3> QED
      BY <2>1, <2>2, <2>3
  <2>5. PICK r \in Env : e' = [e EXCEPT ![Len(e)] = r] /\ Same(r, Top)
    <3>1. PutAside(u, IF NeedsSave(u) THEN n ELSE Top.savefd[u])
      BY <1>3, RedirectedTop
    <3> QED
      BY <3>1 DEF PutAside
  <2>6. /\ rv' = rv /\ pc' = pc /\ UNCHANGED <<child, interactive, target>>
    BY <1>3 DEF Redirected, modes
  <2> QED
    BY <1>1, <2>4, <2>5, <2>6, ChangeLemma DEF StaysAt
<1> QED
  BY <1>2, <1>3

LEMMA IosetupLemma == ASSUME IInv, Iosetup PROVE IInv'
<1>1. CASE IosetupFails
  BY <1>1, SimpleLemma
<1>2. ASSUME NEW u \in UserFd, Open(u) PROVE IInv'
  <2> DEFINE k == Lowest(Free(fd, 0))
  <2>1. k \in Fd
    BY <1>2, FreeLemma DEF Open, IInv, TypeInv
  <2>2. [fd EXCEPT ![k] = "file"] \in [Fd -> FdState]
    <3> HIDE DEF k
    <3> QED
      BY <2>1 DEF IInv, TypeInv, FdState, File
  <2>3. Redirected([fd EXCEPT ![k] = "file"], u, k, TRUE) /\ pc = "redirect"
    BY <1>2 DEF Open, Redirectable
  <2> HIDE DEF k
  <2> QED
    BY <2>1, <2>2, <2>3, RedirectedLemma
<1>3. ASSUME NEW u \in UserFd, Close(u) PROVE IInv'
  BY <1>3, RedirectedLemma DEF Close, Redirectable, IInv, TypeInv
<1>4. ASSUME NEW u \in UserFd, NEW v \in UserFd, Dup(u, v) PROVE IInv'
  BY <1>4, RedirectedLemma, UserLemma DEF Dup, Redirectable, IInv, TypeInv
<1> QED
  BY <1>1, <1>2, <1>3, <1>4 DEF Iosetup

(* Pipelines put descriptors 0 and 1 aside.                                *)
LEMMA PipeTop ==
    ASSUME IInv, Pipe
    PROVE  LET n == Savefd(fd, 0)
               m == Savefd(Copied(fd, 0, n), 1)
           IN  /\ n \in Place /\ m \in Place /\ Copied(fd, 0, n) \in [Fd -> FdState]
               /\ \E r \in Env : /\ e' = [e EXCEPT ![Len(e)] = r] /\ Same(r, Top)
                                 /\ r.was = Top.was
                                 /\ r.savefd = [Top.savefd EXCEPT ![0] = n, ![1] = m]
<1> DEFINE n == Savefd(fd, 0)
           one == Copied(fd, 0, n)
           m == Savefd(one, 1)
           r == [Top EXCEPT !.savefd[0] = n, !.savefd[1] = m]
<1>1. /\ Top \in Env /\ Depth = Len(e) /\ e # <<>> /\ Top = e[Len(e)]
      /\ Top.savefd \in [UserFd -> Place] /\ e \in Seq(Env) /\ fd \in [Fd -> FdState]
  <2>1. Busy
    BY DEF Pipe, Body, Busy
  <2> QED
    BY <2>1, WorkLemma
<1>2. /\ e' = [e EXCEPT ![Depth].savefd[0] = n, ![Depth].savefd[1] = m]
      /\ ~CannotSave(fd, 0) /\ ~CannotSave(one, 1)
  BY DEF Pipe
<1>3. n \in Place /\ one \in [Fd -> FdState]
  BY <1>1, <1>2, SavefdLemma, UserLemma
<1>4. m \in Place
  <2> HIDE DEF one
  <2> QED
    BY <1>2, <1>3, SavefdLemma, UserLemma
<1> HIDE DEF n, m
<1>5. /\ r \in Env /\ Same(r, Top) /\ r.was = Top.was
      /\ r.savefd = [Top.savefd EXCEPT ![0] = n, ![1] = m]
  <2>1. [Top.savefd EXCEPT ![0] = n, ![1] = m] \in [UserFd -> Place]
    BY <1>1, <1>3, <1>4
  <2> QED
    BY <1>1, <2>1 DEF Env, Same
<1>6. e' = [e EXCEPT ![Len(e)] = r]
  <2> DEFINE L == Len(e)
  <2>1. L \in 1..Len(e) /\ e[L] \in Env /\ e \in Seq(Env)
    BY <1>1
  <2>2. r = [e[L] EXCEPT !.savefd[0] = n, !.savefd[1] = m]
    BY <1>1
  <2>3. e' = [e EXCEPT ![L].savefd[0] = n, ![L].savefd[1] = m]
    BY <1>1, <1>2
  <2> HIDE DEF L, r
  <2>4. [e EXCEPT ![L].savefd[0] = n, ![L].savefd[1] = m]
          = [e EXCEPT ![L] = [e[L] EXCEPT !.savefd[0] = n, !.savefd[1] = m]]
    BY <2>1 DEF Env
  <2> QED
    BY <2>2, <2>3, <2>4 DEF L
<1> QED
  BY <1>3, <1>4, <1>5, <1>6 DEF n, m

LEMMA PipeLemma == ASSUME IInv, Pipe PROVE IInv'
<1> DEFINE n == Savefd(fd, 0)
           one == Copied(fd, 0, n)
           m == Savefd(one, 1)
<1>1. Busy /\ rv \in {0, 1}
  <2>1. Busy
    BY DEF Pipe, Body, Busy
  <2> QED
    BY <2>1, WorkLemma
<1>2. PICK r \in Env : e' = [e EXCEPT ![Len(e)] = r] /\ Same(r, Top)
  BY PipeTop
<1>3. fd' \in [Fd -> FdState]
  <2>1. one \in [Fd -> FdState] /\ fd' = [Copied(one, 1, m) EXCEPT ![0] = "pipe", ![1] = "pipe"]
    BY PipeTop DEF Pipe
  <2> HIDE DEF one
  <2>2. Copied(one, 1, m) \in [Fd -> FdState]
    BY <2>1, SavefdLemma, UserLemma
  <2> QED
    BY <2>1, <2>2 DEF FdState, File
<1>4. rv' = rv /\ UNCHANGED <<child, interactive, target>> /\ StaysAt
  BY DEF Pipe, Body, modes, StaysAt
<1> QED
  BY <1>1, <1>2, <1>3, <1>4, ChangeLemma

LEMMA LastOfPipeLemma == ASSUME IInv, LastOfPipe PROVE IInv'
<1> DEFINE m == Top.savefd[1]
           r == [Top EXCEPT !.savefd[1] = Unsaved]
<1>1. /\ Busy /\ Top \in Env /\ Depth = Len(e) /\ e # <<>> /\ Top = e[Len(e)]
      /\ Top.savefd \in [UserFd -> Place]
      /\ e \in Seq(Env) /\ fd \in [Fd -> FdState]
  <2>1. Busy
    BY DEF LastOfPipe, Back, Busy
  <2> QED
    BY <2>1, WorkLemma
<1>2. /\ e' = [e EXCEPT ![Depth].savefd[1] = Unsaved]
      /\ fd' = [k \in Fd |-> CASE k = 0 -> Closed
                               [] k = 1 -> IF m \in Fd THEN fd[m] ELSE Closed
                               [] OTHER -> IF k = m THEN Closed ELSE fd[k]]
      /\ rv' \in {0, 1} /\ UNCHANGED <<child, interactive, target>> /\ StaysAt
  BY DEF LastOfPipe, Back, modes, StaysAt
<1>3. r \in Env /\ Same(r, Top)
  <2>1. [Top.savefd EXCEPT ![1] = Unsaved] \in [UserFd -> Place]
    BY <1>1 DEF Place
  <2> QED
    BY <1>1, <2>1 DEF Env, Same
<1>4. e' = [e EXCEPT ![Len(e)] = r]
  BY <1>1, <1>2
<1>5. fd' \in [Fd -> FdState]
  <2> HIDE DEF m
  <2>1. Closed \in FdState /\ \A k \in Fd : fd[k] \in FdState
    BY <1>1 DEF FdState
  <2>2. (IF m \in Fd THEN fd[m] ELSE Closed) \in FdState
    BY <2>1
  <2> QED
    BY <1>2, <2>1, <2>2
<1> HIDE DEF r, m
<1> QED
  BY <1>1, <1>2, <1>3, <1>4, <1>5, ChangeLemma

(* exec without a command: what is put aside is given up.                  *)
LEMMA C_execLemma == ASSUME IInv, C_exec PROVE IInv'
<1>1. /\ Busy /\ Top \in Env /\ Depth = Len(e) /\ e # <<>> /\ Top = e[Len(e)]
      /\ e \in Seq(Env) /\ fd \in [Fd -> FdState] /\ Len(e) \in Nat
  <2>1. Busy
    BY DEF C_exec, Builtin, Body, Busy
  <2> QED
    BY <2>1, WorkLemma
<1>2. fd' \in [Fd -> FdState]
  BY <1>1 DEF C_exec, FdState
<1>3. ASSUME NEW i \in 1..Len(e) PROVE e'[i] \in Env /\ Same(e'[i], e[i])
  <2> DEFINE Kept(u) == /\ Top.savefd[u] # Unsaved
                        /\ \A k \in i..Depth - 1 : e[k].savefd[u] = Unsaved
             w == [u \in UserFd |-> IF Kept(u) THEN fd[u] ELSE e[i].was[u]]
             env == [e[i] EXCEPT !.was = w]
  <2>1. e'[i] = IF i = Depth THEN [env EXCEPT !.savefd = NoSaves] ELSE env
    BY <1>1 DEF C_exec
  <2>2. e[i] \in Env
    BY <1>1
  <2>3. w \in [UserFd -> FdState]
    <3>1. e[i].was \in [UserFd -> FdState]
      BY <2>2 DEF Env
    <3> QED
      BY <1>1, <3>1, UserLemma
  <2>4. NoSaves \in [UserFd -> Place]
    BY <1>1, NewenvLemma
  <2> HIDE DEF w
  <2>5. env \in Env /\ Same(env, e[i])
    BY <2>2, <2>3 DEF Env, Same
  <2> HIDE DEF env
  <2>6. /\ [env EXCEPT !.savefd = NoSaves] \in Env
        /\ Same([env EXCEPT !.savefd = NoSaves], e[i])
    BY <2>4, <2>5 DEF Env, Same
  <2> QED
    BY <2>1, <2>5, <2>6
<1>4. e' \in Seq(Env) /\ Len(e') = Len(e)
  <2>1. DOMAIN e' = 1..Len(e) /\ e' = [i \in 1..Len(e) |-> e'[i]]
    BY <1>1 DEF C_exec
  <2>2. e' \in [1..Len(e) -> Env]
    BY <1>3, <2>1
  <2> QED
    BY <1>1, <2>1, <2>2
<1>5. Control'
  BY <1>1, <1>3, <1>4, StayControl DEF C_exec, Builtin, Body, modes
<1> QED
  BY <1>2, <1>4, <1>5 DEF IInv, TypeInv, C_exec, modes

-----------------------------------------------------------------------------
(* The innermost environment is quit.                                      *)
LEMMA PopLemma ==
    ASSUME IInv, e # <<>>, e' = Front(e), fd' = Quitenv(Top, fd), rv' \in {0, 1},
           UNCHANGED <<child, interactive, target>>, AtWork',
           child /\ Len(e) = 2 => Ending',
           Leaving' => Leaving /\ target < Len(e),
           Leaving /\ ~Leaving' => Len(e) <= target
    PROVE  IInv'
<1>1. /\ Len(e) \in Nat /\ Len(e) >= 1
      /\ Last(e) = e[Len(e)] /\ e[Len(e)] \in Env
      /\ e' \in Seq(Env) /\ Len(e') = Len(e) - 1
      /\ \A i \in 1..Len(e) - 1 : e'[i] = e[i]
  BY FrontLemma DEF IInv, TypeInv
<1>2. fd' \in [Fd -> FdState]
  BY <1>1, QuitenvLemma DEF Top, IInv, TypeInv
<1>3. \A i \in 1..Len(e') : Same(e'[i], e[i])
  BY <1>1 DEF Same
<1>4. target \in Nat
  BY DEF IInv, TypeInv
<1>5. Control'
  BY <1>1, <1>3, <1>4, QuitControl
<1> QED
  BY <1>1, <1>2, <1>5 DEF IInv, TypeInv

(* What can be said of the innermost environment whatever is going on.     *)
LEMMA InnermostLemma ==
    ASSUME IInv, pc # "exited"
    PROVE  /\ e # <<>> /\ e \in Seq(Env) /\ Len(e) \in Nat /\ Depth = Len(e)
           /\ Top = e[Len(e)] /\ Top \in Env /\ rv \in {0, 1}
           /\ (Len(e) = 1 \/ Len(e) >= 2)
           /\ NestedAt(Len(e))
           /\ Len(e) = 1 => Top.type \in {"none", "exec"}
           /\ Leaving => target \in 1..Len(e)
           /\ Leaving /\ target = Len(e) => Top.type = "loop" /\ ~Top.pass
           /\ Leaving /\ target # Len(e) =>
                 Top.type = "exec" \/ (Top.type = "loop" /\ Top.pass)
<1>1. e # <<>> /\ e \in Seq(Env) /\ rv \in {0, 1} /\ Depth = Len(e)
  BY DEF IInv, TypeInv, Control, AtWork, Depth
<1>2. /\ Len(e) \in Nat /\ Len(e) >= 1 /\ Len(e) \in 1..Len(e)
      /\ Top = e[Len(e)] /\ Top \in Env
  BY <1>1, FrontLemma DEF Top
<1>3. Len(e) = 1 \/ Len(e) >= 2
  BY <1>2, OneOrMore
<1>4. NestedAt(Len(e))
  BY <1>2 DEF IInv, Control, Nested
<1>5. Len(e) = 1 => Top.type \in {"none", "exec"}
  BY <1>2, <1>4 DEF NestedAt
<1>6. Leaving => /\ target \in 1..Len(e)
                 /\ target = Len(e) => Top.type = "loop" /\ ~Top.pass
                 /\ target # Len(e) =>
                       Top.type = "exec" \/ (Top.type = "loop" /\ Top.pass)
  <2> SUFFICES ASSUME Leaving
               PROVE  /\ target \in 1..Len(e)
                      /\ target = Len(e) => Top.type = "loop" /\ ~Top.pass
                      /\ target # Len(e) =>
                            Top.type = "exec" \/ (Top.type = "loop" /\ Top.pass)
    OBVIOUS
  <2>1. /\ target \in 1..Len(e)
        /\ e[target].type = "loop" /\ ~e[target].pass
        /\ \A i \in target + 1..Len(e) :
              e[i].type = "exec" \/ (e[i].type = "loop" /\ e[i].pass)
    BY DEF IInv, Control, Aimed
  <2>2. target # Len(e) => Len(e) \in target + 1..Len(e)
    BY <1>2, <2>1
  <2> QED
    BY <1>2, <2>1, <2>2
<1> QED
  BY <1>1, <1>2, <1>3, <1>4, <1>5, <1>6

(* unwind() quits what does not handle it.                                 *)
Unwinds == UnwindExec \/ UnwindParse \/ UnwindFunc \/ UnwindIncl \/ UnwindLoop

LEMMA UnwindsFacts ==
    ASSUME IInv, Unwinds
    PROVE  /\ pc = "unwind" /\ QuitTop /\ (Leaving => target < Len(e))
           /\ pc' \in {"unwind", "exited"} /\ (Leaving' <=> Leaving)
           /\ pc' = "exited" => ~Leaving
<1>1. pc = "unwind" /\ QuitTop
  BY DEF Unwinds, UnwindExec, UnwindParse, UnwindFunc, UnwindIncl, UnwindLoop,
         Unwinding
<1>2. /\ Leaving => target \in 1..Len(e)
      /\ Leaving /\ target = Len(e) => Top.type = "loop" /\ ~Top.pass
      /\ Len(e) \in Nat /\ Depth = Len(e)
  BY <1>1, InnermostLemma
<1>3. Leaving => target # Len(e)
  BY <1>2 DEF Unwinds, UnwindExec, UnwindParse, UnwindFunc, UnwindIncl, UnwindLoop,
              Unwinding, Passes, Leaving
<1>4. Leaving => target < Len(e)
  BY <1>2, <1>3
<1>5. pc' \in {"unwind", "exited"} /\ (Leaving' <=> Leaving)
  BY <1>1 DEF QuitTop, Leaving, Ending
<1>6. pc' = "exited" => ~Leaving
  BY <1>1, <1>2, <1>4 DEF QuitTop
<1> QED
  BY <1>1, <1>4, <1>5, <1>6

LEMMA UnwindsLemma == ASSUME IInv, Unwinds PROVE IInv'
<1>1. /\ pc = "unwind" /\ QuitTop /\ (Leaving => target < Len(e))
      /\ pc' \in {"unwind", "exited"} /\ (Leaving' <=> Leaving)
  BY UnwindsFacts
<1>2. /\ e # <<>> /\ Len(e) \in Nat /\ Depth = Len(e) /\ e \in Seq(Env)
      /\ rv \in {0, 1}
  BY <1>1, InnermostLemma
<1>3. /\ e' = Front(e) /\ fd' = Quitenv(Top, fd) /\ rv' \in {0, 1}
      /\ UNCHANGED <<child, interactive, target>>
  BY <1>1, <1>2 DEF QuitTop, modes
<1>4. AtWork'
  <2>1. pc' # "exited" => Len(e') # 0
    BY <1>1, <1>2, <1>3, FrontLemma DEF QuitTop
  <2>2. pc' # "exited" => e' # <<>>
    BY <2>1
  <2> QED
    BY <1>1, <2>2 DEF AtWork
<1> QED
  BY <1>1, <1>2, <1>3, <1>4, PopLemma DEF Ending

(* The end of execute().                                                   *)
LEMMA BreakLemma == ASSUME IInv, Break PROVE IInv'
<1>1. Busy /\ pc = "break"
  BY DEF Break, Busy
<1>2. /\ Len(e) \in Nat /\ Len(e) >= 2 /\ e # <<>> /\ Depth = Len(e)
      /\ Top = e[Len(e)] /\ Top \in Env /\ ~Leaving /\ Top.type \in Running
  BY <1>1, BusyLemma
<1>3. e \in Seq(Env) /\ rv \in {0, 1}
  BY DEF IInv, TypeInv
<1>4. /\ e' = Front(e) /\ fd' = Quitenv(Top, fd) /\ rv' \in {0, 1}
      /\ UNCHANGED <<child, interactive, target>>
  BY <1>3 DEF Break, modes
<1>5. /\ Len(e') = Len(e) - 1 /\ e'[Len(e')] = e[Len(e) - 1] /\ Len(e') # 0
      /\ e[Len(e) - 1].type \in Running \union {"parse"}
  <2>1. NestedAt(Len(e)) /\ Len(e) # 1 /\ Len(e) - 1 \in 1..Len(e) - 1
    BY <1>2 DEF IInv, Control, Nested
  <2> QED
    BY <1>2, <1>3, <1>4, <2>1, FrontLemma DEF NestedAt
<1>6. ~Leaving'
  BY DEF Break, Raise, Leaving, Ending
<1>7. AtWork'
  <2>1. e' # <<>>
    BY <1>5
  <2> QED
    BY <1>2, <1>5, <2>1 DEF Break, Raise, AtWork
<1>8. child /\ Len(e) = 2 => Ending'
  <2>1. child /\ Len(e) = 2 => Top.xexec
    BY <1>2 DEF IInv, Control, ChildLeaves, Running
  <2> QED
    BY <2>1 DEF Break, Raise, Ending
<1> QED
  BY <1>2, <1>4, <1>6, <1>7, <1>8, PopLemma

(* exit and return.                                                        *)
LEMMA C_exitreturnLemma == ASSUME IInv, C_exitreturn PROVE IInv'
<1>1. Busy /\ pc = "redirect"
  BY DEF C_exitreturn, Builtin, Body, Busy
<1>2. /\ Len(e) \in Nat /\ Len(e) >= 2 /\ e # <<>> /\ ~Leaving /\ e \in Seq(Env)
  BY <1>1, BusyLemma DEF IInv, TypeInv
<1>3. /\ e' = Front(e) /\ fd' = Quitenv(Top, fd) /\ rv' \in {0, 1}
      /\ UNCHANGED <<child, interactive, target>>
      /\ pc' = "raise" /\ how' \notin {"LBREAK", "LCONTIN"}
  BY DEF C_exitreturn, Raise, modes
<1>4. e' # <<>>
  <2>1. Len(e') # 0
    BY <1>2, <1>3, FrontLemma
  <2> QED
    BY <2>1
<1>5. AtWork' /\ ~Leaving' /\ Ending'
  BY <1>3, <1>4 DEF AtWork, Leaving, Ending
<1> QED
  BY <1>2, <1>3, <1>5, PopLemma

(* unwind() begins.                                                        *)
LEMMA BeginUnwindLemma == ASSUME IInv, BeginUnwind PROVE IInv'
<1>1. pc = "raise" /\ pc' = "unwind" /\ e' = e /\ UNCHANGED <<child, interactive, target>>
  BY DEF BeginUnwind, modes
<1>2. Leaving' <=> Leaving
  BY <1>1 DEF BeginUnwind, Exits, Leaving, Ending
<1>3. e # <<>> /\ Len(e) \in Nat /\ (Leaving => target \in 1..Len(e)) /\ e \in Seq(Env)
  BY <1>1, InnermostLemma
<1>4. AtWork' /\ Ending' /\ \A i \in 1..Len(e') : Same(e'[i], e[i])
  BY <1>1, <1>3 DEF AtWork, Ending, Same
<1>5. Control'
  BY <1>1, <1>2, <1>3, <1>4, QuitControl
<1> QED
  BY <1>5 DEF IInv, TypeInv, BeginUnwind, modes

(* The handlers that keep the environment.                                 *)
LEMMA HandledLemma ==
    ASSUME IInv, BackToPrompt \/ EndCall \/ EndLoop \/ Continue
    PROVE  /\ IInv'
           /\ Leaving => Depth = target /\ Len(e') = Len(e)
<1>1. /\ pc = "unwind" /\ pc' \in {"prompt", "back", "break"}
      /\ UNCHANGED <<child, interactive, fd>> /\ target' = 0 /\ rv' \in {0, 1}
      /\ Top.type \in {"parse", "func", "loop"}
  BY DEF BackToPrompt, EndCall, EndLoop, Continue, Unwinding, modes, Handled,
         IInv, TypeInv
<1>2. /\ e # <<>> /\ e \in Seq(Env) /\ Len(e) \in Nat /\ Depth = Len(e)
      /\ Top = e[Len(e)] /\ Top \in Env
      /\ (Len(e) = 1 \/ Len(e) >= 2)
      /\ Len(e) = 1 => Top.type \in {"none", "exec"}
      /\ Leaving => target \in 1..Len(e)
      /\ (Leaving /\ target # Len(e)) =>
            Top.type = "exec" \/ (Top.type = "loop" /\ Top.pass)
  BY <1>1, InnermostLemma
<1>3. Leaving => Len(e) = target
  BY <1>1, <1>2 DEF BackToPrompt, EndCall, EndLoop, Continue, Unwinding, Prompts,
                    EndsCall, Passes, Leaving
<1>4. /\ e' \in Seq(Env) /\ Len(e') = Len(e)
      /\ \A i \in 1..Len(e) : Same(e'[i], e[i])
  <2>1. CASE e' = e
    BY <1>2, <2>1 DEF Same
  <2>2. CASE e' = [e EXCEPT ![Depth].stage = "part"]
    <3> DEFINE r == [Top EXCEPT !.stage = "part"]
    <3>1. r \in Env /\ Same(r, e[Len(e)])
      BY <1>2 DEF Env, Same
    <3>2. e' = [e EXCEPT ![Len(e)] = r]
      BY <1>2, <2>2
    <3> HIDE DEF r
    <3> QED
      BY <1>2, <3>1, <3>2, SameLemma
  <2> QED
    BY <2>1, <2>2 DEF BackToPrompt, EndCall, EndLoop, Continue
<1>5. ~Leaving'
  BY <1>1 DEF Leaving, Ending
<1>6. AtWork'
  <2>1. e'[Len(e)].type = Top.type /\ e' # <<>>
    BY <1>2, <1>4 DEF Same
  <2> QED
    BY <1>1, <1>4, <2>1 DEF AtWork, Running, BackToPrompt, EndCall, EndLoop, Continue,
                            Unwinding
<1>7. Len(e') # 1
  BY <1>1, <1>2, <1>4
<1>8. Control'
  BY <1>1, <1>2, <1>3, <1>4, <1>5, <1>6, <1>7, QuitControl
<1>9. IInv'
  BY <1>1, <1>4, <1>8 DEF IInv, TypeInv
<1> QED
  BY <1>2, <1>3, <1>4, <1>9

(* include() handles a return.                                             *)
LEMMA EndDotLemma == ASSUME IInv, EndDot PROVE IInv' /\ ~Leaving
<1>1. /\ pc = "unwind" /\ pc' = "break" /\ Top.type = "incl"
      /\ e' = Front(e) /\ fd' = Quitenv(Top, fd) /\ target' = 0
      /\ UNCHANGED <<child, interactive, rv>>
  BY DEF EndDot, Unwinding, Handled, modes
<1>2. /\ e # <<>> /\ e \in Seq(Env) /\ Len(e) \in Nat /\ Depth = Len(e)
      /\ Top = e[Len(e)] /\ Top \in Env /\ rv \in {0, 1}
      /\ (Len(e) = 1 \/ Len(e) >= 2)
      /\ NestedAt(Len(e))
      /\ Len(e) = 1 => Top.type \in {"none", "exec"}
  BY <1>1, InnermostLemma
<1>3. Len(e) >= 2 /\ e[Len(e) - 1].type = "exec"
  BY <1>1, <1>2 DEF NestedAt
<1>4. ~Leaving /\ ~Leaving'
  BY <1>1 DEF EndDot, EndsCall, Leaving, Ending
<1>5. /\ e' \in Seq(Env) /\ Len(e') = Len(e) - 1
      /\ \A i \in 1..Len(e) - 1 : e'[i] = e[i]
  BY <1>1, <1>2, FrontLemma
<1>6. AtWork'
  <2>1. e'[Len(e')].type = "exec" /\ Len(e') # 0
    BY <1>3, <1>2, <1>5
  <2>2. e' # <<>>
    BY <2>1
  <2> QED
    BY <1>1, <2>1, <2>2 DEF AtWork, Running
<1>7. ~(child /\ Len(e) = 2)
  BY <1>1, <1>2 DEF IInv, Control, ChildLeaves, Running
<1>8. \A i \in 1..Len(e') : Same(e'[i], e[i])
  BY <1>2, <1>5 DEF Same
<1>9. fd' \in [Fd -> FdState]
  BY <1>1, <1>2, QuitenvLemma DEF IInv, TypeInv
<1>10. Len(e') <= Len(e) /\ ~(child /\ Len(e') = 1)
  BY <1>2, <1>5, <1>7
<1>11. Control'
  BY <1>1, <1>4, <1>5, <1>6, <1>8, <1>10, QuitControl
<1> QED
  BY <1>1, <1>2, <1>4, <1>5, <1>9, <1>11 DEF IInv, TypeInv

(* shell() returns.                                                        *)
LEMMA EndOfTextLemma == ASSUME IInv, EndOfText PROVE IInv'
<1> DEFINE n == IF Top.kind = "dot" THEN 2 ELSE 1
<1>1. Busy /\ pc = "prompt"
  BY DEF EndOfText, Busy
<1>2. /\ Len(e) \in Nat /\ Len(e) >= 2 /\ e # <<>> /\ Depth = Len(e)
      /\ Top = e[Len(e)] /\ Top \in Env /\ ~Leaving /\ Top.type = "parse"
      /\ e \in Seq(Env) /\ rv \in {0, 1}
  BY <1>1, BusyLemma DEF IInv, TypeInv
<1>3. /\ e' = SubSeq(e, 1, Len(e) - n) /\ fd' = Quitenv(Top, fd)
      /\ pc' = CASE Top.kind = "trap" -> "redirect"
                 [] Top.kind = "exittrap" -> "unwind"
                 [] OTHER -> "break"
      /\ how' = IF Top.kind = "exittrap" THEN "LLEAVE" ELSE how
      /\ rv' \in {0, 1} /\ UNCHANGED <<child, interactive, target>>
  BY <1>2 DEF EndOfText
<1>4. /\ Top.kind \in Text \ {"main"}
      /\ Top.kind = "dot" => e[Len(e) - 1].type = "incl"
      /\ Top.kind \in {"eval", "trap"} => e[Len(e) - 1].type = "exec"
  <2>1. NestedAt(Len(e)) /\ Len(e) # 1
    BY <1>2 DEF IInv, Control, Nested
  <2> QED
    BY <1>2, <2>1 DEF NestedAt, EndOfText
<1>5. Top.kind = "dot" => Len(e) >= 3 /\ e[Len(e) - 2].type = "exec"
  <2> SUFFICES ASSUME Top.kind = "dot"
               PROVE  Len(e) >= 3 /\ e[Len(e) - 2].type = "exec"
    OBVIOUS
  <2>1. NestedAt(Len(e) - 1) /\ e[Len(e) - 1].type = "incl"
    BY <1>2, <1>4 DEF IInv, Control, Nested
  <2>2. Len(e) - 1 # 1
    BY <2>1 DEF NestedAt
  <2>3. e[Len(e) - 1 - 1].type = "exec"
    BY <2>1, <2>2 DEF NestedAt
  <2>4. Len(e) - 1 - 1 = Len(e) - 2 /\ Len(e) >= 3
    BY <1>2, <2>2
  <2> QED
    BY <2>3, <2>4
<1>6. n \in {1, 2} /\ (n = 2 <=> Top.kind = "dot")
  OBVIOUS
<1> HIDE DEF n
<1>7. /\ e' \in Seq(Env) /\ Len(e') = Len(e) - n
      /\ \A i \in 1..Len(e') : e'[i] = e[i]
      /\ Len(e') >= 1
  <2>1. Len(e) - n \in 0..Len(e) /\ Len(e) - n >= 1
    BY <1>2, <1>5, <1>6
  <2> QED
    BY <1>2, <1>3, <2>1, QuitLemma
<1>8. fd' \in [Fd -> FdState]
  BY <1>2, <1>3, QuitenvLemma DEF IInv, TypeInv
<1>9. Top.kind # "exittrap" => e'[Len(e')].type = "exec"
  <2>1. Len(e') \in 1..Len(e') /\ e'[Len(e')] = e[Len(e) - n]
    BY <1>2, <1>6, <1>7
  <2> QED
    BY <1>4, <1>5, <1>6, <2>1 DEF Text
<1>10. ~Leaving'
  BY <1>3 DEF Leaving, Ending
<1>11. AtWork'
  <2>1. e' # <<>>
    BY <1>7
  <2>2. pc' \in {"redirect", "unwind", "break"} /\ (pc' = "unwind" <=> Top.kind = "exittrap")
    BY <1>3
  <2> QED
    BY <1>9, <2>1, <2>2 DEF AtWork, Running
<1>12. child /\ Len(e') = 1 => Ending'
  <2> SUFFICES ASSUME child, Len(e') = 1 PROVE Ending'
    OBVIOUS
  <2>1. \/ e[2].type \in Running
        \/ e[2].type = "parse" /\ e[2].kind = "exittrap"
    BY <1>2 DEF IInv, Control, ChildLeaves
  <2>2. CASE n = 1
    <3>1. Len(e) = 2
      <4>1. Len(e) - 1 = 1
        BY <1>7, <2>2
      <4> QED
        BY <1>2, <4>1, TwoOrThree
    <3> QED
      BY <1>2, <1>3, <2>1, <3>1 DEF Ending, Running
  <2>3. CASE n = 2
    <3>1. Len(e) - 1 = 2 /\ e[Len(e) - 1].type = "incl"
      <4>1. Len(e) - 2 = 1
        BY <1>7, <2>3
      <4>2. Len(e) - 1 = 2
        BY <1>2, <4>1, TwoOrThree
      <4> QED
        BY <1>4, <1>6, <2>3, <4>2
    <3> QED
      BY <2>1, <3>1 DEF Running
  <2> QED
    BY <1>6, <2>2, <2>3
<1>13. Len(e') <= Len(e) /\ \A i \in 1..Len(e') : Same(e'[i], e[i])
  BY <1>2, <1>6, <1>7 DEF Same
<1>14. Control'
  BY <1>2, <1>3, <1>7, <1>10, <1>11, <1>12, <1>13, QuitControl
<1> QED
  BY <1>3, <1>7, <1>8, <1>14 DEF IInv, TypeInv

(* c_dot(): include() and shell() begin.                                   *)
LEMMA C_dotLemma == ASSUME IInv, C_dot PROVE IInv'
<1> DEFINE i1 == Newenv("incl", "dot", FALSE, FALSE, fd)
           p1 == Newenv("parse", "dot", FALSE, FALSE, fd)
<1>1. Busy /\ pc = "redirect" /\ pc' = "prompt"
  BY DEF C_dot, Body, Busy
<1>2. /\ Len(e) \in Nat /\ Len(e) >= 2 /\ e # <<>> /\ ~Leaving
      /\ Top = e[Len(e)] /\ Top.type = "exec" /\ e \in Seq(Env)
  BY <1>1, BusyLemma DEF IInv, TypeInv
<1>3. /\ i1 \in Env /\ i1.type = "incl" /\ i1.pass = FALSE
      /\ p1 \in Env /\ p1.type = "parse" /\ p1.kind = "dot" /\ p1.pass = FALSE
  BY NewenvLemma DEF IInv, TypeInv, Newenv, Env, Text, Kind
<1>4. e' = e \o <<i1, p1>>
  BY DEF C_dot
<1> HIDE DEF i1, p1
<1>5. /\ e' \in Seq(Env) /\ Len(e') = Len(e) + 2
      /\ e'[Len(e) + 1] = i1 /\ e'[Len(e) + 2] = p1
      /\ \A i \in 1..Len(e) : e'[i] = e[i]
  BY <1>2, <1>3, <1>4
<1>6. \A i \in 1..Len(e') :
         \/ i <= Len(e) /\ Same(e'[i], e[i])
         \/ i >= Len(e) /\ NestedAt(i)' /\ ~e'[i].pass
  <2> TAKE i \in 1..Len(e')
  <2>1. CASE i <= Len(e)
    BY <1>5, <2>1 DEF Same
  <2>2. CASE i = Len(e) + 1
    <3>1. i # 1 /\ i - 1 = Len(e) /\ Len(e) \in 1..Len(e) /\ e'[i] = i1 /\ i >= Len(e)
      BY <1>2, <1>5, <2>2
    <3>2. e'[i - 1].type = "exec"
      BY <1>2, <1>5, <3>1
    <3> QED
      BY <1>3, <3>1, <3>2 DEF NestedAt, Running
  <2>3. CASE i = Len(e) + 2
    <3>1. i # 1 /\ i - 1 = Len(e) + 1 /\ e'[i] = p1 /\ i >= Len(e)
      BY <1>2, <1>5, <2>3
    <3>2. e'[i - 1].type = "incl"
      BY <1>3, <1>5, <3>1
    <3> QED
      BY <1>3, <3>1, <3>2 DEF NestedAt, Running, Text
  <2>4. i <= Len(e) \/ i = Len(e) + 1 \/ i = Len(e) + 2
    BY <1>2, <1>5
  <2> QED
    BY <2>1, <2>2, <2>3, <2>4
<1>7. ~Leaving'
  BY <1>1 DEF Leaving, Ending
<1>8. AtWork'
  <2>1. e'[Len(e')].type = "parse" /\ Len(e') # 0
    BY <1>2, <1>3, <1>5
  <2>2. e' # <<>>
    BY <2>1
  <2> QED
    BY <1>1, <2>1, <2>2 DEF AtWork
<1>9. ChildLeaves'
  <2>1. e'[2] = e[2] /\ Len(e') # 1
    BY <1>2, <1>5
  <2> QED
    BY <1>2, <2>1 DEF IInv, Control, ChildLeaves, C_dot, modes
<1>10. Control'
  BY <1>2, <1>5, <1>6, <1>7, <1>8, <1>9, FrameLemma DEF IInv, C_dot, modes
<1> QED
  BY <1>5, <1>10 DEF IInv, TypeInv, C_dot, modes

(* c_brkcont(): there is a loop for each number of loops around.           *)
LEMMA LoopAroundLemma ==
    ASSUME e \in Seq(Env), NEW n \in 1..Cardinality(Loops)
    PROVE  LoopAround(n) \in Loops
<1> DEFINE Within(i) == {k \in Loops : k >= i}
           f == [i \in Loops |-> Cardinality(Within(i))]
           N == 1..Cardinality(Loops)
<1>1. Len(e) \in Nat /\ Depth = Len(e) /\ Loops \subseteq 1..Len(e)
  BY DEF Depth, Loops
<1>2. IsFiniteSet(Loops) /\ Cardinality(Loops) \in Nat
  <2>1. IsFiniteSet(1..Len(e))
    BY <1>1, FS_Interval
  <2>2. IsFiniteSet(Loops)
    BY <1>1, <2>1, FS_Subset
  <2> QED
    BY <2>2, FS_CardinalityType
<1>3. ASSUME NEW i \in Loops
      PROVE  /\ IsFiniteSet(Within(i)) /\ Cardinality(Within(i)) \in N
  <2>1. IsFiniteSet(Within(i)) /\ Cardinality(Within(i)) <= Cardinality(Loops)
    BY <1>2, FS_Subset
  <2>2. Cardinality(Within(i)) \in Nat
    BY <2>1, FS_CardinalityType
  <2>3. i \in Within(i)
    BY <1>1
  <2>4. Cardinality(Within(i)) # 0
    BY <2>1, <2>3, FS_EmptySet
  <2> QED
    BY <1>2, <2>1, <2>2, <2>4
<1>4. \A i, j \in Loops : i < j => f[i] # f[j]
  <2> SUFFICES ASSUME NEW i \in Loops, NEW j \in Loops, i < j,
                      Cardinality(Within(i)) = Cardinality(Within(j))
               PROVE  FALSE
    OBVIOUS
  <2>1. Within(j) \in SUBSET Within(i)
    <3>1. i \in Nat /\ j \in Nat /\ \A k \in Loops : k \in Nat
      BY <1>1
    <3>2. \A k \in Loops : k >= j => k >= i
      BY <3>1
    <3> QED
      BY <3>2
  <2>2. Within(i) = Within(j)
    BY <1>3, <2>1, FS_Subset
  <2>3. i \in Within(i) /\ i \notin Within(j)
    BY <1>1
  <2> QED
    BY <2>2, <2>3
<1>5. f \in Injection(Loops, N)
  <2>1. f \in [Loops -> N]
    BY <1>3
  <2>2. \A i, j \in Loops : f[i] = f[j] => i = j
    <3> HIDE DEF f
    <3> QED
      BY <1>1, <1>4
  <2> HIDE DEF f
  <2> QED
    BY <2>1, <2>2 DEF Injection, IsInjective
<1>6. IsFiniteSet(N) /\ Cardinality(N) = Cardinality(Loops)
  BY <1>2, FS_Interval
<1>7. f \in Surjection(Loops, N)
  <2> HIDE DEF f, N
  <2> QED
    BY <1>5, <1>6, FS_Injection
<1>8. \E i \in Loops : f[i] = n
  BY <1>7 DEF Surjection
<1> QED
  BY <1>8 DEF LoopAround

LEMMA C_brkcontLemma == ASSUME IInv, C_brkcont PROVE IInv'
<1>1. Busy /\ pc = "redirect" /\ pc' = "raise"
  BY DEF C_brkcont, Builtin, Body, Busy, Raise
<1>2. /\ Len(e) \in Nat /\ Len(e) >= 2 /\ e # <<>> /\ e \in Seq(Env)
      /\ Depth = Len(e)
      /\ \A i \in 1..Len(e) : ~e[i].pass
  BY <1>1, BusyLemma DEF IInv, TypeInv
<1>3. PICK n \in 1..Cardinality(Loops) :
        /\ e' = [i \in 1..Depth |->
                   [e[i] EXCEPT !.pass = @ \/ (i \in Loops /\ i > LoopAround(n))]]
        /\ target' = LoopAround(n)
  BY DEF C_brkcont
<1> DEFINE t == LoopAround(n)
<1>4. t \in Loops
  BY <1>2, LoopAroundLemma
<1> HIDE DEF t
<1>5. t \in 1..Len(e) /\ e[t].type = "loop" /\ \A k \in t..Len(e) : ~StopsBrkcont(k)
  BY <1>2, <1>4 DEF Loops
<1>6. ASSUME NEW i \in 1..Len(e)
      PROVE  /\ e'[i] \in Env /\ e'[i].type = e[i].type /\ e'[i].kind = e[i].kind
             /\ e'[i].xexec = e[i].xexec
             /\ e'[i].pass <=> (i \in Loops /\ i > t)
  <2> DEFINE p == i \in Loops /\ i > t
  <2>1. e[i] \in Env /\ p \in BOOLEAN
    BY <1>2
  <2>2. e'[i] = [e[i] EXCEPT !.pass = e[i].pass \/ p]
    BY <1>2, <1>3 DEF t
  <2> HIDE DEF p
  <2> DEFINE b == e[i].pass \/ p
  <2>3. b \in BOOLEAN /\ (b <=> p)
    BY <1>2
  <2> HIDE DEF b
  <2>4. /\ e'[i] \in Env /\ e'[i].type = e[i].type /\ e'[i].kind = e[i].kind
        /\ e'[i].xexec = e[i].xexec /\ e'[i].pass = b
    BY <2>1, <2>2, <2>3 DEF Env, b
  <2> QED
    BY <2>3, <2>4 DEF p
<1>7. e' \in Seq(Env) /\ Len(e') = Len(e)
  <2>1. DOMAIN e' = 1..Len(e) /\ e' = [i \in 1..Len(e) |-> e'[i]]
    BY <1>2, <1>3
  <2>2. e' \in [1..Len(e) -> Env]
    BY <1>6, <2>1
  <2> QED
    BY <1>2, <2>1, <2>2
<1>8. /\ UNCHANGED <<fd, rv, child, interactive>> /\ target' = t
      /\ how' \in {"LBREAK", "LCONTIN"} /\ Leaving' /\ Ending'
  BY <1>1, <1>3 DEF C_brkcont, Raise, modes, Leaving, Ending, t
<1>9. Nested'
  <2> SUFFICES ASSUME NEW i \in 1..Len(e') PROVE NestedAt(i)'
    BY DEF Nested
  <2>1. NestedAt(i)
    BY <1>7 DEF IInv, Control, Nested
  <2>2. CASE i = 1
    BY <1>6, <1>7, <1>8, <2>1, <2>2 DEF NestedAt
  <2>3. CASE i # 1
    <3>1. i - 1 \in 1..Len(e) /\ i \in 1..Len(e)
      BY <1>2, <1>7, <2>3
    <3> QED
      BY <1>6, <2>1, <2>3, <3>1 DEF NestedAt
  <2> QED
    BY <2>2, <2>3
<1>10. AtWork'
  <2>1. e' # <<>>
    BY <1>2, <1>7
  <2> QED
    BY <1>1, <2>1 DEF AtWork
<1>11. ChildLeaves'
  <2>1. 2 \in 1..Len(e)
    BY <1>2
  <2> QED
    BY <1>2, <1>6, <1>7, <1>8, <2>1 DEF IInv, Control, ChildLeaves
<1>12. Aimed'
  <2>1. t \in 1..Len(e') /\ e'[t].type = "loop" /\ ~e'[t].pass
    BY <1>2, <1>5, <1>6, <1>7
  <2>2. ASSUME NEW i \in t + 1..Len(e')
        PROVE  e'[i].type = "exec" \/ (e'[i].type = "loop" /\ e'[i].pass)
    <3>1. i \in 1..Len(e) /\ i \in t..Len(e) /\ i > t
      BY <1>2, <1>5, <1>7
    <3>2. ~StopsBrkcont(i) /\ e[i].type \in {"loop", "exec"}
      <4>1. e[i].type \in {"none", "parse", "func", "incl", "loop", "exec"}
        <5>1. e[i] \in Env
          BY <1>2, <3>1
        <5> QED
          BY <5>1 DEF Env
      <4> QED
        BY <1>5, <3>1, <4>1 DEF StopsBrkcont
    <3>3. e[i].type = "loop" => i \in Loops
      <4>1. \A k \in i..Len(e) : ~StopsBrkcont(k)
        BY <1>2, <1>5, <3>1
      <4> QED
        BY <1>2, <3>1, <4>1 DEF Loops
    <3> QED
      BY <1>6, <3>1, <3>2, <3>3
  <2> QED
    BY <1>8, <2>1, <2>2 DEF Aimed
<1>13. PassedOn'
  BY <1>6, <1>7, <1>8 DEF PassedOn
<1> QED
  BY <1>7, <1>8, <1>9, <1>10, <1>11, <1>12, <1>13, <1>5 DEF IInv, TypeInv, Control

-----------------------------------------------------------------------------
(* exchild(), in the child: the subshell and its first command are left.   *)
LEMMA ExchildLemma == ASSUME IInv, Exchild PROVE IInv'
<1>1. Busy /\ pc = "redirect" /\ pc' = "redirect"
  BY DEF Exchild, Body, Busy
<1>2. /\ Top \in Env /\ Top.type = "exec" /\ Top.xerrok \in BOOLEAN
      /\ Top.pass = FALSE /\ fd \in [Fd -> FdState] /\ rv \in {0, 1}
  <2>1. /\ Top \in Env /\ Top.type = "exec" /\ Top.xerrok \in BOOLEAN
        /\ Len(e) \in Nat /\ Len(e) >= 2 /\ Top = e[Len(e)]
        /\ \A i \in 1..Len(e) : ~e[i].pass
    BY <1>1, BusyLemma, WorkLemma
  <2>2. Top.pass \in BOOLEAN /\ ~Top.pass
    BY <2>1 DEF Env
  <2> QED
    BY <2>1, <2>2 DEF IInv, TypeInv
<1>3. PICK k \in Fitting(1) :
        e' = <<Cut(Top), Newenv("exec", k, Top.xerrok, TRUE, fd)>>
  BY DEF Exchild
<1> DEFINE c == Cut(Top)
           n == Newenv("exec", k, Top.xerrok, TRUE, fd)
<1>4. c \in Env /\ c.type = "exec" /\ c.pass = FALSE
  BY <1>2, NewenvLemma DEF Cut, Env
<1>5. n \in Env /\ n.type = "exec" /\ n.pass = FALSE /\ n.xexec = TRUE
  <2>1. k \in Kind
    BY DEF Fitting, Kind
  <2> QED
    BY <1>2, <2>1, NewenvLemma DEF Newenv, Env
<1> HIDE DEF c, n
<1>6. e' = <<c, n>> /\ e' \in Seq(Env) /\ Len(e') = 2 /\ e'[1] = c /\ e'[2] = n
  <2>1. e' = <<c, n>>
    BY <1>3 DEF c, n
  <2> QED
    BY <1>4, <1>5, <2>1
<1>7. fd' \in [Fd -> FdState]
  BY <1>2 DEF Exchild, FdState
<1>8. child' = TRUE /\ interactive' = FALSE /\ target' = 0 /\ rv' = rv
  BY DEF Exchild
<1>9. Nested' /\ AtWork' /\ ChildLeaves' /\ ~Leaving'
  <2>1. NestedAt(1)' /\ NestedAt(2)'
    BY <1>4, <1>5, <1>6, <1>8 DEF NestedAt, Running
  <2>2. Nested'
    <3> SUFFICES ASSUME NEW i \in 1..Len(e') PROVE NestedAt(i)'
      BY DEF Nested
    <3>1. i = 1 \/ i = 2
      BY <1>6
    <3> QED
      BY <2>1, <3>1
  <2>3. e' # <<>>
    BY <1>6
  <2> QED
    BY <1>1, <1>5, <1>6, <1>8, <2>2, <2>3 DEF AtWork, ChildLeaves, Leaving, Ending, Running
<1>10. PassedOn'
  <2>1. \A i \in 1..Len(e') : i = 1 \/ i = 2
    BY <1>6
  <2> QED
    BY <1>4, <1>5, <1>6, <2>1 DEF PassedOn
<1> QED
  BY <1>2, <1>6, <1>7, <1>8, <1>9, <1>10 DEF IInv, TypeInv, Control, Aimed

-----------------------------------------------------------------------------
LEMMA InitLemma == Init => IInv
<1> SUFFICES ASSUME Init PROVE IInv
  OBVIOUS
<1> DEFINE a == Newenv("none", "main", FALSE, FALSE, fd)
           b == Newenv("parse", "main", FALSE, FALSE, fd)
<1>1. fd \in [Fd -> FdState]
  BY DEF Init, FdState, File
<1>2. /\ a \in Env /\ a.type = "none" /\ a.pass = FALSE
      /\ b \in Env /\ b.type = "parse" /\ b.kind = "main" /\ b.pass = FALSE
  BY <1>1, NewenvLemma DEF Newenv, Env, Text
<1> HIDE DEF a, b
<1>3. e = <<a, b>> /\ e \in Seq(Env) /\ Len(e) = 2 /\ e[1] = a /\ e[2] = b
  <2>1. e = <<a, b>>
    BY DEF Init, a, b
  <2> QED
    BY <1>2, <2>1
<1>4. TypeInv
  <2>1. interactive \in BOOLEAN
    <3>1. PICK m \in Modes : interactive = ("interactive" \in m)
      BY DEF Init
    <3>2. ("interactive" \in m) \in BOOLEAN
      OBVIOUS
    <3> QED
      BY <3>1, <3>2, Zenon
  <2>2. rv \in {0, 1} /\ target \in Nat /\ child \in BOOLEAN
    BY DEF Init
  <2> QED
    BY <1>1, <1>3, <2>1, <2>2, Zenon DEF TypeInv
<1>5. Control
  <2>1. \A i \in 1..Len(e) : i = 1 \/ i = 2
    BY <1>3
  <2>2. NestedAt(1) /\ NestedAt(2)
    BY <1>2, <1>3 DEF NestedAt, Init, Running, Text
  <2>3. Nested
    BY <2>1, <2>2 DEF Nested
  <2>4. PassedOn
    BY <1>2, <1>3, <2>1 DEF PassedOn
  <2>5. e # <<>>
    BY <1>3
  <2> QED
    BY <1>2, <1>3, <2>3, <2>4, <2>5
       DEF Control, AtWork, ChildLeaves, Aimed, Leaving, Ending, Init
<1> QED
  BY <1>4, <1>5 DEF IInv

LEMMA StepLemma == IInv /\ [Next]_vars => IInv'
<1> SUFFICES ASSUME IInv, [Next]_vars PROVE IInv'
  OBVIOUS
<1>1. CASE Command \/ Begin \/ List \/ If \/ Bang \/ Function
  BY <1>1, CompoundLemma
<1>2. CASE Ordinary \/ Errorf \/ EndOfScript \/ Comexec \/ Paren \/ PipeCannot
  BY <1>2, SimpleLemma
<1>3. CASE Runtraps \/ C_eval
  BY <1>3, ReadLemma DEF Runtraps, C_eval, Body
<1>4. CASE BeginLoop \/ Call
  BY <1>4, MarkLemma DEF BeginLoop, Call
<1>5. CASE ComsubFails \/ PipeFails
  BY <1>5, ForkFails
<1>6. CASE Unwinds
  BY <1>6, UnwindsLemma
<1>7. CASE BackToPrompt \/ EndCall \/ EndLoop \/ Continue
  BY <1>7, HandledLemma
<1>8. CASE Exited \/ UNCHANGED vars
  BY <1>8 DEF Exited, vars, modes, IInv, TypeInv, Control, Nested, NestedAt, AtWork,
              ChildLeaves, Aimed, Leaving, Ending, PassedOn
<1> QED
  BY <1>1, <1>2, <1>3, <1>4, <1>5, <1>6, <1>7, <1>8, EndOfTextLemma, IosetupLemma,
     C_execLemma, C_brkcontLemma, C_exitreturnLemma, C_dotLemma, AndLemma, LoopLemma,
     PipeLemma, LastOfPipeLemma, ExchildLemma, BreakLemma, RunExitTrapLemma,
     BeginUnwindLemma, EndDotLemma
     DEF Next, Unwinds

(* The invariant: environments are nested as the calls of the shell are,   *)
(* the loop that a break or continue is for takes it, and what is left in  *)
(* a subshell leaves with an exit.                                         *)
THEOREM Invariant == Spec => []IInv
<1>1. Init => IInv
  BY InitLemma
<1>2. IInv /\ [Next]_vars => IInv'
  BY StepLemma
<1> QED
  BY <1>1, <1>2, PTL DEF Spec

(* unwind(), c_brkcont() and exchild(): a break or continue reaches the    *)
(* loop that is the n-th around, through whatever is nested in it, and a   *)
(* subshell never returns into what its parent was doing.                  *)
THEOREM BreakReachesItsLoop == Spec => UnwindsRight
<1> DEFINE Reaches == (pc = "unwind" /\ pc' # "unwind" /\ how \in {"LBREAK", "LCONTIN"})
                         => Depth = target /\ Len(e') = target
           NeverBack == child' => (Len(e') = 1 => pc' \in {"raise", "unwind", "exited"})
<1>1. IInv /\ IInv' /\ [Next]_vars => [Reaches /\ NeverBack]_vars
  <2> SUFFICES ASSUME IInv, IInv', Next PROVE Reaches /\ NeverBack
    OBVIOUS
  <2>1. NeverBack
    BY DEF IInv, Control, ChildLeaves, Ending
  <2>2. Reaches
    <3> SUFFICES ASSUME pc = "unwind", pc' # "unwind", Leaving
                 PROVE  Depth = target /\ Len(e') = target
      BY DEF Leaving, Ending
    <3>1. CASE Unwinds
      BY <3>1, UnwindsFacts
    <3>2. CASE BackToPrompt \/ EndCall \/ EndLoop \/ Continue
      BY <3>2, HandledLemma DEF Depth
    <3>3. CASE EndDot
      BY <3>3, EndDotLemma
    <3>4. CASE Exited
      BY <3>4 DEF Exited
    <3>5. Unwinds \/ BackToPrompt \/ EndCall \/ EndLoop \/ Continue \/ EndDot \/ Exited
      BY DEF Next, Unwinds, Command, EndOfScript, EndOfText, Runtraps, Iosetup, Open,
             Close, Dup, IosetupFails, Redirectable, ComsubFails, Ordinary, Errorf,
             C_exec, C_brkcont, C_exitreturn, C_eval, C_dot, Builtin, Body, Begin,
             BeginLoop, Call, Mark, List, If, And, Bang, Loop, Function, Back, Pipe,
             LastOfPipe, PipeCannot, PipeFails, Paren, Exchild, Comexec, Leaves, Break,
             RunExitTrap, BeginUnwind
    <3> QED
      BY <3>1, <3>2, <3>3, <3>4, <3>5
  <2> QED
    BY <2>1, <2>2
<1>2. Spec => []IInv
  BY Invariant
<1> QED
  BY <1>1, <1>2, PTL DEF Spec, UnwindsRight

-----------------------------------------------------------------------------
(* Descriptors.                                                            *)

(* What environment i of the stack s would go on with: the table that the  *)
(* next one has found, or the one there is.                                *)
After(s, fds, i) == IF i = Len(s) THEN fds ELSE s[i + 1].was

(* Descriptor u of an environment: nothing was put aside and it is what it *)
(* was; it was closed; or n has what it was.                               *)
Keeps(r, after, fds, u) ==
    LET n == r.savefd[u]
    IN  /\ n = Unsaved => after[u] = r.was[u]
        /\ n = Shut => r.was[u] = Closed
        /\ n \in Fd => n >= FDBASE /\ fds[n] = r.was[u] /\ fds[n] # Closed

AllKept(s, fds) ==
    \A i \in 2..Len(s) : \A u \in UserFd : Keeps(s[i], After(s, fds, i), fds, u)
Distinct(s) ==
    \A i, j \in 1..Len(s) : \A u, v \in UserFd :
        s[i].savefd[u] \in Fd /\ s[i].savefd[u] = s[j].savefd[v] => i = j /\ u = v
NoneAside(s) ==
    \A i \in 1..Len(s) : i = 1 \/ s[i].type \notin Running => s[i].savefd = NoSaves
Sound(s, fds) == AllKept(s, fds) /\ Distinct(s) /\ NoneAside(s)

(* The shell's own descriptors are what was put aside.                     *)
Owned(s, fds) ==
    \A k \in Fd : k >= FDBASE /\ fds[k] # Closed =>
        \E i \in 1..Len(s) : \E u \in UserFd : s[i].savefd[u] = k

PipeAt(i) ==
    e[i].kind = "pipe" =>
        IF i = Len(e)
        THEN /\ pc = "redirect" => e[i].savefd = NoSaves
             /\ pc = "back" => e[i].savefd[0] # Unsaved /\ e[i].savefd[1] # Unsaved
        ELSE /\ e[i + 1].type = "parse" /\ e[i + 1].kind \in {"trap", "exittrap"}
             /\ e[i + 1].kind = "trap" => e[i].savefd = NoSaves
Pipes == \A i \in 1..Len(e) : PipeAt(i) /\ (e[i].type = "loop" => e[i].kind = "loop")

FdInv == /\ Pipes
         /\ Intact => Sound(e, fd)
         /\ failed = "no" => Owned(e, fd)

-----------------------------------------------------------------------------
(* The invariant is about what was put aside, where, and what was there.   *)
Alike(r, s) == /\ r.savefd = s.savefd /\ r.was = s.was
               /\ r.type \in Running <=> s.type \in Running

LEMMA SaveLemma ==
    ASSUME NEW s \in Seq(Env), NEW i \in 1..Len(s), NEW u \in UserFd
    PROVE  /\ s[i] \in Env /\ s[i].savefd \in [UserFd -> Place]
           /\ s[i].savefd[u] \in Fd \/ s[i].savefd[u] = Unsaved \/ s[i].savefd[u] = Shut
           /\ s[i].was \in [UserFd -> FdState]
<1>1. s[i] \in Env
  OBVIOUS
<1>2. s[i].savefd \in [UserFd -> Place] /\ s[i].was \in [UserFd -> FdState]
  BY <1>1 DEF Env
<1> QED
  BY <1>1, <1>2 DEF Place

LEMMA SoundSame ==
    ASSUME NEW s \in Seq(Env), NEW t \in Seq(Env), NEW fds, Sound(s, fds),
           Len(t) = Len(s), \A i \in 1..Len(s) : Alike(t[i], s[i])
    PROVE  Sound(t, fds) /\ (Owned(s, fds) => Owned(t, fds))
<1>1. Len(s) \in Nat
  OBVIOUS
<1>2. ASSUME NEW i \in 2..Len(t), NEW u \in UserFd
      PROVE  Keeps(t[i], After(t, fds, i), fds, u)
  <2>1. i \in 1..Len(s) /\ i \in 2..Len(s) /\ (i # Len(s) => i + 1 \in 1..Len(s))
    BY <1>1
  <2>2. After(t, fds, i) = After(s, fds, i)
    BY <2>1 DEF After, Alike
  <2>3. Keeps(s[i], After(s, fds, i), fds, u)
    BY <2>1 DEF Sound, AllKept
  <2> QED
    BY <2>1, <2>2, <2>3 DEF Keeps, Alike
<1>3. Distinct(t) /\ NoneAside(t)
  BY DEF Sound, Distinct, NoneAside, Alike
<1>4. Owned(s, fds) => Owned(t, fds)
  BY DEF Owned, Alike
<1> QED
  BY <1>2, <1>3, <1>4 DEF Sound, AllKept

(* newenv(): an environment that has put nothing aside.                    *)
Fresh(r, fds) == r.savefd = NoSaves /\ r.was = [u \in UserFd |-> fds[u]]

LEMMA SoundPush ==
    ASSUME NEW s \in Seq(Env), NEW t \in Seq(Env), NEW fds, Sound(s, fds),
           Len(s) >= 1, Len(t) = Len(s) + 1,
           \A i \in 1..Len(s) : Alike(t[i], s[i]), Fresh(t[Len(t)], fds)
    PROVE  Sound(t, fds) /\ (Owned(s, fds) => Owned(t, fds))
<1>1. Len(s) \in Nat /\ Len(t) \in Nat /\ Len(t) # 1
  OBVIOUS
<1>2. \A u \in UserFd : /\ t[Len(t)].savefd[u] = Unsaved
                        /\ t[Len(t)].was[u] = fds[u]
                        /\ Unsaved \notin Fd /\ Shut # Unsaved
  BY UserLemma DEF Fresh, NoSaves, Shut, Unsaved
<1>3. ASSUME NEW i \in 2..Len(t), NEW u \in UserFd
      PROVE  Keeps(t[i], After(t, fds, i), fds, u)
  <2>1. CASE i = Len(t)
    BY <1>2, <2>1 DEF Keeps, After
  <2>2. CASE i # Len(t)
    <3>1. i \in 1..Len(s) /\ i \in 2..Len(s) /\ (i # Len(s) => i + 1 \in 1..Len(s))
      BY <1>1, <2>2
    <3>2. Keeps(s[i], After(s, fds, i), fds, u)
      BY <3>1 DEF Sound, AllKept
    <3>3. After(t, fds, i)[u] = After(s, fds, i)[u]
      <4>1. CASE i = Len(s)
        <5>1. After(s, fds, i) = fds
          BY <4>1 DEF After
        <5>2. After(t, fds, i) = t[Len(t)].was
          BY <1>1, <2>2, <4>1 DEF After
        <5> QED
          BY <1>2, <5>1, <5>2
      <4>2. CASE i # Len(s)
        BY <2>2, <3>1, <4>2 DEF After, Alike
      <4> QED
        BY <4>1, <4>2
    <3>4. Alike(t[i], s[i])
      BY <3>1
    <3> QED
      BY <3>2, <3>3, <3>4 DEF Keeps, Alike
  <2> QED
    BY <2>1, <2>2
<1>4. \A i \in 1..Len(t) : i = Len(t) \/ i \in 1..Len(s)
  BY <1>1
<1>5. Distinct(t)
  <2> SUFFICES ASSUME NEW i \in 1..Len(t), NEW j \in 1..Len(t),
                      NEW u \in UserFd, NEW v \in UserFd,
                      t[i].savefd[u] \in Fd, t[i].savefd[u] = t[j].savefd[v]
               PROVE  i = j /\ u = v
    BY DEF Distinct
  <2>1. i \in 1..Len(s) /\ j \in 1..Len(s)
    BY <1>2, <1>4
  <2>2. t[i].savefd = s[i].savefd /\ t[j].savefd = s[j].savefd
    BY <2>1 DEF Alike
  <2> QED
    BY <2>1, <2>2 DEF Sound, Distinct
<1>6. NoneAside(t)
  BY <1>1, <1>4 DEF Sound, NoneAside, Alike, Fresh
<1>7. Owned(s, fds) => Owned(t, fds)
  <2> SUFFICES ASSUME Owned(s, fds), NEW k \in Fd, k >= FDBASE, fds[k] # Closed
               PROVE  \E i \in 1..Len(t) : \E u \in UserFd : t[i].savefd[u] = k
    BY DEF Owned
  <2>1. PICK i \in 1..Len(s) : \E u \in UserFd : s[i].savefd[u] = k
    BY DEF Owned
  <2>2. i \in 1..Len(t) /\ t[i].savefd = s[i].savefd
    BY <1>1, <2>1 DEF Alike
  <2> QED
    BY <2>1, <2>2
<1> QED
  BY <1>3, <1>5, <1>6, <1>7 DEF Sound, AllKept

(* quitenv(): the descriptors of the user are those from before it, and    *)
(* what is put aside for others stays.                                     *)
LEMMA SoundPop ==
    ASSUME NEW s \in Seq(Env), NEW t \in Seq(Env), NEW fds, Sound(s, fds),
           Len(s) >= 2, Len(t) = Len(s) - 1, \A i \in 1..Len(t) : t[i] = s[i]
    PROVE  LET now == Quitenv(s[Len(s)], fds)
           IN  /\ Sound(t, now) /\ (Owned(s, fds) => Owned(t, now))
               /\ \A u \in UserFd : now[u] = s[Len(s)].was[u]
<1> DEFINE r == s[Len(s)]
           now == Quitenv(r, fds)
<1>1. /\ Len(s) \in Nat /\ Len(t) \in Nat /\ Len(s) \in 2..Len(s) /\ Len(s) \in 1..Len(s)
      /\ \A i \in 1..Len(t) : i \in 1..Len(s) /\ i # Len(s) /\ i + 1 \in 1..Len(s)
      /\ \A i \in 2..Len(t) : i \in 2..Len(s) /\ i \in 1..Len(t)
  OBVIOUS
<1>2. ASSUME NEW u \in UserFd PROVE Keeps(r, fds, fds, u)
  <2>1. Keeps(r, After(s, fds, Len(s)), fds, u)
    BY <1>1 DEF Sound, AllKept
  <2> QED
    BY <2>1 DEF After
<1>3. ASSUME NEW u \in UserFd PROVE now[u] = r.was[u]
  <2>1. u \in Fd /\ u < FDBASE /\ u \in Nat
    BY UserLemma, EnvAssumption DEF UserFd
  <2>2. u \notin Saves(r)
    <3> SUFFICES ASSUME NEW v \in UserFd, r.savefd[v] = u,
                        r.savefd[v] \notin {Unsaved, Shut}
                 PROVE  FALSE
      BY DEF Saves
    <3>1. r.savefd[v] \in Fd
      BY <2>1
    <3>2. r.savefd[v] >= FDBASE
      BY <1>2, <3>1 DEF Keeps
    <3> QED
      BY <2>1, <3>2, EnvAssumption
  <2>3. now[u] = IF r.savefd[u] # Unsaved
                 THEN IF r.savefd[u] = Shut THEN Closed ELSE fds[r.savefd[u]]
                 ELSE fds[u]
    BY <2>1, <2>2 DEF Quitenv
  <2>4. r.savefd[u] \in Fd \/ r.savefd[u] = Unsaved \/ r.savefd[u] = Shut
    BY <1>1, SaveLemma
  <2> QED
    BY <1>2, <2>3, <2>4 DEF Keeps, Shut, Unsaved
<1>4. ASSUME NEW k \in Fd, k >= FDBASE, k \notin Saves(r) PROVE now[k] = fds[k]
  <2>1. k \notin UserFd
    BY <1>4, UserLemma, EnvAssumption DEF UserFd
  <2> QED
    BY <1>4, <2>1 DEF Quitenv
<1>5. ASSUME NEW i \in 1..Len(t), NEW u \in UserFd, s[i].savefd[u] \in Fd
      PROVE  s[i].savefd[u] \notin Saves(r)
  <2>1. ASSUME NEW v \in UserFd, s[i].savefd[u] = r.savefd[v] PROVE FALSE
    BY <1>1, <1>5, <2>1 DEF Sound, Distinct
  <2> QED
    BY <2>1 DEF Saves
<1> HIDE DEF r, now
<1>6. ASSUME NEW i \in 2..Len(t), NEW u \in UserFd
      PROVE  Keeps(t[i], After(t, now, i), now, u)
  <2>1. i \in 1..Len(t) /\ i \in 2..Len(s) /\ t[i] = s[i] /\ i # Len(s)
    BY <1>1
  <2>2. Keeps(s[i], After(s, fds, i), fds, u)
    BY <2>1 DEF Sound, AllKept
  <2>3. After(t, now, i)[u] = After(s, fds, i)[u]
    <3>1. CASE i = Len(t)
      <4>1. s[i + 1] = r
        BY <1>1, <3>1 DEF r
      <4> QED
        BY <1>3, <2>1, <3>1, <4>1 DEF After
    <3>2. CASE i # Len(t)
      <4>1. i + 1 \in 1..Len(t)
        BY <1>1, <2>1, <3>2
      <4> QED
        BY <2>1, <3>2, <4>1 DEF After
    <3> QED
      BY <3>1, <3>2
  <2>4. s[i].savefd[u] \in Fd => now[s[i].savefd[u]] = fds[s[i].savefd[u]]
    BY <1>4, <1>5, <2>1, <2>2 DEF Keeps
  <2> QED
    BY <2>1, <2>2, <2>3, <2>4 DEF Keeps
<1>7. Distinct(t) /\ NoneAside(t)
  BY <1>1 DEF Sound, Distinct, NoneAside
<1>8. Owned(s, fds) => Owned(t, now)
  <2> SUFFICES ASSUME Owned(s, fds), NEW k \in Fd, k >= FDBASE, now[k] # Closed
               PROVE  \E i \in 1..Len(t) : \E u \in UserFd : t[i].savefd[u] = k
    BY DEF Owned
  <2>1. k \notin UserFd /\ k \notin Saves(r) /\ now[k] = fds[k]
    <3>1. k \notin UserFd
      BY UserLemma, EnvAssumption DEF UserFd
    <3>2. k \notin Saves(r)
      BY <3>1 DEF Quitenv, now
    <3> QED
      BY <1>4, <3>1, <3>2
  <2>2. PICK i \in 1..Len(s) : \E u \in UserFd : s[i].savefd[u] = k
    BY <2>1 DEF Owned
  <2>3. i # Len(s)
    <3>1. \A u \in UserFd : r.savefd[u] # k
      BY <2>1, UserLemma DEF Saves
    <3> QED
      BY <2>2, <3>1 DEF r
  <2>4. i \in 1..Len(t)
    BY <1>1, <2>3
  <2> QED
    BY <2>2, <2>4
<1> QED
  BY <1>3, <1>6, <1>7, <1>8 DEF Sound, AllKept, r, now

(* The innermost environment puts descriptors aside where nothing is, or   *)
(* has one of them back: others' are left alone.                           *)
TopChanges(s, t, fds, now) ==
    LET r == t[Len(s)]
    IN  /\ Len(s) >= 2 /\ Len(t) = Len(s) /\ \A i \in 1..Len(s) - 1 : t[i] = s[i]
        /\ r.type \in Running /\ r.was = s[Len(s)].was
        /\ \A u \in UserFd : Keeps(r, now, now, u)
        /\ \A u, v \in UserFd : r.savefd[u] \in Fd /\ r.savefd[u] = r.savefd[v] => u = v
        /\ \A u \in UserFd : r.savefd[u] \in Fd =>
               r.savefd[u] = s[Len(s)].savefd[u] \/ fds[r.savefd[u]] = Closed
        /\ \A k \in Fd : (k >= FDBASE /\ fds[k] # Closed) =>
               now[k] = fds[k] \/ k \in Saves(s[Len(s)])
LEMMA SoundTop ==
    ASSUME NEW s \in Seq(Env), NEW t \in Seq(Env), NEW fds, NEW now, Sound(s, fds),
           TopChanges(s, t, fds, now)
    PROVE  Sound(t, now)
<1> SUFFICES ASSUME
        Len(s) >= 2, Len(t) = Len(s), \A i \in 1..Len(s) - 1 : t[i] = s[i],
        t[Len(s)].type \in Running, t[Len(s)].was = s[Len(s)].was,
        \A u \in UserFd : Keeps(t[Len(s)], now, now, u),
        \A u, v \in UserFd :
            t[Len(s)].savefd[u] \in Fd /\ t[Len(s)].savefd[u] = t[Len(s)].savefd[v] => u = v,
        \A u \in UserFd : t[Len(s)].savefd[u] \in Fd =>
            \/ t[Len(s)].savefd[u] = s[Len(s)].savefd[u]
            \/ fds[t[Len(s)].savefd[u]] = Closed,
        \A k \in Fd : (k >= FDBASE /\ fds[k] # Closed) =>
            now[k] = fds[k] \/ k \in Saves(s[Len(s)])
    PROVE  Sound(t, now)
  BY DEF TopChanges
<1> DEFINE L == Len(s)
<1>0. L \in Nat /\ L >= 2 /\ L # 1
  OBVIOUS
<1>1. /\ L \in Nat /\ L >= 2 /\ L \in 1..L /\ Len(t) = L
      /\ \A i \in 1..L - 1 : i \in 1..L /\ i # L
      /\ \A i \in 1..L : i = L \/ i \in 1..L - 1
      /\ \A i \in 2..L : i \in 1..L
  OBVIOUS
<1>2. ASSUME NEW i \in 2..L, NEW u \in UserFd, i # L
      PROVE  Keeps(s[i], After(s, fds, i), fds, u) /\ i \in 1..L - 1
  BY <1>1, <1>2 DEF Sound, AllKept
<1>3. ASSUME NEW i \in 2..L, NEW u \in UserFd, i # L, s[i].savefd[u] \in Fd
      PROVE  now[s[i].savefd[u]] = fds[s[i].savefd[u]]
  <2>1. s[i].savefd[u] >= FDBASE /\ fds[s[i].savefd[u]] # Closed
    BY <1>2, <1>3 DEF Keeps
  <2>2. s[i].savefd[u] \notin Saves(s[L])
    <3>1. ASSUME NEW v \in UserFd, s[i].savefd[u] = s[L].savefd[v] PROVE FALSE
      BY <1>1, <1>3, <3>1 DEF Sound, Distinct
    <3> QED
      BY <3>1 DEF Saves
  <2> QED
    BY <1>3, <2>1, <2>2
<1>4. \A i \in 1..L : t[i].was = s[i].was
  BY <1>1
<1>5. ASSUME NEW i \in 2..L, NEW u \in UserFd
      PROVE  Keeps(t[i], After(t, now, i), now, u)
  <2>1. CASE i = L
    BY <2>1 DEF After
  <2>2. CASE i # L
    <3>1. After(t, now, i) = After(s, fds, i)
      <4>1. i + 1 \in 1..L
        BY <1>1, <2>2
      <4> QED
        BY <1>4, <2>2, <4>1 DEF After
    <3>2. t[i] = s[i]
      BY <1>2, <2>2
    <3> QED
      BY <1>2, <1>3, <2>2, <3>1, <3>2 DEF Keeps
  <2> QED
    BY <2>1, <2>2
<1>6. Distinct(t)
  <2>1. ASSUME NEW i \in 1..L - 1, NEW u \in UserFd, NEW v \in UserFd,
               s[i].savefd[u] \in Fd, s[i].savefd[u] = t[L].savefd[v]
        PROVE  FALSE
    <3>1. i # 1
      <4>1. i = 1 => s[i].savefd[u] = Unsaved
        BY <1>1 DEF Sound, NoneAside, NoSaves
      <4> QED
        BY <2>1, <4>1, UserLemma
    <3>2. i \in 2..L /\ i # L
      BY <1>0, <3>1
    <3>3. fds[s[i].savefd[u]] # Closed
      BY <1>2, <2>1, <3>2 DEF Keeps
    <3>4. t[L].savefd[v] = s[L].savefd[v]
      BY <2>1, <3>3
    <3> QED
      BY <1>1, <2>1, <3>4 DEF Sound, Distinct
  <2> SUFFICES ASSUME NEW i \in 1..Len(t), NEW j \in 1..Len(t),
                      NEW u \in UserFd, NEW v \in UserFd,
                      t[i].savefd[u] \in Fd, t[i].savefd[u] = t[j].savefd[v]
               PROVE  i = j /\ u = v
    BY DEF Distinct
  <2>0. i \in 1..L /\ j \in 1..L
    BY <1>1
  <2>2. CASE i = L /\ j = L
    BY <2>2
  <2>3. CASE i # L /\ j # L
    <3>1. t[i] = s[i] /\ t[j] = s[j]
      BY <1>1, <2>0, <2>3
    <3>2. s[i].savefd[u] \in Fd /\ s[i].savefd[u] = s[j].savefd[v]
      BY <3>1
    <3> QED
      BY <3>2 DEF Sound, Distinct
  <2>4. CASE i # L /\ j = L
    BY <1>1, <2>0, <2>1, <2>4
  <2>5. CASE i = L /\ j # L
    BY <1>1, <2>0, <2>1, <2>5
  <2> QED
    BY <2>2, <2>3, <2>4, <2>5
<1>7. NoneAside(t)
  BY <1>0, <1>1 DEF Sound, NoneAside
<1> QED
  BY <1>1, <1>5, <1>6, <1>7 DEF Sound, AllKept

-----------------------------------------------------------------------------
(* Pipelines: the environments up to the n-th are what they were.          *)
LEMMA PipesFrame ==
    ASSUME Pipes, e \in Seq(Env), e' \in Seq(Env), NEW n \in 0..Len(e), n <= Len(e'),
           \A i \in 1..n : e'[i].kind = e[i].kind /\ e'[i].type = e[i].type,
           \A i \in 1..n : i # n => e'[i].savefd = e[i].savefd,
           \A i \in 1..Len(e') : i >= n => PipeAt(i)',
           \A i \in 1..Len(e') : i > n /\ e'[i].type = "loop" => e'[i].kind = "loop"
    PROVE  Pipes'
<1> SUFFICES ASSUME NEW i \in 1..Len(e')
             PROVE  PipeAt(i)' /\ (e'[i].type = "loop" => e'[i].kind = "loop")
  BY DEF Pipes
<1>1. Len(e) \in Nat /\ Len(e') \in Nat /\ n \in Nat
  OBVIOUS
<1>2. e'[i].type = "loop" => e'[i].kind = "loop"
  <2>1. CASE i <= n
    BY <1>1, <2>1 DEF Pipes
  <2>2. CASE i > n
    BY <2>2
  <2> QED
    BY <1>1, <2>1, <2>2
<1>3. CASE i < n
  <2>1. /\ i \in 1..n /\ i # n /\ i + 1 \in 1..n /\ i \in 1..Len(e)
        /\ i # Len(e) /\ i # Len(e')
    BY <1>1, <1>3
  <2>2. PipeAt(i)
    BY <2>1 DEF Pipes
  <2>3. /\ e'[i].kind = e[i].kind /\ e'[i].savefd = e[i].savefd
        /\ e'[i + 1].kind = e[i + 1].kind /\ e'[i + 1].type = e[i + 1].type
    BY <2>1
  <2>4. PipeAt(i)'
    BY <2>1, <2>2, <2>3 DEF PipeAt
  <2> QED
    BY <1>2, <2>4
<1>4. CASE ~(i < n)
  BY <1>1, <1>2, <1>4
<1> QED
  BY <1>3, <1>4

(* What a step that quits an environment gives back.                       *)
Restores ==
    (/\ Len(e') < Depth /\ pc' # "exited"
     /\ ~(pc = "redirect" /\ pc' = "redirect") /\ Intact) =>
        \A u \in UserFd : fd'[u] = e[Len(e') + 1].was[u]

FdStep == FdInv' /\ Restores

(* No environment is pushed or quit and no descriptor changes; if not, that*)
(* is for want of a descriptor or of a process.                            *)
LEMMA StayFd ==
    ASSUME IInv, IInv', FdInv, e # <<>>, Len(e') = Len(e),
           \A i \in 1..Len(e) :
               /\ Alike(e'[i], e[i]) /\ e'[i].kind = e[i].kind
               /\ i # Len(e) => e'[i].type = e[i].type,
           \/ e'[Len(e)].type = e[Len(e)].type
           \/ /\ e[Len(e)].type \in Running /\ e'[Len(e)].type \in Running
              /\ e'[Len(e)].type = "loop" => e'[Len(e)].kind = "loop",
           e[Len(e)].kind = "pipe" => pc' = pc \/ pc' \notin {"redirect", "back"},
           failed' \in {"room", "comsub"} \/ (fd' = fd /\ failed' = failed)
    PROVE  FdStep
<1>1. /\ e \in Seq(Env) /\ e' \in Seq(Env) /\ Len(e) \in Nat /\ Len(e) >= 1
      /\ Len(e) \in 1..Len(e) /\ Len(e) - 1 \in 0..Len(e)
  BY DEF IInv, TypeInv
<1>2. Sound(e, fd) => Sound(e', fd) /\ (Owned(e, fd) => Owned(e', fd))
  BY <1>1, SoundSame
<1>3. PipeAt(Len(e)) /\ (e[Len(e)].type = "loop" => e[Len(e)].kind = "loop")
  BY <1>1 DEF FdInv, Pipes
<1>4. ASSUME NEW i \in 1..Len(e), i = Len(e) PROVE PipeAt(i)'
  BY <1>1, <1>3, <1>4 DEF PipeAt, Alike
<1>5. ASSUME NEW i \in 1..Len(e), i = Len(e) - 1 PROVE PipeAt(i)'
  <2>1. PipeAt(i) /\ i + 1 = Len(e) /\ i # Len(e)
    BY <1>1, <1>5 DEF FdInv, Pipes
  <2> QED
    BY <1>1, <2>1 DEF PipeAt, Alike, Running
<1>6. Pipes'
  <2> DEFINE n == Len(e) - 1
  <2>1. \A i \in 1..Len(e') : i >= n => i = Len(e) \/ i = Len(e) - 1
    BY <1>1
  <2>2. \A i \in 1..Len(e') : i > n => i = Len(e)
    BY <1>1
  <2>3. \A i \in 1..n : i \in 1..Len(e) /\ i # Len(e)
    BY <1>1
  <2>4. \A i \in 1..Len(e') : i >= n => PipeAt(i)'
    BY <1>4, <1>5, <2>1
  <2>5. \A i \in 1..Len(e') : i > n /\ e'[i].type = "loop" => e'[i].kind = "loop"
    BY <1>1, <1>3, <2>2
  <2>6. n \in 0..Len(e) /\ n <= Len(e')
    BY <1>1
  <2>7. /\ \A i \in 1..n : e'[i].kind = e[i].kind /\ e'[i].type = e[i].type
        /\ \A i \in 1..n : e'[i].savefd = e[i].savefd
    BY <2>3 DEF Alike
  <2> HIDE DEF n
  <2> QED
    BY <1>1, <2>4, <2>5, <2>6, <2>7, PipesFrame DEF FdInv
<1>7. Restores
  BY <1>1 DEF Restores, Depth
<1> QED
  BY <1>2, <1>6, <1>7 DEF FdStep, FdInv, Intact

(* One is pushed.                                                          *)
LEMMA PushFd ==
    ASSUME IInv, IInv', FdInv, e # <<>>, Len(e') = Len(e) + 1,
           \A i \in 1..Len(e) : /\ Alike(e'[i], e[i]) /\ e'[i].kind = e[i].kind
                                /\ e'[i].type = e[i].type,
           Fresh(e'[Len(e')], fd), e'[Len(e')].type # "loop",
           e'[Len(e')].kind = "pipe" => pc' # "back",
           e[Len(e)].kind = "pipe" =>
               /\ e'[Len(e')].type = "parse"
               /\ \/ e'[Len(e')].kind = "trap" /\ e[Len(e)].savefd = NoSaves
                  \/ e'[Len(e')].kind = "exittrap",
           fd' = fd, failed' = failed
    PROVE  FdStep
<1>1. /\ e \in Seq(Env) /\ e' \in Seq(Env) /\ Len(e) \in Nat /\ Len(e) >= 1
      /\ Len(e') \in Nat /\ Len(e) \in 1..Len(e) /\ Len(e) \in 0..Len(e)
  BY DEF IInv, TypeInv
<1>2. Sound(e, fd) => Sound(e', fd) /\ (Owned(e, fd) => Owned(e', fd))
  BY <1>1, SoundPush
<1>3. ASSUME NEW i \in 1..Len(e'), i = Len(e) PROVE PipeAt(i)'
  <2>1. i # Len(e') /\ i + 1 = Len(e') /\ e'[i].kind = e[Len(e)].kind
        /\ e'[i].savefd = e[Len(e)].savefd
    BY <1>1, <1>3 DEF Alike
  <2> QED
    BY <2>1 DEF PipeAt
<1>4. ASSUME NEW i \in 1..Len(e'), i = Len(e') PROVE PipeAt(i)'
  BY <1>4 DEF PipeAt, Fresh
<1>5. Pipes'
  <2> DEFINE n == Len(e)
  <2>1. /\ \A i \in 1..Len(e') : i >= n => i = Len(e) \/ i = Len(e')
        /\ \A i \in 1..Len(e') : i > n => i = Len(e')
    BY <1>1
  <2>2. /\ \A i \in 1..Len(e') : i >= n => PipeAt(i)'
        /\ \A i \in 1..Len(e') : i > n /\ e'[i].type = "loop" => e'[i].kind = "loop"
        /\ n \in 0..Len(e) /\ n <= Len(e')
        /\ \A i \in 1..n : e'[i].kind = e[i].kind /\ e'[i].type = e[i].type
        /\ \A i \in 1..n : e'[i].savefd = e[i].savefd
    BY <1>1, <1>3, <1>4, <2>1 DEF Alike
  <2> HIDE DEF n
  <2> QED
    BY <1>1, <2>2, PipesFrame DEF FdInv
<1>6. Restores
  BY <1>1 DEF Restores, Depth
<1> QED
  BY <1>2, <1>5, <1>6 DEF FdStep, FdInv, Intact

(* The innermost one is quit.                                              *)
LEMMA PopFd ==
    ASSUME IInv, IInv', FdInv, pc # "exited", Len(e) >= 2,
           e' = Front(e), fd' = Quitenv(Top, fd), failed' = failed,
           e[Len(e) - 1].kind = "pipe" =>
               /\ pc' # "back"
               /\ pc' = "redirect" => e[Len(e)].kind = "trap"
    PROVE  FdStep
<1>1. /\ e \in Seq(Env) /\ e' \in Seq(Env) /\ Len(e) \in Nat /\ e # <<>>
      /\ Top = e[Len(e)] /\ Len(e') = Len(e) - 1 /\ Len(e') + 1 = Len(e)
      /\ \A i \in 1..Len(e) - 1 : e'[i] = e[i]
  BY FrontLemma DEF IInv, TypeInv, Top
<1>2. Sound(e, fd) => /\ Sound(e', fd') /\ (Owned(e, fd) => Owned(e', fd'))
                      /\ \A u \in UserFd : fd'[u] = e[Len(e)].was[u]
  BY <1>1, SoundPop
<1>3. ASSUME NEW i \in 1..Len(e'), i = Len(e') PROVE PipeAt(i)'
  <2>1. i \in 1..Len(e) /\ i # Len(e) /\ i + 1 = Len(e) /\ e'[i] = e[i] /\ PipeAt(i)
    BY <1>1, <1>3 DEF FdInv, Pipes
  <2>2. e[Len(e) - 1] = e[i]
    BY <1>1, <1>3
  <2> QED
    BY <1>3, <2>1, <2>2 DEF PipeAt
<1>4. Pipes'
  <2> DEFINE n == Len(e')
  <2>1. /\ \A i \in 1..Len(e') : i >= n => PipeAt(i)'
        /\ \A i \in 1..Len(e') : ~(i > n)
        /\ n \in 0..Len(e) /\ n <= Len(e')
        /\ \A i \in 1..n : e'[i] = e[i]
    BY <1>1, <1>3
  <2> HIDE DEF n
  <2> QED
    BY <1>1, <2>1, PipesFrame DEF FdInv
<1>5. Restores
  BY <1>1, <1>2 DEF Restores, FdInv
<1> QED
  BY <1>2, <1>4, <1>5 DEF FdStep, FdInv, Intact

-----------------------------------------------------------------------------
(* Steps that begin, go on with, or end a command.                         *)
LEMMA FreshLemma ==
    ASSUME NEW type, NEW k, NEW a, NEW b, NEW fds
    PROVE  LET r == Newenv(type, k, a, b, fds)
           IN  Fresh(r, fds) /\ r.type = type /\ r.kind = k
  BY DEF Newenv, Fresh

LEMMA AlikeTop ==
    ASSUME NEW s \in Seq(Env), s # <<>>, NEW r \in Env, Alike(r, s[Len(s)]),
           r.kind = s[Len(s)].kind
    PROVE  LET q == [s EXCEPT ![Len(s)] = r]
           IN  /\ q \in Seq(Env) /\ Len(q) = Len(s) /\ q[Len(s)] = r
               /\ \A i \in 1..Len(s) : /\ Alike(q[i], s[i]) /\ q[i].kind = s[i].kind
                                       /\ i # Len(s) => q[i].type = s[i].type
<1> DEFINE q == [s EXCEPT ![Len(s)] = r]
<1>1. /\ q \in Seq(Env) /\ Len(q) = Len(s) /\ q[Len(s)] = r
      /\ \A i \in 1..Len(s) - 1 : q[i] = s[i]
  BY TopLemma
<1>2. Len(s) \in Nat /\ \A i \in 1..Len(s) : i # Len(s) => i \in 1..Len(s) - 1
  OBVIOUS
<1> HIDE DEF q
<1>3. \A i \in 1..Len(s) : /\ Alike(q[i], s[i]) /\ q[i].kind = s[i].kind
                           /\ i # Len(s) => q[i].type = s[i].type
  BY <1>1, <1>2 DEF Alike
<1> QED
  BY <1>1, <1>3 DEF q

LEMMA AppendFd ==
    ASSUME IInv, IInv', FdInv, e # <<>>,
           NEW q \in Seq(Env), Len(q) = Len(e),
           \A i \in 1..Len(e) : /\ Alike(q[i], e[i]) /\ q[i].kind = e[i].kind
                                /\ q[i].type = e[i].type,
           NEW r, e' = Append(q, r), Fresh(r, fd), r.type # "loop",
           r.kind = "pipe" => pc' # "back",
           e[Len(e)].kind = "pipe" =>
               /\ r.type = "parse"
               /\ (r.kind = "trap" /\ e[Len(e)].savefd = NoSaves) \/ r.kind = "exittrap",
           fd' = fd, failed' = failed
    PROVE  FdStep
<1>1. /\ Len(e') = Len(e) + 1 /\ e'[Len(e')] = r
      /\ \A i \in 1..Len(e) : e'[i] = q[i]
  OBVIOUS
<1> QED
  BY <1>1, PushFd

LEMMA ExecuteFd ==
    ASSUME IInv, IInv', FdInv, pc \in {"prompt", "redirect", "back"}, Top.kind # "pipe",
           NEW stage \in {"begun", "cond", "part"}, NEW xerrok, NEW xexec,
           Execute(stage, xerrok, xexec)
    PROVE  FdStep
<1> DEFINE r == [Top EXCEPT !.stage = stage]
           q == [e EXCEPT ![Len(e)] = r]
<1>1. /\ Top \in Env /\ Depth = Len(e) /\ Top = e[Len(e)] /\ e \in Seq(Env)
      /\ e # <<>> /\ Len(e) \in Nat
  BY BusyLemma DEF Busy, IInv, TypeInv
<1>2. r \in Env /\ Alike(r, Top) /\ r.kind = Top.kind /\ r.type = Top.type
  BY <1>1 DEF Env, Alike
<1>3. PICK k \in Fitting(Depth) :
        e' = Append([e EXCEPT ![Depth].stage = stage],
                    Newenv("exec", k, xerrok, xexec, fd))
  BY DEF Execute
<1>4. [e EXCEPT ![Depth].stage = stage] = q
  BY <1>1
<1> HIDE DEF r
<1>5. /\ q \in Seq(Env) /\ Len(q) = Len(e) /\ q[Len(e)] = r
      /\ \A i \in 1..Len(e) : /\ Alike(q[i], e[i]) /\ q[i].kind = e[i].kind
                              /\ i # Len(e) => q[i].type = e[i].type
  BY <1>1, <1>2, AlikeTop
<1>6. \A i \in 1..Len(e) : q[i].type = e[i].type
  BY <1>1, <1>2, <1>5
<1> HIDE DEF q
<1> DEFINE n == Newenv("exec", k, xerrok, xexec, fd)
<1>7. Fresh(n, fd) /\ n.type = "exec"
  BY FreshLemma
<1>8. e' = Append(q, n)
  BY <1>3, <1>4
<1> HIDE DEF n
<1> QED
  BY <1>1, <1>5, <1>6, <1>7, <1>8, AppendFd DEF Execute

LEMMA ReadFd ==
    ASSUME IInv, IInv', FdInv, pc = "redirect", NEW text \in {"eval", "trap"},
           Read(text), text = "eval" => Top.kind = "eval"
    PROVE  FdStep
<1> DEFINE n == Newenv("parse", text, FALSE, FALSE, fd)
<1>1. /\ Depth = Len(e) /\ Top = e[Len(e)] /\ e \in Seq(Env) /\ e # <<>>
      /\ Len(e) \in Nat /\ Len(e) >= 2
  BY BusyLemma DEF Busy, IInv, TypeInv
<1>2. Fresh(n, fd) /\ n.type = "parse" /\ n.kind = text
  BY DEF Newenv, Fresh
<1>3. e' = Append(e, n) /\ fd' = fd /\ failed' = failed
  BY DEF Read
<1> HIDE DEF n
<1>4. e[Len(e)].kind = "pipe" => text = "trap" /\ e[Len(e)].savefd = NoSaves
  <2>1. PipeAt(Len(e))
    BY <1>1 DEF FdInv, Pipes
  <2> QED
    BY <1>1, <2>1 DEF PipeAt
<1>5. \A i \in 1..Len(e) : Alike(e[i], e[i])
  BY DEF Alike
<1> QED
  BY <1>1, <1>2, <1>3, <1>4, <1>5, AppendFd

LEMMA RunExitTrapFd == ASSUME IInv, IInv', FdInv, RunExitTrap PROVE FdStep
<1> DEFINE n == Newenv("parse", "exittrap", FALSE, FALSE, fd)
<1>1. e \in Seq(Env) /\ e # <<>>
  BY DEF IInv, TypeInv, Control, AtWork, RunExitTrap
<1>2. Fresh(n, fd) /\ n.type = "parse" /\ n.kind = "exittrap"
  BY DEF Newenv, Fresh
<1>3. e' = Append(e, n) /\ fd' = fd /\ failed' = failed
  BY DEF RunExitTrap
<1> HIDE DEF n
<1>4. \A i \in 1..Len(e) : Alike(e[i], e[i])
  BY DEF Alike
<1> QED
  BY <1>1, <1>2, <1>3, <1>4, AppendFd

(* c_dot(): include() and shell() each have an environment.                *)
LEMMA C_dotFd == ASSUME IInv, IInv', FdInv, C_dot PROVE FdStep
<1> DEFINE i1 == Newenv("incl", "dot", FALSE, FALSE, fd)
           p1 == Newenv("parse", "dot", FALSE, FALSE, fd)
           q == Append(e, i1)
<1>1. /\ Depth = Len(e) /\ Top = e[Len(e)] /\ e \in Seq(Env) /\ e # <<>>
      /\ Len(e) \in Nat /\ Len(e) >= 2 /\ Top.kind = "dot" /\ fd \in [Fd -> FdState]
      /\ e' \in Seq(Env) /\ fd' = fd /\ failed' = failed
  BY BusyLemma DEF Busy, C_dot, Body, IInv, TypeInv
<1>2. /\ Fresh(i1, fd) /\ i1.type = "incl" /\ i1.kind = "dot" /\ i1 \in Env
      /\ Fresh(p1, fd) /\ p1.type = "parse" /\ p1.kind = "dot"
  BY <1>1, FreshLemma, NewenvLemma DEF Newenv, Env, Text, Kind
<1>3. e' = e \o <<i1, p1>>
  BY DEF C_dot
<1> HIDE DEF i1, p1
<1>4. /\ q \in Seq(Env) /\ Len(q) = Len(e) + 1 /\ q[Len(e) + 1] = i1
      /\ \A i \in 1..Len(e) : q[i] = e[i]
  BY <1>1, <1>2, PushLemma
<1> HIDE DEF q
<1>5. /\ Len(e') = Len(e) + 2 /\ Len(e') \in Nat
      /\ e'[Len(e) + 1] = i1 /\ e'[Len(e) + 2] = p1
      /\ \A i \in 1..Len(e) : e'[i] = e[i]
  BY <1>1, <1>3
<1>6. Sound(e, fd) => Sound(q, fd) /\ (Owned(e, fd) => Owned(q, fd))
  <2>1. \A i \in 1..Len(e) : Alike(q[i], e[i])
    BY <1>4 DEF Alike
  <2> QED
    BY <1>1, <1>2, <1>4, <2>1, SoundPush
<1>7. Sound(q, fd) => Sound(e', fd) /\ (Owned(q, fd) => Owned(e', fd))
  <2>1. \A i \in 1..Len(q) : e'[i] = q[i]
    <3> TAKE i \in 1..Len(q)
    <3>1. i \in 1..Len(e) \/ i = Len(e) + 1
      BY <1>1, <1>4
    <3> QED
      BY <1>4, <1>5, <3>1
  <2>2. \A i \in 1..Len(q) : Alike(e'[i], q[i])
    BY <2>1 DEF Alike
  <2>3. Len(q) >= 1 /\ Len(e') = Len(q) + 1 /\ Fresh(e'[Len(e')], fd)
    BY <1>1, <1>2, <1>4, <1>5
  <2> QED
    BY <1>1, <1>4, <2>2, <2>3, SoundPush
<1>8. Pipes'
  <2> DEFINE n == Len(e)
  <2>1. \A i \in 1..Len(e') : i >= n => i = n \/ i = n + 1 \/ i = n + 2
    BY <1>1, <1>5
  <2>2. \A i \in 1..Len(e') : i > n => i = n + 1 \/ i = n + 2
    BY <1>1, <1>5
  <2>3. n \in 1..n /\ n \in 0..Len(e) /\ n <= Len(e')
    BY <1>1, <1>5
  <2>4. /\ e'[n].kind = "dot" /\ e'[n + 1].kind = "dot" /\ e'[n + 2].kind = "dot"
        /\ e'[n + 1].type = "incl" /\ e'[n + 2].type = "parse"
    BY <1>1, <1>2, <1>5, <2>3
  <2>5. \A i \in 1..Len(e') : i >= n => PipeAt(i)'
    BY <2>1, <2>4 DEF PipeAt
  <2>6. \A i \in 1..Len(e') : i > n /\ e'[i].type = "loop" => e'[i].kind = "loop"
    BY <2>2, <2>4
  <2>7. \A i \in 1..n : e'[i] = e[i]
    BY <1>5
  <2> HIDE DEF n
  <2> QED
    BY <1>1, <2>3, <2>5, <2>6, <2>7, PipesFrame DEF FdInv
<1>9. Restores
  BY <1>1, <1>5 DEF Restores
<1> QED
  BY <1>1, <1>6, <1>7, <1>8, <1>9 DEF FdStep, FdInv, Intact

-----------------------------------------------------------------------------
(* Steps that change descriptors.  What holds of the innermost environment *)
(* when the invariant does.                                                *)
LEMMA WorkFd ==
    ASSUME IInv, FdInv, pc \in {"redirect", "back"}
    PROVE  /\ Depth = Len(e) /\ Top = e[Len(e)] /\ Top \in Env /\ e # <<>>
           /\ e \in Seq(Env) /\ Len(e) \in Nat /\ Len(e) >= 2 /\ Top.type \in Running
           /\ Top.savefd \in [UserFd -> Place] /\ Top.was \in [UserFd -> FdState]
           /\ fd \in [Fd -> FdState] /\ PipeAt(Len(e))
           /\ Intact => /\ \A u \in UserFd : Keeps(Top, fd, fd, u)
                        /\ \A u, v \in UserFd :
                              Top.savefd[u] \in Fd /\ Top.savefd[u] = Top.savefd[v]
                                  => u = v
<1>1. /\ Depth = Len(e) /\ Top = e[Len(e)] /\ Top \in Env /\ e # <<>>
      /\ e \in Seq(Env) /\ Len(e) \in Nat /\ Len(e) >= 2 /\ Top.type \in Running
      /\ fd \in [Fd -> FdState]
  BY BusyLemma DEF Busy, Running, IInv, TypeInv
<1>2. Top.savefd \in [UserFd -> Place] /\ Top.was \in [UserFd -> FdState]
  BY <1>1 DEF Env
<1>3. PipeAt(Len(e))
  BY <1>1 DEF FdInv, Pipes
<1>4. Intact => \A u \in UserFd : Keeps(Top, fd, fd, u)
  <2> SUFFICES ASSUME Intact, NEW u \in UserFd PROVE Keeps(Top, fd, fd, u)
    OBVIOUS
  <2>1. Len(e) \in 2..Len(e)
    BY <1>1
  <2>2. Keeps(e[Len(e)], After(e, fd, Len(e)), fd, u)
    BY <2>1 DEF FdInv, Sound, AllKept
  <2> QED
    BY <1>1, <2>2 DEF After
<1>5. Intact => \A u, v \in UserFd :
                   Top.savefd[u] \in Fd /\ Top.savefd[u] = Top.savefd[v] => u = v
  <2>1. Len(e) \in 1..Len(e)
    BY <1>1
  <2> QED
    BY <1>1, <2>1 DEF FdInv, Sound, Distinct
<1> QED
  BY <1>1, <1>2, <1>3, <1>4, <1>5

LEMMA ChangeFd ==
    ASSUME IInv, IInv', FdInv, pc \in {"redirect", "back"}, NEW r \in Env,
           Len(e') = Len(e), e'[Len(e)] = r, \A i \in 1..Len(e) - 1 : e'[i] = e[i],
           r.type = Top.type, r.kind = Top.kind, r.was = Top.was,
           r.kind = "pipe" =>
               /\ pc' = "redirect" => r.savefd = NoSaves
               /\ pc' = "back" => r.savefd[0] # Unsaved /\ r.savefd[1] # Unsaved,
           failed' = failed,
           Intact => /\ \A u \in UserFd : Keeps(r, fd', fd', u)
                     /\ \A u, v \in UserFd :
                           r.savefd[u] \in Fd /\ r.savefd[u] = r.savefd[v] => u = v
                     /\ \A u \in UserFd : r.savefd[u] \in Fd =>
                           r.savefd[u] = Top.savefd[u] \/ fd[r.savefd[u]] = Closed
                     /\ \A k \in Fd : (k >= FDBASE /\ fd[k] # Closed) =>
                           fd'[k] = fd[k] \/ k \in Saves(Top),
           failed = "no" => \A k \in Fd : (k >= FDBASE /\ fd'[k] # Closed) =>
                               \/ \E u \in UserFd : r.savefd[u] = k
                               \/ fd[k] # Closed /\ \A u \in UserFd : Top.savefd[u] # k
    PROVE  FdStep
<1>1. /\ Depth = Len(e) /\ Top = e[Len(e)] /\ e # <<>>
      /\ e \in Seq(Env) /\ Len(e) \in Nat /\ Len(e) >= 2 /\ Top.type \in Running
  BY WorkFd
<1>2. /\ e' \in Seq(Env) /\ Len(e') = Len(e) /\ e'[Len(e)] = r
      /\ \A i \in 1..Len(e) - 1 : e'[i] = e[i]
  BY DEF IInv, TypeInv
<1>3. ASSUME Intact PROVE Sound(e', fd')
  <2>1. Sound(e, fd)
    BY <1>3 DEF FdInv
  <2>2. /\ e'[Len(e)].type \in Running /\ e'[Len(e)].was = e[Len(e)].was
        /\ e'[Len(e)].savefd = r.savefd /\ e[Len(e)].savefd = Top.savefd
    BY <1>1, <1>2
  <2>3. /\ \A u \in UserFd : Keeps(e'[Len(e)], fd', fd', u)
        /\ \A u, v \in UserFd :
               e'[Len(e)].savefd[u] \in Fd /\ e'[Len(e)].savefd[u] = e'[Len(e)].savefd[v]
                   => u = v
        /\ \A u \in UserFd : e'[Len(e)].savefd[u] \in Fd =>
               \/ e'[Len(e)].savefd[u] = e[Len(e)].savefd[u]
               \/ fd[e'[Len(e)].savefd[u]] = Closed
        /\ \A k \in Fd : (k >= FDBASE /\ fd[k] # Closed) =>
               fd'[k] = fd[k] \/ k \in Saves(e[Len(e)])
    BY <1>1, <1>2, <1>3, <2>2
  <2>4. e' \in Seq(Env) /\ e \in Seq(Env) /\ Len(e) >= 2 /\ Len(e') = Len(e)
        /\ \A i \in 1..Len(e) - 1 : e'[i] = e[i]
    BY <1>1, <1>2
  <2>5. TopChanges(e, e', fd, fd')
    BY <2>2, <2>3, <2>4 DEF TopChanges
  <2> QED
    BY <2>1, <2>4, <2>5, SoundTop
<1>4. ASSUME failed = "no" PROVE Owned(e', fd')
  <2> SUFFICES ASSUME NEW k \in Fd, k >= FDBASE, fd'[k] # Closed
               PROVE  \E i \in 1..Len(e') : \E u \in UserFd : e'[i].savefd[u] = k
    BY DEF Owned
  <2>1. CASE \E u \in UserFd : r.savefd[u] = k
    <3>1. Len(e) \in 1..Len(e')
      BY <1>1, <1>2
    <3> QED
      BY <1>2, <2>1, <3>1
  <2>2. CASE fd[k] # Closed /\ \A u \in UserFd : Top.savefd[u] # k
    <3>1. PICK i \in 1..Len(e) : \E u \in UserFd : e[i].savefd[u] = k
      <4>1. Owned(e, fd)
        BY <1>4 DEF FdInv
      <4> QED
        BY <2>2, <4>1 DEF Owned
    <3>2. i # Len(e)
      BY <1>1, <2>2, <3>1
    <3>3. i \in 1..Len(e') /\ e'[i] = e[i]
      BY <1>1, <1>2, <3>2
    <3> QED
      BY <3>1, <3>3
  <2> QED
    BY <1>4, <2>1, <2>2
<1>5. Pipes'
  <2> DEFINE n == Len(e)
  <2>1. ASSUME NEW i \in 1..Len(e'), i >= n PROVE PipeAt(i)'
    <3>1. i = Len(e') /\ e'[i] = r
      BY <1>1, <1>2, <2>1
    <3> QED
      BY <3>1 DEF PipeAt
  <2>2. /\ \A i \in 1..Len(e') : ~(i > n)
        /\ n \in 0..Len(e) /\ n <= Len(e')
        /\ \A i \in 1..n : i # n => i \in 1..Len(e) - 1
    BY <1>1, <1>2
  <2>3. \A i \in 1..n : e'[i].kind = e[i].kind /\ e'[i].type = e[i].type
    BY <1>1, <1>2, <2>2
  <2>4. \A i \in 1..n : i # n => e'[i].savefd = e[i].savefd
    BY <1>2, <2>2
  <2> HIDE DEF n
  <2> QED
    BY <1>1, <1>2, <2>1, <2>2, <2>3, <2>4, PipesFrame DEF FdInv
<1>6. Restores
  BY <1>1, <1>2 DEF Restores
<1> QED
  BY <1>3, <1>4, <1>5, <1>6 DEF FdStep, FdInv, Intact

(* A descriptor of the user gets another value, after what it was is put   *)
(* aside, at n, or found closed, unless that was done before.              *)
LEMMA MovedFd ==
    ASSUME IInv, IInv', FdInv, pc = "redirect", Top.kind # "pipe",
           NEW u \in UserFd, NEW n \in Place, NEW r \in Env,
           Len(e') = Len(e), e'[Len(e)] = r, \A i \in 1..Len(e) - 1 : e'[i] = e[i],
           Same(r, Top), r.was = Top.was,
           NEW x, x = (IF Top.savefd[u] = Unsaved THEN n ELSE Top.savefd[u]),
           r.savefd = [Top.savefd EXCEPT ![u] = x], failed' = failed,
           n = Shut => fd[u] = Closed,
           n \in Fd /\ Top.savefd[u] = Unsaved =>
               n >= FDBASE /\ fd[n] = Closed /\ fd[u] # Closed /\ fd'[n] = fd[u],
           n # Unsaved,
           \A k \in Fd \ {u} : k # n \/ Top.savefd[u] # Unsaved => fd'[k] = fd[k]
    PROVE  FdStep
<1>1. /\ Top \in Env /\ Top.savefd \in [UserFd -> Place] /\ e # <<>>
      /\ Intact => /\ \A v \in UserFd : Keeps(Top, fd, fd, v)
                   /\ \A v, w \in UserFd :
                         Top.savefd[v] \in Fd /\ Top.savefd[v] = Top.savefd[w]
                             => v = w
  BY WorkFd
<1>2. /\ \A v \in UserFd : v \in Fd /\ v \in Nat /\ v < FDBASE /\ ~(v >= FDBASE)
      /\ Unsaved \notin Fd /\ Shut \notin Fd /\ Unsaved # Shut
      /\ r.savefd[u] = x /\ \A v \in UserFd \ {u} : r.savefd[v] = Top.savefd[v]
      /\ n \in Fd \/ n = Shut
  BY <1>1, UserLemma, EnvAssumption DEF UserFd, Place, Unsaved, Shut
<1>3. ASSUME Intact, NEW v \in UserFd PROVE Keeps(r, fd', fd', v)
  <2>1. Keeps(Top, fd, fd, v) /\ Keeps(Top, fd, fd, u)
    BY <1>1, <1>3
  <2>2. CASE v # u
    <3>1. r.savefd[v] = Top.savefd[v] /\ v \in Fd \ {u} /\ r.was[v] = Top.was[v]
      BY <1>2, <2>2
    <3>2. CASE Top.savefd[v] = Unsaved
      <4>1. v # n \/ Top.savefd[u] # Unsaved
        BY <1>2
      <4>2. fd'[v] = fd[v]
        BY <3>1, <4>1
      <4> QED
        BY <1>2, <2>1, <3>1, <3>2, <4>2 DEF Keeps
    <3>3. CASE Top.savefd[v] \in Fd
      <4> DEFINE k == Top.savefd[v]
      <4>1. k >= FDBASE /\ fd[k] = Top.was[v] /\ fd[k] # Closed
        BY <2>1, <3>3 DEF Keeps
      <4>2. k \in Fd \ {u} /\ (k # n \/ Top.savefd[u] # Unsaved)
        BY <1>2, <3>3, <4>1
      <4>3. fd'[k] = fd[k]
        BY <4>2
      <4> QED
        BY <1>2, <3>1, <3>3, <4>1, <4>3 DEF Keeps
    <3>4. CASE Top.savefd[v] \notin Fd \union {Unsaved}
      BY <2>1, <3>1, <3>4 DEF Keeps
    <3> QED
      BY <3>2, <3>3, <3>4
  <2>3. CASE v = u /\ Top.savefd[u] = Unsaved
    <3>1. r.savefd[v] = n /\ Top.was[u] = fd[u] /\ r.was[v] = Top.was[u]
      BY <1>2, <2>1, <2>3 DEF Keeps
    <3> QED
      BY <2>3, <3>1 DEF Keeps
  <2>4. CASE v = u /\ Top.savefd[u] # Unsaved
    <3>1. r.savefd[v] = Top.savefd[u] /\ r.was[v] = Top.was[u]
      BY <1>2, <2>4
    <3>2. Top.savefd[u] \in Fd => fd'[Top.savefd[u]] = fd[Top.savefd[u]]
      BY <1>2, <2>1, <2>4 DEF Keeps
    <3> QED
      BY <2>1, <2>4, <3>1, <3>2 DEF Keeps
  <2> QED
    BY <2>2, <2>3, <2>4
<1>4. ASSUME Intact, NEW v \in UserFd, r.savefd[v] \in Fd
      PROVE  r.savefd[v] = Top.savefd[v] \/ fd[r.savefd[v]] = Closed
  BY <1>2, <1>4
<1>5. ASSUME Intact, NEW v \in UserFd, NEW w \in UserFd,
             r.savefd[v] \in Fd, r.savefd[v] = r.savefd[w]
      PROVE  v = w
  <2>1. ASSUME Top.savefd[u] = Unsaved, NEW y \in UserFd \ {u}, Top.savefd[y] \in Fd
        PROVE  Top.savefd[y] # n
    <3>1. Keeps(Top, fd, fd, y)
      BY <1>1, <1>5
    <3> QED
      BY <2>1, <3>1 DEF Keeps
  <2>2. CASE Top.savefd[u] = Unsaved /\ (v = u \/ w = u)
    <3>1. x = n
      BY <2>2
    <3> QED
      BY <1>2, <1>5, <2>1, <2>2, <3>1
  <2>3. CASE Top.savefd[u] # Unsaved
    <3>1. r.savefd[v] = Top.savefd[v] /\ r.savefd[w] = Top.savefd[w]
      BY <1>2, <2>3
    <3> QED
      BY <1>1, <1>5, <3>1
  <2>4. CASE v # u /\ w # u
    BY <1>1, <1>2, <1>5, <2>4
  <2> QED
    BY <2>2, <2>3, <2>4
<1>6. ASSUME Intact, NEW k \in Fd, k >= FDBASE, fd[k] # Closed PROVE fd'[k] = fd[k]
  BY <1>2, <1>6
<1>7. ASSUME NEW k \in Fd, k >= FDBASE, fd'[k] # Closed
      PROVE  \/ \E v \in UserFd : r.savefd[v] = k
             \/ fd[k] # Closed /\ \A v \in UserFd : Top.savefd[v] # k
  <2>1. CASE Top.savefd[u] = Unsaved /\ k = n
    BY <1>2, <2>1
  <2>2. CASE ~(Top.savefd[u] = Unsaved /\ k = n)
    <3>1. fd'[k] = fd[k]
      BY <1>2, <1>7, <2>2
    <3>2. ASSUME NEW v \in UserFd, Top.savefd[v] = k
          PROVE  r.savefd[v] = k
      BY <1>2, <3>2
    <3> QED
      BY <1>7, <3>1, <3>2
  <2> QED
    BY <2>1, <2>2
<1> QED
  <2>1. Intact => /\ \A v \in UserFd : Keeps(r, fd', fd', v)
                  /\ \A v, w \in UserFd :
                        r.savefd[v] \in Fd /\ r.savefd[v] = r.savefd[w] => v = w
                  /\ \A v \in UserFd : r.savefd[v] \in Fd =>
                        r.savefd[v] = Top.savefd[v] \/ fd[r.savefd[v]] = Closed
                  /\ \A k \in Fd : (k >= FDBASE /\ fd[k] # Closed) =>
                        fd'[k] = fd[k] \/ k \in Saves(Top)
    BY <1>3, <1>4, <1>5, <1>6
  <2>2. failed = "no" => \A k \in Fd : (k >= FDBASE /\ fd'[k] # Closed) =>
                            \/ \E v \in UserFd : r.savefd[v] = k
                            \/ fd[k] # Closed /\ \A v \in UserFd : Top.savefd[v] # k
    BY <1>7
  <2>3. r.type = Top.type /\ r.kind = Top.kind
    BY DEF Same
  <2> HIDE DEF FdStep
  <2> QED
    BY <2>1, <2>2, <2>3, ChangeFd

(* savefd(): a copy is made where nothing was.                             *)
LEMMA CopyLemma ==
    ASSUME NEW fds \in [Fd -> FdState], NEW u \in UserFd, ~CannotSave(fds, u)
    PROVE  LET n == Savefd(fds, u)
           IN  /\ n = Shut <=> fds[u] = Closed
               /\ n \in Fd \/ n = Shut
               /\ n \in Fd => n >= FDBASE /\ fds[n] = Closed /\ fds[u] # Closed /\ n # u
<1>1. FDBASE \in Nat /\ u \in Fd /\ Shut \notin Fd /\ u < FDBASE
  BY UserLemma, EnvAssumption DEF UserFd
<1>2. CASE fds[u] = Closed
  BY <1>1, <1>2 DEF Savefd
<1>3. CASE fds[u] # Closed
  <2>1. Free(fds, FDBASE) # {}
    BY <1>3 DEF CannotSave
  <2>2. /\ Savefd(fds, u) \in Fd /\ Savefd(fds, u) >= FDBASE
        /\ fds[Savefd(fds, u)] = Closed
    BY <1>1, <1>3, <2>1, FreeLemma DEF Savefd
  <2> QED
    BY <1>1, <1>3, <2>2
<1> QED
  BY <1>2, <1>3

(* No room: the descriptor that was opened stays open.                     *)
LEMMA CannotFd ==
    ASSUME IInv, IInv', FdInv, pc = "redirect", e' = e,
           failed' \in {"room", "comsub"}, pc' \notin {"redirect", "back"}
    PROVE  FdStep
  BY StayFd, WorkFd DEF Alike

LEMMA RedirectedFd ==
    ASSUME IInv, IInv', FdInv, pc = "redirect", Top.kind # "pipe",
           NEW fds \in [Fd -> FdState], NEW u \in UserFd,
           NEW from, NEW opened \in BOOLEAN, Redirected(fds, u, from, opened),
           \/ opened /\ from \in Fd /\ fd[from] = Closed /\ fds = [fd EXCEPT ![from] = "file"]
           \/ ~opened /\ from \in Fd \ {u} /\ fds = fd
           \/ ~opened /\ from = Shut /\ fds = fd
    PROVE  FdStep
<1> DEFINE n == IF from = u THEN Shut ELSE Savefd(fds, u)
           saved == IF NeedsSave(u) THEN Copied(fds, u, n) ELSE fds
           moved == IF from \in {u, Shut} THEN saved
                    ELSE [saved EXCEPT ![u] = saved[from]]
           x == IF NeedsSave(u) THEN n ELSE Top.savefd[u]
<1>1. /\ Depth = Len(e) /\ Top = e[Len(e)] /\ Top \in Env /\ e # <<>>
      /\ e \in Seq(Env) /\ Top.savefd \in [UserFd -> Place] /\ fd \in [Fd -> FdState]
  BY WorkFd
<1>2. CASE NeedsSave(u) /\ from # u /\ CannotSave(fds, u)
  <2>1. e' = e /\ failed' = "room" /\ pc' = "raise"
    BY <1>2 DEF Redirected, Raise
  <2> QED
    BY <2>1, CannotFd
<1>3. CASE ~(NeedsSave(u) /\ from # u /\ CannotSave(fds, u))
  <2>1. PutAside(u, x)
    BY <1>3, RedirectedTop
  <2>2. /\ fd' = IF opened /\ from # u THEN [moved EXCEPT ![from] = Closed]
                 ELSE IF from = Shut THEN [moved EXCEPT ![u] = Closed]
                 ELSE moved
        /\ failed' = failed
    BY <1>3 DEF Redirected
  <2>3. NeedsSave(u) <=> Top.savefd[u] = Unsaved
    BY DEF NeedsSave
  <2>4. u \in Fd /\ Unsaved \notin Fd /\ Shut \notin Fd /\ Unsaved # Shut
    BY UserLemma DEF Unsaved, Shut
  <2>5. \A k \in Fd : /\ k # from => fds[k] = fd[k]
                      /\ ~opened => fds[k] = fd[k]
                      /\ opened /\ k = from => fds[k] = "file" /\ fd[k] = Closed
    BY <1>1
  <2>6. NeedsSave(u) => /\ n \in Fd \/ n = Shut
                        /\ n = Shut => fd[u] = Closed
                        /\ n \in Fd => /\ from # u /\ n >= FDBASE /\ fds[n] = Closed
                                       /\ fd[n] = Closed /\ fds[u] = fd[u]
                                       /\ fd[u] # Closed /\ n # u
                                       /\ (opened => n # from)
    <3> SUFFICES ASSUME NeedsSave(u)
                 PROVE  /\ n \in Fd \/ n = Shut
                        /\ n = Shut => fd[u] = Closed
                        /\ n \in Fd => /\ from # u /\ n >= FDBASE /\ fds[n] = Closed
                                       /\ fd[n] = Closed /\ fds[u] = fd[u]
                                       /\ fd[u] # Closed /\ n # u
                                       /\ (opened => n # from)
      OBVIOUS
    <3>1. CASE from = u
      <4>1. n = Shut
        BY <3>1
      <4> QED
        BY <2>4, <3>1, <4>1
    <3>2. CASE from # u
      <4>1. ~CannotSave(fds, u) /\ n = Savefd(fds, u)
        BY <1>3, <3>2
      <4>2. /\ n = Shut <=> fds[u] = Closed
            /\ n \in Fd \/ n = Shut
            /\ n \in Fd => n >= FDBASE /\ fds[n] = Closed /\ fds[u] # Closed /\ n # u
        BY <4>1, CopyLemma
      <4>3. fds[u] = fd[u]
        BY <2>4, <2>5, <3>2
      <4>4. n \in Fd /\ opened => n # from
        BY <2>5, <4>2 DEF Closed
      <4>5. n \in Fd => fd[n] = Closed
        BY <2>5, <4>2, <4>4
      <4> HIDE DEF n
      <4> QED
        BY <3>2, <4>2, <4>3, <4>4, <4>5
    <3> QED
      BY <3>1, <3>2
  <2>7. saved \in [Fd -> FdState] /\ \A k \in Fd : k # n \/ ~NeedsSave(u) => saved[k] = fds[k]
    BY <2>6, UserLemma DEF Copied
  <2>8. NeedsSave(u) /\ n \in Fd => saved[n] = fds[u]
    BY <2>4 DEF Copied
  <2> HIDE DEF n, saved
  <2>9. moved \in [Fd -> FdState] /\ \A k \in Fd \ {u} : moved[k] = saved[k]
    BY <2>4, <2>5, <2>7
  <2> HIDE DEF moved
  <2>10. \A k \in Fd \ {u} : k # n \/ ~NeedsSave(u) => fd'[k] = fd[k]
    <3> TAKE k \in Fd \ {u}
    <3>1. k # n \/ ~NeedsSave(u) => moved[k] = fds[k]
      BY <2>7, <2>9
    <3>2. opened /\ k = from => (from # u => fd'[k] = Closed) /\ fd[k] = Closed
      BY <2>2, <2>5, <2>9
    <3>3. ~(opened /\ k = from) => fd'[k] = moved[k] /\ fds[k] = fd[k]
      BY <2>2, <2>5, <2>9
    <3> QED
      BY <3>1, <3>2, <3>3
  <2>11. NeedsSave(u) /\ n \in Fd => fd'[n] = fd[u]
    <3> SUFFICES ASSUME NeedsSave(u), n \in Fd PROVE fd'[n] = fd[u]
      OBVIOUS
    <3>1. n # u /\ (opened => n # from) /\ moved[n] = fd[u]
      BY <2>6, <2>8, <2>9
    <3> QED
      BY <2>2, <2>9, <3>1
  <2>12. PICK r \in Env : /\ e' = [e EXCEPT ![Len(e)] = r] /\ Same(r, Top)
                          /\ r.was = Top.was
                          /\ r.savefd = [Top.savefd EXCEPT ![u] = x]
    BY <2>1 DEF PutAside
  <2>13. /\ Len(e') = Len(e) /\ e'[Len(e)] = r
         /\ \A i \in 1..Len(e) - 1 : e'[i] = e[i]
         /\ Same(r, Top) /\ r.was = Top.was
         /\ r.savefd = [Top.savefd EXCEPT ![u] = x]
    BY <1>1, <2>12, TopLemma
  <2>14. CASE NeedsSave(u)
    <3>1. x = n /\ n \in Place /\ n # Unsaved
      BY <2>4, <2>6, <2>14 DEF Place
    <3>2. x = IF Top.savefd[u] = Unsaved THEN n ELSE Top.savefd[u]
      BY <2>3, <2>14, <3>1
    <3>3. \A k \in Fd \ {u} : k # n \/ Top.savefd[u] # Unsaved => fd'[k] = fd[k]
      BY <2>3, <2>10
    <3>4. n = Shut => fd[u] = Closed
      BY <2>6, <2>14
    <3>5. n \in Fd /\ Top.savefd[u] = Unsaved =>
               n >= FDBASE /\ fd[n] = Closed /\ fd[u] # Closed /\ fd'[n] = fd[u]
      BY <2>6, <2>11, <2>14
    <3> HIDE DEF x
    <3> QED
      BY <2>2, <2>13, <3>1, <3>2, <3>3, <3>4, <3>5, MovedFd
  <2>15. CASE ~NeedsSave(u)
    <3> DEFINE m == Top.savefd[u]
    <3>1. x = m /\ m \in Place /\ m # Unsaved
      BY <1>1, <2>3, <2>15
    <3>2. x = IF Top.savefd[u] = Unsaved THEN 0 ELSE Top.savefd[u]
      BY <2>3, <2>15, <3>1
    <3>3. \A k \in Fd \ {u} : k # 0 \/ Top.savefd[u] # Unsaved => fd'[k] = fd[k]
      BY <2>10, <2>15
    <3>4. 0 \in Place /\ 0 # Unsaved /\ 0 # Shut
      BY UserLemma DEF Place, Unsaved, Shut
    <3> HIDE DEF x, m
    <3> QED
      BY <2>2, <2>3, <2>13, <2>15, <3>2, <3>3, <3>4, MovedFd
  <2> QED
    BY <2>14, <2>15
<1> QED
  BY <1>2, <1>3

LEMMA IosetupFd == ASSUME IInv, IInv', FdInv, Iosetup PROVE FdStep
<1>1. CASE IosetupFails
  <2>1. e # <<>> /\ pc' \notin {"redirect", "back"} /\ e' = e /\ fd' = fd /\ failed' = failed
    BY <1>1, WorkFd DEF IosetupFails, Redirectable, Raise
  <2> QED
    BY <2>1, StayFd DEF Alike
<1>2. fd \in [Fd -> FdState] /\ UserFd \subseteq Fd
  BY UserLemma DEF IInv, TypeInv
<1>3. ASSUME NEW u \in UserFd, Open(u) PROVE FdStep
  <2> DEFINE k == Lowest(Free(fd, 0))
             fds == [fd EXCEPT ![k] = "file"]
  <2>1. k \in Fd /\ fd[k] = Closed
    BY <1>2, <1>3, FreeLemma DEF Open
  <2>2. Redirected(fds, u, k, TRUE) /\ pc = "redirect" /\ Top.kind # "pipe"
    BY <1>3 DEF Open, Redirectable
  <2> HIDE DEF k
  <2>3. fds \in [Fd -> FdState] /\ TRUE \in BOOLEAN
    BY <1>2, <2>1 DEF FdState, File
  <2> QED
    BY <2>1, <2>2, <2>3, RedirectedFd
<1>4. ASSUME NEW u \in UserFd, Close(u) PROVE FdStep
  BY <1>2, <1>4, RedirectedFd DEF Close, Redirectable
<1>5. ASSUME NEW u \in UserFd, NEW v \in UserFd, Dup(u, v) PROVE FdStep
  <2>1. v \in Fd \ {u}
    BY <1>2, <1>5 DEF Dup
  <2> QED
    BY <1>2, <1>5, <2>1, RedirectedFd DEF Dup, Redirectable
<1> QED
  BY <1>1, <1>3, <1>4, <1>5 DEF Iosetup

(* A pipeline puts 0 and 1 aside.                                          *)
LEMMA PipeFd == ASSUME IInv, IInv', FdInv, Pipe PROVE FdStep
<1> DEFINE n == Savefd(fd, 0)
           one == Copied(fd, 0, n)
           m == Savefd(one, 1)
<1>1. pc = "redirect" /\ pc' = "back" /\ Top.kind = "pipe" /\ failed' = failed
      /\ ~CannotSave(fd, 0) /\ ~CannotSave(one, 1)
      /\ fd' = [Copied(one, 1, m) EXCEPT ![0] = "pipe", ![1] = "pipe"]
  BY DEF Pipe, Body
<1>2. /\ Top = e[Len(e)] /\ e # <<>> /\ e \in Seq(Env) /\ fd \in [Fd -> FdState]
      /\ PipeAt(Len(e)) /\ Top.savefd \in [UserFd -> Place]
      /\ Intact => \A u \in UserFd : Keeps(Top, fd, fd, u)
  BY <1>1, WorkFd
<1>3. Top.savefd = NoSaves /\ \A u \in UserFd : Top.savefd[u] = Unsaved
  BY <1>1, <1>2 DEF PipeAt, NoSaves
<1>4. /\ 0 \in UserFd /\ 1 \in UserFd /\ 0 \in Fd /\ 1 \in Fd /\ FDBASE \in Nat
      /\ \A u \in UserFd : u \in Fd /\ ~(u >= FDBASE)
      /\ Unsaved \notin Fd /\ Shut \notin Fd /\ Unsaved # Shut
  BY UserLemma, EnvAssumption DEF UserFd, Unsaved, Shut
<1>5. /\ n \in Place /\ m \in Place /\ one \in [Fd -> FdState]
      /\ \E r \in Env : /\ e' = [e EXCEPT ![Len(e)] = r] /\ Same(r, Top)
                        /\ r.was = Top.was
                        /\ r.savefd = [Top.savefd EXCEPT ![0] = n, ![1] = m]
  BY PipeTop
<1>6. /\ n = Shut <=> fd[0] = Closed
      /\ n \in Fd \/ n = Shut
      /\ n \in Fd => n >= FDBASE /\ fd[n] = Closed /\ fd[0] # Closed
  BY <1>1, <1>2, <1>4, CopyLemma
<1>7. /\ \A k \in Fd : k # n => one[k] = fd[k]
      /\ n \in Fd => one[n] = fd[0]
  <2> HIDE DEF n
  <2> QED
    BY <1>2, <1>4, <1>6 DEF Copied
<1> HIDE DEF one
<1>8. /\ m = Shut <=> one[1] = Closed
      /\ m \in Fd \/ m = Shut
      /\ m \in Fd => m >= FDBASE /\ one[m] = Closed /\ one[1] # Closed
  BY <1>1, <1>4, <1>5, CopyLemma
<1> HIDE DEF n, m
<1>9. /\ one[1] = fd[1] /\ (m \in Fd => m # n /\ fd[m] = Closed)
  BY <1>4, <1>6, <1>7, <1>8
<1>10. /\ \A k \in Fd \ {0, 1} : k # n /\ k # m => fd'[k] = fd[k]
       /\ n \in Fd => fd'[n] = fd[0]
       /\ m \in Fd => fd'[m] = fd[1]
  BY <1>1, <1>4, <1>5, <1>6, <1>7, <1>8, <1>9 DEF Copied
<1>11. PICK r \in Env : /\ e' = [e EXCEPT ![Len(e)] = r] /\ Same(r, Top)
                        /\ r.was = Top.was
                        /\ r.savefd = [Top.savefd EXCEPT ![0] = n, ![1] = m]
  BY <1>5
<1>12. /\ Len(e') = Len(e) /\ e'[Len(e)] = r
       /\ \A i \in 1..Len(e) - 1 : e'[i] = e[i]
       /\ r.type = Top.type /\ r.kind = Top.kind /\ r.was = Top.was
       /\ r.savefd[0] = n /\ r.savefd[1] = m
       /\ \A u \in UserFd : u # 0 /\ u # 1 => r.savefd[u] = Unsaved
  BY <1>2, <1>3, <1>4, <1>11, TopLemma DEF Same
<1>13. ASSUME Intact, NEW u \in UserFd PROVE Keeps(r, fd', fd', u)
  <2>1. Top.was[u] = fd[u] /\ u \in Fd /\ u # n /\ u # m
    BY <1>2, <1>3, <1>4, <1>6, <1>8, <1>13 DEF Keeps
  <2>2. CASE u = 0
    BY <1>4, <1>6, <1>10, <1>12, <2>1, <2>2 DEF Keeps
  <2>3. CASE u = 1
    BY <1>4, <1>8, <1>9, <1>10, <1>12, <2>1, <2>3 DEF Keeps
  <2>4. CASE u # 0 /\ u # 1
    <3>1. fd'[u] = fd[u] /\ r.savefd[u] = Unsaved
      BY <1>10, <1>12, <2>1, <2>4
    <3> QED
      BY <1>4, <1>12, <2>1, <3>1 DEF Keeps
  <2> QED
    BY <2>2, <2>3, <2>4
<1>14. \A u, v \in UserFd : r.savefd[u] \in Fd /\ r.savefd[u] = r.savefd[v] => u = v
  BY <1>4, <1>9, <1>12
<1>15. \A u \in UserFd : r.savefd[u] \in Fd => fd[r.savefd[u]] = Closed
  BY <1>4, <1>6, <1>9, <1>12
<1>16. \A k \in Fd : k >= FDBASE /\ fd[k] # Closed => fd'[k] = fd[k]
  BY <1>4, <1>6, <1>9, <1>10
<1>17. \A k \in Fd : k >= FDBASE /\ fd'[k] # Closed =>
           \/ \E u \in UserFd : r.savefd[u] = k
           \/ fd[k] # Closed /\ \A u \in UserFd : Top.savefd[u] # k
  BY <1>3, <1>4, <1>10, <1>12
<1>18. r.kind = "pipe" =>
           /\ pc' = "redirect" => r.savefd = NoSaves
           /\ pc' = "back" => r.savefd[0] # Unsaved /\ r.savefd[1] # Unsaved
  BY <1>1, <1>4, <1>6, <1>8, <1>12
<1> QED
  BY <1>1, <1>12, <1>13, <1>14, <1>15, <1>16, <1>17, <1>18, ChangeFd

(* Its last part has the output of the pipeline again.                     *)
LEMMA LastOfPipeFd == ASSUME IInv, IInv', FdInv, LastOfPipe PROVE FdStep
<1> DEFINE m == Top.savefd[1]
           r == [Top EXCEPT !.savefd[1] = Unsaved]
<1>1. /\ pc = "back" /\ pc' = "break" /\ Top.kind = "pipe" /\ failed' = failed
      /\ e' = [e EXCEPT ![Depth].savefd[1] = Unsaved]
      /\ fd' = [k \in Fd |-> CASE k = 0 -> Closed
                               [] k = 1 -> IF m \in Fd THEN fd[m] ELSE Closed
                               [] OTHER -> IF k = m THEN Closed ELSE fd[k]]
  BY DEF LastOfPipe, Back
<1>2. /\ Top = e[Len(e)] /\ Top \in Env /\ e # <<>> /\ e \in Seq(Env)
      /\ fd \in [Fd -> FdState] /\ Depth = Len(e)
      /\ PipeAt(Len(e)) /\ Top.savefd \in [UserFd -> Place]
      /\ Intact => /\ \A u \in UserFd : Keeps(Top, fd, fd, u)
                   /\ \A u, v \in UserFd :
                         Top.savefd[u] \in Fd /\ Top.savefd[u] = Top.savefd[v]
                             => u = v
  BY <1>1, WorkFd
<1>3. /\ 0 \in UserFd /\ 1 \in UserFd /\ 0 \in Fd /\ 1 \in Fd
      /\ \A u \in UserFd : u \in Fd /\ ~(u >= FDBASE)
      /\ Unsaved \notin Fd /\ Shut \notin Fd /\ Unsaved # Shut
  BY UserLemma, EnvAssumption DEF UserFd, Unsaved, Shut
<1>4. Top.savefd[0] # Unsaved /\ m # Unsaved /\ (m \in Fd \/ m = Shut)
  BY <1>1, <1>2, <1>3 DEF PipeAt, Place
<1>5. /\ r \in Env /\ r.type = Top.type /\ r.kind = Top.kind /\ r.was = Top.was
      /\ r.savefd[1] = Unsaved /\ \A u \in UserFd : u # 1 => r.savefd[u] = Top.savefd[u]
  <2>1. [Top.savefd EXCEPT ![1] = Unsaved] \in [UserFd -> Place]
    BY <1>2 DEF Place
  <2>2. r.savefd = [Top.savefd EXCEPT ![1] = Unsaved]
    BY <1>2 DEF Env
  <2> QED
    BY <1>2, <1>3, <2>1, <2>2 DEF Env
<1>6. /\ Len(e') = Len(e) /\ e'[Len(e)] = r
      /\ \A i \in 1..Len(e) - 1 : e'[i] = e[i]
  <2>1. e' = [e EXCEPT ![Len(e)] = r]
    BY <1>1, <1>2
  <2> HIDE DEF r
  <2> QED
    BY <1>2, <1>5, <2>1, TopLemma
<1> HIDE DEF r
<1>7. /\ \A k \in Fd : k # 0 /\ k # 1 => fd'[k] = IF k = m THEN Closed ELSE fd[k]
      /\ fd'[1] = IF m \in Fd THEN fd[m] ELSE Closed
  <2> HIDE DEF m
  <2> QED
    BY <1>1, <1>3
<1>8. ASSUME Intact, NEW u \in UserFd PROVE Keeps(r, fd', fd', u)
  <2>1. Keeps(Top, fd, fd, u) /\ Keeps(Top, fd, fd, 1)
    BY <1>2, <1>3, <1>8
  <2>2. CASE u = 1
    BY <1>3, <1>4, <1>5, <1>7, <2>1, <2>2 DEF Keeps
  <2>3. CASE u # 1
    <3>1. r.savefd[u] = Top.savefd[u] /\ r.was[u] = Top.was[u] /\ u \in Fd
      BY <1>3, <1>5, <2>3
    <3>2. CASE Top.savefd[u] = Unsaved
      <4>1. u # 0 /\ u # m
        <5>1. m \in Fd => m >= FDBASE
          BY <2>1 DEF Keeps
        <5> QED
          BY <1>3, <1>4, <3>2, <5>1
      <4>2. fd'[u] = fd[u]
        BY <1>7, <2>3, <3>1, <4>1
      <4> QED
        BY <1>3, <2>1, <3>1, <3>2, <4>2 DEF Keeps
    <3>3. CASE Top.savefd[u] \in Fd
      <4> DEFINE k == Top.savefd[u]
      <4>1. k >= FDBASE /\ fd[k] = Top.was[u] /\ fd[k] # Closed
        BY <2>1, <3>3 DEF Keeps
      <4>2. k # m
        BY <1>2, <1>3, <1>8, <2>3, <3>3
      <4>3. k # 0 /\ k # 1 /\ k \in Fd
        BY <1>3, <3>3, <4>1
      <4>4. fd'[k] = fd[k]
        BY <1>7, <4>2, <4>3
      <4> HIDE DEF m
      <4> QED
        BY <1>3, <3>1, <3>3, <4>1, <4>4 DEF Keeps
    <3>4. CASE Top.savefd[u] = Shut
      BY <1>3, <2>1, <3>1, <3>4 DEF Keeps
    <3>5. Top.savefd[u] = Unsaved \/ Top.savefd[u] \in Fd \/ Top.savefd[u] = Shut
      BY <1>2 DEF Place
    <3> QED
      BY <3>2, <3>3, <3>4, <3>5
  <2> QED
    BY <2>2, <2>3
<1>9. Intact => \A u, v \in UserFd : r.savefd[u] \in Fd /\ r.savefd[u] = r.savefd[v] => u = v
  BY <1>2, <1>3, <1>5
<1>10. \A u \in UserFd : r.savefd[u] \in Fd => r.savefd[u] = Top.savefd[u]
  BY <1>3, <1>5
<1>11. \A k \in Fd : k >= FDBASE /\ fd[k] # Closed => fd'[k] = fd[k] \/ k \in Saves(Top)
  <2> SUFFICES ASSUME NEW k \in Fd, k >= FDBASE, fd'[k] # fd[k] PROVE k \in Saves(Top)
    OBVIOUS
  <2>1. k = m
    BY <1>3, <1>7
  <2> QED
    BY <1>3, <2>1 DEF Saves
<1>12. \A k \in Fd : k >= FDBASE /\ fd'[k] # Closed =>
           \/ \E u \in UserFd : r.savefd[u] = k
           \/ fd[k] # Closed /\ \A u \in UserFd : Top.savefd[u] # k
  <2> SUFFICES ASSUME NEW k \in Fd, k >= FDBASE, fd'[k] # Closed
               PROVE  \/ \E u \in UserFd : r.savefd[u] = k
                      \/ fd[k] # Closed /\ \A u \in UserFd : Top.savefd[u] # k
    OBVIOUS
  <2>1. k # m /\ fd'[k] = fd[k]
    BY <1>3, <1>7
  <2> QED
    BY <1>5, <2>1
<1> QED
  BY <1>1, <1>5, <1>6, <1>8, <1>9, <1>10, <1>11, <1>12, ChangeFd

(* fork() fails: what is left open is none that was put aside.             *)
LEMMA PipeFailsFd == ASSUME IInv, IInv', FdInv, PipeFails PROVE FdStep
<1> DEFINE n == Lowest(Free(fd, FDBASE))
           rest == Free(fd, FDBASE) \ {n}
           m == Lowest(rest)
<1>1. /\ pc = "back" /\ pc' = "raise" /\ e' = e
      /\ fd' = [fd EXCEPT ![n] = "pipe", ![m] = "pipe"]
      /\ Cardinality(Free(fd, FDBASE)) >= 2
      /\ failed' = IF failed = "no" THEN "fork" ELSE failed
  BY DEF PipeFails, Back, Raise
<1>2. /\ fd \in [Fd -> FdState] /\ e \in Seq(Env) /\ e # <<>> /\ Len(e) \in Nat
      /\ Len(e) >= 2 /\ Depth = Len(e)
  BY <1>1, WorkFd
<1>3. n \in Fd /\ m \in Fd /\ n >= FDBASE /\ m >= FDBASE /\ fd[n] = Closed /\ fd[m] = Closed
  <2>1. Free(fd, FDBASE) \in SUBSET Nat /\ rest \in SUBSET Nat
    BY UserLemma DEF Free
  <2>2. Free(fd, FDBASE) # {}
    BY <1>1, FS_EmptySet
  <2>3. n \in Free(fd, FDBASE)
    BY <2>1, <2>2, LowestLemma
  <2>4. rest # {}
    <3>1. rest = {} => Free(fd, FDBASE) = {n}
      BY <2>3
    <3>2. Cardinality({n}) = 1
      BY FS_Singleton
    <3> QED
      BY <1>1, <3>1, <3>2
  <2>5. m \in rest
    <3> HIDE DEF rest
    <3> QED
      BY <2>1, <2>4, LowestLemma
  <2> QED
    BY <2>3, <2>5 DEF Free
<1> HIDE DEF n, m
<1>4. \A k \in Fd : k # n /\ k # m => fd'[k] = fd[k]
  BY <1>1, <1>2
<1>5. ASSUME Intact PROVE Sound(e, fd')
  <2>1. Sound(e, fd)
    BY <1>5 DEF FdInv
  <2>2. ASSUME NEW i \in 2..Len(e), NEW u \in UserFd
        PROVE  Keeps(e[i], After(e, fd', i), fd', u)
    <3>1. Keeps(e[i], After(e, fd, i), fd, u)
      BY <2>1 DEF Sound, AllKept
    <3>2. u \in Fd /\ u # n /\ u # m
      BY <1>3, UserLemma, EnvAssumption DEF UserFd
    <3>3. After(e, fd', i)[u] = After(e, fd, i)[u]
      BY <1>4, <3>2 DEF After
    <3>4. e[i].savefd[u] \in Fd => fd'[e[i].savefd[u]] = fd[e[i].savefd[u]]
      BY <1>3, <1>4, <3>1 DEF Keeps
    <3> QED
      BY <3>1, <3>3, <3>4 DEF Keeps
  <2> QED
    BY <2>1, <2>2 DEF Sound, AllKept
<1>6. failed' # "no" /\ (Intact' => Intact)
  BY <1>1 DEF Intact
<1>7. Pipes'
  <2> SUFFICES ASSUME NEW i \in 1..Len(e)
               PROVE  PipeAt(i)' /\ (e[i].type = "loop" => e[i].kind = "loop")
    BY <1>1 DEF Pipes
  <2> QED
    BY <1>1 DEF FdInv, Pipes, PipeAt
<1>8. Restores
  BY <1>1, <1>2 DEF Restores
<1> QED
  BY <1>1, <1>5, <1>6, <1>7, <1>8 DEF FdStep, FdInv

LEMMA ComsubFailsFd == ASSUME IInv, IInv', FdInv, ComsubFails PROVE FdStep
  BY CannotFd DEF ComsubFails, Raise

(* exec gives up what was put aside: environments that have none of it go  *)
(* back to what is redirected now.                                         *)
LEMMA C_execFd == ASSUME IInv, IInv', FdInv, C_exec PROVE FdStep
<1> DEFINE L == Len(e)
           Kept(i, u) == /\ Top.savefd[u] # Unsaved
                         /\ \A k \in i..L - 1 : e[k].savefd[u] = Unsaved
<1>1. /\ pc = "redirect" /\ pc' = "break" /\ Top.kind = "builtin" /\ failed' = failed
  BY DEF C_exec, Builtin, Body
<1>2. /\ Depth = L /\ Top = e[L] /\ Top \in Env /\ e \in Seq(Env) /\ L \in Nat /\ L >= 2
      /\ L \in 1..L /\ fd \in [Fd -> FdState] /\ e' \in Seq(Env)
      /\ Intact => \A u \in UserFd : Keeps(Top, fd, fd, u)
  BY <1>1, WorkFd DEF IInv, TypeInv
<1>3. Len(e') = L
  <2>1. DOMAIN e' = 1..L
    BY <1>2 DEF C_exec
  <2> QED
    BY <1>2, <2>1
<1>4. ASSUME NEW i \in 1..L
      PROVE  /\ e'[i].type = e[i].type /\ e'[i].kind = e[i].kind
             /\ e'[i].savefd = IF i = L THEN NoSaves ELSE e[i].savefd
             /\ \A u \in UserFd : e'[i].was[u] = IF Kept(i, u) THEN fd[u] ELSE e[i].was[u]
  <2> DEFINE w == [u \in UserFd |-> IF Kept(i, u) THEN fd[u] ELSE e[i].was[u]]
             env == [e[i] EXCEPT !.was = w]
  <2>1. e'[i] = IF i = L THEN [env EXCEPT !.savefd = NoSaves] ELSE env
    BY <1>2 DEF C_exec
  <2>2. e[i] \in Env
    BY <1>2
  <2>3. \A u \in UserFd : w[u] = IF Kept(i, u) THEN fd[u] ELSE e[i].was[u]
    OBVIOUS
  <2> HIDE DEF w
  <2>4. /\ env.type = e[i].type /\ env.kind = e[i].kind /\ env.was = w
        /\ env.savefd = e[i].savefd
        /\ [env EXCEPT !.savefd = NoSaves].type = e[i].type
        /\ [env EXCEPT !.savefd = NoSaves].kind = e[i].kind
        /\ [env EXCEPT !.savefd = NoSaves].was = w
        /\ [env EXCEPT !.savefd = NoSaves].savefd = NoSaves
    BY <2>2 DEF Env
  <2> HIDE DEF env
  <2> QED
    BY <2>1, <2>3, <2>4
<1>5. \A k \in Fd : fd'[k] = IF k \in Saves(Top) THEN Closed ELSE fd[k]
  BY DEF C_exec, GivesUp
<1>6. /\ \A u \in UserFd : u \in Fd /\ u < FDBASE /\ ~(u >= FDBASE) /\ NoSaves[u] = Unsaved
      /\ Unsaved \notin Fd /\ Shut \notin Fd /\ Unsaved # Shut
  BY UserLemma, EnvAssumption DEF UserFd, Unsaved, Shut, NoSaves
<1>7. ASSUME Intact PROVE Sound(e', fd')
  <2>1. Sound(e, fd)
    BY <1>7 DEF FdInv
  <2>2. \A u \in UserFd : fd'[u] = fd[u]
    <3> TAKE u \in UserFd
    <3>1. u \notin Saves(Top)
      <4>1. ASSUME NEW v \in UserFd, Top.savefd[v] = u PROVE FALSE
        <5>1. Keeps(Top, fd, fd, v) /\ Top.savefd[v] \in Fd
          BY <1>2, <1>6, <1>7, <4>1
        <5> QED
          BY <1>6, <4>1, <5>1 DEF Keeps
      <4> QED
        BY <4>1 DEF Saves
    <3> QED
      BY <1>5, <1>6, <3>1
  <2>3. ASSUME NEW i \in 2..L, NEW u \in UserFd
        PROVE  Keeps(e'[i], After(e', fd', i), fd', u)
    <3>1. i \in 1..L
      BY <1>2
    <3>2. CASE i = L
      <4>1. e'[i].savefd[u] = Unsaved
        BY <1>4, <1>6, <3>1, <3>2
      <4>2. Kept(i, u) <=> Top.savefd[u] # Unsaved
        BY <1>2, <3>2
      <4>3. e'[i].was[u] = fd[u]
        BY <1>2, <1>4, <1>7, <3>1, <3>2, <4>2 DEF Keeps
      <4>4. After(e', fd', i)[u] = fd[u]
        BY <1>3, <2>2, <3>2 DEF After
      <4> QED
        BY <1>6, <4>1, <4>3, <4>4 DEF Keeps
    <3>3. CASE i # L
      <4>1. i + 1 \in 1..L /\ i \in i..L - 1
        BY <1>2, <3>1, <3>3
      <4>2. Keeps(e[i], After(e, fd, i), fd, u)
        BY <2>1 DEF Sound, AllKept
      <4>3. e'[i].savefd[u] = e[i].savefd[u]
        BY <1>4, <3>1, <3>3
      <4>4. After(e', fd', i) = e'[i + 1].was /\ After(e, fd, i) = e[i + 1].was
        BY <1>3, <3>3 DEF After
      <4>5. CASE e[i].savefd[u] = Unsaved
        <5>1. Kept(i, u) <=> Kept(i + 1, u)
          <6>1. \A k \in i..L - 1 : k = i \/ k \in i + 1..L - 1
            BY <1>2, <3>1
          <6>2. \A k \in i + 1..L - 1 : k \in i..L - 1
            BY <1>2, <3>1
          <6> QED
            BY <4>5, <6>1, <6>2
        <5>2. e'[i].was[u] = e'[i + 1].was[u]
          <6>1. e[i].was[u] = e[i + 1].was[u]
            BY <4>2, <4>4, <4>5 DEF Keeps
          <6> HIDE DEF Kept
          <6> QED
            BY <1>4, <3>1, <4>1, <5>1, <6>1
        <5> QED
          BY <1>6, <4>3, <4>4, <4>5, <5>2 DEF Keeps
      <4>6. CASE e[i].savefd[u] # Unsaved
        <5>1. ~Kept(i, u)
          BY <4>1, <4>6
        <5>2. e'[i].was[u] = e[i].was[u]
          BY <1>4, <3>1, <5>1
        <5>3. e[i].savefd[u] \in Fd => fd'[e[i].savefd[u]] = fd[e[i].savefd[u]]
          <6> SUFFICES ASSUME e[i].savefd[u] \in Fd, e[i].savefd[u] \in Saves(Top)
                       PROVE  FALSE
            BY <1>5
          <6>1. PICK v \in UserFd : Top.savefd[v] = e[i].savefd[u]
            BY DEF Saves
          <6> QED
            BY <1>2, <2>1, <3>1, <3>3, <6>1 DEF Sound, Distinct
        <5> QED
          BY <4>2, <4>3, <4>6, <5>2, <5>3 DEF Keeps
      <4> QED
        BY <4>5, <4>6
    <3> QED
      BY <3>2, <3>3
  <2>4. Distinct(e')
    <3> SUFFICES ASSUME NEW i \in 1..L, NEW j \in 1..L, NEW u \in UserFd, NEW v \in UserFd,
                        e'[i].savefd[u] \in Fd, e'[i].savefd[u] = e'[j].savefd[v]
                 PROVE  i = j /\ u = v
      BY <1>3 DEF Distinct
    <3>1. i # L /\ j # L
      BY <1>4, <1>6
    <3>2. e'[i].savefd = e[i].savefd /\ e'[j].savefd = e[j].savefd
      BY <1>4, <3>1
    <3> QED
      BY <2>1, <3>2 DEF Sound, Distinct
  <2>5. NoneAside(e')
    BY <1>3, <1>4, <2>1 DEF Sound, NoneAside
  <2> QED
    BY <1>3, <2>3, <2>4, <2>5 DEF Sound, AllKept
<1>8. ASSUME failed = "no" PROVE Owned(e', fd')
  <2> SUFFICES ASSUME NEW k \in Fd, k >= FDBASE, fd'[k] # Closed
               PROVE  \E i \in 1..Len(e') : \E u \in UserFd : e'[i].savefd[u] = k
    BY DEF Owned
  <2>1. k \notin Saves(Top) /\ fd[k] # Closed
    BY <1>5
  <2>2. Owned(e, fd)
    BY <1>8 DEF FdInv
  <2>3. PICK i \in 1..L : \E u \in UserFd : e[i].savefd[u] = k
    BY <2>1, <2>2 DEF Owned
  <2>4. i # L
    <3>1. \A u \in UserFd : Top.savefd[u] # k
      BY <1>6, <2>1 DEF Saves
    <3> QED
      BY <1>2, <2>3, <3>1
  <2>5. e'[i].savefd = e[i].savefd
    BY <1>4, <2>4
  <2> QED
    BY <1>3, <2>3, <2>5
<1>9. Pipes'
  <2>1. \A i \in 1..L : e'[i].kind = e[i].kind /\ e'[i].type = e[i].type
    BY <1>4
  <2>2. \A i \in 1..L : i # L => e'[i].savefd = e[i].savefd
    BY <1>4
  <2>3. ASSUME NEW i \in 1..Len(e'), i >= L PROVE PipeAt(i)'
    <3>1. e'[i].kind = "builtin"
      <4>1. i = L
        BY <1>2, <1>3, <2>3
      <4> QED
        BY <1>1, <1>2, <2>1, <4>1
    <3> QED
      BY <3>1 DEF PipeAt
  <2>4. L \in 0..Len(e) /\ L <= Len(e') /\ \A i \in 1..Len(e') : ~(i > L)
    BY <1>2, <1>3
  <2> HIDE DEF L
  <2> QED
    BY <1>2, <2>1, <2>2, <2>3, <2>4, PipesFrame DEF FdInv
<1>10. Restores
  BY <1>2, <1>3 DEF Restores
<1> QED
  BY <1>1, <1>7, <1>8, <1>9, <1>10 DEF FdStep, FdInv, Intact

-----------------------------------------------------------------------------
(* The environments stay as they are.                                      *)
LEMMA KeptFd ==
    ASSUME IInv, IInv', FdInv, e # <<>>, e' = e, fd' = fd, failed' = failed,
           e[Len(e)].kind = "pipe" => pc' = pc \/ pc' \notin {"redirect", "back"}
    PROVE  FdStep
<1>1. \A i \in 1..Len(e) : Alike(e'[i], e[i])
  BY DEF Alike
<1> QED
  BY <1>1, StayFd

(* A field of the innermost one changes that is not about descriptors.     *)
LEMMA FieldFd ==
    ASSUME IInv, IInv', FdInv, e # <<>>, NEW r \in Env, Alike(r, e[Len(e)]),
           r.kind = e[Len(e)].kind, e' = [e EXCEPT ![Len(e)] = r],
           \/ r.type = e[Len(e)].type
           \/ /\ e[Len(e)].type \in Running /\ r.type \in Running
              /\ r.type = "loop" => r.kind = "loop",
           e[Len(e)].kind # "pipe", fd' = fd, failed' = failed
    PROVE  FdStep
<1>1. e \in Seq(Env)
  BY DEF IInv, TypeInv
<1>2. /\ Len(e') = Len(e) /\ e'[Len(e)] = r
      /\ \A i \in 1..Len(e) : /\ Alike(e'[i], e[i]) /\ e'[i].kind = e[i].kind
                              /\ i # Len(e) => e'[i].type = e[i].type
  BY <1>1, AlikeTop
<1> HIDE DEF Alike
<1> QED
  BY <1>2, StayFd

LEMMA EndsFd ==
    ASSUME IInv, IInv', FdInv, pc \in {"redirect", "back"}, NEW v, Ends(v)
    PROVE  FdStep
<1>1. e # <<>>
  BY WorkFd
<1> QED
  BY <1>1, KeptFd DEF Ends

LEMMA SimpleFd ==
    ASSUME IInv, IInv', FdInv,
           Ordinary \/ Errorf \/ EndOfScript \/ Comexec \/ Paren \/ BeginUnwind
               \/ BackToPrompt \/ EndCall \/ EndLoop
    PROVE  FdStep
<1>1. /\ pc # "exited" /\ e' = e /\ fd' = fd /\ failed' = failed
      /\ pc' \notin {"redirect", "back"}
  BY DEF Ordinary, Errorf, EndOfScript, Comexec, Paren, BeginUnwind, BackToPrompt,
         EndCall, EndLoop, Builtin, Body, Leaves, Raise, Unwinding, Handled
<1> QED
  BY <1>1, InnermostLemma, KeptFd

LEMMA PipeCannotFd == ASSUME IInv, IInv', FdInv, PipeCannot PROVE FdStep
  BY CannotFd DEF PipeCannot, Body, Raise

(* The parts of compound commands.                                         *)
LEMMA CompoundFd ==
    ASSUME IInv, IInv', FdInv, Command \/ Begin \/ List \/ If \/ Bang \/ Function
    PROVE  FdStep
<1>1. pc \in {"prompt", "redirect", "back"}
  BY DEF Command, Begin, List, If, Bang, Function, Body, Back
<1>2. Top.kind # "pipe"
  <2>1. CASE Command
    <3>1. NestedAt(Len(e)) /\ Top = e[Len(e)] /\ Top.type = "parse" /\ Len(e) # 1
      BY <2>1, BusyLemma, InnermostLemma DEF Command, Busy
    <3> QED
      BY <3>1 DEF NestedAt, Text
  <2>2. CASE ~Command
    BY <2>2 DEF Begin, List, If, Bang, Function, Back, Tests
  <2> QED
    BY <2>1, <2>2
<1>3. CASE Execute("cond", TRUE, FALSE)
  BY <1>1, <1>2, <1>3, ExecuteFd
<1>4. CASE Execute("part", Top.xerrok, FALSE)
  BY <1>1, <1>2, <1>4, ExecuteFd
<1>5. CASE Execute("begun", FALSE, FALSE)
  BY <1>1, <1>2, <1>5, ExecuteFd
<1>6. ASSUME NEW v, Ends(v), pc # "prompt" PROVE FdStep
  BY <1>1, <1>6, EndsFd
<1> QED
  BY <1>3, <1>4, <1>5, <1>6
     DEF Command, Begin, List, If, Bang, Function, Back

LEMMA AndFd == ASSUME IInv, IInv', FdInv, And PROVE FdStep
<1>1. pc = "back" /\ Top.kind = "and"
  BY DEF And, Back
<1>2. Top \in Env /\ Depth = Len(e) /\ Top = e[Len(e)] /\ e # <<>>
  BY <1>1, WorkFd
<1>3. CASE Execute("part", Top.xerrok, FALSE)
  BY <1>1, <1>3, ExecuteFd
<1>4. CASE Ends(rv)
  BY <1>1, <1>4, EndsFd
<1>5. CASE /\ e' = [e EXCEPT ![Depth].xerrok = TRUE]
           /\ UNCHANGED <<fd, failed>>
  <2> DEFINE r == [Top EXCEPT !.xerrok = TRUE]
  <2>1. r \in Env /\ Alike(r, Top) /\ r.kind = Top.kind /\ r.type = Top.type
    BY <1>2 DEF Env, Alike
  <2>2. e' = [e EXCEPT ![Len(e)] = r]
    BY <1>2, <1>5
  <2> HIDE DEF r
  <2> QED
    BY <1>1, <1>2, <1>5, <2>1, <2>2, FieldFd
<1> QED
  BY <1>3, <1>4, <1>5 DEF And

LEMMA LoopFd == ASSUME IInv, IInv', FdInv, Loop PROVE FdStep
<1>1. pc = "back" /\ Top.kind = "loop"
  BY DEF Loop, Back
<1>2. /\ Top \in Env /\ Depth = Len(e) /\ Top = e[Len(e)] /\ e # <<>> /\ rv \in {0, 1}
      /\ e \in Seq(Env) /\ Len(e) \in Nat
  BY <1>1, WorkFd DEF IInv, TypeInv
<1>3. CASE Execute("part", Top.xerrok, FALSE)
  BY <1>1, <1>3, ExecuteFd
<1>4. CASE Ends(Top.status)
  BY <1>1, <1>4, EndsFd
<1>5. ASSUME NEW k \in Fitting(Depth),
             e' = Append([e EXCEPT ![Depth].stage = "cond",
                            ![Depth].status = IF Top.stage = "part" THEN rv ELSE 0],
                         Newenv("exec", k, TRUE, FALSE, fd)),
             pc' = "redirect", UNCHANGED <<fd, failed>>
      PROVE  FdStep
  <2> DEFINE s == IF Top.stage = "part" THEN rv ELSE 0
             r == [Top EXCEPT !.stage = "cond", !.status = s]
             q == [e EXCEPT ![Len(e)] = r]
             n == Newenv("exec", k, TRUE, FALSE, fd)
  <2>1. s \in {0, 1}
    BY <1>2
  <2>2. [e EXCEPT ![Depth].stage = "cond", ![Depth].status = s] = q
    <3> HIDE DEF s
    <3> QED
      BY <1>2
  <2>3. r \in Env /\ Alike(r, Top) /\ r.kind = Top.kind /\ r.type = Top.type
    <3> HIDE DEF s
    <3> QED
      BY <1>2, <2>1 DEF Env, Alike
  <2>4. Fresh(n, fd) /\ n.type = "exec"
    BY DEF Newenv, Fresh
  <2> HIDE DEF r, n
  <2>5. /\ q \in Seq(Env) /\ Len(q) = Len(e) /\ q[Len(e)] = r
        /\ \A i \in 1..Len(e) : /\ Alike(q[i], e[i]) /\ q[i].kind = e[i].kind
                                /\ i # Len(e) => q[i].type = e[i].type
    BY <1>2, <2>3, AlikeTop
  <2>6. \A i \in 1..Len(e) : q[i].type = e[i].type
    BY <1>2, <2>3, <2>5
  <2>7. e' = Append(q, n)
    BY <1>5, <2>2 DEF n
  <2> HIDE DEF q
  <2> QED
    BY <1>1, <1>2, <1>5, <2>4, <2>5, <2>6, <2>7, AppendFd
<1> QED
  BY <1>3, <1>4, <1>5 DEF Loop

(* E_LOOP and E_FUNC are marked where the command is.                      *)
LEMMA MarkFd ==
    ASSUME IInv, IInv', FdInv, BeginLoop \/ Call PROVE FdStep
<1>1. PICK type \in {"loop", "func"} :
        /\ pc = "redirect" /\ fd' = fd /\ failed' = failed
        /\ e' = [e EXCEPT ![Depth].type = type]
        /\ Top.kind = IF type = "loop" THEN "loop" ELSE "call"
  BY DEF BeginLoop, Call, Mark, Body
<1> DEFINE r == [Top EXCEPT !.type = type]
<1>2. /\ Top \in Env /\ Depth = Len(e) /\ Top = e[Len(e)] /\ e # <<>>
      /\ Top.type \in Running
  BY <1>1, WorkFd
<1>3. r \in Env /\ Alike(r, Top) /\ r.kind = Top.kind /\ r.type = type
  BY <1>2 DEF Env, Alike, Running
<1>4. e' = [e EXCEPT ![Len(e)] = r]
  BY <1>1, <1>2
<1> HIDE DEF r
<1> QED
  BY <1>1, <1>2, <1>3, <1>4, FieldFd DEF Running

LEMMA ContinueFd == ASSUME IInv, IInv', FdInv, Continue PROVE FdStep
<1> DEFINE r == [Top EXCEPT !.stage = "part"]
<1>1. /\ pc = "unwind" /\ fd' = fd /\ failed' = failed /\ Top.type = "loop"
      /\ e' = [e EXCEPT ![Depth].stage = "part"]
  BY DEF Continue, Unwinding
<1>2. /\ Top \in Env /\ Depth = Len(e) /\ Top = e[Len(e)] /\ e # <<>>
      /\ Len(e) \in 1..Len(e)
  BY <1>1, InnermostLemma
<1>3. r \in Env /\ Alike(r, Top) /\ r.kind = Top.kind /\ r.type = Top.type
  BY <1>2 DEF Env, Alike
<1>4. e' = [e EXCEPT ![Len(e)] = r] /\ Top.kind = "loop"
  BY <1>1, <1>2 DEF FdInv, Pipes
<1> HIDE DEF r
<1> QED
  BY <1>1, <1>2, <1>3, <1>4, FieldFd

LEMMA C_brkcontFd == ASSUME IInv, IInv', FdInv, C_brkcont PROVE FdStep
<1>1. /\ pc = "redirect" /\ pc' = "raise" /\ fd' = fd /\ failed' = failed
  BY DEF C_brkcont, Builtin, Body, Raise
<1>2. /\ e # <<>> /\ e \in Seq(Env) /\ Depth = Len(e) /\ Len(e) \in Nat
  BY <1>1, WorkFd
<1>3. PICK n \in 1..Cardinality(Loops) :
        e' = [i \in 1..Depth |->
                [e[i] EXCEPT !.pass = @ \/ (i \in Loops /\ i > LoopAround(n))]]
  BY DEF C_brkcont
<1>4. ASSUME NEW i \in 1..Len(e)
      PROVE  /\ e'[i].type = e[i].type /\ e'[i].kind = e[i].kind
             /\ e'[i].savefd = e[i].savefd /\ e'[i].was = e[i].was
  <2> DEFINE p == e[i].pass \/ (i \in Loops /\ i > LoopAround(n))
  <2>1. e[i] \in Env
    BY <1>2
  <2>2. e'[i] = [e[i] EXCEPT !.pass = p]
    BY <1>2, <1>3
  <2> HIDE DEF p
  <2> QED
    BY <2>1, <2>2 DEF Env
<1>5. Len(e') = Len(e) /\ \A i \in 1..Len(e) : Alike(e'[i], e[i])
  <2>1. DOMAIN e' = 1..Len(e)
    BY <1>2, <1>3
  <2> QED
    BY <1>2, <1>4, <2>1 DEF Alike, IInv, TypeInv
<1>6. e'[Len(e)].type = e[Len(e)].type
  BY <1>2, <1>4
<1> QED
  BY <1>1, <1>2, <1>4, <1>5, <1>6, StayFd

(* What is quit without anything put aside changes no descriptor.          *)
LEMMA NothingAside ==
    ASSUME NEW r, r.savefd = NoSaves, NEW fds \in [Fd -> FdState]
    PROVE  Quitenv(r, fds) = fds /\ Saves(r) = {}
<1>1. Saves(r) = {} /\ \A u \in UserFd : r.savefd[u] = Unsaved
  BY DEF Saves, NoSaves
<1>2. \A k \in Fd : Quitenv(r, fds)[k] = fds[k]
  BY <1>1 DEF Quitenv
<1> QED
  BY <1>1, <1>2 DEF Quitenv

(* execute() ends: what is around it is no pipeline, whose parts are       *)
(* executed in processes of their own.                                     *)
LEMMA BreakFd == ASSUME IInv, IInv', FdInv, Break PROVE FdStep
<1>1. /\ pc = "break" /\ e' = Front(e) /\ fd' = Quitenv(Top, fd) /\ failed' = failed
  BY DEF Break
<1>2. Len(e) \in Nat /\ Len(e) >= 2 /\ e[Len(e)].type \in Running
  BY <1>1, BusyLemma DEF Busy
<1>3. e[Len(e) - 1].kind # "pipe"
  <2>1. PipeAt(Len(e) - 1) /\ Len(e) - 1 # Len(e) /\ Len(e) - 1 + 1 = Len(e)
    BY <1>2 DEF FdInv, Pipes
  <2> QED
    BY <1>2, <2>1 DEF PipeAt, Running
<1> QED
  BY <1>1, <1>2, <1>3, PopFd

(* unwind(), exit and return quit the innermost environment, and the last  *)
(* one with the process.                                                   *)
LEMMA QuitFd ==
    ASSUME IInv, IInv', FdInv, pc # "exited", e' = Front(e), fd' = Quitenv(Top, fd),
           failed' = failed, pc' \notin {"redirect", "back"},
           Len(e) = 1 => pc' = "exited"
    PROVE  FdStep
<1>1. /\ e # <<>> /\ e \in Seq(Env) /\ Len(e) \in Nat /\ Depth = Len(e)
      /\ Top = e[Len(e)] /\ (Len(e) = 1 \/ Len(e) >= 2)
  BY InnermostLemma
<1>2. CASE Len(e) >= 2
  BY <1>2, PopFd
<1>3. CASE Len(e) = 1
  <2>1. Len(e') = 0
    BY <1>1, <1>3, FrontLemma
  <2>2. Pipes' /\ Restores
    BY <1>3, <2>1 DEF Pipes, Restores
  <2>3. Sound(e', fd')
    BY <2>1 DEF Sound, AllKept, Distinct, NoneAside
  <2>4. ASSUME failed = "no" PROVE Owned(e', fd')
    <3>1. e[1].savefd = NoSaves /\ Owned(e, fd)
      BY <1>3, <2>4 DEF FdInv, Intact, Sound, NoneAside
    <3>2. fd' = fd
      BY <1>1, <1>3, <3>1, NothingAside DEF IInv, TypeInv
    <3>3. \A k \in Fd : k >= FDBASE => fd[k] = Closed
      <4> SUFFICES ASSUME NEW k \in Fd, k >= FDBASE, fd[k] # Closed PROVE FALSE
        OBVIOUS
      <4>1. PICK i \in 1..Len(e) : \E u \in UserFd : e[i].savefd[u] = k
        BY <3>1 DEF Owned
      <4>2. i = 1
        BY <1>3
      <4> QED
        BY <3>1, <4>1, <4>2, UserLemma DEF NoSaves
    <3> QED
      BY <3>2, <3>3 DEF Owned
  <2> QED
    BY <2>2, <2>3, <2>4 DEF FdStep, FdInv
<1> QED
  BY <1>1, <1>2, <1>3

LEMMA UnwindsFd ==
    ASSUME IInv, IInv', FdInv, Unwinds \/ EndDot \/ C_exitreturn PROVE FdStep
<1>1. CASE Unwinds
  <2>1. pc = "unwind" /\ QuitTop
    BY <1>1, UnwindsFacts
  <2>2. Depth = Len(e)
    BY <2>1, InnermostLemma
  <2> QED
    BY <2>1, <2>2, QuitFd DEF QuitTop
<1>2. CASE EndDot
  <2>1. /\ pc = "unwind" /\ pc' = "break" /\ Top.type = "incl" /\ e' = Front(e)
        /\ fd' = Quitenv(Top, fd) /\ failed' = failed
    BY <1>2 DEF EndDot, Unwinding
  <2>2. Len(e) # 1
    BY <2>1, InnermostLemma
  <2> QED
    BY <2>1, <2>2, QuitFd
<1>3. CASE C_exitreturn
  <2>1. /\ pc = "redirect" /\ pc' = "raise" /\ e' = Front(e)
        /\ fd' = Quitenv(Top, fd) /\ failed' = failed
    BY <1>3 DEF C_exitreturn, Builtin, Body, Raise
  <2>2. Len(e) # 1
    BY <2>1, BusyLemma DEF Busy
  <2> QED
    BY <2>1, <2>2, QuitFd
<1> QED
  BY <1>1, <1>2, <1>3

(* shell() returns, at the end of a file to include(), which returns, too. *)
LEMMA EndOfTextFd == ASSUME IInv, IInv', FdInv, EndOfText PROVE FdStep
<1> DEFINE L == Len(e)
           t == SubSeq(e, 1, L - 1)
<1>1. /\ pc = "prompt" /\ fd' = Quitenv(Top, fd) /\ failed' = failed
      /\ pc' \in {"redirect", "unwind", "break"} /\ (pc' = "redirect" <=> Top.kind = "trap")
      /\ e' = SubSeq(e, 1, Depth - (IF Top.kind = "dot" THEN 2 ELSE 1))
  BY DEF EndOfText
<1>2. /\ L \in Nat /\ L >= 2 /\ e # <<>> /\ Depth = L /\ Top = e[L] /\ Top.type = "parse"
      /\ e \in Seq(Env) /\ fd \in [Fd -> FdState]
  BY <1>1, BusyLemma DEF Busy, IInv, TypeInv
<1>3. CASE Top.kind # "dot"
  <2>1. e' = Front(e)
    BY <1>1, <1>2, <1>3 DEF Front
  <2> QED
    BY <1>1, <1>2, <2>1, PopFd
<1>4. CASE Top.kind = "dot"
  <2>1. /\ NestedAt(L) /\ NestedAt(L - 1) /\ L # 1 /\ e[L - 1].type = "incl"
    BY <1>2, <1>4 DEF IInv, Control, Nested, NestedAt
  <2>2. L - 1 # 1 /\ e[L - 2].type = "exec"
    <3>1. L - 1 # 1
      BY <2>1 DEF NestedAt
    <3>2. e[L - 1 - 1].type = "exec"
      BY <2>1, <3>1 DEF NestedAt
    <3>3. L - 1 - 1 = L - 2
      BY <1>2
    <3> QED
      BY <3>1, <3>2, <3>3
  <2>3. L >= 3
    BY <1>2, <2>2
  <2>4. /\ e' = SubSeq(e, 1, L - 2) /\ e' \in Seq(Env) /\ Len(e') = L - 2
        /\ \A i \in 1..L - 2 : e'[i] = e[i]
    <3>1. L - 2 \in 0..L
      BY <2>3
    <3> QED
      BY <1>1, <1>2, <1>4, <3>1, QuitLemma
  <2>5. t \in Seq(Env) /\ Len(t) = L - 1 /\ \A i \in 1..L - 1 : t[i] = e[i]
    <3>1. L - 1 \in 0..L
      BY <2>3
    <3> QED
      BY <1>2, <3>1, QuitLemma
  <2> HIDE DEF t
  <2>6. Sound(e, fd) => Sound(t, fd') /\ (Owned(e, fd) => Owned(t, fd'))
    BY <1>1, <1>2, <2>5, SoundPop
  <2>7. ASSUME Sound(e, fd)
        PROVE  /\ Sound(e', fd') /\ (Owned(e, fd) => Owned(e', fd'))
               /\ \A u \in UserFd : fd'[u] = e[L - 1].was[u]
    <3>1. t[Len(t)] = e[L - 1] /\ e[L - 1].savefd = NoSaves
      <4>1. L - 1 \in 1..L - 1 /\ L - 1 \in 1..L
        BY <2>3
      <4> QED
        BY <2>1, <2>5, <2>7, <4>1 DEF Sound, NoneAside, Running
    <3>2. Quitenv(t[Len(t)], fd') = fd'
      BY <3>1, NothingAside DEF IInv, TypeInv
    <3>3. /\ Len(t) >= 2 /\ Len(e') = Len(t) - 1
          /\ \A i \in 1..Len(e') : e'[i] = t[i]
      BY <2>3, <2>4, <2>5
    <3>4. Sound(t, fd') /\ (Owned(e, fd) => Owned(t, fd'))
      BY <2>6, <2>7
    <3>5. t \in Seq(Env) /\ e' \in Seq(Env)
      BY <2>4, <2>5
    <3> HIDE DEF L
    <3>6. /\ Sound(e', Quitenv(t[Len(t)], fd'))
          /\ Owned(t, fd') => Owned(e', Quitenv(t[Len(t)], fd'))
          /\ \A u \in UserFd : Quitenv(t[Len(t)], fd')[u] = t[Len(t)].was[u]
      BY <3>3, <3>4, <3>5, SoundPop
    <3> QED
      BY <3>1, <3>2, <3>4, <3>6
  <2>8. Pipes'
    <3>1. e'[L - 2].kind # "pipe"
      <4>1. PipeAt(L - 2) /\ L - 2 # L /\ L - 2 + 1 = L - 1 /\ L - 2 \in 1..L - 2
        BY <2>3 DEF FdInv, Pipes
      <4> QED
        BY <2>1, <2>4, <4>1 DEF PipeAt
    <3> DEFINE n == L - 2
    <3>2. /\ \A i \in 1..Len(e') : i >= n => i = n
          /\ \A i \in 1..Len(e') : ~(i > n)
          /\ n \in 0..Len(e) /\ n <= Len(e')
      BY <1>2, <2>3, <2>4
    <3>3. \A i \in 1..Len(e') : i >= n => PipeAt(i)'
      BY <3>1, <3>2 DEF PipeAt
    <3>4. \A i \in 1..n : e'[i] = e[i]
      BY <2>4
    <3> HIDE DEF n
    <3> QED
      BY <1>2, <2>4, <3>2, <3>3, <3>4, PipesFrame DEF FdInv
  <2>9. Restores
    <3>1. Len(e') + 1 = L - 1
      BY <2>3, <2>4
    <3> QED
      BY <2>7, <3>1 DEF Restores, FdInv
  <2> QED
    BY <1>1, <2>7, <2>8, <2>9 DEF FdStep, FdInv, Intact
<1> QED
  BY <1>3, <1>4

(* exchild(): the child closes what its parent has put aside.              *)
LEMMA ExchildFd == ASSUME IInv, IInv', FdInv, Exchild PROVE FdStep
<1>1. /\ pc = "redirect" /\ pc' = "redirect" /\ Top.kind = "paren" /\ failed' = failed
      /\ fd' = [k \in Fd |-> IF \E i \in 1..Depth : k \in Saves(e[i])
                             THEN Closed ELSE fd[k]]
  BY DEF Exchild, Body
<1>2. /\ Depth = Len(e) /\ Top = e[Len(e)] /\ Top \in Env /\ Len(e) \in Nat /\ Len(e) >= 2
      /\ Top.type = "exec"
  BY <1>1, BusyLemma DEF Busy
<1>3. PICK k \in Fitting(1) :
        e' = <<Cut(Top), Newenv("exec", k, Top.xerrok, TRUE, fd)>>
  BY DEF Exchild
<1> DEFINE c == Cut(Top)
           n == Newenv("exec", k, Top.xerrok, TRUE, fd)
<1>4. c.savefd = NoSaves /\ c.kind = "paren" /\ c.type = "exec"
  BY <1>1, <1>2 DEF Cut, Env
<1>5. Fresh(n, fd) /\ n.type = "exec"
  BY DEF Newenv, Fresh
<1> HIDE DEF c, n
<1>6. /\ Len(e') = 2 /\ e'[1] = c /\ e'[2] = n
      /\ \A i \in 1..Len(e') : i = 1 \/ i = 2
  <2>1. e' = <<c, n>>
    BY <1>3 DEF c, n
  <2> QED
    BY <2>1
<1>7. \A u \in UserFd : NoSaves[u] = Unsaved /\ u \in Fd /\ ~(u >= FDBASE)
  BY UserLemma, EnvAssumption DEF NoSaves, UserFd
<1>8. \A i \in 1..Len(e') : e'[i].savefd = NoSaves
  BY <1>4, <1>5, <1>6 DEF Fresh
<1>9. ASSUME Intact PROVE Sound(e', fd')
  <2>1. Sound(e, fd)
    BY <1>9 DEF FdInv
  <2>2. ASSUME NEW u \in UserFd, NEW i \in 1..Len(e) PROVE u \notin Saves(e[i])
    <3> SUFFICES ASSUME NEW v \in UserFd, e[i].savefd[v] = u PROVE FALSE
      BY DEF Saves
    <3>1. i # 1
      BY <1>7, <2>1, UserLemma DEF Sound, NoneAside
    <3>2. i \in 2..Len(e)
      BY <1>2, <3>1
    <3>3. Keeps(e[i], After(e, fd, i), fd, v)
      BY <2>1, <3>2 DEF Sound, AllKept
    <3> QED
      BY <1>7, <3>3 DEF Keeps
  <2>3. \A u \in UserFd : fd'[u] = fd[u]
    BY <1>1, <1>2, <1>7, <2>2
  <2>4. ASSUME NEW i \in 2..Len(e'), NEW u \in UserFd
        PROVE  Keeps(e'[i], After(e', fd', i), fd', u)
    <3>1. i = 2
      BY <1>6
    <3> QED
      BY <1>5, <1>6, <1>7, <2>3, <3>1, UserLemma DEF Keeps, After, Fresh, Shut, Unsaved
  <2>5. Distinct(e') /\ NoneAside(e')
    BY <1>7, <1>8, UserLemma DEF Distinct, NoneAside
  <2> QED
    BY <2>4, <2>5 DEF Sound, AllKept
<1>10. ASSUME failed = "no" PROVE Owned(e', fd')
  <2> SUFFICES ASSUME NEW d \in Fd, d >= FDBASE, fd'[d] # Closed PROVE FALSE
    BY DEF Owned
  <2>1. fd[d] # Closed /\ \A i \in 1..Len(e) : d \notin Saves(e[i])
    BY <1>1, <1>2
  <2>2. PICK i \in 1..Len(e) : \E u \in UserFd : e[i].savefd[u] = d
    BY <1>10, <2>1 DEF FdInv, Owned
  <2> QED
    BY <2>1, <2>2, UserLemma DEF Saves
<1>11. Pipes'
  <2>1. PipeAt(1)' /\ PipeAt(2)'
    BY <1>1, <1>4, <1>5, <1>6 DEF PipeAt, Fresh
  <2> QED
    BY <1>4, <1>5, <1>6, <2>1 DEF Pipes
<1>12. Restores
  BY <1>1 DEF Restores
<1> QED
  BY <1>1, <1>9, <1>10, <1>11, <1>12 DEF FdStep, FdInv, Intact

-----------------------------------------------------------------------------
LEMMA InitFd == Init => FdInv
<1> SUFFICES ASSUME Init PROVE FdInv
  OBVIOUS
<1> DEFINE a == Newenv("none", "main", FALSE, FALSE, fd)
           b == Newenv("parse", "main", FALSE, FALSE, fd)
<1>1. Fresh(a, fd) /\ a.type = "none" /\ a.kind = "main"
      /\ Fresh(b, fd) /\ b.type = "parse" /\ b.kind = "main"
  BY DEF Newenv, Fresh
<1> HIDE DEF a, b
<1>2. /\ Len(e) = 2 /\ e[1] = a /\ e[2] = b
      /\ \A i \in 1..Len(e) : i = 1 \/ i = 2
  <2>1. e = <<a, b>>
    BY DEF Init, a, b
  <2> QED
    BY <2>1
<1>3. /\ \A i \in 1..Len(e) : e[i].savefd = NoSaves
      /\ \A u \in UserFd : NoSaves[u] = Unsaved
  BY <1>1, <1>2 DEF Fresh, NoSaves
<1>4. ASSUME NEW i \in 2..Len(e), NEW u \in UserFd
      PROVE  Keeps(e[i], After(e, fd, i), fd, u)
  <2>1. i = 2
    BY <1>2
  <2> QED
    BY <1>1, <1>2, <1>3, <2>1, UserLemma DEF Keeps, After, Fresh, Shut, Unsaved
<1>5. Distinct(e) /\ NoneAside(e)
  BY <1>3, UserLemma DEF Distinct, NoneAside
<1>6. Owned(e, fd)
  BY EnvAssumption DEF Owned, Init, Fd
<1>7. Pipes
  BY <1>1, <1>2 DEF Pipes, PipeAt
<1> QED
  BY <1>4, <1>5, <1>6, <1>7 DEF FdInv, Sound, AllKept

LEMMA StepFd ==
    ASSUME IInv, IInv', FdInv, [Next]_vars
    PROVE  FdInv' /\ [Restores]_vars
<1>1. CASE Next /\ pc # "exited"
  <2>1. CASE Exited
    BY <1>1, <2>1 DEF Exited
  <2>2. CASE Runtraps \/ C_eval
    BY <2>2, ReadFd DEF Runtraps, C_eval, Body, FdStep
  <2> QED
    BY <1>1, <2>1, <2>2, SimpleFd, PipeCannotFd, CompoundFd, AndFd, LoopFd, MarkFd,
       ContinueFd, C_brkcontFd, BreakFd, UnwindsFd, EndOfTextFd, ExchildFd, IosetupFd,
       ComsubFailsFd, C_execFd, C_dotFd, PipeFd, LastOfPipeFd, PipeFailsFd, RunExitTrapFd
       DEF Next, Unwinds, FdStep
<1>2. CASE UNCHANGED vars \/ pc = "exited"
  <2>1. UNCHANGED vars
    <3>1. CASE pc = "exited" /\ Next
      BY <3>1 DEF Next, Exited, vars, Command, EndOfScript, EndOfText, Runtraps, Iosetup,
         Open, Close, Dup, IosetupFails, Redirectable, ComsubFails, Ordinary, Errorf,
         C_exec, C_brkcont, C_exitreturn, C_eval, C_dot, Builtin, Body, Begin,
         BeginLoop, Call, Mark, List, If, And, Bang, Loop, Function, Back, Pipe,
         LastOfPipe, PipeCannot, PipeFails, Paren, Exchild, Comexec, Leaves, Break,
         RunExitTrap, BeginUnwind, UnwindExec, UnwindParse, BackToPrompt, UnwindFunc,
         EndCall, UnwindIncl, EndDot, UnwindLoop, EndLoop, Continue, Unwinding
    <3> QED
      BY <1>2, <3>1
  <2>2. FdInv'
    BY <2>1 DEF vars, FdInv, Pipes, PipeAt, Intact
  <2> QED
    BY <2>1, <2>2
<1> QED
  BY <1>1, <1>2

(* The invariant: what every environment would go back to is kept, by what *)
(* is as it was or by a descriptor that was put aside.                     *)
THEOREM FdInvariant == Spec => []FdInv
<1>1. Init => FdInv
  BY InitFd
<1>2. IInv /\ IInv' /\ FdInv /\ [Next]_vars => FdInv'
  BY StepFd
<1> QED
  BY <1>1, <1>2, Invariant, PTL DEF Spec

(* quitenv(), execute(), unwind() and c_exec(): however a command ends,    *)
(* when its environment is quit the descriptors of the user are what they  *)
(* were before it, but for what an exec in it redirected for good, unless  *)
(* there was no room to put one aside or a fork() of $() failed.           *)
THEOREM DescriptorsComeBack == Spec => DescriptorsRestored
<1>1. IInv /\ IInv' /\ FdInv /\ [Next]_vars => [Restores]_vars
  BY StepFd
<1> QED
  BY <1>1, Invariant, FdInvariant, PTL DEF Spec, DescriptorsRestored, Restores

(* savefd(), c_exec() and exchild(): of the shell's own descriptors those  *)
(* are open that an environment has put aside, in a subshell only those    *)
(* that it has put aside itself.                                           *)
THEOREM NoneIsLeaked == Spec => []NoneLeaked
<1>1. IInv /\ FdInv => NoneLeaked
  <2> SUFFICES ASSUME IInv, FdInv, failed = "no"
               PROVE  {k \in Fd : k >= FDBASE /\ fd[k] # Closed}
                          = UNION {Saves(e[i]) : i \in 1..Depth}
    BY DEF NoneLeaked
  <2>1. Sound(e, fd) /\ Owned(e, fd) /\ e \in Seq(Env) /\ Depth = Len(e) /\ Len(e) \in Nat
    BY DEF FdInv, Intact, IInv, TypeInv, Depth
  <2>2. ASSUME NEW k \in Fd, k >= FDBASE, fd[k] # Closed
        PROVE  \E i \in 1..Len(e) : k \in Saves(e[i])
    BY <2>1, <2>2, UserLemma DEF Owned, Saves
  <2>3. ASSUME NEW i \in 1..Len(e), NEW k \in Saves(e[i])
        PROVE  k \in Fd /\ k >= FDBASE /\ fd[k] # Closed
    <3>1. PICK u \in UserFd : e[i].savefd[u] = k /\ k \notin {Unsaved, Shut}
      BY DEF Saves
    <3>2. k \in Fd
      BY <2>1, <3>1, SaveLemma
    <3>3. i # 1
      BY <2>1, <3>1 DEF Sound, NoneAside, NoSaves
    <3>4. i \in 2..Len(e)
      BY <2>1, <3>3
    <3> QED
      BY <2>1, <3>1, <3>2, <3>4 DEF Sound, AllKept, Keeps
  <2> QED
    BY <2>1, <2>2, <2>3
<1> QED
  BY <1>1, Invariant, FdInvariant, PTL
=============================================================================

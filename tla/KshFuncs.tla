------------------------------ MODULE KshFuncs ------------------------------
(***************************************************************************)
(* The functions of the Korn shell and the table they are kept in:         *)
(* Source/ksh/table.c, with define(), findfunc() and the call of a function*)
(* in comexec(), exec.c.                                                   *)
(*                                                                         *)
(* The table is searched downwards from the name's hash; deleted entries   *)
(* keep their slots until the table is expanded, which frees them, and a   *)
(* running function that is defined anew or unset loses its name but must  *)
(* keep its tree.  Left out: functions that are loaded on demand, tsort()  *)
(* and tnext(), and what a function does but define and call functions.    *)
(***************************************************************************)
EXTENDS Integers, SequencesExt

CONSTANTS
    Name,
    Hashes,      \* the hash functions considered: a subset of [Name -> Nat]
    INIT_TBLS,   \* initial size of the table, at least 2
    MaxTrees,    \* bound: definitions
    MaxCalls     \* bound: calls within calls

NoName == ""     \* what the name of an entry becomes that is deleted in use

ASSUME FuncsAssumption ==
    /\ NoName \notin Name
    /\ Hashes \subseteq [Name -> Nat]
    /\ INIT_TBLS \in Nat /\ INIT_TBLS >= 2
    /\ MaxTrees \in Nat /\ MaxCalls \in Nat

VARIABLES
    hash,     \* the hash function
    funs,     \* the table
    trees,    \* the number of function bodies parsed so far: 1..trees
    active    \* the calls in progress: the entry, its tree and old_inuse

funcsvars == <<hash, funs, trees, active>>

(* struct table, with all the struct tbl ever allocated for it by number.  *)
NoEntry == 0
Unused == {}
FunsType ==
    [slots   : Seq(Nat),           \* tbls[0..size-1] from 1; NoEntry is NULL
     nfree   : Int,
     entries : Seq([name : Name \union {NoName}, tree : Nat,
                    flag : SUBSET {"DEFINED", "ISSET", "ALLOC", "FINUSE", "FDELETE"}]),
     freed   : SUBSET Nat,         \* entries that were freed
     dead    : SUBSET Nat]         \* trees that were freed

FuncsInit ==
    /\ hash \in Hashes
    /\ funs = [slots |-> <<>>, nfree |-> 0, entries |-> <<>>, freed |-> {}, dead |-> {}]
    /\ trees = 0
    /\ active = <<>>

-----------------------------------------------------------------------------
(* The slot a search for n looks at after i others.                        *)
Probe(t, n, i) == ((hash[n] - i) % Len(t.slots)) + 1

(* The first slot in that order that has one of these.                     *)
FirstProbe(t, n, stops) ==
    LET found == {i \in 0..Len(t.slots) - 1 : t.slots[Probe(t, n, i)] \in stops}
    IN  Probe(t, n, CHOOSE i \in found : \A k \in found : i <= k)

(* NULL and the entries of a name end a search.                            *)
Named(t, n) == {p \in DOMAIN t.entries : t.entries[p].name = n}

Defined(t, p) == "DEFINED" \in t.entries[p].flag

Mytsearch(t, n) ==
    LET stops == {NoEntry} \union {p \in Named(t, n) : Defined(t, p)}
    IN  IF t.slots = <<>> THEN NoEntry ELSE t.slots[FirstProbe(t, n, stops)]

MostFree(nsize) == (8 * nsize) \div 10

FreesEntry(t, p) == ~Defined(t, p) /\ "FINUSE" \notin t.entries[p].flag

(* texpand(): deleted entries lose their slots.                            *)
Emptied(t, nsize) ==
    LET used == ToSet(t.slots) \ {NoEntry}
    IN  [t EXCEPT !.slots = [i \in 1..nsize |-> NoEntry],
                  !.nfree = MostFree(nsize),
                  !.freed = @ \union {p \in used : FreesEntry(t, p)}]
Enter(t, new, p) ==
    IF p = NoEntry \/ ~Defined(t, p) THEN new
    ELSE LET i == FirstProbe(new, t.entries[p].name, {NoEntry})
         IN  [new EXCEPT !.slots = [@ EXCEPT ![i] = p], !.nfree = @ - 1]
Texpand(t, nsize) ==
    LET new[i \in 0..Len(t.slots)] ==
            IF i = 0 THEN Emptied(t, nsize) ELSE Enter(t, new[i - 1], t.slots[i])
    IN  new[Len(t.slots)]

(* tenter(): the slot of n, if any, or of the NULL that ends the search.   *)
Slot(t, n) ==
    FirstProbe(t, n, {NoEntry} \union Named(t, n))

FirstTable(t) == IF t.slots = <<>> THEN Texpand(t, INIT_TBLS) ELSE t
Room(t, n) ==
    IF t.slots[Slot(t, n)] = NoEntry /\ t.nfree <= 0 THEN Texpand(t, 2 * Len(t.slots)) ELSE t

NewEntry(n) == [name |-> n, tree |-> 0, flag |-> Unused]
WithEntry(t, n) ==
    [t EXCEPT !.slots = [@ EXCEPT ![Slot(t, n)] = Len(t.entries) + 1],
              !.nfree = @ - 1, !.entries = Append(@, NewEntry(n))]
EntryOf(t, n) == IF t.slots[Slot(t, n)] # NoEntry THEN t ELSE WithEntry(t, n)

Tenter(t, n) == EntryOf(Room(FirstTable(t), n), n)

(* findfunc() with create.                                                 *)
SetUp(t, p) ==
    [t EXCEPT !.entries[p] = [t.entries[p] EXCEPT !.flag = {"DEFINED"}, !.tree = 0]]
Created(t, n) == SetUp(t, t.slots[Slot(t, n)])

Findfunc(t, n) == IF Mytsearch(t, n) # NoEntry THEN t ELSE Created(Tenter(t, n), n)

-----------------------------------------------------------------------------
(* define() does not let findfunc() see an entry that is in use any more.  *)
(* Mutant: it keeps the name, which tenter() finds.                        *)
ZappedByFlag(e) == [e EXCEPT !.flag = (@ \ {"DEFINED"}) \union {"FDELETE"}]
Zapped(e) == [e EXCEPT !.name = NoName, !.flag = (@ \ {"DEFINED"}) \union {"FDELETE"}]

Zap(t, n) ==
    LET p == Mytsearch(t, n)
    IN  IF p # NoEntry /\ "FINUSE" \in t.entries[p].flag
        THEN [t EXCEPT !.entries[p] = Zapped(@)] ELSE t

(* The tree of an entry is freed if it has one of its own.                 *)
FreeTree(t, p) ==
    IF "ALLOC" \in t.entries[p].flag
    THEN [t EXCEPT !.dead = @ \union {t.entries[p].tree}] ELSE t

(* define() of n in the table t, with the body b or for unset -f.          *)
Given(e, unset, b) ==
    IF unset THEN [e EXCEPT !.flag = Unused]
    ELSE [e EXCEPT !.flag = @ \union {"ISSET", "ALLOC"}, !.tree = b]
Sets(t, p, e) == [t EXCEPT !.entries = [t.entries EXCEPT ![p] = e]]
Gives(t, p, unset, b) == Sets(FreeTree(t, p), p, Given(t.entries[p], unset, b))
DefinesFound(t, n, unset, b) == Gives(t, Mytsearch(t, n), unset, b)
Defines(t, n, unset, b) == DefinesFound(Findfunc(Zap(t, n), n), n, unset, b)

Define ==
    \E n \in Name, unset \in BOOLEAN :
        /\ trees < MaxTrees
        /\ trees' = IF unset THEN trees ELSE trees + 1
        /\ funs' = Defines(funs, n, unset, trees + 1)
        /\ UNCHANGED <<hash, active>>

(* comexec(): a function is called, and ends, by return or in another way. *)
Call ==
    \E n \in Name :
        LET p == Mytsearch(funs, n)
        IN  /\ p # NoEntry
            /\ "ISSET" \in funs.entries[p].flag
            /\ Len(active) < MaxCalls
            /\ active' = Append(active,
                   [entry |-> p, tree |-> funs.entries[p].tree,
                    old_inuse |-> funs.entries[p].flag \intersect {"FINUSE"}])
            /\ funs' = [funs EXCEPT !.entries[p].flag = @ \union {"FINUSE"}]
            /\ UNCHANGED <<hash, trees>>

(* Mutant: an entry is in use no more although a call around this one is   *)
(* in progress.                                                            *)
UnusedAfter(call) == {}
InUseAfter(call) == call.old_inuse

Return ==
    /\ active # <<>>
    /\ active' = Front(active)
    /\ LET p == Last(active).entry
           t == [funs EXCEPT !.entries[p].flag =
                    (@ \ {"FINUSE"}) \union InUseAfter(Last(active))]
           deleted == /\ "FDELETE" \in t.entries[p].flag
                      /\ "FINUSE" \notin t.entries[p].flag
       IN  funs' = IF deleted
                   THEN [FreeTree(t, p) EXCEPT !.entries[p].flag = Unused]
                   ELSE t
    /\ UNCHANGED <<hash, trees>>

FuncsNext == Define \/ Call \/ Return

FuncsSpec == FuncsInit /\ [][FuncsNext]_funcsvars

-----------------------------------------------------------------------------
(* Whatever is defined, unset and called, while its table grows: a name    *)
(* has the body it was last given, and a call in progress keeps its entry  *)
(* and its body (neither is freed under it).                               *)
FoundTree(n) ==
    LET p == Mytsearch(funs, n)
    IN  IF p = NoEntry \/ "ISSET" \notin funs.entries[p].flag THEN 0
        ELSE funs.entries[p].tree
BodyKept(c) ==
    IF c.entry \in funs.freed \/ c.tree \in funs.dead THEN 0 ELSE c.tree
Map == INSTANCE FunctionMap WITH
           None <- 0, Body <- 1..MaxTrees,
           body <- [n \in Name |-> FoundTree(n)],
           calls <- [i \in DOMAIN active |-> BodyKept(active[i])]
FunctionsKept == Map!Spec

(* mytsearch() and tenter() stop at a NULL only: there always is one, and  *)
(* nfree is what is left of the 80% that may be used.                      *)
SearchEnds ==
    funs.slots # <<>> =>
        LET used == {i \in DOMAIN funs.slots : funs.slots[i] # NoEntry}
        IN  /\ Cardinality(used) + funs.nfree = MostFree(Len(funs.slots))
            /\ Cardinality(used) < Len(funs.slots)

(* Every tree that was not freed belongs to one entry, by which it will be.*)
TreesOwned ==
    \A b \in (1..trees) \ funs.dead :
        Cardinality({p \in DOMAIN funs.entries \ funs.freed :
                        /\ "ALLOC" \in funs.entries[p].flag
                        /\ funs.entries[p].tree = b}) = 1

(* tenter() and texpand() keep a free slot, so that mytsearch() always ends*)
(* and define() and comexec() free each body once, by the entry that owns  *)
(* it.                                                                     *)
TableSound == SearchEnds /\ TreesOwned

(* What these rest on.  The types,                                         *)
CallRecord == [entry : Nat, tree : Nat, old_inuse : SUBSET {"FINUSE"}]
FuncsTypeOK == /\ hash \in Hashes
               /\ funs \in FunsType
               /\ trees \in 0..MaxTrees
               /\ active \in Seq(CallRecord)

(* a table t without an entry twice, in which a search for the name of an  *)
(* entry meets no NULL and no entry of that name before it,                *)
Meets(t, n, i) ==
    \E k \in 0..Len(t.slots) - 1 :
        /\ i = Probe(t, n, k)
        /\ \A m \in 0..k - 1 :
               t.slots[Probe(t, n, m)] \notin {NoEntry} \union Named(t, n)
Occupied(t) == {i \in DOMAIN t.slots : t.slots[i] # NoEntry}
TableInv(t) ==
    /\ t.freed \subseteq DOMAIN t.entries
    /\ \A i \in Occupied(t) : /\ t.slots[i] \in DOMAIN t.entries \ t.freed
                              /\ \A n \in Name : t.slots[i] \in Named(t, n) => Meets(t, n, i)
    /\ \A i, j \in Occupied(t) : t.slots[i] = t.slots[j] => i = j
    /\ t.nfree >= 0
    /\ t.slots # <<>> => Cardinality(Occupied(t)) + t.nfree = MostFree(Len(t.slots))

(* the states an entry can be in, with a tree of its own or none, when b   *)
(* trees were parsed,                                                      *)
Live == {"DEFINED", "ISSET", "ALLOC"}
Deleted == {"ISSET", "ALLOC", "FINUSE", "FDELETE"}
EntryForm(e) ==
    /\ e.flag \in {Unused, Live, Live \union {"FINUSE"}, Deleted}
    /\ e.flag = Deleted => e.name = NoName
    /\ "DEFINED" \in e.flag => e.name \in Name
EntriesInv(t, b) ==
    \A p \in DOMAIN t.entries :
        /\ EntryForm(t.entries[p])
        /\ p \in t.freed => t.entries[p].flag = Unused
        /\ t.entries[p].flag # Unused =>
              /\ t.entries[p].tree \in (1..b) \ t.dead
              /\ \A q \in DOMAIN t.entries \ {p} :
                    t.entries[q].flag # Unused => t.entries[q].tree # t.entries[p].tree
OwnersInv(t, b) ==
    /\ t.dead \subseteq 1..b
    /\ \A d \in (1..b) \ t.dead : \E p \in DOMAIN t.entries :
           t.entries[p].flag # Unused /\ t.entries[p].tree = d

(* and that the entries in use are those of the calls c in progress.       *)
CallsInv(t, c) ==
    /\ \A i \in DOMAIN c :
           /\ c[i].entry \in DOMAIN t.entries
           /\ "FINUSE" \in t.entries[c[i].entry].flag
           /\ c[i].tree = t.entries[c[i].entry].tree
           /\ "FINUSE" \in c[i].old_inuse <=> \E k \in 1..i - 1 : c[k].entry = c[i].entry
    /\ \A p \in DOMAIN t.entries : "FINUSE" \in t.entries[p].flag =>
           \E i \in DOMAIN c : c[i].entry = p
FuncsInv ==
    /\ FuncsTypeOK
    /\ TableInv(funs) /\ EntriesInv(funs, trees) /\ OwnersInv(funs, trees)
    /\ CallsInv(funs, active)
=============================================================================

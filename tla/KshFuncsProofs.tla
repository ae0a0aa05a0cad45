--------------------------- MODULE KshFuncsProofs ---------------------------
(***************************************************************************)
(* Proofs about KshFuncs, for any names, hash functions, sizes of the      *)
(* table and numbers of definitions and calls: a search of the table ends, *)
(* every body that was not freed has one entry (TableSound), and the       *)
(* functions are the map that FunctionMap describes.                       *)
(*                                                                         *)
(* The order: the search for a name; what texpand(), tenter(), findfunc()  *)
(* and define() make of a table, each an operator on tables that says what *)
(* a later step needs; that the actions keep FuncsInv; the refinement.     *)
(* Lemmas speak of tables f, g, t, u instead of funs and funs', so that    *)
(* they can be used of either.                                             *)
(***************************************************************************)
EXTENDS KshFuncs, RecursionLemmas, FiniteSetTheorems, SequenceTheorems

LEMMA ModOnto ==
    ASSUME NEW h \in Nat, NEW L \in Nat \ {0}, NEW j \in 0..L - 1
    PROVE  \E k \in 0..L - 1 : (h - k) % L = j
<1> DEFINE r == h % L
           q == h \div L
<1>1. r \in 0..L - 1 /\ q \in Int /\ h = L * q + r
  OBVIOUS
<1>2. \A a \in Int : a % L \in 0..L - 1
  OBVIOUS
<1>3. \A a, b \in Int : b = L * a + j => b % L = j
  OBVIOUS
<1> HIDE DEF r, q
<1>4. CASE j <= r
  <2>1. r - j \in 0..L - 1 /\ h - (r - j) \in Int /\ h - (r - j) = L * q + j
    BY <1>1, <1>4
  <2> QED
    BY <1>1, <1>3, <2>1
<1>5. CASE j > r
  <2>1. r - j + L \in 0..L - 1 /\ h - (r - j + L) = L * q + j - L
    BY <1>1, <1>5
  <2>2. q - 1 \in Int /\ h - (r - j + L) \in Int /\ h - (r - j + L) = L * (q - 1) + j
    BY <1>1, <2>1
  <2> QED
    BY <1>3, <2>1, <2>2
<1> QED
  BY <1>1, <1>4, <1>5

(* A search from the hash of n reaches every slot.                         *)
LEMMA ProbeOnto ==
    ASSUME NEW t \in FunsType, NEW n \in Name, hash \in Hashes
    PROVE  /\ \A k \in Int : t.slots # <<>> => Probe(t, n, k) \in DOMAIN t.slots
           /\ \A i \in DOMAIN t.slots : \E k \in 0..Len(t.slots) - 1 : Probe(t, n, k) = i
<1>1. t.slots \in Seq(Nat)
  BY DEF FunsType
<1> DEFINE L == Len(t.slots)
           h == hash[n]
<1>2. L \in Nat /\ DOMAIN t.slots = 1..L /\ h \in Nat
  BY <1>1, FuncsAssumption
<1>3. ASSUME NEW k \in Int, t.slots # <<>> PROVE Probe(t, n, k) \in DOMAIN t.slots
  <2>1. L # 0
    BY <1>1, <1>3
  <2> HIDE DEF L, h
  <2>2. (h - k) % L \in 0..L - 1
    BY <1>2, <2>1
  <2> QED
    BY <1>2, <2>2 DEF Probe, L, h
<1>4. ASSUME NEW i \in DOMAIN t.slots
      PROVE  \E k \in 0..L - 1 : Probe(t, n, k) = i
  <2> HIDE DEF L, h
  <2>1. L \in Nat \ {0} /\ i - 1 \in 0..L - 1 /\ i \in Nat
    BY <1>2
  <2>2. PICK k \in 0..L - 1 : (h - k) % L = i - 1
    BY <1>2, <2>1, ModOnto
  <2>3. Probe(t, n, k) = i
    BY <2>1, <2>2 DEF Probe, L, h
  <2> QED
    BY <2>3
<1> QED
  BY <1>3, <1>4

(* Where a search of t for n ends that stops at one of these.              *)
Ends(t, n, stops, k) ==
    /\ k \in 0..Len(t.slots) - 1
    /\ t.slots[Probe(t, n, k)] \in stops
    /\ \A m \in 0..k - 1 : t.slots[Probe(t, n, m)] \notin stops

LEMMA SearchFinds ==
    ASSUME NEW t \in FunsType, NEW n, NEW stops, NEW k, Ends(t, n, stops, k)
    PROVE  FirstProbe(t, n, stops) = Probe(t, n, k)
<1> DEFINE found == {i \in 0..Len(t.slots) - 1 : t.slots[Probe(t, n, i)] \in stops}
           c == CHOOSE i \in found : \A m \in found : i <= m
<1>1. Len(t.slots) \in Nat
  BY DEF FunsType
<1>2. k \in found /\ \A m \in found : k <= m
  BY <1>1 DEF Ends
<1>3. found \subseteq Nat
  BY <1>1
<1> HIDE DEF found
<1>4. c \in found /\ \A m \in found : c <= m
  BY <1>2
<1>5. FirstProbe(t, n, stops) = Probe(t, n, c)
  BY DEF FirstProbe, found
<1> HIDE DEF c
<1>6. c \in Nat /\ k \in Nat /\ c <= k /\ k <= c
  BY <1>2, <1>3, <1>4
<1>7. c = k
  BY <1>6
<1> QED
  BY <1>5, <1>7

LEMMA SearchEnding ==
    ASSUME NEW t \in FunsType, NEW n \in Name, hash \in Hashes, NEW stops,
           NEW i \in DOMAIN t.slots, t.slots[i] \in stops
    PROVE  \E k : Ends(t, n, stops, k)
<1> DEFINE found == {k \in 0..Len(t.slots) - 1 : t.slots[Probe(t, n, k)] \in stops}
<1>1. Len(t.slots) \in Nat
  BY DEF FunsType
<1>2. found # {}
  <2>1. \E k \in 0..Len(t.slots) - 1 : Probe(t, n, k) = i
    BY ProbeOnto
  <2> QED
    BY <2>1
<1>3. found \subseteq Nat
  BY <1>1
<1>4. PICK k \in found : \A m \in found : k <= m
  <2> HIDE DEF found
  <2> QED
    BY <1>2, <1>3, Least
<1>5. Ends(t, n, stops, k)
  BY <1>1, <1>4 DEF Ends
<1> QED
  BY <1>5

LEMMA Fields ==
    ASSUME NEW t \in FunsType
    PROVE  /\ t.slots \in Seq(Nat) /\ Len(t.slots) \in Nat
           /\ DOMAIN t.slots = 1..Len(t.slots)
           /\ \A i \in DOMAIN t.slots : t.slots[i] \in Nat
           /\ t.nfree \in Int
           /\ Len(t.entries) \in Nat /\ DOMAIN t.entries = 1..Len(t.entries)
           /\ t.freed \subseteq Nat /\ t.dead \subseteq Nat
  BY DEF FunsType

LEMMA OccupiedFinite ==
    ASSUME NEW t \in FunsType
    PROVE  /\ IsFiniteSet(Occupied(t)) /\ Cardinality(Occupied(t)) \in Nat
           /\ Cardinality(Occupied(t)) <= Len(t.slots)
           /\ Cardinality(Occupied(t)) = Len(t.slots) => Occupied(t) = DOMAIN t.slots
<1> DEFINE L == Len(t.slots)
<1>1. L \in Nat /\ DOMAIN t.slots = 1..L /\ Occupied(t) \subseteq 1..L
  BY Fields DEF Occupied
<1> HIDE DEF L
<1>2. IsFiniteSet(1..L) /\ Cardinality(1..L) = L
  BY <1>1, FS_Interval
<1>3. /\ IsFiniteSet(Occupied(t)) /\ Cardinality(Occupied(t)) <= L
      /\ Cardinality(Occupied(t)) = L => Occupied(t) = 1..L
  BY <1>1, <1>2, FS_Subset
<1>4. Cardinality(Occupied(t)) \in Nat
  BY <1>3, FS_CardinalityType
<1> QED
  BY <1>1, <1>3, <1>4 DEF L

(* A table that is not too full has a free slot.                           *)
LEMMA FreeSlot ==
    ASSUME NEW t \in FunsType, TableInv(t), t.slots # <<>>
    PROVE  /\ Cardinality(Occupied(t)) < Len(t.slots)
           /\ \E i \in DOMAIN t.slots : t.slots[i] = NoEntry
<1> DEFINE L == Len(t.slots)
<1>1. L \in Nat /\ L # 0 /\ t.nfree \in Int
  BY Fields, t.slots # <<>>, EmptySeq
<1>2. Cardinality(Occupied(t)) + t.nfree = MostFree(L) /\ t.nfree >= 0
  BY DEF TableInv
<1> HIDE DEF L
<1>3. MostFree(L) \in Int /\ MostFree(L) < L
  BY <1>1 DEF MostFree
<1>4. Cardinality(Occupied(t)) < L
  BY <1>1, <1>2, <1>3, OccupiedFinite
<1>5. Occupied(t) # DOMAIN t.slots
  <2> SUFFICES ASSUME Occupied(t) = 1..L PROVE FALSE
    BY Fields DEF L
  <2>1. Cardinality(1..L) = L
    BY <1>1, FS_Interval
  <2> QED
    BY <1>1, <1>4, <2>1
<1> QED
  BY <1>4, <1>5 DEF Occupied, L

(* There is one entry of a name in the slots at most.                      *)
LEMMA Alone ==
    ASSUME NEW t \in FunsType, TableInv(t), NEW n \in Name,
           NEW i \in Occupied(t), NEW j \in Occupied(t),
           t.slots[i] \in Named(t, n), t.slots[j] \in Named(t, n)
    PROVE  i = j
<1>1. Len(t.slots) \in Nat
  BY Fields
<1>2. PICK k \in 0..Len(t.slots) - 1 :
          /\ i = Probe(t, n, k)
          /\ \A m \in 0..k - 1 :
                 t.slots[Probe(t, n, m)] \notin {NoEntry} \union Named(t, n)
  BY DEF TableInv, Meets
<1>3. PICK l \in 0..Len(t.slots) - 1 :
          /\ j = Probe(t, n, l)
          /\ \A m \in 0..l - 1 :
                 t.slots[Probe(t, n, m)] \notin {NoEntry} \union Named(t, n)
  BY DEF TableInv, Meets
<1>4. ~(k \in 0..l - 1) /\ ~(l \in 0..k - 1)
  BY <1>2, <1>3
<1>5. k = l
  BY <1>1, <1>4
<1> QED
  BY <1>2, <1>3, <1>5

(* The entries a search for a name may find.                               *)
Bound(t, n) ==
    {p \in Named(t, n) : Defined(t, p) /\ \E i \in DOMAIN t.slots : t.slots[i] = p}

LEMMA EntryOccupies ==
    ASSUME NEW t \in FunsType, NEW i \in DOMAIN t.slots, NEW n,
           t.slots[i] \in Named(t, n)
    PROVE  i \in Occupied(t) /\ t.slots[i] # NoEntry
  BY Fields DEF Named, Occupied, NoEntry

(* mytsearch() finds the entry of the name, and there is one at most.      *)
LEMMA Lookup ==
    ASSUME NEW t \in FunsType, TableInv(t), hash \in Hashes, NEW n \in Name
    PROVE  /\ Bound(t, n) = {} => Mytsearch(t, n) = NoEntry
           /\ \A p \in Bound(t, n) : Mytsearch(t, n) = p /\ Bound(t, n) = {p}
<1> DEFINE stops == {NoEntry} \union {p \in Named(t, n) : Defined(t, p)}
<1>1. CASE t.slots = <<>>
  <2>1. DOMAIN t.slots = {}
    BY <1>1
  <2> QED
    BY <1>1, <2>1 DEF Mytsearch, Bound
<1>2. CASE t.slots # <<>>
  <2>1. Mytsearch(t, n) = t.slots[FirstProbe(t, n, stops)]
    BY <1>2 DEF Mytsearch
  <2>2. PICK k : Ends(t, n, stops, k)
    <3>1. PICK i \in DOMAIN t.slots : t.slots[i] = NoEntry
      BY <1>2, FreeSlot
    <3> QED
      BY <3>1, SearchEnding
  <2>3. Mytsearch(t, n) = t.slots[Probe(t, n, k)]
    BY <2>1, <2>2, SearchFinds
  <2>4. k \in Int /\ Probe(t, n, k) \in DOMAIN t.slots /\ t.slots[Probe(t, n, k)] \in stops
    BY <1>2, <2>2, ProbeOnto, Fields DEF Ends
  <2>5. Mytsearch(t, n) = NoEntry \/ Mytsearch(t, n) \in Bound(t, n)
    BY <2>3, <2>4 DEF Bound
  <2>6. ASSUME NEW p \in Bound(t, n) PROVE Mytsearch(t, n) = p
    <3>1. PICK i \in DOMAIN t.slots : t.slots[i] = p
      BY <2>6 DEF Bound
    <3>2. p \in Named(t, n) /\ p \in stops
      BY <2>6 DEF Bound
    <3>3. i \in Occupied(t)
      BY <3>1, <3>2, EntryOccupies
    <3>4. PICK l \in 0..Len(t.slots) - 1 :
              /\ i = Probe(t, n, l)
              /\ \A m \in 0..l - 1 :
                     t.slots[Probe(t, n, m)] \notin {NoEntry} \union Named(t, n)
      BY <3>1, <3>2, <3>3 DEF TableInv, Meets
    <3>5. Ends(t, n, stops, l)
      BY <3>1, <3>2, <3>4 DEF Ends
    <3>6. FirstProbe(t, n, stops) = i
      BY <3>4, <3>5, SearchFinds
    <3> QED
      BY <2>1, <3>1, <3>6
  <2> QED
    BY <2>5, <2>6
<1> QED
  BY <1>1, <1>2

(* Changes of entries that take names away at most leave a table sound.    *)
NamesLost(t, u) ==
    /\ u.slots = t.slots /\ u.nfree = t.nfree /\ u.freed = t.freed
    /\ DOMAIN u.entries = DOMAIN t.entries
    /\ \A p \in DOMAIN t.entries : u.entries[p].name \in {t.entries[p].name, NoName}

LEMMA TableKept ==
    ASSUME NEW t, NEW u, NamesLost(t, u), TableInv(t)
    PROVE  TableInv(u)
<1>1. \A n \in Name : Named(u, n) \subseteq Named(t, n)
  BY FuncsAssumption DEF NamesLost, Named
<1>2. \A n, k : Probe(u, n, k) = Probe(t, n, k)
  BY DEF NamesLost, Probe
<1>3. Occupied(u) = Occupied(t)
  BY DEF NamesLost, Occupied
<1>4. ASSUME NEW n \in Name, NEW i, Meets(t, n, i) PROVE Meets(u, n, i)
  BY <1>1, <1>2, <1>4 DEF Meets, NamesLost
<1>5. ASSUME NEW i \in Occupied(u)
      PROVE  /\ u.slots[i] \in DOMAIN u.entries \ u.freed
             /\ \A n \in Name : u.slots[i] \in Named(u, n) => Meets(u, n, i)
  BY <1>1, <1>3, <1>4 DEF TableInv, NamesLost
<1> QED
  BY <1>3, <1>5 DEF TableInv, NamesLost

(* An entry gets the first free slot of a search for its name.             *)
Gets(t, u, p, n, k) ==
    /\ k \in 0..Len(t.slots) - 1
    /\ t.slots[Probe(t, n, k)] = NoEntry
    /\ \A m \in 0..k - 1 : t.slots[Probe(t, n, m)] \notin {NoEntry} \union Named(t, n)
    /\ u.slots = [t.slots EXCEPT ![Probe(t, n, k)] = p]
Adds(t, u, p, n) ==
    /\ DOMAIN t.entries \subseteq DOMAIN u.entries
    /\ \A q \in DOMAIN t.entries : u.entries[q].name = t.entries[q].name
    /\ u.freed = t.freed /\ u.nfree = t.nfree - 1 /\ u.nfree >= 0
    /\ p \in DOMAIN u.entries \ u.freed /\ p # NoEntry /\ u.entries[p].name = n
    /\ \A j \in DOMAIN t.slots : t.slots[j] # p

LEMMA EntryPlaced ==
    ASSUME NEW t \in FunsType, NEW u \in FunsType, NEW p, NEW n \in Name, NEW k,
           hash \in Hashes, TableInv(t), Gets(t, u, p, n, k), Adds(t, u, p, n)
    PROVE  /\ TableInv(u)
           /\ Len(u.slots) = Len(t.slots)
           /\ Probe(t, n, k) \in DOMAIN u.slots /\ u.slots[Probe(t, n, k)] = p
           /\ \A j \in DOMAIN t.slots : j # Probe(t, n, k) => u.slots[j] = t.slots[j]
<1> DEFINE i == Probe(t, n, k)
<1>1. k \in Int /\ t.slots # <<>>
  BY Fields DEF Gets
<1>2. i \in DOMAIN t.slots
  BY <1>1, ProbeOnto
<1>3. t.slots[i] = NoEntry
  BY DEF Gets
<1>4. /\ DOMAIN u.slots = DOMAIN t.slots
      /\ u.slots[i] = p
      /\ \A j \in DOMAIN t.slots : j # i => u.slots[j] = t.slots[j]
  BY <1>2 DEF Gets
<1>5. Len(u.slots) = Len(t.slots)
  BY <1>4, Fields
<1>6. \A m, x : Probe(u, m, x) = Probe(t, m, x)
  BY <1>5 DEF Probe
<1>7. Occupied(u) = Occupied(t) \union {i} /\ i \notin Occupied(t)
  BY <1>2, <1>3, <1>4 DEF Occupied, Adds
<1> HIDE DEF i
<1>8. \A m, q : q \in DOMAIN t.entries => (q \in Named(u, m) <=> q \in Named(t, m))
  BY DEF Adds, Named
<1>9. ASSUME NEW m \in Name, NEW j, j # i, Meets(t, m, j)
      PROVE  Meets(u, m, j)
  <2>1. PICK l \in 0..Len(t.slots) - 1 :
            /\ j = Probe(t, m, l)
            /\ \A x \in 0..l - 1 :
                   t.slots[Probe(t, m, x)] \notin {NoEntry} \union Named(t, m)
    BY <1>9 DEF Meets
  <2>2. ASSUME NEW x \in 0..l - 1
        PROVE  u.slots[Probe(u, m, x)] \notin {NoEntry} \union Named(u, m)
    <3>1. x \in Int /\ Probe(t, m, x) \in DOMAIN t.slots
      BY <1>1, ProbeOnto
    <3>2. t.slots[Probe(t, m, x)] \notin {NoEntry} \union Named(t, m)
      BY <2>1
    <3>3. Probe(t, m, x) # i
      BY <1>3, <3>2
    <3>4. u.slots[Probe(t, m, x)] = t.slots[Probe(t, m, x)]
      BY <1>4, <3>1, <3>3
    <3>5. t.slots[Probe(t, m, x)] \in DOMAIN t.entries
      BY <3>1, <3>2 DEF TableInv, Occupied
    <3> QED
      BY <1>6, <1>8, <3>2, <3>4, <3>5
  <2> QED
    BY <1>5, <1>6, <2>1, <2>2 DEF Meets
<1>10. Meets(u, n, i)
  <2>1. ASSUME NEW x \in 0..k - 1
        PROVE  u.slots[Probe(u, n, x)] \notin {NoEntry} \union Named(u, n)
    <3>1. x \in Int /\ Probe(t, n, x) \in DOMAIN t.slots
      BY <1>1, ProbeOnto
    <3>2. t.slots[Probe(t, n, x)] \notin {NoEntry} \union Named(t, n)
      BY DEF Gets
    <3>3. Probe(t, n, x) # i
      BY <1>3, <3>2
    <3>4. u.slots[Probe(t, n, x)] = t.slots[Probe(t, n, x)]
      BY <1>4, <3>1, <3>3
    <3>5. t.slots[Probe(t, n, x)] \in DOMAIN t.entries
      BY <3>1, <3>2 DEF TableInv, Occupied
    <3> QED
      BY <1>6, <1>8, <3>2, <3>4, <3>5
  <2>2. k \in 0..Len(u.slots) - 1 /\ i = Probe(u, n, k)
    BY <1>5, <1>6 DEF Gets, i
  <2> QED
    BY <2>1, <2>2 DEF Meets
<1>11. \A m : p \in Named(u, m) => m = n
  BY DEF Named, Adds
<1>12. ASSUME NEW j \in Occupied(u)
       PROVE  /\ u.slots[j] \in DOMAIN u.entries \ u.freed
              /\ \A m \in Name : u.slots[j] \in Named(u, m) => Meets(u, m, j)
  <2>1. CASE j = i
    BY <1>4, <1>10, <1>11, <2>1 DEF Adds
  <2>2. CASE j # i
    <3>1. j \in Occupied(t) /\ u.slots[j] = t.slots[j]
      BY <1>4, <1>7, <2>2 DEF Occupied
    <3>2. t.slots[j] \in DOMAIN t.entries \ t.freed
      BY <3>1 DEF TableInv
    <3>3. ASSUME NEW m \in Name, u.slots[j] \in Named(u, m) PROVE Meets(u, m, j)
      <4>1. Meets(t, m, j)
        BY <1>8, <3>1, <3>2, <3>3 DEF TableInv
      <4> QED
        BY <1>9, <2>2, <4>1
    <3> QED
      BY <3>1, <3>2, <3>3 DEF Adds
  <2> QED
    BY <2>1, <2>2
<1>13. \A j, l \in Occupied(u) : u.slots[j] = u.slots[l] => j = l
  BY <1>4, <1>7 DEF TableInv, Adds, Occupied
<1>14. Cardinality(Occupied(u)) = Cardinality(Occupied(t)) + 1
  BY <1>7, OccupiedFinite, FS_AddElement
<1>15. Cardinality(Occupied(u)) + u.nfree = MostFree(Len(u.slots))
  <2>1. Cardinality(Occupied(t)) + t.nfree = MostFree(Len(t.slots))
    BY <1>1 DEF TableInv
  <2>2. Cardinality(Occupied(t)) \in Nat /\ t.nfree \in Int /\ u.nfree = t.nfree - 1
    BY OccupiedFinite, Fields DEF Adds
  <2> QED
    BY <1>5, <1>14, <2>1, <2>2
<1>16. TableInv(u)
  BY <1>12, <1>13, <1>15 DEF TableInv, Adds
<1> QED
  BY <1>2, <1>4, <1>5, <1>16 DEF i

-----------------------------------------------------------------------------
(* texpand(): the entries that are defined are entered into empty slots,   *)
(* one after the other.                                                    *)
DefinedNamed(t) == \A p \in DOMAIN t.entries : Defined(t, p) => t.entries[p].name \in Name

Moved(t, i) ==
    {p \in DOMAIN t.entries : Defined(t, p) /\ \E j \in 1..i : j \in Occupied(t) /\ t.slots[j] = p}
Expanded(t, nsize, i, u) ==
    /\ u \in FunsType /\ TableInv(u)
    /\ Len(u.slots) = nsize
    /\ u.entries = t.entries /\ u.dead = t.dead /\ u.freed = Emptied(t, nsize).freed
    /\ \A j \in Occupied(u) : u.slots[j] \in Moved(t, i)
    /\ \A p \in Moved(t, i) : \E j \in Occupied(u) : u.slots[j] = p
    /\ u.nfree >= MostFree(nsize) - Cardinality(Occupied(t) \intersect (1..i))
Expandable(t, nsize) ==
    /\ TableInv(t) /\ DefinedNamed(t)
    /\ nsize \in Nat \ {0} /\ Cardinality(Occupied(t)) <= MostFree(nsize)

LEMMA EmptiedFields ==
    ASSUME NEW t \in FunsType, NEW nsize \in Nat
    PROVE  /\ Emptied(t, nsize) \in FunsType
           /\ Emptied(t, nsize).slots = [i \in 1..nsize |-> NoEntry]
           /\ Emptied(t, nsize).nfree = MostFree(nsize)
           /\ Emptied(t, nsize).entries = t.entries
           /\ Emptied(t, nsize).dead = t.dead
           /\ Emptied(t, nsize).freed =
                t.freed \union {p \in ToSet(t.slots) \ {NoEntry} : FreesEntry(t, p)}
<1> DEFINE slots == [i \in 1..nsize |-> NoEntry]
           freed == t.freed \union {p \in ToSet(t.slots) \ {NoEntry} : FreesEntry(t, p)}
<1>1. slots \in Seq(Nat)
  BY DEF NoEntry
<1>2. ToSet(t.slots) \subseteq Nat
  BY Fields DEF ToSet
<1>3. freed \subseteq Nat
  BY <1>2, Fields
<1>4. Emptied(t, nsize) =
          [t EXCEPT !.slots = slots, !.nfree = MostFree(nsize), !.freed = freed]
  BY DEF Emptied
<1> HIDE DEF slots, freed
<1>5. MostFree(nsize) \in Int
  BY DEF MostFree
<1>6. /\ Emptied(t, nsize) \in FunsType
      /\ Emptied(t, nsize).slots = slots /\ Emptied(t, nsize).nfree = MostFree(nsize)
      /\ Emptied(t, nsize).entries = t.entries /\ Emptied(t, nsize).dead = t.dead
      /\ Emptied(t, nsize).freed = freed
  BY <1>1, <1>3, <1>4, <1>5 DEF FunsType
<1> QED
  BY <1>6 DEF slots, freed

LEMMA EmptiedFreed ==
    ASSUME NEW t \in FunsType, TableInv(t), NEW nsize \in Nat
    PROVE  /\ Emptied(t, nsize).freed \subseteq DOMAIN t.entries
           /\ \A p \in Emptied(t, nsize).freed : p \in t.freed \/ FreesEntry(t, p)
<1>1. Emptied(t, nsize).freed =
          t.freed \union {p \in ToSet(t.slots) \ {NoEntry} : FreesEntry(t, p)}
  BY EmptiedFields
<1>2. ASSUME NEW p \in ToSet(t.slots) \ {NoEntry} PROVE p \in DOMAIN t.entries
  <2>1. PICK i \in DOMAIN t.slots : t.slots[i] = p
    BY DEF ToSet
  <2> QED
    BY <1>2, <2>1 DEF TableInv, Occupied
<1>3. t.freed \subseteq DOMAIN t.entries
  BY DEF TableInv
<1> QED
  BY <1>1, <1>2, <1>3

LEMMA ExpandedNothing ==
    ASSUME NEW t \in FunsType, NEW nsize, Expandable(t, nsize)
    PROVE  Expanded(t, nsize, 0, Emptied(t, nsize))
<1> DEFINE u == Emptied(t, nsize)
<1>1. nsize \in Nat \ {0}
  BY DEF Expandable
<1>2. /\ u \in FunsType /\ u.slots = [i \in 1..nsize |-> NoEntry]
      /\ u.nfree = MostFree(nsize) /\ u.entries = t.entries /\ u.dead = t.dead
  BY <1>1, EmptiedFields
<1> HIDE DEF u
<1>3. DOMAIN u.slots = 1..nsize /\ Len(u.slots) = nsize
  BY <1>1, <1>2
<1>4. Occupied(u) = {}
  BY <1>2, <1>3 DEF Occupied
<1>5. Cardinality(Occupied(u)) = 0
  BY <1>4, FS_EmptySet
<1>6. MostFree(nsize) \in Nat
  BY <1>1 DEF MostFree
<1>7. TableInv(u)
  <2>1. Cardinality(Occupied(u)) + u.nfree = MostFree(Len(u.slots)) /\ u.nfree >= 0
    <3>1. MostFree(Len(u.slots)) = MostFree(nsize) /\ u.nfree = MostFree(nsize)
      BY <1>2, <1>3
    <3> QED
      BY <1>5, <1>6, <3>1
  <2>2. \A i \in Occupied(u) : FALSE
    BY <1>4
  <2>3. u.freed \subseteq DOMAIN u.entries
    BY <1>1, <1>2, EmptiedFreed DEF u, Expandable
  <2> QED
    BY <2>1, <2>2, <2>3 DEF TableInv
<1>8. Moved(t, 0) = {}
  BY DEF Moved
<1>9. Cardinality(Occupied(t) \intersect (1..0)) = 0
  <2>1. Occupied(t) \intersect (1..0) = {}
    OBVIOUS
  <2> QED
    BY <2>1, FS_EmptySet
<1>10. u.nfree >= MostFree(nsize) - Cardinality(Occupied(t) \intersect (1..0))
  BY <1>2, <1>6, <1>9
<1> QED
  BY <1>2, <1>3, <1>4, <1>7, <1>8, <1>10 DEF Expanded, u

Entered(u, v, i, p) ==
    /\ v.slots = [u.slots EXCEPT ![i] = p] /\ v.nfree = u.nfree - 1
    /\ v.entries = u.entries /\ v.freed = u.freed /\ v.dead = u.dead

LEMMA EnterFields ==
    ASSUME NEW t, NEW u \in FunsType, NEW p, p # NoEntry, Defined(t, p)
    PROVE  Entered(u, Enter(t, u, p), FirstProbe(u, t.entries[p].name, {NoEntry}), p)
<1> DEFINE i == FirstProbe(u, t.entries[p].name, {NoEntry})
           slots == [u.slots EXCEPT ![i] = p]
<1>1. Enter(t, u, p) = [u EXCEPT !.slots = slots, !.nfree = u.nfree - 1]
  BY DEF Enter
<1> HIDE DEF slots
<1>2. /\ Enter(t, u, p).slots = slots /\ Enter(t, u, p).nfree = u.nfree - 1
      /\ Enter(t, u, p).entries = u.entries
      /\ Enter(t, u, p).freed = u.freed /\ Enter(t, u, p).dead = u.dead
  BY <1>1 DEF FunsType
<1> QED
  BY <1>2 DEF slots, Entered

LEMMA EnterType ==
    ASSUME NEW t \in FunsType, NEW u \in FunsType, NEW p \in Nat
    PROVE  Enter(t, u, p) \in FunsType
<1>1. CASE p = NoEntry \/ ~Defined(t, p)
  BY <1>1 DEF Enter
<1>2. CASE ~(p = NoEntry \/ ~Defined(t, p))
  <2> DEFINE i == FirstProbe(u, t.entries[p].name, {NoEntry})
             slots == [u.slots EXCEPT ![i] = p]
  <2>1. Enter(t, u, p) = [u EXCEPT !.slots = slots, !.nfree = u.nfree - 1]
    BY <1>2 DEF Enter
  <2>2. u.nfree - 1 \in Int
    BY Fields
  <2> HIDE DEF i
  <2>3. slots \in [1..Len(u.slots) -> Nat]
    BY Fields
  <2>4. slots \in Seq(Nat)
    BY <2>3, Fields
  <2> HIDE DEF slots
  <2> QED
    BY <2>1, <2>2, <2>4 DEF FunsType
<1> QED
  BY <1>1, <1>2

(* One slot more.                                                          *)
LEMMA ExpandedStep ==
    ASSUME NEW t \in FunsType, NEW nsize, Expandable(t, nsize), hash \in Hashes,
           NEW i \in 1..Len(t.slots), NEW u, Expanded(t, nsize, i - 1, u)
    PROVE  Expanded(t, nsize, i, Enter(t, u, t.slots[i]))
<1> DEFINE p == t.slots[i]
           v == Enter(t, u, p)
           before == Occupied(t) \intersect (1..(i - 1))
           now == Occupied(t) \intersect (1..i)
<1>1. /\ u \in FunsType /\ TableInv(u) /\ Len(u.slots) = nsize
      /\ u.entries = t.entries /\ u.dead = t.dead /\ u.freed = Emptied(t, nsize).freed
      /\ \A j \in Occupied(u) : u.slots[j] \in Moved(t, i - 1)
      /\ \A q \in Moved(t, i - 1) : \E j \in Occupied(u) : u.slots[j] = q
  BY DEF Expanded
<1>2. u.nfree >= MostFree(nsize) - Cardinality(before)
  BY DEF Expanded
<1>3. i \in DOMAIN t.slots /\ p \in Nat /\ nsize \in Nat \ {0}
  BY Fields DEF Expandable
<1>4. v \in FunsType
  BY <1>1, <1>3, EnterType
<1>5. IsFiniteSet(before) /\ IsFiniteSet(now) /\ Cardinality(now) <= Cardinality(Occupied(t))
  <2>1. before \subseteq Occupied(t) /\ now \subseteq Occupied(t)
    OBVIOUS
  <2> HIDE DEF before, now
  <2> QED
    BY <2>1, OccupiedFinite, FS_Subset
<1>6. Cardinality(before) \in Nat /\ Cardinality(now) \in Nat
  BY <1>5, FS_CardinalityType
<1>7. before \subseteq now
  BY <1>3, Fields
<1>8. MostFree(nsize) \in Int /\ Cardinality(Occupied(t)) \in Nat /\ u.nfree \in Int
      /\ Cardinality(Occupied(t)) <= MostFree(nsize)
  BY <1>1, <1>3, OccupiedFinite, Fields DEF MostFree, Expandable
<1>9. CASE p = NoEntry \/ ~Defined(t, p)
  <2>1. v = u
    BY <1>9 DEF Enter
  <2>2. Moved(t, i) = Moved(t, i - 1)
    <3>1. ASSUME NEW q, q \in Moved(t, i) PROVE q \in Moved(t, i - 1)
      <4>1. q \in DOMAIN t.entries /\ Defined(t, q)
        BY <3>1 DEF Moved
      <4>2. PICK j \in 1..i : j \in Occupied(t) /\ t.slots[j] = q
        BY <3>1 DEF Moved
      <4>3. j # i
        BY <1>9, <4>1, <4>2 DEF Occupied
      <4>4. j \in 1..(i - 1)
        BY <1>3, <4>3, Fields
      <4> QED
        BY <4>1, <4>2, <4>4 DEF Moved
    <3>2. Moved(t, i - 1) \subseteq Moved(t, i)
      BY Fields DEF Moved
    <3> QED
      BY <3>1, <3>2
  <2>3. Cardinality(before) <= Cardinality(now)
    <3> HIDE DEF before, now
    <3> QED
      BY <1>5, <1>7, FS_Subset
  <2>4. u.nfree >= MostFree(nsize) - Cardinality(now)
    <3> HIDE DEF before, now
    <3> QED
      BY <1>2, <1>6, <1>8, <2>3
  <2> HIDE DEF v
  <2> QED
    BY <1>1, <2>1, <2>2, <2>4 DEF Expanded, v
<1>10. CASE p # NoEntry /\ Defined(t, p)
  <2> DEFINE n == t.entries[p].name
  <2>1. i \in Occupied(t)
    BY <1>3, <1>10 DEF Occupied
  <2>2. p \in DOMAIN t.entries \ t.freed
    BY <2>1 DEF Expandable, TableInv
  <2>3. n \in Name
    BY <1>10, <2>2 DEF Expandable, DefinedNamed
  <2>4. now = before \union {i} /\ i \notin before
    BY <2>1, Fields
  <2>5. Cardinality(now) = Cardinality(before) + 1
    <3> HIDE DEF before, now
    <3> QED
      BY <1>5, <2>4, FS_AddElement
  <2>6. u.nfree - 1 >= MostFree(nsize) - Cardinality(now) /\ u.nfree - 1 >= 0
    <3> HIDE DEF before, now
    <3> QED
      BY <1>2, <1>5, <1>6, <1>8, <2>5
  <2>7. \A q \in Moved(t, i - 1) : q # p /\ q \notin Named(t, n)
    <3> SUFFICES ASSUME NEW q \in Moved(t, i - 1), q = p \/ q \in Named(t, n) PROVE FALSE
      OBVIOUS
    <3>1. PICK j \in 1..(i - 1) : j \in Occupied(t) /\ t.slots[j] = q
      BY DEF Moved
    <3>2. p \in Named(t, n) /\ q \in Named(t, n)
      BY <2>2 DEF Named
    <3>3. j = i
      BY <2>1, <2>3, <3>1, <3>2, Alone DEF Expandable
    <3> QED
      BY <3>1, <3>3, Fields
  <2>8. u.slots # <<>>
    BY <1>1, <1>3
  <2>9. PICK k : Ends(u, n, {NoEntry}, k)
    <3>1. PICK j \in DOMAIN u.slots : u.slots[j] = NoEntry
      BY <1>1, <2>8, FreeSlot
    <3> QED
      BY <1>1, <2>3, <3>1, SearchEnding
  <2>10. FirstProbe(u, n, {NoEntry}) = Probe(u, n, k)
    BY <1>1, <2>9, SearchFinds
  <2>11. Entered(u, v, Probe(u, n, k), p)
    <3>1. Entered(u, v, FirstProbe(u, t.entries[p].name, {NoEntry}), p)
      BY <1>1, <1>10, EnterFields
    <3> QED
      BY <2>10, <3>1
  <2> HIDE DEF v
  <2>12. Gets(u, v, p, n, k)
    <3>1. ASSUME NEW m \in 0..k - 1
          PROVE  u.slots[Probe(u, n, m)] \notin {NoEntry} \union Named(u, n)
      <4>1. u.slots[Probe(u, n, m)] # NoEntry
        BY <2>9 DEF Ends
      <4>2. m \in Int
        BY <2>9 DEF Ends
      <4>3. Probe(u, n, m) \in DOMAIN u.slots
        <5> HIDE DEF n
        <5> QED
          BY <1>1, <2>3, <2>8, <4>2, ProbeOnto
      <4>4. u.slots[Probe(u, n, m)] \in Moved(t, i - 1)
        BY <1>1, <4>1, <4>3 DEF Occupied
      <4> QED
        BY <1>1, <2>7, <4>1, <4>4 DEF Named
    <3> QED
      BY <2>9, <2>11, <3>1 DEF Gets, Ends, Entered
  <2>13. Adds(u, v, p, n)
    <3>1. p \notin Emptied(t, nsize).freed
      <4>1. ~FreesEntry(t, p)
        BY <1>10 DEF FreesEntry
      <4> QED
        BY <1>3, <2>2, <4>1, EmptiedFields
    <3>2. \A j \in DOMAIN u.slots : u.slots[j] # p
      BY <1>1, <1>10, <2>7 DEF Occupied
    <3> QED
      BY <1>1, <1>10, <2>2, <2>6, <2>11, <3>1, <3>2 DEF Adds, Entered
  <2>14. /\ TableInv(v) /\ Len(v.slots) = Len(u.slots)
         /\ Probe(u, n, k) \in DOMAIN v.slots /\ v.slots[Probe(u, n, k)] = p
         /\ \A j \in DOMAIN u.slots : j # Probe(u, n, k) => v.slots[j] = u.slots[j]
    BY <1>1, <1>4, <2>3, <2>12, <2>13, EntryPlaced
  <2>15. Moved(t, i) = Moved(t, i - 1) \union {p}
    <3>1. ASSUME NEW q, q \in Moved(t, i) PROVE q \in Moved(t, i - 1) \union {p}
      <4>1. q \in DOMAIN t.entries /\ Defined(t, q)
        BY <3>1 DEF Moved
      <4>2. PICK j \in 1..i : j \in Occupied(t) /\ t.slots[j] = q
        BY <3>1 DEF Moved
      <4>3. CASE j = i
        BY <4>2, <4>3
      <4>4. CASE j # i
        <5>1. j \in 1..(i - 1)
          BY <1>3, <4>4, Fields
        <5> QED
          BY <4>1, <4>2, <5>1 DEF Moved
      <4> QED
        BY <4>3, <4>4
    <3>2. Moved(t, i - 1) \subseteq Moved(t, i)
      BY Fields DEF Moved
    <3>3. p \in Moved(t, i)
      BY <1>3, <1>10, <2>1, <2>2, Fields DEF Moved
    <3> QED
      BY <3>1, <3>2, <3>3
  <2>16. DOMAIN v.slots = DOMAIN u.slots
    BY <1>1, <1>4, <2>14, Fields
  <2>17. ASSUME NEW j \in Occupied(v) PROVE v.slots[j] \in Moved(t, i)
    BY <1>1, <2>14, <2>15, <2>16 DEF Occupied
  <2>18. ASSUME NEW q \in Moved(t, i) PROVE \E j \in Occupied(v) : v.slots[j] = q
    <3>1. CASE q = p
      BY <1>10, <2>14, <3>1 DEF Occupied
    <3>2. CASE q # p
      <4>1. PICK j \in Occupied(u) : u.slots[j] = q
        BY <1>1, <2>15, <3>2
      <4>2. j # Probe(u, n, k)
        BY <2>9, <4>1 DEF Ends, Occupied
      <4>3. j \in Occupied(v) /\ v.slots[j] = q
        BY <2>14, <2>16, <4>1, <4>2 DEF Occupied
      <4> QED
        BY <4>3
    <3> QED
      BY <3>1, <3>2
  <2>19. v.nfree >= MostFree(nsize) - Cardinality(now)
    BY <2>6, <2>11 DEF Entered
  <2> QED
    BY <1>1, <1>4, <2>11, <2>14, <2>17, <2>18, <2>19 DEF Expanded, Entered, v
<1> QED
  BY <1>9, <1>10

(* The tables in between, of which texpand() keeps the last.               *)
Entering(t, nsize, new) ==
    new = [i \in 0..Len(t.slots) |->
              IF i = 0 THEN Emptied(t, nsize) ELSE Enter(t, new[i - 1], t.slots[i])]

LEMMA EnteringExists ==
    ASSUME NEW t \in FunsType, NEW nsize \in Nat
    PROVE  \E new : Entering(t, nsize, new)
<1> DEFINE L == Len(t.slots)
           step == [x \in (1..L) \X FunsType |-> Enter(t, x[2], t.slots[x[1]])]
           b == Emptied(t, nsize)
           T == FunsType
<1>1. L \in Nat /\ \A i \in 1..L : t.slots[i] \in Nat
  BY Fields
<1>2. b \in T
  BY EmptiedFields
<1> HIDE DEF L, b
<1>3. \A x \in (1..L) \X T : Enter(t, x[2], t.slots[x[1]]) \in T
  BY <1>1, EnterType
<1>4. step \in Steps(L, T)
  BY <1>3 DEF Steps
<1>5. \A i \in 1..L, u \in T : step[<<i, u>>] = Enter(t, u, t.slots[i])
  OBVIOUS
<1> HIDE DEF step, T
<1>6. PICK f : Recursion(f, L, T, b, step)
  BY <1>1, <1>2, <1>4, RecursionExists
<1>7. /\ f \in [0..L -> T] /\ f[0] = b
      /\ \A i \in 1..L : f[i] = step[<<i, f[i - 1]>>]
  BY <1>6 DEF Recursion
<1>8. \A i \in 1..L : f[i] = Enter(t, f[i - 1], t.slots[i])
  <2> TAKE i \in 1..L
  <2>1. i - 1 \in 0..L
    BY <1>1
  <2>2. f[i - 1] \in T
    BY <1>7, <2>1
  <2> QED
    BY <1>5, <1>7, <2>2
<1>9. f = [i \in 0..L |-> IF i = 0 THEN b ELSE Enter(t, f[i - 1], t.slots[i])]
  BY <1>1, <1>7, <1>8
<1> QED
  BY <1>9 DEF Entering, L, b

LEMMA ExpandResult ==
    ASSUME NEW t \in FunsType, NEW nsize, Expandable(t, nsize), hash \in Hashes
    PROVE  Expanded(t, nsize, Len(t.slots), Texpand(t, nsize))
<1> DEFINE L == Len(t.slots)
           g == CHOOSE new : Entering(t, nsize, new)
           G == {i \in Nat : i <= L => Expanded(t, nsize, i, g[i])}
<1>1. L \in Nat /\ nsize \in Nat
  BY Fields DEF Expandable
<1>2. Entering(t, nsize, g)
  BY <1>1, EnteringExists
<1>3. Texpand(t, nsize) = g[L]
  BY DEF Texpand, Entering
<1> HIDE DEF g, L
<1>4. /\ g[0] = Emptied(t, nsize)
      /\ \A i \in 1..L : g[i] = Enter(t, g[i - 1], t.slots[i])
  <2> DEFINE b == Emptied(t, nsize)
             h == [i \in 0..L |-> IF i = 0 THEN b ELSE Enter(t, g[i - 1], t.slots[i])]
  <2>1. g = h
    BY <1>2 DEF Entering, L
  <2> HIDE DEF b
  <2>2. h[0] = b
    BY <1>1
  <2>3. \A i \in 1..L : h[i] = Enter(t, g[i - 1], t.slots[i])
    <3> TAKE i \in 1..L
    <3>1. i \in 0..L /\ i # 0
      BY <1>1
    <3> QED
      BY <3>1
  <2> HIDE DEF h
  <2> QED
    BY <2>1, <2>2, <2>3 DEF b
<1>5. 0 \in G
  <2>1. Expanded(t, nsize, 0, Emptied(t, nsize))
    BY ExpandedNothing
  <2>2. Expanded(t, nsize, 0, g[0])
    BY <1>4, <2>1
  <2> QED
    BY <2>2
<1>6. ASSUME NEW i \in Nat, i \in G PROVE i + 1 \in G
  <2> SUFFICES ASSUME i + 1 <= L PROVE Expanded(t, nsize, i + 1, g[i + 1])
    OBVIOUS
  <2> DEFINE k == i + 1
  <2>1. k \in 1..L /\ k - 1 = i
    BY <1>1
  <2>2. Expanded(t, nsize, k - 1, g[k - 1])
    BY <1>1, <1>6, <2>1
  <2> HIDE DEF k
  <2>3. Expanded(t, nsize, k, Enter(t, g[k - 1], t.slots[k]))
    BY <2>1, <2>2, ExpandedStep DEF L
  <2>4. Expanded(t, nsize, k, g[k])
    BY <1>4, <2>1, <2>3
  <2> QED
    BY <2>4 DEF k
<1> HIDE DEF G
<1>7. L \in G
  BY <1>1, <1>5, <1>6, SetInduction
<1> QED
  BY <1>1, <1>3, <1>7 DEF G, L

(* What texpand() keeps: all a search may find.                            *)
Grown(t, u) ==
    /\ u \in FunsType /\ TableInv(u) /\ u.slots # <<>>
    /\ u.entries = t.entries /\ u.dead = t.dead
    /\ \A n : Bound(u, n) = Bound(t, n)
    /\ \A p \in u.freed : p \in t.freed \/ FreesEntry(t, p)

LEMMA ExpandGrows ==
    ASSUME NEW t \in FunsType, NEW nsize, Expandable(t, nsize), hash \in Hashes
    PROVE  /\ Grown(t, Texpand(t, nsize))
           /\ \A j \in Occupied(Texpand(t, nsize)) : Defined(t, Texpand(t, nsize).slots[j])
           /\ Texpand(t, nsize).nfree >= MostFree(nsize) - Cardinality(Occupied(t))
<1> DEFINE L == Len(t.slots)
           u == Texpand(t, nsize)
<1>1. Expanded(t, nsize, L, u)
  BY ExpandResult
<1> HIDE DEF u
<1>2. /\ u \in FunsType /\ TableInv(u) /\ Len(u.slots) = nsize
      /\ u.entries = t.entries /\ u.dead = t.dead /\ u.freed = Emptied(t, nsize).freed
      /\ \A j \in Occupied(u) : u.slots[j] \in Moved(t, L)
      /\ \A p \in Moved(t, L) : \E j \in Occupied(u) : u.slots[j] = p
  BY <1>1 DEF Expanded
<1>3. nsize \in Nat \ {0} /\ TableInv(t) /\ DOMAIN t.slots = 1..L
  BY Fields DEF Expandable
<1>4. u.slots # <<>>
  BY <1>2, <1>3
<1>5. Occupied(t) \intersect (1..L) = Occupied(t)
  BY <1>3 DEF Occupied
<1>6. u.nfree >= MostFree(nsize) - Cardinality(Occupied(t))
  BY <1>1, <1>5 DEF Expanded
<1>7. \A j \in Occupied(u) : Defined(t, u.slots[j])
  BY <1>2 DEF Moved
<1>8. ASSUME NEW p \in u.freed
      PROVE  p \in t.freed \/ FreesEntry(t, p)
  BY <1>2, <1>3, EmptiedFreed
<1>9. ASSUME NEW n PROVE Bound(u, n) = Bound(t, n)
  <2>1. Named(u, n) = Named(t, n) /\ \A p : Defined(u, p) <=> Defined(t, p)
    BY <1>2 DEF Named, Defined
  <2>2. ASSUME NEW p \in Bound(u, n) PROVE p \in Bound(t, n)
    <3>1. PICK j \in DOMAIN u.slots : u.slots[j] = p
      BY DEF Bound
    <3>2. p \in Named(u, n) /\ Defined(t, p)
      BY <2>1, <2>2 DEF Bound
    <3>3. j \in Occupied(u)
      BY <1>2, <3>1, <3>2, EntryOccupies
    <3>4. p \in Moved(t, L)
      BY <1>2, <3>1, <3>3
    <3>5. PICK i \in 1..L : t.slots[i] = p
      BY <3>4 DEF Moved
    <3> QED
      BY <1>3, <2>1, <3>2, <3>5 DEF Bound
  <2>3. ASSUME NEW p \in Bound(t, n) PROVE p \in Bound(u, n)
    <3>1. PICK j \in DOMAIN t.slots : t.slots[j] = p
      BY DEF Bound
    <3>2. p \in Named(t, n) /\ Defined(t, p)
      BY <2>3 DEF Bound
    <3>3. j \in Occupied(t)
      BY <3>1, <3>2, EntryOccupies
    <3>4. p \in Moved(t, L)
      BY <1>3, <3>1, <3>2, <3>3 DEF Moved, Named
    <3>5. PICK i \in Occupied(u) : u.slots[i] = p
      BY <1>2, <3>4
    <3> QED
      BY <2>1, <3>2, <3>5 DEF Bound, Occupied
  <2> QED
    BY <2>2, <2>3
<1>10. Grown(t, u)
  BY <1>2, <1>4, <1>8, <1>9 DEF Grown
<1> QED
  BY <1>6, <1>7, <1>10 DEF u

-----------------------------------------------------------------------------
(* tenter(): the slot it finds holds an entry of the name, if any slot     *)
(* does, and is free otherwise.                                            *)
LEMMA SlotFound ==
    ASSUME NEW t \in FunsType, TableInv(t), t.slots # <<>>, hash \in Hashes, NEW n \in Name
    PROVE  /\ Slot(t, n) \in DOMAIN t.slots
           /\ t.slots[Slot(t, n)] # NoEntry => t.slots[Slot(t, n)] \in Named(t, n)
           /\ \A i \in DOMAIN t.slots : t.slots[i] \in Named(t, n) => Slot(t, n) = i
           /\ \E k : /\ Slot(t, n) = Probe(t, n, k)
                     /\ Ends(t, n, {NoEntry} \union Named(t, n), k)
<1> DEFINE stops == {NoEntry} \union Named(t, n)
<1>1. PICK k : Ends(t, n, stops, k)
  <2>1. PICK i \in DOMAIN t.slots : t.slots[i] = NoEntry
    BY FreeSlot
  <2> QED
    BY <2>1, SearchEnding
<1>2. Slot(t, n) = Probe(t, n, k)
  BY <1>1, SearchFinds DEF Slot
<1>3. k \in Int /\ t.slots[Probe(t, n, k)] \in stops
  BY <1>1 DEF Ends
<1>4. Probe(t, n, k) \in DOMAIN t.slots
  BY <1>3, ProbeOnto
<1>5. ASSUME NEW i \in DOMAIN t.slots, t.slots[i] \in Named(t, n)
      PROVE  Slot(t, n) = i
  <2>1. i \in Occupied(t)
    BY <1>5, EntryOccupies
  <2>2. PICK l \in 0..Len(t.slots) - 1 :
            /\ i = Probe(t, n, l)
            /\ \A m \in 0..l - 1 :
                   t.slots[Probe(t, n, m)] \notin {NoEntry} \union Named(t, n)
    BY <1>5, <2>1 DEF TableInv, Meets
  <2>3. Ends(t, n, stops, l)
    BY <1>5, <2>2 DEF Ends
  <2> QED
    BY <2>2, <2>3, SearchFinds DEF Slot
<1> QED
  BY <1>1, <1>2, <1>3, <1>4, <1>5

LEMMA Twice ==
    ASSUME NEW n \in Nat \ {0}
    PROVE  /\ MostFree(n) \in Nat /\ MostFree(2 * n) \in Nat
           /\ MostFree(2 * n) >= MostFree(n) + 1
           /\ n >= 2 => MostFree(n) >= 1
  BY DEF MostFree

LEMMA GrownTwice ==
    ASSUME NEW t, NEW u, NEW v, Grown(t, u), Grown(u, v)
    PROVE  Grown(t, v)
<1>1. \A p : FreesEntry(u, p) <=> FreesEntry(t, p)
  BY DEF Grown, FreesEntry, Defined
<1> QED
  BY <1>1 DEF Grown

LEMMA DefinedNamedKept ==
    ASSUME NEW t, NEW u, u.entries = t.entries, DefinedNamed(t)
    PROVE  DefinedNamed(u)
  BY DEF DefinedNamed, Defined

(* There is room for a new entry once the table was allocated and expanded.*)
LEMMA FirstGrows ==
    ASSUME NEW t \in FunsType, TableInv(t), DefinedNamed(t), hash \in Hashes
    PROVE  Grown(t, FirstTable(t))
<1>1. CASE t.slots = <<>>
  <2>1. Occupied(t) = {}
    BY <1>1 DEF Occupied
  <2>2. Cardinality(Occupied(t)) = 0
    BY <2>1, FS_EmptySet
  <2>3. INIT_TBLS \in Nat \ {0}
    BY FuncsAssumption
  <2>4. Cardinality(Occupied(t)) <= MostFree(INIT_TBLS)
    BY <2>2, <2>3, Twice
  <2>5. Expandable(t, INIT_TBLS)
    BY <2>3, <2>4 DEF Expandable
  <2> QED
    BY <1>1, <2>5, ExpandGrows DEF FirstTable
<1>2. CASE t.slots # <<>>
  BY <1>2 DEF FirstTable, Grown
<1> QED
  BY <1>1, <1>2

LEMMA RoomGrows ==
    ASSUME NEW t \in FunsType, TableInv(t), t.slots # <<>>, DefinedNamed(t),
           hash \in Hashes, NEW n \in Name
    PROVE  /\ Grown(t, Room(t, n))
           /\ Room(t, n).slots[Slot(Room(t, n), n)] = NoEntry => Room(t, n).nfree >= 1
<1> DEFINE L == Len(t.slots)
           size == 2 * L
<1>1. L \in Nat \ {0} /\ t.nfree \in Int
  BY Fields
<1>2. CASE t.slots[Slot(t, n)] = NoEntry /\ t.nfree <= 0
  <2>1. Cardinality(Occupied(t)) + t.nfree = MostFree(L) /\ t.nfree >= 0
    BY DEF TableInv
  <2>2. /\ MostFree(L) \in Nat /\ MostFree(size) \in Nat
        /\ MostFree(size) >= MostFree(L) + 1
    BY <1>1, Twice
  <2> HIDE DEF L
  <2>3. size \in Nat \ {0}
    BY <1>1
  <2> HIDE DEF size
  <2>4. Cardinality(Occupied(t)) \in Nat
    BY OccupiedFinite
  <2>5. /\ Cardinality(Occupied(t)) <= MostFree(size)
        /\ MostFree(size) - Cardinality(Occupied(t)) >= 1
    BY <1>1, <2>1, <2>2, <2>4
  <2>6. Expandable(t, size)
    BY <2>3, <2>5 DEF Expandable
  <2>7. Room(t, n) = Texpand(t, size)
    BY <1>2 DEF Room, size, L
  <2>8. Grown(t, Room(t, n)) /\ Room(t, n).nfree >= MostFree(size) - Cardinality(Occupied(t))
    BY <2>6, <2>7, ExpandGrows
  <2>9. Room(t, n).nfree \in Int
    BY <2>8, Fields DEF Grown
  <2> QED
    BY <2>2, <2>4, <2>5, <2>8, <2>9
<1>3. CASE ~(t.slots[Slot(t, n)] = NoEntry /\ t.nfree <= 0)
  <2>1. Room(t, n) = t
    BY <1>3 DEF Room
  <2>2. Grown(t, t)
    BY DEF Grown
  <2> QED
    BY <1>1, <1>3, <2>1, <2>2
<1> QED
  BY <1>2, <1>3

EntryRecord == [name : Name \union {NoName}, tree : Nat,
                flag : SUBSET {"DEFINED", "ISSET", "ALLOC", "FINUSE", "FDELETE"}]
Tentered(t, u, p, n) ==
    /\ u \in FunsType /\ TableInv(u) /\ u.slots # <<>>
    /\ p = u.slots[Slot(u, n)] /\ p \in Named(u, n)
    /\ u.dead = t.dead
    /\ \A q \in u.freed : q \in DOMAIN t.entries /\ (q \in t.freed \/ FreesEntry(t, q))
    /\ \A m : Bound(u, m) = Bound(t, m)
    /\ \/ u.entries = t.entries
       \/ u.entries = Append(t.entries, NewEntry(n)) /\ p = Len(t.entries) + 1

LEMMA WithEntryFields ==
    ASSUME NEW t \in FunsType, NEW n \in Name
    PROVE  /\ WithEntry(t, n) \in FunsType
           /\ WithEntry(t, n).slots = [t.slots EXCEPT ![Slot(t, n)] = Len(t.entries) + 1]
           /\ WithEntry(t, n).nfree = t.nfree - 1
           /\ WithEntry(t, n).entries = Append(t.entries, NewEntry(n))
           /\ WithEntry(t, n).freed = t.freed /\ WithEntry(t, n).dead = t.dead
<1> DEFINE slots == [t.slots EXCEPT ![Slot(t, n)] = Len(t.entries) + 1]
           entries == Append(t.entries, NewEntry(n))
<1>1. WithEntry(t, n) =
          [t EXCEPT !.slots = slots, !.nfree = t.nfree - 1, !.entries = entries]
  BY DEF WithEntry
<1>2. slots \in Seq(Nat)
  <2>1. Len(t.entries) + 1 \in Nat
    BY Fields
  <2>2. slots \in [1..Len(t.slots) -> Nat]
    BY <2>1, Fields
  <2> QED
    BY <2>2, Fields
<1>3. entries \in Seq(EntryRecord)
  <2>1. t.entries \in Seq(EntryRecord)
    BY DEF FunsType, EntryRecord
  <2>2. NewEntry(n) \in EntryRecord
    BY DEF NewEntry, EntryRecord, Unused
  <2> QED
    BY <2>1, <2>2, AppendProperties
<1>4. t.nfree - 1 \in Int
  BY Fields
<1> HIDE DEF slots, entries
<1>5. /\ WithEntry(t, n) \in FunsType
      /\ WithEntry(t, n).slots = slots /\ WithEntry(t, n).nfree = t.nfree - 1
      /\ WithEntry(t, n).entries = entries
      /\ WithEntry(t, n).freed = t.freed /\ WithEntry(t, n).dead = t.dead
  BY <1>1, <1>2, <1>3, <1>4 DEF FunsType, EntryRecord
<1> QED
  BY <1>5 DEF slots, entries

LEMMA WithEntryResult ==
    ASSUME NEW t \in FunsType, TableInv(t), t.slots # <<>>, hash \in Hashes, NEW n \in Name,
           t.slots[Slot(t, n)] = NoEntry, t.nfree >= 1
    PROVE  Tentered(t, WithEntry(t, n), Len(t.entries) + 1, n)
<1> DEFINE u == WithEntry(t, n)
           p == Len(t.entries) + 1
<1>1. /\ u \in FunsType /\ u.slots = [t.slots EXCEPT ![Slot(t, n)] = p]
      /\ u.nfree = t.nfree - 1 /\ u.entries = Append(t.entries, NewEntry(n))
      /\ u.freed = t.freed /\ u.dead = t.dead
  BY WithEntryFields
<1> HIDE DEF u
<1>2. t.entries \in Seq(EntryRecord) /\ NewEntry(n) \in EntryRecord
  BY DEF FunsType, EntryRecord, NewEntry, Unused
<1>3. /\ DOMAIN u.entries = DOMAIN t.entries \union {p}
      /\ p \notin DOMAIN t.entries /\ p \in Nat \ {0}
      /\ \A q \in DOMAIN t.entries : u.entries[q] = t.entries[q]
      /\ u.entries[p] = NewEntry(n)
  <2> DEFINE q == Append(t.entries, NewEntry(n))
  <2>1. /\ q \in Seq(EntryRecord) /\ Len(q) = Len(t.entries) + 1
        /\ \A i \in 1..Len(t.entries) : q[i] = t.entries[i]
        /\ q[Len(t.entries) + 1] = NewEntry(n)
    BY <1>2, AppendProperties
  <2>2. u.entries = q
    BY <1>1
  <2> HIDE DEF q
  <2>3. DOMAIN q = 1..Len(q)
    BY <2>1, LenProperties
  <2>4. DOMAIN t.entries = 1..Len(t.entries) /\ Len(t.entries) \in Nat
    BY Fields
  <2>5. /\ DOMAIN q = DOMAIN t.entries \union {p}
        /\ p \notin DOMAIN t.entries /\ p \in Nat \ {0}
    BY <2>1, <2>3, <2>4
  <2> QED
    BY <2>1, <2>2, <2>4, <2>5
<1>4. PICK k : /\ Slot(t, n) = Probe(t, n, k)
               /\ Ends(t, n, {NoEntry} \union Named(t, n), k)
  BY SlotFound
<1>5. Gets(t, u, p, n, k)
  BY <1>1, <1>4 DEF Ends, Gets
<1>6. \A j \in DOMAIN t.slots : t.slots[j] # p
  BY <1>3 DEF TableInv, Occupied, NoEntry
<1>7. t.freed \subseteq DOMAIN t.entries
  BY DEF TableInv
<1>8. Adds(t, u, p, n)
  <2>1. u.nfree >= 0
    BY <1>1, Fields
  <2> HIDE DEF p
  <2> QED
    BY <1>1, <1>3, <1>6, <1>7, <2>1 DEF Adds, NewEntry, NoEntry
<1> HIDE DEF p
<1>9. /\ TableInv(u) /\ Len(u.slots) = Len(t.slots)
      /\ Slot(t, n) \in DOMAIN u.slots /\ u.slots[Slot(t, n)] = p
      /\ \A j \in DOMAIN t.slots : j # Slot(t, n) => u.slots[j] = t.slots[j]
  BY <1>1, <1>4, <1>5, <1>8, EntryPlaced
<1>10. u.slots # <<>> /\ DOMAIN u.slots = DOMAIN t.slots
  BY <1>1, <1>9, Fields
<1>11. p \in Named(u, n)
  BY <1>3 DEF Named, NewEntry
<1>12. Slot(u, n) = Slot(t, n)
  BY <1>1, <1>9, <1>10, <1>11, SlotFound
<1>13. ASSUME NEW m PROVE Bound(u, m) = Bound(t, m)
  <2>1. ASSUME NEW q \in Bound(u, m) PROVE q \in Bound(t, m)
    <3>1. q \in Named(u, m) /\ Defined(u, q)
      BY <2>1 DEF Bound
    <3>2. PICK j \in DOMAIN u.slots : u.slots[j] = q
      BY <2>1 DEF Bound
    <3>3. q # p
      BY <1>3, <3>1 DEF Defined, NewEntry, Unused
    <3>4. q \in Named(t, m) /\ Defined(t, q)
      BY <1>3, <3>1, <3>3 DEF Named, Defined
    <3>5. j # Slot(t, n)
      BY <1>9, <3>2, <3>3
    <3> QED
      BY <1>9, <1>10, <3>2, <3>4, <3>5 DEF Bound
  <2>2. ASSUME NEW q \in Bound(t, m) PROVE q \in Bound(u, m)
    <3>1. q \in Named(t, m) /\ Defined(t, q)
      BY <2>2 DEF Bound
    <3>2. PICK j \in DOMAIN t.slots : t.slots[j] = q
      BY <2>2 DEF Bound
    <3>3. q \in Named(u, m) /\ Defined(u, q)
      BY <1>3, <3>1 DEF Named, Defined
    <3>4. j # Slot(t, n)
      BY <3>1, <3>2, EntryOccupies
    <3> QED
      BY <1>9, <1>10, <3>2, <3>3, <3>4 DEF Bound
  <2> QED
    BY <2>1, <2>2
<1>14. \A q \in u.freed : q \in DOMAIN t.entries /\ q \in t.freed
  BY <1>1, <1>7
<1> QED
  BY <1>1, <1>9, <1>10, <1>11, <1>12, <1>13, <1>14 DEF Tentered, u, p

LEMMA TenterResult ==
    ASSUME NEW t \in FunsType, TableInv(t), DefinedNamed(t), hash \in Hashes, NEW n \in Name
    PROVE  \E p : Tentered(t, Tenter(t, n), p, n)
<1> DEFINE first == FirstTable(t)
           room == Room(first, n)
           u == Tenter(t, n)
<1>1. Grown(t, first)
  BY FirstGrows
<1>2. first \in FunsType /\ TableInv(first) /\ first.slots # <<>> /\ DefinedNamed(first)
  BY <1>1, DefinedNamedKept DEF Grown
<1> HIDE DEF first
<1>3. /\ Grown(first, room)
      /\ room.slots[Slot(room, n)] = NoEntry => room.nfree >= 1
  BY <1>2, RoomGrows
<1>4. Grown(t, room)
  BY <1>1, <1>3, GrownTwice
<1>5. /\ room \in FunsType /\ TableInv(room) /\ room.slots # <<>>
      /\ room.entries = t.entries /\ room.dead = t.dead
      /\ \A m : Bound(room, m) = Bound(t, m)
      /\ \A q \in room.freed : q \in t.freed \/ FreesEntry(t, q)
  BY <1>4 DEF Grown
<1>6. u = IF room.slots[Slot(room, n)] # NoEntry THEN room ELSE WithEntry(room, n)
  BY <1>5 DEF Tenter, EntryOf, room, first
<1> HIDE DEF room, u
<1>7. room.freed \subseteq DOMAIN t.entries
  BY <1>5 DEF TableInv
<1>8. CASE room.slots[Slot(room, n)] # NoEntry
  <2>1. room.slots[Slot(room, n)] \in Named(room, n)
    BY <1>5, <1>8, SlotFound
  <2>2. Tentered(t, room, room.slots[Slot(room, n)], n)
    BY <1>5, <1>7, <2>1 DEF Tentered
  <2> QED
    BY <1>6, <1>8, <2>2 DEF u
<1>9. CASE room.slots[Slot(room, n)] = NoEntry
  <2> DEFINE p == Len(t.entries) + 1
  <2>1. Tentered(room, WithEntry(room, n), p, n)
    BY <1>3, <1>5, <1>9, WithEntryResult
  <2>2. \A q : FreesEntry(room, q) <=> FreesEntry(t, q)
    BY <1>5 DEF FreesEntry, Defined
  <2>3. Tentered(t, WithEntry(room, n), p, n)
    BY <1>5, <2>1, <2>2 DEF Tentered
  <2> QED
    BY <1>6, <1>9, <2>3 DEF u
<1> QED
  BY <1>8, <1>9

-----------------------------------------------------------------------------
(* One entry is changed.                                                   *)
Differs(t, u, p, e) ==
    /\ u \in FunsType
    /\ u.slots = t.slots /\ u.nfree = t.nfree /\ u.freed = t.freed /\ u.dead = t.dead
    /\ DOMAIN u.entries = DOMAIN t.entries /\ u.entries[p] = e
    /\ \A q \in DOMAIN t.entries : q # p => u.entries[q] = t.entries[q]

LEMMA SetsDiffers ==
    ASSUME NEW t \in FunsType, NEW p \in DOMAIN t.entries, NEW e \in EntryRecord
    PROVE  Differs(t, Sets(t, p, e), p, e)
<1> DEFINE entries == [t.entries EXCEPT ![p] = e]
<1>1. t.entries \in Seq(EntryRecord)
  BY DEF FunsType, EntryRecord
<1>2. entries \in Seq(EntryRecord)
  <2>1. p \in 1..Len(t.entries)
    BY Fields
  <2> QED
    BY <1>1, <2>1, ExceptSeq
<1>3. /\ DOMAIN entries = DOMAIN t.entries /\ entries[p] = e
      /\ \A q \in DOMAIN t.entries : q # p => entries[q] = t.entries[q]
  OBVIOUS
<1>4. Sets(t, p, e) = [t EXCEPT !.entries = entries]
  BY DEF Sets
<1> HIDE DEF entries
<1>5. /\ Sets(t, p, e) \in FunsType /\ Sets(t, p, e).entries = entries
      /\ Sets(t, p, e).slots = t.slots /\ Sets(t, p, e).nfree = t.nfree
      /\ Sets(t, p, e).freed = t.freed /\ Sets(t, p, e).dead = t.dead
  BY <1>2, <1>4 DEF FunsType, EntryRecord
<1> QED
  BY <1>3, <1>5 DEF Differs

(* The table is as sound if the name is the same or lost, and a search for *)
(* another name finds the same.                                            *)
LEMMA DiffersTable ==
    ASSUME NEW t \in FunsType, NEW u, NEW p \in DOMAIN t.entries, NEW e,
           Differs(t, u, p, e), TableInv(t), e.name \in {t.entries[p].name, NoName}
    PROVE  TableInv(u)
<1>1. NamesLost(t, u)
  BY DEF Differs, NamesLost
<1> QED
  BY <1>1, TableKept

LEMMA DiffersBound ==
    ASSUME NEW t \in FunsType, NEW u, NEW p \in DOMAIN t.entries, NEW e,
           Differs(t, u, p, e), NEW m, t.entries[p].name # m \/ ~Defined(t, p),
           e.name # m \/ "DEFINED" \notin e.flag
    PROVE  Bound(u, m) = Bound(t, m)
<1>1. \A q \in DOMAIN t.entries :
          (q \in Named(u, m) /\ Defined(u, q)) <=> (q \in Named(t, m) /\ Defined(t, q))
  BY DEF Differs, Named, Defined
<1> QED
  BY <1>1 DEF Differs, Bound, Named

LEMMA DiffersSameBound ==
    ASSUME NEW t \in FunsType, NEW u, NEW p \in DOMAIN t.entries, NEW e,
           Differs(t, u, p, e), e.name = t.entries[p].name,
           "DEFINED" \in e.flag <=> Defined(t, p), NEW m
    PROVE  Bound(u, m) = Bound(t, m)
<1>1. \A q \in DOMAIN t.entries :
          (q \in Named(u, m) /\ Defined(u, q)) <=> (q \in Named(t, m) /\ Defined(t, q))
  <2>1. "DEFINED" \in e.flag <=> "DEFINED" \in t.entries[p].flag
    BY DEF Defined
  <2> QED
    BY <2>1 DEF Differs, Named, Defined
<1> QED
  BY <1>1 DEF Differs, Bound, Named

Reflagged(e, f) == [e EXCEPT !.flag = f]
Remade(e, f, b) == [e EXCEPT !.flag = f, !.tree = b]

LEMMA EntryChanged ==
    ASSUME NEW e \in EntryRecord, NEW f, NEW b
    PROVE  /\ Remade(e, f, b) = [name |-> e.name, tree |-> b, flag |-> f]
           /\ Reflagged(e, f) = [name |-> e.name, tree |-> e.tree, flag |-> f]
<1>1. e = [name |-> e.name, tree |-> e.tree, flag |-> e.flag]
  BY DEF EntryRecord
<1> DEFINE g == [e EXCEPT !.flag = f]
<1>2. g = [name |-> e.name, tree |-> e.tree, flag |-> f]
  BY <1>1
<1>3. [g EXCEPT !.tree = b] = [name |-> g.name, tree |-> b, flag |-> g.flag]
  <2>1. g = [name |-> g.name, tree |-> g.tree, flag |-> g.flag]
    BY <1>2
  <2> HIDE DEF g
  <2> QED
    BY <2>1
<1> QED
  BY <1>2, <1>3 DEF Reflagged, Remade

(* findfunc(): a name that is not found gets an entry of its own.          *)
FoundEntry(n) == [name |-> n, tree |-> 0, flag |-> {"DEFINED"}]
Found(t, u, p, n) ==
    /\ u \in FunsType /\ TableInv(u) /\ p \in Bound(u, n)
    /\ p \in DOMAIN u.entries \ u.freed /\ u.entries[p] = FoundEntry(n)
    /\ u.dead = t.dead
    /\ DOMAIN t.entries \subseteq DOMAIN u.entries
    /\ \A q \in DOMAIN u.entries : q # p => q \in DOMAIN t.entries /\ u.entries[q] = t.entries[q]
    /\ p \in DOMAIN t.entries => ~Defined(t, p) /\ t.entries[p].name = n
    /\ \A q \in u.freed : q \in DOMAIN t.entries /\ (q \in t.freed \/ FreesEntry(t, q))
    /\ \A m \in Name : m # n => Bound(u, m) = Bound(t, m)

LEMMA FindfuncResult ==
    ASSUME NEW t \in FunsType, TableInv(t), DefinedNamed(t), hash \in Hashes, NEW n \in Name,
           Mytsearch(t, n) = NoEntry
    PROVE  \E p : Found(t, Findfunc(t, n), p, n)
<1> DEFINE u == Tenter(t, n)
           e == FoundEntry(n)
<1>1. PICK p : Tentered(t, u, p, n)
  BY TenterResult
<1> DEFINE v == Sets(u, p, e)
<1>2. /\ u \in FunsType /\ TableInv(u) /\ u.slots # <<>>
      /\ p = u.slots[Slot(u, n)] /\ p \in Named(u, n)
      /\ u.dead = t.dead
      /\ \A q \in u.freed : q \in DOMAIN t.entries /\ (q \in t.freed \/ FreesEntry(t, q))
      /\ \A m : Bound(u, m) = Bound(t, m)
      /\ \/ u.entries = t.entries
         \/ u.entries = Append(t.entries, NewEntry(n)) /\ p = Len(t.entries) + 1
  BY <1>1 DEF Tentered
<1> HIDE DEF u
<1>3. p \in DOMAIN u.entries /\ u.entries[p].name = n
  BY <1>2 DEF Named
<1>4. u.entries[p] \in EntryRecord
  <2>1. u.entries \in Seq(EntryRecord)
    BY <1>2 DEF FunsType, EntryRecord
  <2>2. p \in 1..Len(u.entries)
    BY <1>2, <1>3, Fields
  <2> QED
    BY <2>1, <2>2, ElementOfSeq
<1>5. Findfunc(t, n) = v
  <2> DEFINE f == [u.entries[p] EXCEPT !.flag = {"DEFINED"}, !.tree = 0]
  <2>1. Findfunc(t, n) = [u EXCEPT !.entries[p] = f]
    BY <1>2 DEF Findfunc, Created, SetUp, u
  <2>2. f = e
    <3> DEFINE x == u.entries[p]
    <3>1. x \in EntryRecord /\ x.name = n
      BY <1>3, <1>4
    <3> HIDE DEF x
    <3>2. Remade(x, {"DEFINED"}, 0) = [name |-> x.name, tree |-> 0, flag |-> {"DEFINED"}]
      BY <3>1, EntryChanged
    <3>3. f = Remade(x, {"DEFINED"}, 0)
      BY DEF Remade, x
    <3> QED
      BY <3>1, <3>2, <3>3 DEF FoundEntry
  <2> HIDE DEF f, e
  <2>3. [u EXCEPT !.entries[p] = f] = Sets(u, p, f)
    BY DEF Sets
  <2> QED
    BY <2>1, <2>2, <2>3
<1>6. e \in EntryRecord
  BY DEF EntryRecord, FoundEntry
<1>7. Differs(u, v, p, e)
  BY <1>2, <1>3, <1>6, SetsDiffers
<1> HIDE DEF v
<1>8. e.name = n /\ e.flag = {"DEFINED"}
  BY DEF FoundEntry
<1> HIDE DEF e
<1>9. TableInv(v)
  BY <1>2, <1>3, <1>7, <1>8, DiffersTable
<1>10. Slot(u, n) \in DOMAIN u.slots
  BY <1>2, SlotFound
<1>11. p \in Bound(v, n)
  BY <1>2, <1>3, <1>7, <1>8, <1>10 DEF Bound, Named, Defined, Differs
<1>12. p \notin u.freed
  <2>1. Slot(u, n) \in Occupied(u)
    BY <1>2, <1>10, EntryOccupies
  <2> QED
    BY <1>2, <2>1 DEF TableInv
<1>13. ASSUME NEW m \in Name, m # n PROVE Bound(v, m) = Bound(t, m)
  BY <1>2, <1>3, <1>7, <1>8, <1>13, DiffersBound
<1>14. Bound(t, n) = {}
  <2>1. \A q \in Bound(t, n) : q \in DOMAIN t.entries
    BY DEF Bound, Named
  <2> QED
    BY <2>1, Lookup, Fields DEF NoEntry
<1>15. p \in DOMAIN t.entries => ~Defined(t, p) /\ t.entries[p].name = n
  <2> SUFFICES ASSUME p \in DOMAIN t.entries
               PROVE  ~Defined(t, p) /\ t.entries[p].name = n
    OBVIOUS
  <2>1. u.entries = t.entries
    BY <1>2, Fields
  <2>2. p \notin Bound(u, n)
    BY <1>2, <1>14
  <2>3. ~Defined(u, p)
    BY <1>2, <1>10, <2>2 DEF Bound
  <2> QED
    BY <1>3, <2>1, <2>3 DEF Defined
<1>16. /\ DOMAIN t.entries \subseteq DOMAIN u.entries
       /\ \A q \in DOMAIN u.entries : q # p => q \in DOMAIN t.entries /\ u.entries[q] = t.entries[q]
  <2>1. CASE u.entries = t.entries
    BY <2>1
  <2>2. CASE u.entries = Append(t.entries, NewEntry(n)) /\ p = Len(t.entries) + 1
    <3> DEFINE s == Append(t.entries, NewEntry(n))
    <3>1. t.entries \in Seq(EntryRecord) /\ NewEntry(n) \in EntryRecord
      BY DEF FunsType, EntryRecord, NewEntry, Unused
    <3>2. /\ s \in Seq(EntryRecord) /\ Len(s) = Len(t.entries) + 1
          /\ \A i \in 1..Len(t.entries) : s[i] = t.entries[i]
      BY <3>1, AppendProperties
    <3> HIDE DEF s
    <3>3. DOMAIN s = 1..Len(s)
      BY <3>2, LenProperties
    <3>4. DOMAIN t.entries = 1..Len(t.entries) /\ Len(t.entries) \in Nat
      BY Fields
    <3>5. u.entries = s
      BY <2>2 DEF s
    <3> QED
      BY <2>2, <3>2, <3>3, <3>4, <3>5
  <2> QED
    BY <1>2, <2>1, <2>2
<1>17. Found(t, v, p, n)
  BY <1>2, <1>3, <1>7, <1>9, <1>11, <1>12, <1>13, <1>15, <1>16 DEF Found, Differs, e
<1> QED
  BY <1>5, <1>17

-----------------------------------------------------------------------------
(* define(): what becomes of the table f when n is given the tree b, or is *)
(* unset; p is its entry then.                                             *)
EntryForms(t) == \A p \in DOMAIN t.entries : EntryForm(t.entries[p])
IsZapped(x, y, n) ==
    /\ x.flag = Live \union {"FINUSE"} /\ x.name = n
    /\ y.flag = Deleted /\ y.name = NoName /\ y.tree = x.tree

LEMMA EntryTypes ==
    ASSUME NEW t \in FunsType, NEW p \in DOMAIN t.entries
    PROVE  t.entries[p] \in EntryRecord
<1>1. t.entries \in Seq(EntryRecord)
  BY DEF FunsType, EntryRecord
<1>2. p \in 1..Len(t.entries)
  BY Fields
<1> QED
  BY <1>1, <1>2, ElementOfSeq

LEMMA FormsDefined ==
    ASSUME NEW t \in FunsType, EntryForms(t)
    PROVE  DefinedNamed(t)
  BY DEF EntryForms, EntryForm, DefinedNamed, Defined

(* findfunc() does not find an entry that was in use and lost its name.    *)
LEMMA ZapResult ==
    ASSUME NEW t \in FunsType, TableInv(t), EntryForms(t), hash \in Hashes, NEW n \in Name,
           NEW p \in Bound(t, n), "FINUSE" \in t.entries[p].flag
    PROVE  /\ Differs(t, Zap(t, n), p, Zapped(t.entries[p]))
           /\ TableInv(Zap(t, n)) /\ EntryForms(Zap(t, n))
           /\ IsZapped(t.entries[p], Zapped(t.entries[p]), n)
           /\ Mytsearch(Zap(t, n), n) = NoEntry
           /\ \A m \in Name : m # n => Bound(Zap(t, n), m) = Bound(t, m)
<1> DEFINE x == t.entries[p]
           y == Zapped(x)
           u == Zap(t, n)
<1>1. /\ p \in DOMAIN t.entries /\ x.name = n /\ Defined(t, p)
      /\ Mytsearch(t, n) = p /\ Bound(t, n) = {p}
  BY Lookup DEF Bound, Named
<1>2. x \in EntryRecord
  BY <1>1, EntryTypes
<1>3. x.flag = Live \union {"FINUSE"}
  BY <1>1 DEF EntryForms, EntryForm, Defined, Live, Deleted, Unused
<1>4. p # NoEntry
  BY <1>1, Fields DEF NoEntry
<1>5. y \in EntryRecord /\ y.flag = Deleted /\ y.name = NoName /\ y.tree = x.tree
  <2> HIDE DEF x
  <2> DEFINE flag == (x.flag \ {"DEFINED"}) \union {"FDELETE"}
  <2>1. flag = Deleted
    BY <1>3 DEF Live, Deleted
  <2>2. y = [x EXCEPT !.name = NoName, !.flag = flag]
    BY DEF Zapped
  <2> HIDE DEF flag, y
  <2>3. y \in EntryRecord /\ y.flag = flag /\ y.name = NoName /\ y.tree = x.tree
    <3>1. flag \in SUBSET {"DEFINED", "ISSET", "ALLOC", "FINUSE", "FDELETE"}
      BY <2>1 DEF Deleted
    <3> QED
      BY <1>2, <2>2, <3>1 DEF EntryRecord
  <2> QED
    BY <2>1, <2>3
<1>6. u = Sets(t, p, y)
  BY <1>1, <1>4 DEF Zap, Sets
<1> HIDE DEF u, y
<1>7. Differs(t, u, p, y)
  BY <1>1, <1>5, <1>6, SetsDiffers
<1>8. TableInv(u)
  BY <1>1, <1>5, <1>7, DiffersTable
<1>9. EntryForms(u)
  BY <1>5, <1>7 DEF Differs, EntryForms, EntryForm, Deleted
<1>10. Bound(u, n) = {}
  <2> SUFFICES ASSUME NEW q \in Bound(u, n) PROVE FALSE
    OBVIOUS
  <2>1. q # p
    BY <1>5, <1>7, FuncsAssumption DEF Bound, Named, Differs
  <2>2. q \in Bound(t, n)
    BY <1>7, <2>1 DEF Bound, Named, Defined, Differs
  <2> QED
    BY <1>1, <2>1, <2>2
<1>11. Mytsearch(u, n) = NoEntry
  BY <1>7, <1>8, <1>10, Lookup DEF Differs
<1>12. \A m \in Name : m # n => Bound(u, m) = Bound(t, m)
  BY <1>1, <1>5, <1>7, FuncsAssumption, DiffersBound
<1>13. IsZapped(x, y, n)
  BY <1>1, <1>3, <1>5 DEF IsZapped
<1> QED
  BY <1>7, <1>8, <1>9, <1>11, <1>12, <1>13 DEF u, y

LEMMA FreeTreeFields ==
    ASSUME NEW t \in FunsType, NEW p \in DOMAIN t.entries
    PROVE  /\ FreeTree(t, p) \in FunsType
           /\ FreeTree(t, p).slots = t.slots /\ FreeTree(t, p).nfree = t.nfree
           /\ FreeTree(t, p).freed = t.freed /\ FreeTree(t, p).entries = t.entries
           /\ FreeTree(t, p).dead = IF "ALLOC" \in t.entries[p].flag
                                    THEN t.dead \union {t.entries[p].tree} ELSE t.dead
<1> DEFINE dead == t.dead \union {t.entries[p].tree}
<1>1. t.entries[p] \in EntryRecord
  BY EntryTypes
<1>2. dead \subseteq Nat
  BY <1>1, Fields DEF EntryRecord
<1>3. FreeTree(t, p) = IF "ALLOC" \in t.entries[p].flag THEN [t EXCEPT !.dead = dead] ELSE t
  BY DEF FreeTree
<1> HIDE DEF dead
<1>4. CASE "ALLOC" \in t.entries[p].flag
  <2>1. FreeTree(t, p) = [t EXCEPT !.dead = dead]
    BY <1>3, <1>4
  <2>2. /\ FreeTree(t, p) \in FunsType
        /\ FreeTree(t, p).slots = t.slots /\ FreeTree(t, p).nfree = t.nfree
        /\ FreeTree(t, p).freed = t.freed /\ FreeTree(t, p).entries = t.entries
        /\ FreeTree(t, p).dead = dead
    BY <1>2, <2>1 DEF FunsType
  <2> QED
    BY <1>4, <2>2 DEF dead
<1>5. CASE "ALLOC" \notin t.entries[p].flag
  BY <1>3, <1>5
<1> QED
  BY <1>4, <1>5

LEMMA GivenFields ==
    ASSUME NEW x \in EntryRecord, NEW unset \in BOOLEAN, NEW b \in Nat
    PROVE  /\ Given(x, unset, b) \in EntryRecord /\ Given(x, unset, b).name = x.name
           /\ unset => Given(x, unset, b).flag = Unused
           /\ ~unset => /\ Given(x, unset, b).flag = x.flag \union {"ISSET", "ALLOC"}
                        /\ Given(x, unset, b).tree = b
<1> DEFINE flag == x.flag \union {"ISSET", "ALLOC"}
<1>1. CASE unset
  <2>1. Given(x, unset, b) = Reflagged(x, Unused)
    BY <1>1 DEF Given, Reflagged
  <2>2. Given(x, unset, b) = [name |-> x.name, tree |-> x.tree, flag |-> Unused]
    BY <2>1, EntryChanged
  <2>3. /\ Given(x, unset, b) \in EntryRecord /\ Given(x, unset, b).name = x.name
        /\ Given(x, unset, b).flag = Unused
    BY <2>2 DEF EntryRecord, Unused
  <2> QED
    BY <1>1, <2>3
<1>2. CASE ~unset
  <2>1. Given(x, unset, b) = Remade(x, flag, b)
    BY <1>2 DEF Given, Remade
  <2>2. flag \in SUBSET {"DEFINED", "ISSET", "ALLOC", "FINUSE", "FDELETE"}
    BY DEF EntryRecord
  <2> HIDE DEF flag
  <2>3. Given(x, unset, b) = [name |-> x.name, tree |-> b, flag |-> flag]
    BY <2>1, EntryChanged
  <2>4. /\ Given(x, unset, b) \in EntryRecord /\ Given(x, unset, b).name = x.name
        /\ Given(x, unset, b).flag = flag /\ Given(x, unset, b).tree = b
    BY <2>2, <2>3 DEF EntryRecord
  <2> QED
    BY <1>2, <2>4 DEF flag
<1> QED
  BY <1>1, <1>2

LEMMA GivesResult ==
    ASSUME NEW t \in FunsType, TableInv(t), hash \in Hashes, NEW n \in Name,
           NEW p \in Bound(t, n), NEW unset \in BOOLEAN, NEW b \in Nat
    PROVE  /\ Differs(FreeTree(t, p), Gives(t, p, unset, b), p, Given(t.entries[p], unset, b))
           /\ TableInv(Gives(t, p, unset, b))
           /\ \A m \in Name : m # n => Bound(Gives(t, p, unset, b), m) = Bound(t, m)
           /\ Bound(Gives(t, p, unset, b), n) = IF unset THEN {} ELSE {p}
<1> DEFINE f == FreeTree(t, p)
           x == t.entries[p]
           e == Given(x, unset, b)
           u == Gives(t, p, unset, b)
<1>1. /\ p \in DOMAIN t.entries /\ x.name = n /\ "DEFINED" \in x.flag
      /\ Bound(t, n) = {p}
  BY Lookup DEF Bound, Named, Defined
<1>2. x \in EntryRecord
  BY <1>1, EntryTypes
<1>3. /\ e \in EntryRecord /\ e.name = x.name
      /\ unset => e.flag = Unused
      /\ ~unset => e.flag = x.flag \union {"ISSET", "ALLOC"}
  BY <1>2, GivenFields
<1>4. /\ f \in FunsType
      /\ f.slots = t.slots /\ f.nfree = t.nfree /\ f.freed = t.freed /\ f.entries = t.entries
  BY <1>1, FreeTreeFields
<1>5. u = Sets(f, p, e)
  BY <1>4 DEF Gives
<1> HIDE DEF f, e, u
<1>6. Differs(f, u, p, e)
  BY <1>1, <1>3, <1>4, <1>5, SetsDiffers
<1>7. NamesLost(t, u)
  BY <1>1, <1>3, <1>4, <1>6 DEF NamesLost, Differs
<1>8. TableInv(u)
  BY <1>7, TableKept
<1>9. \A m : Bound(f, m) = Bound(t, m)
  BY <1>4 DEF Bound, Named, Defined
<1>10. ASSUME NEW m \in Name, m # n PROVE Bound(u, m) = Bound(t, m)
  BY <1>1, <1>3, <1>4, <1>6, <1>9, <1>10, DiffersBound
<1>11. CASE unset
  <2>1. ASSUME NEW q \in Bound(u, n) PROVE FALSE
    <3>1. q # p
      BY <1>3, <1>6, <1>11 DEF Bound, Defined, Differs, Unused
    <3>2. q \in Bound(t, n)
      BY <1>4, <1>6, <3>1 DEF Bound, Named, Defined, Differs
    <3> QED
      BY <1>1, <3>1, <3>2
  <2> QED
    BY <1>6, <1>8, <1>10, <1>11, <2>1 DEF f, e, u
<1>12. CASE ~unset
  <2>1. Defined(f, p) /\ "DEFINED" \in e.flag /\ e.name = f.entries[p].name
    BY <1>1, <1>3, <1>4, <1>12 DEF Defined
  <2>2. Bound(u, n) = Bound(f, n)
    BY <1>1, <1>4, <1>6, <2>1, DiffersSameBound
  <2> QED
    BY <1>1, <1>6, <1>8, <1>9, <1>10, <1>12, <2>2 DEF f, e, u
<1> QED
  BY <1>11, <1>12

Redefined(f, g, n, p, unset, b) ==
    /\ g \in FunsType /\ TableInv(g)
    /\ p \in DOMAIN g.entries \ g.freed /\ g.entries[p].name = n
    /\ unset => g.entries[p].flag = Unused
    /\ ~unset => g.entries[p].flag = Live /\ g.entries[p].tree = b
    /\ DOMAIN f.entries \subseteq DOMAIN g.entries
    /\ \A q \in DOMAIN g.entries : q # p =>
          /\ q \in DOMAIN f.entries
          /\ g.entries[q] = f.entries[q] \/ IsZapped(f.entries[q], g.entries[q], n)
    /\ p \in DOMAIN f.entries => f.entries[p].flag \in {Unused, Live}
    /\ g.dead = IF p \in DOMAIN f.entries /\ f.entries[p].flag = Live
                THEN f.dead \union {f.entries[p].tree} ELSE f.dead
    /\ \A q \in g.freed : q \in DOMAIN f.entries /\ (q \in f.freed \/ f.entries[q].flag = Unused)
    /\ \A m \in Name : m # n => Bound(g, m) = Bound(f, m)
    /\ Bound(g, n) = IF unset THEN {} ELSE {p}

Searched(f, n) == Mytsearch(Findfunc(Zap(f, n), n), n)

(* The function is defined, and not running.                               *)
LEMMA RedefinedIdle ==
    ASSUME NEW f \in FunsType, TableInv(f), EntryForms(f), hash \in Hashes, NEW n \in Name,
           NEW unset \in BOOLEAN, NEW b \in Nat,
           NEW p \in Bound(f, n), "FINUSE" \notin f.entries[p].flag
    PROVE  Searched(f, n) = p /\ Redefined(f, Defines(f, n, unset, b), n, p, unset, b)
<1> DEFINE x == f.entries[p]
           e == Given(x, unset, b)
           u == FreeTree(f, p)
           g == Gives(f, p, unset, b)
<1>1. /\ p \in DOMAIN f.entries /\ x.name = n /\ Defined(f, p) /\ Mytsearch(f, n) = p
  BY Lookup DEF Bound, Named
<1>2. x.flag = Live /\ x \in EntryRecord
  BY <1>1, EntryTypes DEF EntryForms, EntryForm, Defined, Live, Deleted, Unused
<1>3. p # NoEntry
  BY <1>1, Fields DEF NoEntry
<1>4. Zap(f, n) = f /\ Findfunc(f, n) = f
  BY <1>1, <1>3 DEF Zap, Findfunc
<1>5. Defines(f, n, unset, b) = g /\ Searched(f, n) = p
  BY <1>1, <1>4 DEF Defines, DefinesFound, Searched
<1>6. /\ Differs(u, g, p, e) /\ TableInv(g)
      /\ \A m \in Name : m # n => Bound(g, m) = Bound(f, m)
      /\ Bound(g, n) = IF unset THEN {} ELSE {p}
  BY GivesResult
<1>7. /\ e.name = x.name /\ unset => e.flag = Unused
      /\ ~unset => e.flag = x.flag \union {"ISSET", "ALLOC"} /\ e.tree = b
  BY <1>2, GivenFields
<1>8. /\ u.slots = f.slots /\ u.nfree = f.nfree
      /\ u.freed = f.freed /\ u.entries = f.entries
      /\ u.dead = f.dead \union {x.tree}
  BY <1>1, <1>2, FreeTreeFields DEF Live
<1> HIDE DEF u, g, e
<1>9. e.name = n
  BY <1>1, <1>2, GivenFields DEF e
<1>10. ~unset => e.flag = Live /\ e.tree = b
  BY <1>2, <1>7 DEF Live
<1>11. p \notin f.freed /\ f.freed \subseteq DOMAIN f.entries
  BY <1>1, EntryOccupies DEF Bound, TableInv
<1>12. unset => e.flag = Unused
  BY <1>2, GivenFields DEF e
<1>13. Redefined(f, g, n, p, unset, b)
  BY <1>1, <1>2, <1>6, <1>8, <1>9, <1>10, <1>11, <1>12 DEF Differs, Redefined
<1> QED
  BY <1>5, <1>13

(* The name is not found in z, which is f but for an entry that lost it.   *)
LEMMA RedefinedNew ==
    ASSUME NEW f \in FunsType, NEW z \in FunsType, hash \in Hashes, NEW n \in Name,
           NEW unset \in BOOLEAN, NEW b \in Nat,
           z = Zap(f, n), TableInv(z), EntryForms(z), Mytsearch(z, n) = NoEntry,
           z.freed = f.freed, z.dead = f.dead, DOMAIN z.entries = DOMAIN f.entries,
           \A q \in DOMAIN f.entries :
              z.entries[q] = f.entries[q] \/ IsZapped(f.entries[q], z.entries[q], n),
           \A m \in Name : m # n => Bound(z, m) = Bound(f, m)
    PROVE  \E p : Searched(f, n) = p /\ Redefined(f, Defines(f, n, unset, b), n, p, unset, b)
<1> DEFINE t == Findfunc(z, n)
<1>1. PICK p : Found(z, t, p, n)
  BY FindfuncResult, FormsDefined
<1> DEFINE e == Given(t.entries[p], unset, b)
           u == FreeTree(t, p)
           g == Gives(t, p, unset, b)
<1>2. /\ t \in FunsType /\ TableInv(t) /\ p \in Bound(t, n)
      /\ p \in DOMAIN t.entries \ t.freed /\ t.entries[p] = FoundEntry(n)
      /\ t.dead = z.dead
      /\ DOMAIN z.entries \subseteq DOMAIN t.entries
      /\ \A q \in DOMAIN t.entries : q # p => q \in DOMAIN z.entries /\ t.entries[q] = z.entries[q]
      /\ p \in DOMAIN z.entries => ~Defined(z, p) /\ z.entries[p].name = n
      /\ \A q \in t.freed : q \in DOMAIN z.entries /\ (q \in z.freed \/ FreesEntry(z, q))
      /\ \A m \in Name : m # n => Bound(t, m) = Bound(z, m)
  BY <1>1 DEF Found
<1> HIDE DEF t
<1>3. Mytsearch(t, n) = p
  BY <1>2, Lookup
<1>4. Defines(f, n, unset, b) = g /\ Searched(f, n) = p
  BY <1>3 DEF Defines, DefinesFound, Searched, t
<1>5. /\ Differs(u, g, p, e) /\ TableInv(g)
      /\ \A m \in Name : m # n => Bound(g, m) = Bound(t, m)
      /\ Bound(g, n) = IF unset THEN {} ELSE {p}
  BY <1>2, GivesResult
<1>6. t.entries[p] \in EntryRecord /\ t.entries[p].name = n /\ t.entries[p].flag = {"DEFINED"}
  BY <1>2, EntryTypes DEF FoundEntry
<1>7. /\ e.name = n
      /\ unset => e.flag = Unused
      /\ ~unset => e.flag = Live /\ e.tree = b
  <2>1. /\ e.name = t.entries[p].name /\ (unset => e.flag = Unused)
        /\ ~unset => /\ e.flag = t.entries[p].flag \union {"ISSET", "ALLOC"}
                     /\ e.tree = b
    BY <1>6, GivenFields
  <2>2. {"DEFINED"} \union {"ISSET", "ALLOC"} = Live
    BY DEF Live
  <2> HIDE DEF e
  <2> QED
    BY <1>6, <2>1, <2>2
<1>8. /\ u.slots = t.slots /\ u.nfree = t.nfree
      /\ u.freed = t.freed /\ u.entries = t.entries /\ u.dead = t.dead
  BY <1>2, <1>6, FreeTreeFields
<1> HIDE DEF u, g, e
<1>9. ASSUME p \in DOMAIN f.entries PROVE f.entries[p].flag = Unused
  <2>1. ~Defined(z, p) /\ z.entries[p].name = n /\ EntryForm(z.entries[p])
    BY <1>2, <1>9 DEF EntryForms
  <2>2. z.entries[p].flag = Unused
    BY <2>1, FuncsAssumption DEF EntryForm, Defined, Live
  <2>3. ~IsZapped(f.entries[p], z.entries[p], n)
    BY <2>2 DEF IsZapped, Unused, Deleted
  <2> QED
    BY <1>9, <2>2, <2>3
<1>10. ASSUME NEW q \in t.freed
       PROVE  q \in DOMAIN f.entries /\ (q \in f.freed \/ f.entries[q].flag = Unused)
  <2>1. q \in DOMAIN z.entries /\ (q \in z.freed \/ FreesEntry(z, q))
    BY <1>2
  <2>2. CASE q \in z.freed
    BY <2>1, <2>2
  <2>3. CASE FreesEntry(z, q)
    <3>1. z.entries[q].flag = Unused
      BY <2>1, <2>3 DEF EntryForms, EntryForm, FreesEntry, Defined, Live, Deleted
    <3>2. ~IsZapped(f.entries[q], z.entries[q], n)
      BY <3>1 DEF IsZapped, Unused, Deleted
    <3> QED
      BY <2>1, <3>1, <3>2
  <2> QED
    BY <2>1, <2>2, <2>3
<1>11. g.dead = IF p \in DOMAIN f.entries /\ f.entries[p].flag = Live
                THEN f.dead \union {f.entries[p].tree} ELSE f.dead
  BY <1>2, <1>5, <1>8, <1>9 DEF Differs, Live, Unused
<1>12. /\ DOMAIN g.entries = DOMAIN t.entries /\ g.entries[p] = e /\ g.freed = t.freed
       /\ g \in FunsType
       /\ \A q \in DOMAIN t.entries : q # p => g.entries[q] = t.entries[q]
  BY <1>5, <1>8 DEF Differs
<1>13. \A m \in Name : m # n => Bound(g, m) = Bound(f, m)
  BY <1>2, <1>5
<1>14. \A q \in DOMAIN g.entries : q # p =>
          /\ q \in DOMAIN f.entries
          /\ g.entries[q] = f.entries[q] \/ IsZapped(f.entries[q], g.entries[q], n)
  BY <1>2, <1>12
<1>15. p \in DOMAIN g.entries \ g.freed /\ DOMAIN f.entries \subseteq DOMAIN g.entries
  BY <1>2, <1>12
<1>16. Redefined(f, g, n, p, unset, b)
  BY <1>5, <1>7, <1>9, <1>10, <1>11, <1>12, <1>13, <1>14, <1>15 DEF Redefined
<1> QED
  BY <1>4, <1>16

LEMMA DefineResult ==
    ASSUME NEW f \in FunsType, TableInv(f), EntryForms(f), hash \in Hashes, NEW n \in Name,
           NEW unset \in BOOLEAN, NEW b \in Nat
    PROVE  \E p : Searched(f, n) = p /\ Redefined(f, Defines(f, n, unset, b), n, p, unset, b)
<1>1. CASE Bound(f, n) = {}
  <2>1. Mytsearch(f, n) = NoEntry
    BY <1>1, Lookup
  <2>2. Zap(f, n) = f
    BY <2>1 DEF Zap
  <2> QED
    BY <2>1, <2>2, RedefinedNew
<1>2. ASSUME NEW p \in Bound(f, n), "FINUSE" \notin f.entries[p].flag
      PROVE  Searched(f, n) = p /\ Redefined(f, Defines(f, n, unset, b), n, p, unset, b)
  BY <1>2, RedefinedIdle
<1>3. ASSUME NEW p \in Bound(f, n), "FINUSE" \in f.entries[p].flag
      PROVE  \E q : Searched(f, n) = q /\ Redefined(f, Defines(f, n, unset, b), n, q, unset, b)
  <2> DEFINE z == Zap(f, n)
  <2>1. /\ Differs(f, z, p, Zapped(f.entries[p]))
        /\ TableInv(z) /\ EntryForms(z)
        /\ IsZapped(f.entries[p], Zapped(f.entries[p]), n)
        /\ Mytsearch(z, n) = NoEntry
        /\ \A m \in Name : m # n => Bound(z, m) = Bound(f, m)
    BY <1>3, ZapResult
  <2> HIDE DEF z
  <2>2. /\ z \in FunsType /\ z.freed = f.freed /\ z.dead = f.dead
        /\ DOMAIN z.entries = DOMAIN f.entries
        /\ \A q \in DOMAIN f.entries :
              z.entries[q] = f.entries[q] \/ IsZapped(f.entries[q], z.entries[q], n)
    BY <2>1 DEF Differs
  <2>3. z = Zap(f, n)
    BY DEF z
  <2> QED
    BY <2>1, <2>2, <2>3, RedefinedNew
<1> QED
  BY <1>1, <1>2, <1>3

-----------------------------------------------------------------------------
(* The invariant of a table, the number of trees and the calls.            *)
InvOf(f, b, c) ==
    /\ f \in FunsType /\ b \in 0..MaxTrees /\ c \in Seq(CallRecord)
    /\ TableInv(f) /\ EntriesInv(f, b) /\ OwnersInv(f, b) /\ CallsInv(f, c)

LEMMA InvIs == FuncsInv <=> hash \in Hashes /\ InvOf(funs, trees, active)
  BY DEF FuncsInv, FuncsTypeOK, InvOf

LEMMA InvPrimed ==
    ASSUME NEW f, NEW b, NEW c, funs' = f, trees' = b, active' = c, hash' = hash,
           hash \in Hashes, InvOf(f, b, c)
    PROVE  FuncsInv'
<1>1. FuncsTypeOK'
  BY DEF FuncsTypeOK, InvOf
<1>2. TableInv(funs)'
  <2>1. \A n, k : Probe(funs, n, k)' = Probe(f, n, k)
    BY DEF Probe
  <2>2. \A n : Named(funs, n)' = Named(f, n)
    BY DEF Named
  <2>3. \A n, i : Meets(funs, n, i)' <=> Meets(f, n, i)
    BY <2>1, <2>2 DEF Meets
  <2>4. Occupied(funs)' = Occupied(f)
    BY DEF Occupied
  <2> QED
    BY <2>2, <2>3, <2>4 DEF TableInv, InvOf
<1>3. EntriesInv(funs, trees)'
  BY DEF InvOf, EntriesInv
<1>4. OwnersInv(funs, trees)'
  BY DEF InvOf, OwnersInv
<1>5. CallsInv(funs, active)'
  BY DEF InvOf, CallsInv
<1> QED
  BY <1>1, <1>2, <1>3, <1>4, <1>5 DEF FuncsInv

LEMMA InvInitially == FuncsInit => FuncsInv
<1> SUFFICES ASSUME FuncsInit PROVE FuncsInv
  OBVIOUS
<1>1. /\ hash \in Hashes /\ trees = 0 /\ active = <<>>
      /\ funs = [slots |-> <<>>, nfree |-> 0, entries |-> <<>>, freed |-> {}, dead |-> {}]
  BY DEF FuncsInit
<1>2. funs \in FunsType
  BY <1>1 DEF FunsType
<1>3. /\ funs.slots = <<>> /\ funs.entries = <<>> /\ funs.nfree = 0
      /\ funs.freed = {} /\ funs.dead = {}
  BY <1>1
<1>4. /\ DOMAIN funs.slots = {} /\ DOMAIN funs.entries = {} /\ DOMAIN active = {}
      /\ trees \in 0..MaxTrees /\ active \in Seq(CallRecord)
  BY <1>1, <1>3, FuncsAssumption
<1>5. TableInv(funs)
  BY <1>3, <1>4 DEF TableInv, Occupied
<1>6. EntriesInv(funs, trees) /\ OwnersInv(funs, trees) /\ CallsInv(funs, active)
  BY <1>1, <1>3, <1>4 DEF EntriesInv, OwnersInv, CallsInv
<1> QED
  BY <1>1, <1>2, <1>4, <1>5, <1>6 DEF FuncsInv, FuncsTypeOK

(* define() keeps it.                                                      *)
LEMMA DefineKeeps ==
    ASSUME NEW f, NEW b, NEW c, InvOf(f, b, c), NEW g, NEW n \in Name, NEW p,
           NEW unset \in BOOLEAN, b < MaxTrees, Redefined(f, g, n, p, unset, b + 1)
    PROVE  InvOf(g, IF unset THEN b ELSE b + 1, c)
<1> DEFINE d == IF unset THEN b ELSE b + 1
<1>1. /\ f \in FunsType /\ b \in 0..MaxTrees /\ c \in Seq(CallRecord) /\ MaxTrees \in Nat
      /\ EntriesInv(f, b) /\ OwnersInv(f, b) /\ CallsInv(f, c)
  BY FuncsAssumption DEF InvOf
<1>2. /\ g \in FunsType /\ TableInv(g)
      /\ p \in DOMAIN g.entries \ g.freed /\ g.entries[p].name = n
      /\ unset => g.entries[p].flag = Unused
      /\ ~unset => g.entries[p].flag = Live /\ g.entries[p].tree = b + 1
      /\ DOMAIN f.entries \subseteq DOMAIN g.entries
      /\ p \in DOMAIN f.entries => f.entries[p].flag \in {Unused, Live}
      /\ g.dead = IF p \in DOMAIN f.entries /\ f.entries[p].flag = Live
                  THEN f.dead \union {f.entries[p].tree} ELSE f.dead
      /\ \A q \in g.freed : q \in DOMAIN f.entries /\ (q \in f.freed \/ f.entries[q].flag = Unused)
  BY DEF Redefined
<1>3. ASSUME NEW q \in DOMAIN g.entries, q # p
      PROVE  /\ q \in DOMAIN f.entries
             /\ EntryForm(g.entries[q])
             /\ g.entries[q].flag = Unused <=> f.entries[q].flag = Unused
             /\ g.entries[q].flag # Unused => g.entries[q].tree = f.entries[q].tree
             /\ "FINUSE" \in g.entries[q].flag <=> "FINUSE" \in f.entries[q].flag
  <2>1. /\ q \in DOMAIN f.entries
        /\ g.entries[q] = f.entries[q] \/ IsZapped(f.entries[q], g.entries[q], n)
    BY <1>3 DEF Redefined
  <2>2. CASE g.entries[q] = f.entries[q]
    BY <1>1, <2>1, <2>2 DEF EntriesInv
  <2>3. CASE IsZapped(f.entries[q], g.entries[q], n)
    <3>1. EntryForm(g.entries[q])
      BY <2>3 DEF IsZapped, EntryForm, Deleted
    <3> QED
      BY <2>1, <2>3, <3>1 DEF IsZapped, Live, Deleted, Unused
  <2> QED
    BY <2>1, <2>2, <2>3
<1>4. d \in 0..MaxTrees /\ b \in 0..d /\ (~unset => d = b + 1)
  BY <1>1
<1> HIDE DEF d
<1>5. ASSUME p \in DOMAIN f.entries, f.entries[p].flag = Live
      PROVE  f.entries[p].tree \in (1..b) \ f.dead
  BY <1>1, <1>5 DEF EntriesInv, Live, Unused
<1>6. f.dead \subseteq 1..b /\ g.dead \subseteq 1..b
  BY <1>1, <1>2, <1>5 DEF OwnersInv
<1>7. ASSUME NEW q \in DOMAIN g.entries, g.entries[q].flag # Unused
      PROVE  IF q = p THEN ~unset /\ g.entries[q].tree = b + 1
             ELSE g.entries[q].tree \in (1..b) \ g.dead
  <2>1. CASE q = p
    BY <1>2, <1>7, <2>1
  <2>2. CASE q # p
    <3>1. /\ q \in DOMAIN f.entries /\ f.entries[q].flag # Unused
          /\ g.entries[q].tree = f.entries[q].tree
      BY <1>3, <1>7, <2>2
    <3>2. f.entries[q].tree \in (1..b) \ f.dead
      BY <1>1, <3>1 DEF EntriesInv
    <3>3. p \in DOMAIN f.entries /\ f.entries[p].flag = Live =>
              f.entries[p].tree # f.entries[q].tree
      BY <1>1, <2>2, <3>1 DEF EntriesInv, Live, Unused
    <3> QED
      BY <1>2, <2>2, <3>1, <3>2, <3>3
  <2> QED
    BY <2>1, <2>2
<1>8. \A q \in DOMAIN g.entries : EntryForm(g.entries[q])
  <2>1. EntryForm(g.entries[p])
    BY <1>2 DEF EntryForm, Unused, Live, Deleted
  <2> QED
    BY <1>3, <2>1
<1>9. ASSUME NEW q \in g.freed PROVE g.entries[q].flag = Unused
  <2>1. q \in DOMAIN f.entries /\ (q \in f.freed \/ f.entries[q].flag = Unused) /\ q # p
    BY <1>2
  <2>2. f.entries[q].flag = Unused
    BY <1>1, <2>1 DEF EntriesInv
  <2> QED
    BY <1>2, <1>3, <2>1, <2>2
<1>10. ASSUME NEW q \in DOMAIN g.entries, g.entries[q].flag # Unused
       PROVE  /\ g.entries[q].tree \in (1..d) \ g.dead
              /\ \A r \in DOMAIN g.entries \ {q} :
                    g.entries[r].flag # Unused => g.entries[r].tree # g.entries[q].tree
  <2>1. g.entries[q].tree \in (1..d) \ g.dead
    <3>1. IF q = p THEN ~unset /\ g.entries[q].tree = b + 1
          ELSE g.entries[q].tree \in (1..b) \ g.dead
      BY <1>7, <1>10
    <3> QED
      BY <1>1, <1>4, <1>6, <3>1
  <2>2. ASSUME NEW r \in DOMAIN g.entries \ {q}, g.entries[r].flag # Unused
        PROVE  g.entries[r].tree # g.entries[q].tree
    <3>1. IF q = p THEN ~unset /\ g.entries[q].tree = b + 1
          ELSE g.entries[q].tree \in (1..b) \ g.dead
      BY <1>7, <1>10
    <3>2. IF r = p THEN ~unset /\ g.entries[r].tree = b + 1
          ELSE g.entries[r].tree \in (1..b) \ g.dead
      BY <1>7, <2>2
    <3>3. CASE q = p \/ r = p
      BY <1>1, <3>1, <3>2, <3>3
    <3>4. CASE q # p /\ r # p
      <4>1. /\ q \in DOMAIN f.entries /\ r \in DOMAIN f.entries
            /\ f.entries[q].flag # Unused /\ f.entries[r].flag # Unused
            /\ g.entries[q].tree = f.entries[q].tree /\ g.entries[r].tree = f.entries[r].tree
        BY <1>3, <1>10, <2>2, <3>4
      <4>2. f.entries[r].tree # f.entries[q].tree
        BY <1>1, <4>1 DEF EntriesInv
      <4> QED
        BY <4>1, <4>2
    <3> QED
      BY <3>3, <3>4
  <2> QED
    BY <2>1, <2>2
<1>11. EntriesInv(g, d)
  BY <1>8, <1>9, <1>10 DEF EntriesInv
<1>12. OwnersInv(g, d)
  <2>1. g.dead \subseteq 1..d
    BY <1>1, <1>4, <1>6
  <2>2. ASSUME NEW k \in (1..d) \ g.dead
        PROVE  \E q \in DOMAIN g.entries : g.entries[q].flag # Unused /\ g.entries[q].tree = k
    <3>1. CASE k \in 1..b
      <4>1. k \notin f.dead
        BY <1>2
      <4>2. PICK q \in DOMAIN f.entries : f.entries[q].flag # Unused /\ f.entries[q].tree = k
        BY <1>1, <3>1, <4>1 DEF OwnersInv
      <4>3. q # p
        BY <1>2, <4>2
      <4>4. q \in DOMAIN g.entries
        BY <1>2
      <4> QED
        BY <1>3, <4>2, <4>3, <4>4
    <3>2. CASE k \notin 1..b
      <4>1. ~unset /\ k = b + 1
        BY <1>1, <3>2 DEF d
      <4> QED
        BY <1>2, <4>1 DEF Live, Unused
    <3> QED
      BY <3>1, <3>2
  <2> QED
    BY <2>1, <2>2 DEF OwnersInv
<1>13. CallsInv(g, c)
  <2>1. ASSUME NEW i \in DOMAIN c
        PROVE  /\ c[i].entry \in DOMAIN g.entries
               /\ "FINUSE" \in g.entries[c[i].entry].flag
               /\ c[i].tree = g.entries[c[i].entry].tree
               /\ "FINUSE" \in c[i].old_inuse <=> \E k \in 1..i - 1 : c[k].entry = c[i].entry
    <3>1. /\ c[i].entry \in DOMAIN f.entries
          /\ "FINUSE" \in f.entries[c[i].entry].flag
          /\ c[i].tree = f.entries[c[i].entry].tree
          /\ "FINUSE" \in c[i].old_inuse <=> \E k \in 1..i - 1 : c[k].entry = c[i].entry
      BY <1>1 DEF CallsInv
    <3>2. c[i].entry # p /\ c[i].entry \in DOMAIN g.entries
      BY <1>2, <3>1 DEF Unused, Live
    <3>3. /\ "FINUSE" \in g.entries[c[i].entry].flag
          /\ g.entries[c[i].entry].tree = f.entries[c[i].entry].tree
      BY <1>3, <3>1, <3>2 DEF Unused
    <3> QED
      BY <3>1, <3>2, <3>3
  <2>2. ASSUME NEW q \in DOMAIN g.entries, "FINUSE" \in g.entries[q].flag
        PROVE  \E i \in DOMAIN c : c[i].entry = q
    <3>1. q # p
      BY <1>2, <2>2 DEF Unused, Live
    <3>2. q \in DOMAIN f.entries /\ "FINUSE" \in f.entries[q].flag
      BY <1>3, <2>2, <3>1
    <3> QED
      BY <1>1, <3>2 DEF CallsInv
  <2> QED
    BY <2>1, <2>2 DEF CallsInv
<1> QED
  BY <1>1, <1>2, <1>4, <1>11, <1>12, <1>13 DEF InvOf, d

(* A change of flags only.                                                 *)
Flagged(t, p, flag) == [t EXCEPT !.entries[p].flag = flag]
WithFlag(x, flag) == [name |-> x.name, tree |-> x.tree, flag |-> flag]

LEMMA FlaggedDiffers ==
    ASSUME NEW t \in FunsType, NEW p \in DOMAIN t.entries,
           NEW flag \in SUBSET {"DEFINED", "ISSET", "ALLOC", "FINUSE", "FDELETE"}
    PROVE  Differs(t, Flagged(t, p, flag), p, WithFlag(t.entries[p], flag))
<1> DEFINE x == t.entries[p]
           e == Reflagged(x, flag)
<1>1. x \in EntryRecord
  BY EntryTypes
<1>2. Flagged(t, p, flag) = Sets(t, p, e)
  BY DEF Flagged, Sets, Reflagged
<1> HIDE DEF x, e
<1>3. e = WithFlag(x, flag)
  BY <1>1, EntryChanged DEF WithFlag, e
<1>4. WithFlag(x, flag) \in EntryRecord
  BY <1>1 DEF WithFlag, EntryRecord
<1>5. Differs(t, Sets(t, p, e), p, e)
  BY <1>3, <1>4, SetsDiffers
<1> QED
  BY <1>2, <1>3, <1>5 DEF x

(* A call.                                                                 *)
CallOf(x, p) == [entry |-> p, tree |-> x.tree, old_inuse |-> x.flag \intersect {"FINUSE"}]

LEMMA CallKeeps ==
    ASSUME NEW f, NEW b, NEW c, InvOf(f, b, c), NEW n \in Name, NEW p \in Bound(f, n)
    PROVE  /\ InvOf(Flagged(f, p, f.entries[p].flag \union {"FINUSE"}), b,
                    Append(c, CallOf(f.entries[p], p)))
           /\ \A m : Bound(Flagged(f, p, f.entries[p].flag \union {"FINUSE"}), m) = Bound(f, m)
           /\ f.entries[p].tree \in (1..b) \ f.dead
<1> DEFINE x == f.entries[p]
           flag == x.flag \union {"FINUSE"}
           g == Flagged(f, p, flag)
           e == WithFlag(x, flag)
           a == CallOf(x, p)
           d == Append(c, a)
<1>1. /\ f \in FunsType /\ b \in 0..MaxTrees /\ c \in Seq(CallRecord)
      /\ TableInv(f) /\ EntriesInv(f, b) /\ OwnersInv(f, b) /\ CallsInv(f, c)
  BY DEF InvOf
<1>2. p \in DOMAIN f.entries /\ "DEFINED" \in x.flag
  BY DEF Bound, Named, Defined
<1>3. x.flag \in {Live, Live \union {"FINUSE"}} /\ x \in EntryRecord
  BY <1>1, <1>2, EntryTypes DEF EntriesInv, EntryForm, Unused, Deleted
<1>4. flag = Live \union {"FINUSE"} /\ x.flag # Unused
  BY <1>3 DEF Live, Unused
<1>5. x.tree \in (1..b) \ f.dead
  BY <1>1, <1>2, <1>4 DEF EntriesInv
<1>6. flag \in SUBSET {"DEFINED", "ISSET", "ALLOC", "FINUSE", "FDELETE"}
  BY <1>4 DEF Live
<1>7. Differs(f, g, p, e)
  BY <1>1, <1>2, <1>6, FlaggedDiffers
<1>8. e.name = x.name /\ e.tree = x.tree /\ e.flag = flag
  BY DEF WithFlag
<1>9. /\ a.entry = p /\ a.tree = x.tree /\ a \in CallRecord
      /\ "FINUSE" \in a.old_inuse <=> "FINUSE" \in x.flag
  BY <1>2, <1>3, <1>1, Fields DEF CallOf, CallRecord, EntryRecord
<1> HIDE DEF x, flag, g, e, a
<1>10. TableInv(g)
  <2>1. e.name = f.entries[p].name
    BY <1>8 DEF x
  <2> QED
    BY <1>1, <1>2, <1>7, <2>1, DiffersTable
<1>11. \A m : Bound(g, m) = Bound(f, m)
  <2>1. e.name = f.entries[p].name /\ ("DEFINED" \in e.flag <=> Defined(f, p))
    BY <1>2, <1>4, <1>8 DEF x, Defined, Live
  <2> QED
    BY <1>1, <1>2, <1>7, <2>1, DiffersSameBound
<1>12. /\ g \in FunsType /\ DOMAIN g.entries = DOMAIN f.entries
       /\ g.freed = f.freed /\ g.dead = f.dead
       /\ g.entries[p].flag = Live \union {"FINUSE"} /\ g.entries[p].tree = x.tree
       /\ g.entries[p].name = x.name
       /\ \A q \in DOMAIN f.entries : q # p => g.entries[q] = f.entries[q]
  BY <1>4, <1>7, <1>8 DEF Differs
<1>13. EntryForm(g.entries[p])
  BY <1>1, <1>2, <1>12 DEF EntriesInv, EntryForm, x, Live, Deleted
<1>14. \A q \in DOMAIN f.entries :
           /\ g.entries[q].tree = f.entries[q].tree
           /\ g.entries[q].flag = Unused <=> f.entries[q].flag = Unused
           /\ EntryForm(g.entries[q])
  BY <1>1, <1>4, <1>12, <1>13 DEF x, Live, Unused, EntriesInv
<1>15. EntriesInv(g, b) /\ OwnersInv(g, b)
  BY <1>1, <1>12, <1>14 DEF EntriesInv, OwnersInv
<1>16. /\ d \in Seq(CallRecord) /\ DOMAIN d = 1..Len(c) + 1 /\ Len(c) \in Nat
       /\ DOMAIN c = 1..Len(c)
       /\ \A i \in 1..Len(c) : d[i] = c[i]
       /\ d[Len(c) + 1] = a
  <2>1. /\ d \in Seq(CallRecord) /\ Len(d) = Len(c) + 1 /\ Len(c) \in Nat
        /\ \A i \in 1..Len(c) : d[i] = c[i]
        /\ d[Len(c) + 1] = a
    BY <1>1, <1>9, AppendProperties, LenProperties
  <2> HIDE DEF d
  <2>2. DOMAIN d = 1..Len(d) /\ DOMAIN c = 1..Len(c)
    BY <1>1, <2>1, LenProperties
  <2> QED
    BY <2>1, <2>2
<1> HIDE DEF d
<1>17. \A i \in 1..Len(c) :
          /\ c[i].entry \in DOMAIN f.entries
          /\ "FINUSE" \in f.entries[c[i].entry].flag
          /\ c[i].tree = f.entries[c[i].entry].tree
          /\ "FINUSE" \in c[i].old_inuse <=> \E k \in 1..i - 1 : c[k].entry = c[i].entry
  BY <1>1, <1>16 DEF CallsInv
<1>18. "FINUSE" \in x.flag <=> \E k \in 1..Len(c) : c[k].entry = p
  BY <1>1, <1>2, <1>16, <1>17 DEF CallsInv, x
<1>19. ASSUME NEW i \in DOMAIN d
       PROVE  /\ d[i].entry \in DOMAIN g.entries
              /\ "FINUSE" \in g.entries[d[i].entry].flag
              /\ d[i].tree = g.entries[d[i].entry].tree
              /\ "FINUSE" \in d[i].old_inuse <=> \E k \in 1..i - 1 : d[k].entry = d[i].entry
  <2>1. CASE i \in 1..Len(c)
    <3>1. d[i] = c[i]
      BY <1>16, <2>1
    <3>2. "FINUSE" \in g.entries[c[i].entry].flag
      BY <1>12, <1>17, <2>1
    <3>3. \A k \in 1..i - 1 : d[k] = c[k]
      BY <1>16, <2>1
    <3> QED
      BY <1>12, <1>14, <1>17, <2>1, <3>1, <3>2, <3>3
  <2>2. CASE i \notin 1..Len(c)
    <3>1. i = Len(c) + 1 /\ d[i] = a /\ i - 1 = Len(c)
      BY <1>16, <2>2
    <3>2. "FINUSE" \in g.entries[p].flag
      BY <1>12
    <3>3. "FINUSE" \in d[i].old_inuse <=> \E k \in 1..i - 1 : d[k].entry = p
      BY <1>9, <1>16, <1>18, <3>1
    <3> QED
      BY <1>2, <1>9, <1>12, <3>1, <3>2, <3>3
  <2> QED
    BY <2>1, <2>2
<1>20. ASSUME NEW q \in DOMAIN g.entries, "FINUSE" \in g.entries[q].flag
       PROVE  \E i \in DOMAIN d : d[i].entry = q
  <2>1. CASE q = p
    BY <1>9, <1>16, <2>1
  <2>2. CASE q # p
    <3>1. q \in DOMAIN f.entries /\ "FINUSE" \in f.entries[q].flag
      BY <1>12, <1>20, <2>2
    <3>2. PICK i \in DOMAIN c : c[i].entry = q
      BY <1>1, <3>1 DEF CallsInv
    <3>3. i \in DOMAIN d /\ d[i] = c[i]
      BY <1>16
    <3> QED
      BY <3>2, <3>3
  <2> QED
    BY <2>1, <2>2
<1>21. CallsInv(g, d)
  BY <1>19, <1>20 DEF CallsInv
<1>22. InvOf(g, b, d)
  BY <1>1, <1>10, <1>12, <1>15, <1>16, <1>21 DEF InvOf
<1> QED
  BY <1>5, <1>11, <1>22 DEF x, flag, g, a, d

(* The end of the last call: what becomes of the table.                    *)
EndFlag(f, a) == (f.entries[a.entry].flag \ {"FINUSE"}) \union a.old_inuse
EndOf(f, a) ==
    LET t == Flagged(f, a.entry, EndFlag(f, a))
    IN  IF "FDELETE" \in EndFlag(f, a) /\ "FINUSE" \notin EndFlag(f, a)
        THEN Flagged(FreeTree(t, a.entry), a.entry, Unused) ELSE t

(* An entry that is in use still, that is not, or that is freed.           *)
Ended(f, g, a) ==
    LET p == a.entry
        x == f.entries[p]
    IN  /\ g \in FunsType /\ TableInv(g)
        /\ g.freed = f.freed /\ DOMAIN g.entries = DOMAIN f.entries
        /\ \A q \in DOMAIN f.entries : q # p => g.entries[q] = f.entries[q]
        /\ g.entries[p].name = x.name /\ g.entries[p].tree = x.tree
        /\ \/ g.entries[p].flag = x.flag /\ g.dead = f.dead /\ "FINUSE" \in a.old_inuse
           \/ /\ "FINUSE" \notin a.old_inuse /\ x.flag = Live \union {"FINUSE"}
              /\ g.entries[p].flag = Live /\ g.dead = f.dead
           \/ /\ "FINUSE" \notin a.old_inuse /\ x.flag = Deleted
              /\ g.entries[p].flag = Unused /\ g.dead = f.dead \union {x.tree}
        /\ \A m : Bound(g, m) = Bound(f, m)

LEMMA EndResult ==
    ASSUME NEW f \in FunsType, TableInv(f), EntryForms(f), NEW a \in CallRecord,
           a.entry \in DOMAIN f.entries, "FINUSE" \in f.entries[a.entry].flag
    PROVE  Ended(f, EndOf(f, a), a)
<1> DEFINE p == a.entry
           x == f.entries[p]
           flag == EndFlag(f, a)
           t == Flagged(f, p, flag)
           e == WithFlag(x, flag)
           g == EndOf(f, a)
<1>1. /\ x \in EntryRecord /\ EntryForm(x) /\ "FINUSE" \in x.flag
      /\ a.old_inuse \in SUBSET {"FINUSE"} /\ p \in DOMAIN f.entries
  BY EntryTypes DEF EntryForms, CallRecord
<1>2. x.flag \in {Live \union {"FINUSE"}, Deleted}
  BY <1>1 DEF EntryForm, Unused, Live
<1>3. flag = (x.flag \ {"FINUSE"}) \union a.old_inuse
  BY DEF EndFlag
<1>4. g = IF "FDELETE" \in flag /\ "FINUSE" \notin flag
          THEN Flagged(FreeTree(t, p), p, Unused) ELSE t
  BY DEF EndOf
<1>5. flag \in SUBSET {"DEFINED", "ISSET", "ALLOC", "FINUSE", "FDELETE"}
  <2>1. x.flag \in SUBSET {"DEFINED", "ISSET", "ALLOC", "FINUSE", "FDELETE"}
    BY <1>1 DEF EntryRecord
  <2> HIDE DEF x, flag
  <2> QED
    BY <1>1, <1>3, <2>1
<1> HIDE DEF flag, t, e, g, x
<1>6. Differs(f, t, p, e)
  BY <1>1, <1>5, FlaggedDiffers DEF t, e, x
<1>7. e.name = x.name /\ e.tree = x.tree /\ e.flag = flag
  BY DEF e, WithFlag
<1>8. TableInv(t)
  BY <1>1, <1>6, <1>7, DiffersTable DEF x
<1>9. "DEFINED" \in flag <=> Defined(f, p)
  BY <1>1, <1>3 DEF x, Defined
<1>10. \A m : Bound(t, m) = Bound(f, m)
  BY <1>1, <1>6, <1>7, <1>9, DiffersSameBound DEF x
<1>11. CASE "FINUSE" \in a.old_inuse
  <2>1. flag = x.flag
    BY <1>1, <1>3, <1>11
  <2>2. g = t
    BY <1>1, <1>4, <2>1
  <2> QED
    BY <1>1, <1>6, <1>7, <1>8, <1>10, <1>11, <2>1, <2>2 DEF Differs, Ended, g, x
<1>12. CASE "FINUSE" \notin a.old_inuse /\ x.flag = Live \union {"FINUSE"}
  <2>1. flag = Live
    BY <1>1, <1>3, <1>12 DEF Live
  <2>2. g = t
    BY <1>4, <2>1 DEF Live
  <2> QED
    BY <1>1, <1>6, <1>7, <1>8, <1>10, <1>12, <2>1, <2>2 DEF Differs, Ended, g, x
<1>13. CASE "FINUSE" \notin a.old_inuse /\ x.flag = Deleted
  <2>1. flag = {"ISSET", "ALLOC", "FDELETE"}
    BY <1>1, <1>3, <1>13 DEF Deleted
  <2> DEFINE u == FreeTree(t, p)
             y == WithFlag(u.entries[p], Unused)
  <2>2. g = Flagged(u, p, Unused)
    BY <1>4, <2>1
  <2>3. /\ t \in FunsType /\ p \in DOMAIN t.entries /\ t.entries[p] = e
    BY <1>1, <1>6 DEF Differs
  <2>4. /\ u \in FunsType /\ u.slots = t.slots /\ u.nfree = t.nfree
        /\ u.freed = t.freed /\ u.entries = t.entries
        /\ u.dead = t.dead \union {e.tree}
    BY <1>7, <2>1, <2>3, FreeTreeFields
  <2> HIDE DEF u, y
  <2>5. Unused \in SUBSET {"DEFINED", "ISSET", "ALLOC", "FINUSE", "FDELETE"}
    BY DEF Unused
  <2>6. Differs(u, g, p, y)
    BY <2>2, <2>3, <2>4, <2>5, FlaggedDiffers DEF y
  <2>7. y.name = x.name /\ y.tree = x.tree /\ y.flag = Unused
    BY <1>7, <2>3, <2>4 DEF y, WithFlag
  <2>8. NamesLost(t, g)
    BY <1>7, <2>3, <2>4, <2>6, <2>7 DEF NamesLost, Differs
  <2>9. TableInv(g)
    BY <1>8, <2>8, TableKept
  <2>10. ~Defined(u, p) /\ "DEFINED" \notin y.flag
    BY <1>7, <2>1, <2>3, <2>4, <2>7 DEF Defined, Unused
  <2>11. \A m : Bound(g, m) = Bound(u, m)
    BY <2>3, <2>4, <2>6, <2>10, DiffersBound
  <2>12. \A m : Bound(u, m) = Bound(t, m)
    BY <2>4 DEF Bound, Named, Defined
  <2>13. g \in FunsType /\ g.freed = f.freed /\ g.dead = f.dead \union {x.tree}
         /\ DOMAIN g.entries = DOMAIN f.entries /\ g.entries[p] = y
         /\ \A q \in DOMAIN f.entries : q # p => g.entries[q] = f.entries[q]
    BY <1>6, <1>7, <2>4, <2>6 DEF Differs
  <2> QED
    BY <1>10, <1>13, <2>7, <2>9, <2>11, <2>12, <2>13 DEF Ended, g, x
<1> QED
  BY <1>2, <1>11, <1>12, <1>13

LEMMA ReturnKeeps ==
    ASSUME NEW f, NEW b, NEW c, InvOf(f, b, c), c # <<>>, NEW g, Ended(f, g, c[Len(c)])
    PROVE  InvOf(g, b, SubSeq(c, 1, Len(c) - 1))
<1> DEFINE L == Len(c)
           a == c[L]
           p == a.entry
           x == f.entries[p]
           d == SubSeq(c, 1, L - 1)
<1>1. /\ f \in FunsType /\ b \in 0..MaxTrees /\ c \in Seq(CallRecord)
      /\ EntriesInv(f, b) /\ OwnersInv(f, b) /\ CallsInv(f, c)
  BY DEF InvOf
<1>2. L \in Nat \ {0} /\ DOMAIN c = 1..L /\ \A i \in 1..L : c[i] \in CallRecord
  BY <1>1, c # <<>>
<1>3. d \in Seq(CallRecord) /\ DOMAIN d = 1..L - 1 /\ \A i \in 1..L - 1 : d[i] = c[i]
  <2> HIDE DEF L
  <2>1. \A i \in 1..L - 1 : c[i] \in CallRecord
    BY <1>2
  <2>2. d \in Seq(CallRecord) /\ Len(d) = L - 1 /\ \A i \in 1..L - 1 : d[i] = c[i]
    BY <1>1, <1>2, <2>1, SubSeqProperties
  <2> HIDE DEF d
  <2> QED
    BY <2>2, LenProperties
<1> HIDE DEF L, d
<1>4. /\ g \in FunsType /\ TableInv(g)
      /\ g.freed = f.freed /\ DOMAIN g.entries = DOMAIN f.entries
      /\ \A q \in DOMAIN f.entries : q # p => g.entries[q] = f.entries[q]
      /\ g.entries[p].name = x.name /\ g.entries[p].tree = x.tree
      /\ \/ g.entries[p].flag = x.flag /\ g.dead = f.dead /\ "FINUSE" \in a.old_inuse
         \/ /\ "FINUSE" \notin a.old_inuse /\ x.flag = Live \union {"FINUSE"}
            /\ g.entries[p].flag = Live /\ g.dead = f.dead
         \/ /\ "FINUSE" \notin a.old_inuse /\ x.flag = Deleted
            /\ g.entries[p].flag = Unused /\ g.dead = f.dead \union {x.tree}
  BY DEF Ended, L
<1>5. \A i \in 1..L :
          /\ c[i].entry \in DOMAIN f.entries
          /\ "FINUSE" \in f.entries[c[i].entry].flag
          /\ c[i].tree = f.entries[c[i].entry].tree
          /\ "FINUSE" \in c[i].old_inuse <=> \E k \in 1..i - 1 : c[k].entry = c[i].entry
  BY <1>1, <1>2 DEF CallsInv
<1>6. /\ p \in DOMAIN f.entries /\ "FINUSE" \in x.flag
      /\ "FINUSE" \in a.old_inuse <=> \E k \in 1..L - 1 : c[k].entry = p
  BY <1>2, <1>5
<1> HIDE DEF a
<1>7. EntryForm(x) /\ x.flag # Unused /\ x.tree \in (1..b) \ f.dead
  BY <1>1, <1>6 DEF EntriesInv, Unused
<1>8. EntryForm(g.entries[p])
  BY <1>4, <1>7 DEF EntryForm, Unused, Live, Deleted
<1>9. ASSUME NEW q \in DOMAIN g.entries
      PROVE  /\ g.entries[q].tree = f.entries[q].tree /\ EntryForm(g.entries[q])
             /\ g.entries[q].flag # Unused => f.entries[q].flag # Unused
             /\ q # p => (g.entries[q].flag = Unused <=> f.entries[q].flag = Unused)
  BY <1>1, <1>4, <1>7, <1>8 DEF EntriesInv
<1>10. ASSUME g.dead = f.dead, g.entries[p].flag # Unused
       PROVE  EntriesInv(g, b) /\ OwnersInv(g, b)
  <2>1. EntriesInv(g, b)
    BY <1>1, <1>4, <1>7, <1>9, <1>10 DEF EntriesInv
  <2>2. OwnersInv(g, b)
    BY <1>1, <1>4, <1>9, <1>10 DEF OwnersInv
  <2> QED
    BY <1>1, <2>1, <2>2
<1>11. ASSUME g.entries[p].flag = Unused, g.dead = f.dead \union {x.tree}
       PROVE  EntriesInv(g, b) /\ OwnersInv(g, b)
  <2>1. EntriesInv(g, b)
    <3>1. ASSUME NEW q \in DOMAIN g.entries, g.entries[q].flag # Unused
          PROVE  g.entries[q].tree \in (1..b) \ g.dead
      BY <1>1, <1>4, <1>6, <1>7, <1>9, <1>11, <3>1 DEF EntriesInv
    <3> QED
      BY <1>1, <1>4, <1>9, <1>11, <3>1 DEF EntriesInv
  <2>2. OwnersInv(g, b)
    BY <1>1, <1>4, <1>7, <1>9, <1>11 DEF OwnersInv
  <2> QED
    BY <1>1, <2>1, <2>2
<1>12. EntriesInv(g, b) /\ OwnersInv(g, b)
  BY <1>4, <1>7, <1>10, <1>11 DEF Live, Unused
<1>13. ASSUME NEW i \in 1..L - 1
       PROVE  /\ c[i].entry \in DOMAIN g.entries
              /\ "FINUSE" \in g.entries[c[i].entry].flag
              /\ c[i].tree = g.entries[c[i].entry].tree
              /\ "FINUSE" \in c[i].old_inuse <=> \E k \in 1..i - 1 : c[k].entry = c[i].entry
  <2>1. i \in 1..L
    BY <1>2
  <2>2. "FINUSE" \in g.entries[c[i].entry].flag
    BY <1>4, <1>5, <1>6, <2>1
  <2> QED
    BY <1>4, <1>5, <1>9, <2>1, <2>2
<1>14. ASSUME NEW q \in DOMAIN g.entries, "FINUSE" \in g.entries[q].flag
       PROVE  \E i \in 1..L - 1 : c[i].entry = q
  <2>1. CASE q = p
    BY <1>4, <1>6, <1>14, <2>1 DEF Live, Unused
  <2>2. CASE q # p
    <3>1. PICK i \in 1..L : c[i].entry = q
      BY <1>1, <1>2, <1>4, <1>14, <2>2 DEF CallsInv
    <3>2. i # L
      BY <2>2, <3>1 DEF a
    <3>3. i \in 1..L - 1
      BY <1>2, <3>2
    <3> QED
      BY <3>1, <3>3
  <2> QED
    BY <2>1, <2>2
<1>15. CallsInv(g, d)
  <2>1. ASSUME NEW i \in DOMAIN d
        PROVE  /\ d[i].entry \in DOMAIN g.entries
               /\ "FINUSE" \in g.entries[d[i].entry].flag
               /\ d[i].tree = g.entries[d[i].entry].tree
               /\ "FINUSE" \in d[i].old_inuse <=> \E k \in 1..i - 1 : d[k].entry = d[i].entry
    <3>1. i \in 1..L - 1 /\ d[i] = c[i] /\ \A k \in 1..i - 1 : d[k] = c[k]
      BY <1>2, <1>3
    <3> QED
      BY <1>13, <3>1
  <2>2. \A q \in DOMAIN g.entries : "FINUSE" \in g.entries[q].flag =>
            \E i \in DOMAIN d : d[i].entry = q
    BY <1>3, <1>14
  <2> QED
    BY <2>1, <2>2 DEF CallsInv
<1> QED
  BY <1>1, <1>3, <1>4, <1>12, <1>15 DEF InvOf, d, L

-----------------------------------------------------------------------------
(* The actions, in these terms.                                            *)
LEMMA DefineStep ==
    ASSUME FuncsInv, Define
    PROVE  \E n \in Name, unset \in BOOLEAN : \E p :
               /\ trees < MaxTrees
               /\ trees' = IF unset THEN trees ELSE trees + 1
               /\ Redefined(funs, funs', n, p, unset, trees + 1)
               /\ UNCHANGED <<hash, active>>
<1>1. PICK n \in Name, unset \in BOOLEAN :
          /\ trees < MaxTrees
          /\ trees' = IF unset THEN trees ELSE trees + 1
          /\ UNCHANGED <<hash, active>>
          /\ funs' = Defines(funs, n, unset, trees + 1)
  BY DEF Define
<1>2. /\ funs \in FunsType /\ TableInv(funs) /\ EntryForms(funs) /\ hash \in Hashes
      /\ trees + 1 \in Nat
  BY DEF FuncsInv, FuncsTypeOK, EntriesInv, EntryForms
<1>3. \E p : Redefined(funs, Defines(funs, n, unset, trees + 1), n, p, unset, trees + 1)
  BY <1>2, DefineResult
<1> QED
  BY <1>1, <1>3

LEMMA CallStep ==
    ASSUME FuncsInv, Call
    PROVE  \E n \in Name : \E p \in Bound(funs, n) :
               /\ funs' = Flagged(funs, p, funs.entries[p].flag \union {"FINUSE"})
               /\ active' = Append(active, CallOf(funs.entries[p], p))
               /\ UNCHANGED <<hash, trees>>
<1>1. PICK n \in Name :
          /\ Mytsearch(funs, n) # NoEntry
          /\ funs' = Flagged(funs, Mytsearch(funs, n),
                             funs.entries[Mytsearch(funs, n)].flag \union {"FINUSE"})
          /\ active' = Append(active,
                              CallOf(funs.entries[Mytsearch(funs, n)], Mytsearch(funs, n)))
          /\ UNCHANGED <<hash, trees>>
  BY DEF Call, Flagged, CallOf
<1>2. funs \in FunsType /\ TableInv(funs) /\ hash \in Hashes
  BY DEF FuncsInv, FuncsTypeOK
<1>3. Mytsearch(funs, n) \in Bound(funs, n)
  <2>1. Bound(funs, n) # {}
    BY <1>1, <1>2, Lookup
  <2> QED
    BY <1>2, <2>1, Lookup
<1> QED
  BY <1>1, <1>3

LEMMA ReturnStep ==
    ASSUME FuncsInv, Return
    PROVE  /\ active # <<>> /\ active' = SubSeq(active, 1, Len(active) - 1)
           /\ Ended(funs, funs', active[Len(active)])
           /\ UNCHANGED <<hash, trees>>
<1> DEFINE a == active[Len(active)]
<1>1. /\ active # <<>> /\ active' = SubSeq(active, 1, Len(active) - 1)
      /\ UNCHANGED <<hash, trees>>
  BY DEF Return, Front
<1>2. /\ funs \in FunsType /\ TableInv(funs) /\ EntryForms(funs)
      /\ active \in Seq(CallRecord) /\ CallsInv(funs, active)
  BY DEF FuncsInv, FuncsTypeOK, EntriesInv, EntryForms
<1>3. Len(active) \in DOMAIN active /\ a \in CallRecord
  BY <1>1, <1>2
<1>4. a.entry \in DOMAIN funs.entries /\ "FINUSE" \in funs.entries[a.entry].flag
  BY <1>2, <1>3 DEF CallsInv
<1>5. funs' = EndOf(funs, a)
  <2> DEFINE p == a.entry
             t == Flagged(funs, p, EndFlag(funs, a))
  <2>1. funs' = LET u == [funs EXCEPT !.entries[p].flag = (@ \ {"FINUSE"}) \union a.old_inuse]
                IN  IF "FDELETE" \in u.entries[p].flag /\ "FINUSE" \notin u.entries[p].flag
                    THEN [FreeTree(u, p) EXCEPT !.entries[p].flag = Unused] ELSE u
    BY DEF Return, Last, InUseAfter
  <2>2. t = [funs EXCEPT !.entries[p].flag = (@ \ {"FINUSE"}) \union a.old_inuse]
    BY DEF Flagged, EndFlag
  <2>3. funs' = IF "FDELETE" \in t.entries[p].flag /\ "FINUSE" \notin t.entries[p].flag
                THEN Flagged(FreeTree(t, p), p, Unused) ELSE t
    BY <2>1, <2>2 DEF Flagged
  <2>4. t.entries[p].flag = EndFlag(funs, a)
    <3>1. funs.entries[p] \in EntryRecord /\ a.old_inuse \in SUBSET {"FINUSE"}
      BY <1>2, <1>3, <1>4, EntryTypes DEF CallRecord
    <3>2. EndFlag(funs, a) \in SUBSET {"DEFINED", "ISSET", "ALLOC", "FINUSE", "FDELETE"}
      BY <3>1 DEF EndFlag, EntryRecord
    <3>3. Differs(funs, t, p, WithFlag(funs.entries[p], EndFlag(funs, a)))
      BY <1>2, <1>4, <3>2, FlaggedDiffers
    <3> QED
      BY <3>3 DEF Differs, WithFlag
  <2> HIDE DEF t
  <2> QED
    BY <2>3, <2>4 DEF EndOf, t
<1>6. Ended(funs, EndOf(funs, a), a)
  BY <1>2, <1>3, <1>4, EndResult
<1> QED
  BY <1>1, <1>5, <1>6

LEMMA InvStep == FuncsInv /\ [FuncsNext]_funcsvars => FuncsInv'
<1> SUFFICES ASSUME FuncsInv, [FuncsNext]_funcsvars PROVE FuncsInv'
  OBVIOUS
<1>1. hash \in Hashes /\ InvOf(funs, trees, active)
  BY InvIs
<1>2. CASE Define
  <2>1. PICK n \in Name, unset \in BOOLEAN : \E p :
            /\ trees < MaxTrees
            /\ trees' = IF unset THEN trees ELSE trees + 1
            /\ Redefined(funs, funs', n, p, unset, trees + 1)
            /\ UNCHANGED <<hash, active>>
    BY <1>2, DefineStep
  <2>2. PICK p : Redefined(funs, funs', n, p, unset, trees + 1)
    BY <2>1
  <2>3. InvOf(funs', trees', active)
    BY <1>1, <2>1, <2>2, DefineKeeps
  <2> QED
    BY <1>1, <2>1, <2>3, InvPrimed
<1>3. CASE Call
  <2>1. PICK n \in Name : \E q \in Bound(funs, n) :
            /\ funs' = Flagged(funs, q, funs.entries[q].flag \union {"FINUSE"})
            /\ active' = Append(active, CallOf(funs.entries[q], q))
            /\ UNCHANGED <<hash, trees>>
    BY <1>3, CallStep
  <2>2. PICK p \in Bound(funs, n) :
            /\ funs' = Flagged(funs, p, funs.entries[p].flag \union {"FINUSE"})
            /\ active' = Append(active, CallOf(funs.entries[p], p))
    BY <2>1
  <2>3. InvOf(funs', trees, active')
    BY <1>1, <2>2, CallKeeps
  <2> QED
    BY <1>1, <2>1, <2>3, InvPrimed
<1>4. CASE Return
  <2>1. /\ active # <<>> /\ active' = SubSeq(active, 1, Len(active) - 1)
        /\ Ended(funs, funs', active[Len(active)])
        /\ UNCHANGED <<hash, trees>>
    BY <1>4, ReturnStep
  <2>2. InvOf(funs', trees, active')
    BY <1>1, <2>1, ReturnKeeps
  <2> QED
    BY <1>1, <2>1, <2>2, InvPrimed
<1>5. CASE UNCHANGED funcsvars
  BY <1>1, <1>5, InvPrimed DEF funcsvars
<1> QED
  BY <1>2, <1>3, <1>4, <1>5 DEF FuncsNext

(* define() and comexec() of exec.c, mytsearch(), tenter() and texpand() of *)
(* table.c keep the invariant that the rest follows from.                  *)
THEOREM FuncsSafe == FuncsSpec => []FuncsInv
  BY InvInitially, InvStep, PTL DEF FuncsSpec

LEMMA OwnersAreOne == FuncsInv => TreesOwned
<1> SUFFICES ASSUME FuncsInv PROVE TreesOwned
  OBVIOUS
<1>1. EntriesInv(funs, trees) /\ OwnersInv(funs, trees)
  BY DEF FuncsInv
<1>2. ASSUME NEW b \in (1..trees) \ funs.dead
      PROVE  Cardinality({p \in DOMAIN funs.entries \ funs.freed :
                             /\ "ALLOC" \in funs.entries[p].flag
                             /\ funs.entries[p].tree = b}) = 1
  <2> DEFINE own == {p \in DOMAIN funs.entries \ funs.freed :
                        /\ "ALLOC" \in funs.entries[p].flag
                        /\ funs.entries[p].tree = b}
  <2>1. PICK q \in DOMAIN funs.entries : funs.entries[q].flag # Unused /\ funs.entries[q].tree = b
    BY <1>1 DEF OwnersInv
  <2>2. EntryForm(funs.entries[q]) /\ q \notin funs.freed
    BY <1>1, <2>1 DEF EntriesInv
  <2>3. q \in own
    BY <2>1, <2>2 DEF EntryForm, Live, Deleted
  <2>4. ASSUME NEW p \in own PROVE p = q
    <3>1. p \in DOMAIN funs.entries /\ funs.entries[p].flag # Unused /\ funs.entries[p].tree = b
      BY DEF Unused
    <3> QED
      BY <1>1, <2>1, <3>1 DEF EntriesInv
  <2> HIDE DEF own
  <2>5. own = {q}
    BY <2>3, <2>4
  <2>6. Cardinality(own) = 1
    BY <2>5, FS_Singleton
  <2> QED
    BY <2>6 DEF own
<1> QED
  BY <1>2 DEF TreesOwned

LEMMA SearchesEnd == FuncsInv => SearchEnds
<1> SUFFICES ASSUME FuncsInv, funs.slots # <<>>
             PROVE  /\ Cardinality(Occupied(funs)) + funs.nfree = MostFree(Len(funs.slots))
                    /\ Cardinality(Occupied(funs)) < Len(funs.slots)
  BY DEF SearchEnds, Occupied
<1>1. funs \in FunsType /\ TableInv(funs)
  BY DEF FuncsInv, FuncsTypeOK
<1>2. Cardinality(Occupied(funs)) < Len(funs.slots)
  BY <1>1, FreeSlot
<1> QED
  BY <1>1, <1>2 DEF TableInv

(* A search of the table ends, whatever was entered, deleted and expanded, *)
(* and every body that was not freed has one entry, by which it will be.   *)
THEOREM TablesAreSound == FuncsSpec => []TableSound
<1>1. FuncsInv => TableSound
  BY OwnersAreOne, SearchesEnd DEF TableSound
<1> QED
  BY <1>1, FuncsSafe, PTL

-----------------------------------------------------------------------------
(* The refinement: what FunctionMap sees of the table and of the calls.    *)
BodyOf(f) == [n \in Name |-> IF Bound(f, n) = {} THEN 0
                             ELSE f.entries[CHOOSE p : p \in Bound(f, n)].tree]
CallsOf(c) == [i \in DOMAIN c |-> c[i].tree]
Rebound(m, n, b) == [m EXCEPT ![n] = b]

LEMMA BoundEntry ==
    ASSUME NEW f, NEW b, NEW c, InvOf(f, b, c), hash \in Hashes, NEW n \in Name,
           NEW p \in Bound(f, n)
    PROVE  /\ Bound(f, n) = {p} /\ BodyOf(f)[n] = f.entries[p].tree
           /\ p \in DOMAIN f.entries /\ f.entries[p].name = n
           /\ f.entries[p].flag \in {Live, Live \union {"FINUSE"}}
           /\ f.entries[p].tree \in (1..b) \ f.dead
<1>1. f \in FunsType /\ TableInv(f) /\ EntriesInv(f, b)
  BY DEF InvOf
<1>2. p \in DOMAIN f.entries /\ f.entries[p].name = n /\ "DEFINED" \in f.entries[p].flag
  BY DEF Bound, Named, Defined
<1>3. Bound(f, n) = {p}
  BY <1>1, Lookup
<1>4. BodyOf(f)[n] = f.entries[p].tree
  BY <1>3 DEF BodyOf
<1>5. /\ EntryForm(f.entries[p])
      /\ f.entries[p].flag # Unused => f.entries[p].tree \in (1..b) \ f.dead
  BY <1>1, <1>2 DEF EntriesInv
<1>6. f.entries[p].flag \in {Live, Live \union {"FINUSE"}} /\ f.entries[p].flag # Unused
  BY <1>2, <1>5 DEF EntryForm, Unused, Deleted
<1> QED
  BY <1>2, <1>3, <1>4, <1>5, <1>6

LEMMA BodiesFound ==
    FuncsInv => [n \in Name |-> FoundTree(n)] = BodyOf(funs)
<1> SUFFICES ASSUME FuncsInv PROVE \A n \in Name : FoundTree(n) = BodyOf(funs)[n]
  BY DEF BodyOf
<1>1. funs \in FunsType /\ TableInv(funs) /\ hash \in Hashes /\ InvOf(funs, trees, active)
  BY InvIs DEF FuncsInv, FuncsTypeOK
<1>2. ASSUME NEW n \in Name, Bound(funs, n) = {} PROVE FoundTree(n) = BodyOf(funs)[n]
  <2>1. Mytsearch(funs, n) = NoEntry
    BY <1>1, <1>2, Lookup
  <2> QED
    BY <1>2, <2>1 DEF FoundTree, BodyOf
<1>3. ASSUME NEW n \in Name, NEW p \in Bound(funs, n) PROVE FoundTree(n) = BodyOf(funs)[n]
  <2>1. Mytsearch(funs, n) = p
    BY <1>1, Lookup
  <2>2. /\ BodyOf(funs)[n] = funs.entries[p].tree /\ p \in DOMAIN funs.entries
        /\ "ISSET" \in funs.entries[p].flag
    BY <1>1, BoundEntry DEF Live
  <2>3. p # NoEntry
    BY <1>1, <2>2, Fields DEF NoEntry, FunsType
  <2> QED
    BY <2>1, <2>2, <2>3 DEF FoundTree
<1> QED
  BY <1>2, <1>3

LEMMA BodiesKept ==
    FuncsInv => [i \in DOMAIN active |-> BodyKept(active[i])] = CallsOf(active)
<1> SUFFICES ASSUME FuncsInv, NEW i \in DOMAIN active
             PROVE  BodyKept(active[i]) = active[i].tree
  BY DEF CallsOf
<1>1. EntriesInv(funs, trees) /\ CallsInv(funs, active)
  BY DEF FuncsInv
<1>2. /\ active[i].entry \in DOMAIN funs.entries
      /\ "FINUSE" \in funs.entries[active[i].entry].flag
      /\ active[i].tree = funs.entries[active[i].entry].tree
  BY <1>1 DEF CallsInv
<1>3. active[i].entry \notin funs.freed /\ active[i].tree \notin funs.dead
  BY <1>1, <1>2 DEF EntriesInv, Unused
<1> QED
  BY <1>3 DEF BodyKept

(* define() gives one name its new body, or none.                          *)
LEMMA DefineMaps ==
    ASSUME NEW f, NEW b, NEW c, InvOf(f, b, c), hash \in Hashes, NEW g, NEW n \in Name, NEW p,
           NEW unset \in BOOLEAN, Redefined(f, g, n, p, unset, b + 1)
    PROVE  BodyOf(g) = Rebound(BodyOf(f), n, IF unset THEN 0 ELSE b + 1)
<1>1. /\ \A m \in Name : m # n => Bound(g, m) = Bound(f, m)
      /\ Bound(g, n) = IF unset THEN {} ELSE {p}
      /\ ~unset => g.entries[p].tree = b + 1
      /\ g.entries[p].name = n
      /\ \A q \in DOMAIN g.entries : q # p =>
            g.entries[q] = f.entries[q] \/ IsZapped(f.entries[q], g.entries[q], n)
  BY DEF Redefined
<1>2. BodyOf(g)[n] = IF unset THEN 0 ELSE b + 1
  BY <1>1 DEF BodyOf
<1>3. ASSUME NEW m \in Name, m # n PROVE BodyOf(g)[m] = BodyOf(f)[m]
  <2>1. CASE Bound(f, m) = {}
    BY <1>1, <1>3, <2>1 DEF BodyOf
  <2>2. CASE Bound(f, m) # {}
    <3>1. PICK q : Bound(f, m) = {q}
      BY <2>2, BoundEntry
    <3>2. q \in DOMAIN g.entries /\ g.entries[q].name = m
      BY <1>1, <1>3, <3>1 DEF Bound, Named
    <3>3. f.entries[q].name = m
      BY <3>1 DEF Bound, Named
    <3>4. g.entries[q] = f.entries[q]
      BY <1>1, <1>3, <3>2, <3>3 DEF IsZapped
    <3> QED
      BY <1>1, <1>3, <3>1, <3>4 DEF BodyOf
  <2> QED
    BY <2>1, <2>2
<1> QED
  BY <1>2, <1>3 DEF BodyOf, Rebound

(* A call and its end leave every name its body.                           *)
LEMMA BodiesUnchanged ==
    ASSUME NEW f, NEW g, \A m : Bound(g, m) = Bound(f, m),
           \A q \in DOMAIN f.entries : g.entries[q].tree = f.entries[q].tree
    PROVE  BodyOf(g) = BodyOf(f)
<1>1. ASSUME NEW m \in Name PROVE BodyOf(g)[m] = BodyOf(f)[m]
  <2>1. CASE Bound(f, m) = {}
    BY <2>1 DEF BodyOf
  <2>2. CASE Bound(f, m) # {}
    <3> DEFINE q == CHOOSE p : p \in Bound(f, m)
    <3>1. q \in Bound(f, m)
      BY <2>2
    <3>2. q \in DOMAIN f.entries
      BY <3>1 DEF Bound, Named
    <3> HIDE DEF q
    <3>3. BodyOf(g)[m] = g.entries[q].tree /\ BodyOf(f)[m] = f.entries[q].tree
      BY <2>2 DEF BodyOf, q
    <3> QED
      BY <3>2, <3>3
  <2> QED
    BY <2>1, <2>2
<1> QED
  BY <1>1 DEF BodyOf

LEMMA CallMaps ==
    ASSUME NEW f, NEW b, NEW c, InvOf(f, b, c), hash \in Hashes,
           NEW n \in Name, NEW p \in Bound(f, n)
    PROVE  /\ BodyOf(f)[n] # 0
           /\ BodyOf(Flagged(f, p, f.entries[p].flag \union {"FINUSE"})) = BodyOf(f)
           /\ CallsOf(Append(c, CallOf(f.entries[p], p))) = Append(CallsOf(c), BodyOf(f)[n])
<1> DEFINE x == f.entries[p]
           flag == x.flag \union {"FINUSE"}
           g == Flagged(f, p, flag)
           a == CallOf(x, p)
           d == Append(c, a)
<1>1. /\ BodyOf(f)[n] = x.tree /\ p \in DOMAIN f.entries
      /\ x.flag \in {Live, Live \union {"FINUSE"}} /\ x.tree \in (1..b) \ f.dead
  BY BoundEntry
<1>2. f \in FunsType /\ b \in 0..MaxTrees /\ c \in Seq(CallRecord)
  BY DEF InvOf
<1>3. x.tree # 0
  BY <1>1
<1>4. BodyOf(g) = BodyOf(f)
  <2>1. flag \in SUBSET {"DEFINED", "ISSET", "ALLOC", "FINUSE", "FDELETE"}
    BY <1>1 DEF Live
  <2>2. Differs(f, g, p, WithFlag(x, flag))
    BY <1>1, <1>2, <2>1, FlaggedDiffers
  <2>3. \A m : Bound(g, m) = Bound(f, m)
    BY CallKeeps
  <2> HIDE DEF g
  <2>4. \A q \in DOMAIN f.entries : g.entries[q].tree = f.entries[q].tree
    BY <2>2 DEF Differs, WithFlag
  <2> QED
    BY <2>3, <2>4, BodiesUnchanged
<1>5. CallsOf(d) = Append(CallsOf(c), x.tree)
  <2>1. a.tree = x.tree
    BY DEF CallOf
  <2> HIDE DEF a
  <2>2. /\ Len(c) \in Nat /\ DOMAIN c = 1..Len(c)
        /\ DOMAIN d = 1..Len(c) + 1 /\ d[Len(c) + 1] = a
        /\ \A i \in 1..Len(c) : d[i] = c[i]
    BY <1>2
  <2> HIDE DEF d
  <2>3. CallsOf(c) \in Seq({c[i].tree : i \in DOMAIN c}) /\ Len(CallsOf(c)) = Len(c)
    BY <2>2 DEF CallsOf
  <2>4. DOMAIN CallsOf(d) = 1..Len(c) + 1
    BY <2>2 DEF CallsOf
  <2>5. \A i \in 1..Len(c) + 1 : CallsOf(d)[i] = Append(CallsOf(c), x.tree)[i]
    BY <2>1, <2>2, <2>3 DEF CallsOf
  <2> QED
    BY <2>2, <2>3, <2>4, <2>5 DEF CallsOf
<1> QED
  BY <1>1, <1>3, <1>4, <1>5

LEMMA ReturnMaps ==
    ASSUME NEW f, NEW b, NEW c, InvOf(f, b, c), c # <<>>, NEW g, Ended(f, g, c[Len(c)])
    PROVE  /\ CallsOf(c) # <<>> /\ BodyOf(g) = BodyOf(f)
           /\ CallsOf(SubSeq(c, 1, Len(c) - 1)) = SubSeq(CallsOf(c), 1, Len(CallsOf(c)) - 1)
<1> DEFINE a == c[Len(c)]
<1>1. c \in Seq(CallRecord)
  BY DEF InvOf
<1>2. /\ \A m : Bound(g, m) = Bound(f, m)
      /\ \A q \in DOMAIN f.entries : g.entries[q].tree = f.entries[q].tree
  BY DEF Ended
<1>3. BodyOf(g) = BodyOf(f)
  BY <1>2, BodiesUnchanged
<1>4. /\ Len(c) \in Nat \ {0} /\ DOMAIN c = 1..Len(c)
      /\ CallsOf(c) = [i \in 1..Len(c) |-> c[i].tree]
  BY <1>1, c # <<>> DEF CallsOf
<1>5. Len(CallsOf(c)) = Len(c) /\ CallsOf(c) # <<>>
  BY <1>4
<1>6. CallsOf(SubSeq(c, 1, Len(c) - 1)) = SubSeq(CallsOf(c), 1, Len(c) - 1)
  BY <1>1, <1>4, <1>5 DEF CallsOf
<1> QED
  BY <1>3, <1>5, <1>6

BodiesNow == [n \in Name |-> FoundTree(n)]
CallsNow == [i \in DOMAIN active |-> BodyKept(active[i])]

LEMMA MapNow == FuncsInv => BodiesNow = BodyOf(funs) /\ CallsNow = CallsOf(active)
  BY BodiesFound, BodiesKept DEF BodiesNow, CallsNow

LEMMA MapNext ==
    ASSUME FuncsInv', NEW g, NEW c, funs' = g, active' = c
    PROVE  BodiesNow' = BodyOf(g) /\ CallsNow' = CallsOf(c)
<1>1. FuncsInv' => (BodiesNow = BodyOf(funs) /\ CallsNow = CallsOf(active))'
  BY MapNow, PTL
<1>2. BodiesNow' = BodyOf(funs)' /\ CallsNow' = CallsOf(active)'
  BY <1>1
<1>3. \A n : Bound(funs, n)' = Bound(g, n)
  BY DEF Bound, Named, Defined
<1>4. BodyOf(funs)' = BodyOf(g)
  BY <1>3 DEF BodyOf
<1>5. CallsOf(active)' = CallsOf(c)
  BY DEF CallsOf
<1> QED
  BY <1>2, <1>4, <1>5

LEMMA MapInit == FuncsInit => Map!Init
<1> SUFFICES ASSUME FuncsInit PROVE Map!Init
  OBVIOUS
<1>1. funs.slots = <<>> /\ DOMAIN active = {} /\ active = <<>>
  BY DEF FuncsInit
<1>2. \A n \in Name : FoundTree(n) = 0
  BY <1>1 DEF FoundTree, Mytsearch
<1>3. [i \in DOMAIN active |-> BodyKept(active[i])] = <<>>
  BY <1>1
<1> QED
  BY <1>2, <1>3 DEF Map!Init

(* A step of FunctionMap, in these terms.                                  *)
MapDefine == \E n \in Name, b \in (1..MaxTrees) \union {0} :
                 /\ BodiesNow' = Rebound(BodiesNow, n, b) /\ CallsNow' = CallsNow
MapCall == \E n \in Name : /\ BodiesNow[n] # 0 /\ CallsNow' = Append(CallsNow, BodiesNow[n])
                           /\ BodiesNow' = BodiesNow
MapReturn == /\ CallsNow # <<>> /\ CallsNow' = SubSeq(CallsNow, 1, Len(CallsNow) - 1)
             /\ BodiesNow' = BodiesNow
MapSame == BodiesNow' = BodiesNow /\ CallsNow' = CallsNow

LEMMA MapIs == /\ MapDefine => Map!Define
               /\ MapCall => Map!Call
               /\ MapReturn => Map!Return
               /\ MapSame => UNCHANGED <<[n \in Name |-> FoundTree(n)],
                                         [i \in DOMAIN active |-> BodyKept(active[i])]>>
<1>1. ASSUME MapDefine PROVE Map!Define
  <2>1. PICK n \in Name, b \in (1..MaxTrees) \union {0} :
            BodiesNow' = Rebound(BodiesNow, n, b) /\ CallsNow' = CallsNow
    BY <1>1 DEF MapDefine
  <2>2. Rebound(BodiesNow, n, b)[n] = b
    BY DEF Rebound, BodiesNow
  <2>3. BodiesNow'[n] = b
    BY <2>1, <2>2
  <2>4. BodiesNow' = [BodiesNow EXCEPT ![n] = BodiesNow'[n]]
    BY <2>1, <2>3 DEF Rebound
  <2> QED
    BY <2>1, <2>3, <2>4 DEF Map!Define, BodiesNow, CallsNow
<1>2. MapCall => Map!Call
  BY DEF MapCall, Map!Call, BodiesNow, CallsNow
<1>3. MapReturn => Map!Return
  BY DEF MapReturn, Map!Return, BodiesNow, CallsNow
<1>4. MapSame => UNCHANGED <<[n \in Name |-> FoundTree(n)],
                             [i \in DOMAIN active |-> BodyKept(active[i])]>>
  BY DEF MapSame, BodiesNow, CallsNow
<1> QED
  BY <1>1, <1>2, <1>3, <1>4

LEMMA MapStep ==
    FuncsInv /\ [FuncsNext]_funcsvars => MapDefine \/ MapCall \/ MapReturn \/ MapSame
<1> SUFFICES ASSUME FuncsInv, [FuncsNext]_funcsvars
             PROVE  MapDefine \/ MapCall \/ MapReturn \/ MapSame
  OBVIOUS
<1>1. /\ hash \in Hashes /\ InvOf(funs, trees, active)
      /\ BodiesNow = BodyOf(funs) /\ CallsNow = CallsOf(active)
      /\ trees \in 0..MaxTrees /\ MaxTrees \in Nat
  BY InvIs, MapNow, FuncsAssumption DEF InvOf
<1>2. FuncsInv'
  BY InvStep
<1>3. BodiesNow' = BodyOf(funs') /\ CallsNow' = CallsOf(active')
  BY <1>2, MapNext
<1>4. CASE Define
  <2>1. PICK n \in Name, unset \in BOOLEAN : \E p :
            /\ trees < MaxTrees
            /\ trees' = IF unset THEN trees ELSE trees + 1
            /\ Redefined(funs, funs', n, p, unset, trees + 1)
            /\ UNCHANGED <<hash, active>>
    BY <1>4, DefineStep
  <2>2. PICK p : Redefined(funs, funs', n, p, unset, trees + 1)
    BY <2>1
  <2>3. BodyOf(funs') = Rebound(BodyOf(funs), n, IF unset THEN 0 ELSE trees + 1)
    BY <1>1, <2>2, DefineMaps
  <2>4. (IF unset THEN 0 ELSE trees + 1) \in (1..MaxTrees) \union {0}
    BY <1>1, <2>1
  <2>5. MapDefine
    BY <1>1, <1>3, <2>1, <2>3, <2>4 DEF MapDefine
  <2> QED
    BY <2>5
<1>5. CASE Call
  <2>1. PICK n \in Name : \E q \in Bound(funs, n) :
            /\ funs' = Flagged(funs, q, funs.entries[q].flag \union {"FINUSE"})
            /\ active' = Append(active, CallOf(funs.entries[q], q))
            /\ UNCHANGED <<hash, trees>>
    BY <1>5, CallStep
  <2>2. PICK p \in Bound(funs, n) :
            /\ funs' = Flagged(funs, p, funs.entries[p].flag \union {"FINUSE"})
            /\ active' = Append(active, CallOf(funs.entries[p], p))
    BY <2>1
  <2>3. /\ BodyOf(funs)[n] # 0 /\ BodyOf(funs') = BodyOf(funs)
        /\ CallsOf(active') = Append(CallsOf(active), BodyOf(funs)[n])
    BY <1>1, <2>2, CallMaps
  <2>4. MapCall
    BY <1>1, <1>3, <2>3 DEF MapCall
  <2> QED
    BY <2>4
<1>6. CASE Return
  <2>1. /\ active # <<>> /\ active' = SubSeq(active, 1, Len(active) - 1)
        /\ Ended(funs, funs', active[Len(active)])
        /\ UNCHANGED <<hash, trees>>
    BY <1>6, ReturnStep
  <2>2. /\ CallsOf(active) # <<>> /\ BodyOf(funs') = BodyOf(funs)
        /\ CallsOf(active') = SubSeq(CallsOf(active), 1, Len(CallsOf(active)) - 1)
    BY <1>1, <2>1, ReturnMaps
  <2>3. MapReturn
    BY <1>1, <1>3, <2>2 DEF MapReturn
  <2> QED
    BY <2>3
<1>7. CASE UNCHANGED funcsvars
  BY <1>1, <1>3, <1>7 DEF funcsvars, MapSame
<1> QED
  BY <1>4, <1>5, <1>6, <1>7 DEF FuncsNext

(* The table of functions is the map that a shell promises: a name has the *)
(* body it was last given, however define() and texpand() moved, renamed   *)
(* and deleted entries, and comexec() runs to its end the body it found.   *)
THEOREM FunctionsAreKept == FuncsSpec => FunctionsKept
<1>1. FuncsInit => Map!Init
  BY MapInit
<1>2. FuncsInv /\ [FuncsNext]_funcsvars =>
          [Map!Next]_<<[n \in Name |-> FoundTree(n)],
                       [i \in DOMAIN active |-> BodyKept(active[i])]>>
  BY MapStep, MapIs DEF Map!Next
<1> QED
  BY <1>1, <1>2, FuncsSafe, PTL DEF FuncsSpec, FunctionsKept, Map!Spec
=============================================================================

---------------------------- MODULE MemoryProofs ----------------------------
(***************************************************************************)
(* PriorityBag: the order of the bag's store and its cached total, for     *)
(* every capacity and set of items.  Every operation is an insertion at an *)
(* insert point, a removal that keeps the rest in order, or a monotone     *)
(* decay; each has its lemma, and another on what it does to the sum.      *)
(* The rebuilt tree: every node comes to hold the weight of its range, and *)
(* the descent keeps the target within what is left to search.             *)
(* FocusMemory: one concept per term.  That a term has one concept is not  *)
(* inductive: admission asks the index, so the invariant says that an      *)
(* index that claims to be current misses nothing, and that no index       *)
(* claims a version the bag has not reached.                               *)
(***************************************************************************)
EXTENDS FocusMemory, SequenceLemmas

-----------------------------------------------------------------------------
(* PriorityBag.                                                              *)

\* Descending priority, for any sequence of entries.
Descending(s) == \A i, j \in 1 .. Len(s) : i < j => s[i].priority >= s[j].priority

\* What an operation must keep of the store.
BoundedDescending(s) == s \in Seq(Entry) /\ Len(s) <= Capacity /\ Descending(s)

\* The priority of an entry is a number.
LEMMA EntryPriority == ASSUME NEW e \in Entry PROVE e.priority \in Priorities /\ e.priority \in Int
  BY BagConstants DEF Entry, Priorities

\* The tail may always go.
LEMMA FrontDescends ==
  ASSUME NEW s, BoundedDescending(s), s # <<>>
  PROVE  BoundedDescending(Front(s)) /\ Len(Front(s)) = Len(s) - 1
<1>1. s \in Seq(Entry) /\ Len(s) \in Nat /\ Len(s) > 0 /\ Len(s) <= Capacity /\ Capacity \in Nat
  BY BagConstants DEF BoundedDescending, BagConstants
<1>2. /\ Front(s) \in Seq(Entry) /\ Len(Front(s)) = Len(s) - 1
      /\ \A i \in 1 .. Len(s) - 1 : Front(s)[i] = s[i]
  <2> DEFINE n == Len(s) - 1
  <2>1. n \in Nat /\ \A i \in 1 .. n : s[i] \in Entry
    BY <1>1
  <2>2. Front(s) = SubSeq(s, 1, n)
    BY DEF Front
  <2> HIDE DEF n
  <2>3. /\ SubSeq(s, 1, n) \in Seq(Entry) /\ Len(SubSeq(s, 1, n)) = n
        /\ \A i \in 1 .. n : SubSeq(s, 1, n)[i] = s[i]
    BY <2>1, SubSeqProperties
  <2> QED
    BY <2>2, <2>3 DEF n
<1>3. \A i \in 1 .. Len(Front(s)) : i \in 1 .. Len(s) /\ Front(s)[i] = s[i]
  BY <1>1, <1>2
<1>4. Descending(Front(s))
  BY <1>3 DEF BoundedDescending, Descending
<1> QED
  BY <1>1, <1>2, <1>4 DEF BoundedDescending

\* An insertion after position k moves what follows by one place.
LEMMA InsertedAfter ==
  ASSUME NEW s \in Seq(Entry), NEW e \in Entry, NEW k \in 0 .. Len(s)
  PROVE  LET r == SubSeq(s, 1, k) \o <<e>> \o SubSeq(s, k + 1, Len(s))
         IN  /\ r \in Seq(Entry) /\ Len(r) = Len(s) + 1
             /\ \A i \in 1 .. k : r[i] = s[i]
             /\ r[k + 1] = e
             /\ \A i \in k + 2 .. Len(s) + 1 : r[i] = s[i - 1]
<1> DEFINE before == SubSeq(s, 1, k)
           after  == SubSeq(s, k + 1, Len(s))
           head   == before \o <<e>>
           r      == head \o after
<1>0. Len(s) \in Nat /\ k \in Nat /\ k <= Len(s)
  OBVIOUS
<1>a. before \in Seq(Entry) /\ Len(before) = k /\ \A i \in 1 .. k : before[i] = s[i]
  BY <1>0
<1>b. /\ after \in Seq(Entry) /\ Len(after) = Len(s) - k
      /\ \A i \in 1 .. Len(s) - k : after[i] = s[i + k]
  BY <1>0
<1> HIDE DEF before, after
<1>1. /\ head \in Seq(Entry) /\ Len(head) = k + 1
      /\ \A i \in 1 .. k : head[i] = s[i]
      /\ head[k + 1] = e
  BY <1>0, <1>a
<1> HIDE DEF head
<1>2. /\ r \in Seq(Entry) /\ Len(r) = Len(s) + 1
      /\ \A i \in 1 .. k + 1 : r[i] = head[i]
      /\ \A i \in k + 2 .. Len(s) + 1 : r[i] = after[i - (k + 1)]
  BY <1>0, <1>b, <1>1
<1>3. ASSUME NEW i \in k + 2 .. Len(s) + 1
      PROVE  after[i - (k + 1)] = s[i - 1]
  BY <1>0, <1>b
<1> HIDE DEF r
<1>4. /\ r \in Seq(Entry) /\ Len(r) = Len(s) + 1
      /\ \A i \in 1 .. k : r[i] = s[i]
      /\ r[k + 1] = e
      /\ \A i \in k + 2 .. Len(s) + 1 : r[i] = s[i - 1]
  BY <1>0, <1>1, <1>2, <1>3
<1> QED BY <1>4 DEF r, head, before, after

\* An insertion at an insert point of a store with room keeps it in order.
LEMMA InsertDescends ==
  ASSUME NEW s, BoundedDescending(s), Len(s) < Capacity,
         NEW e \in Entry, NEW k \in 0 .. Len(s), InsertPoint(s, e.priority, k)
  PROVE  BoundedDescending(SubSeq(s, 1, k) \o <<e>> \o SubSeq(s, k + 1, Len(s)))
<1> DEFINE r == SubSeq(s, 1, k) \o <<e>> \o SubSeq(s, k + 1, Len(s))
<1>0. s \in Seq(Entry) /\ Len(s) \in Nat /\ k \in Nat /\ k <= Len(s)
  BY DEF BoundedDescending
<1>1. /\ r \in Seq(Entry) /\ Len(r) = Len(s) + 1
      /\ \A i \in 1 .. k : r[i] = s[i]
      /\ r[k + 1] = e
      /\ \A i \in k + 2 .. Len(s) + 1 : r[i] = s[i - 1]
  BY <1>0, InsertedAfter
<1> HIDE DEF r
<1>2. /\ \A i \in 1 .. Len(s) : s[i].priority \in Int
      /\ e.priority \in Int
  <2>1. \A i \in 1 .. Len(s) : s[i] \in Entry
    BY <1>0
  <2> QED BY <2>1, EntryPriority
<1>3. /\ \A i \in 1 .. k : s[i].priority >= e.priority
      /\ \A i \in k + 1 .. Len(s) : s[i].priority < e.priority
  <2>1. \A i \in 1 .. k : s[i].priority >= s[k].priority
    BY <1>0, <1>2 DEF BoundedDescending, Descending
  <2>2. \A i \in k + 1 .. Len(s) : s[k + 1].priority >= s[i].priority
    BY <1>0, <1>2 DEF BoundedDescending, Descending
  <2>3. ASSUME NEW i \in 1 .. k PROVE s[i].priority >= e.priority
    BY <1>0, <1>2, <2>1 DEF InsertPoint
  <2>4. ASSUME NEW i \in k + 1 .. Len(s) PROVE s[i].priority < e.priority
    BY <1>0, <1>2, <2>2 DEF InsertPoint
  <2> QED BY <2>3, <2>4
<1>4. Descending(r)
  <2> SUFFICES ASSUME NEW i \in 1 .. Len(s) + 1, NEW j \in 1 .. Len(s) + 1, i < j
               PROVE  r[i].priority >= r[j].priority
    BY <1>0, <1>1 DEF Descending
  <2>1. CASE j <= k
    <3>1. /\ i \in 1 .. Len(s) /\ j \in 1 .. Len(s)
          /\ r[i] = s[i] /\ r[j] = s[j]
      BY <1>0, <1>1, <2>1
    <3> QED BY <3>1 DEF BoundedDescending, Descending
  <2>2. CASE j = k + 1
    BY <1>0, <1>1, <1>3, <2>2
  <2>3. CASE j > k + 1 /\ i = k + 1
    <3>1. j - 1 \in k + 1 .. Len(s) /\ r[j] = s[j - 1]
      BY <1>0, <1>1, <2>3
    <3> QED BY <1>0, <1>1, <1>2, <1>3, <2>3, <3>1
  <2>4. CASE j > k + 1 /\ i <= k
    <3>1. j - 1 \in 1 .. Len(s) /\ i < j - 1 /\ r[j] = s[j - 1] /\ r[i] = s[i]
      BY <1>0, <1>1, <2>4
    <3> QED BY <1>0, <3>1 DEF BoundedDescending, Descending
  <2>5. CASE i > k + 1
    <3>1. /\ i - 1 \in 1 .. Len(s) /\ j - 1 \in 1 .. Len(s) /\ i - 1 < j - 1
          /\ r[i] = s[i - 1] /\ r[j] = s[j - 1]
      BY <1>0, <1>1, <2>5
    <3> QED BY <1>0, <3>1 DEF BoundedDescending, Descending
  <2> QED BY <1>0, <2>1, <2>2, <2>3, <2>4, <2>5
<1>5. BoundedDescending(r)
  BY <1>0, <1>1, <1>4, BagConstants DEF BoundedDescending
<1> QED BY <1>5 DEF r

\* An increasing enumeration of some positions has no more of them than the store.
LEMMA KeptIsShort ==
  ASSUME NEW n \in Nat, NEW S \in SUBSET (1 .. n)
  PROVE  Cardinality(S) \in Nat /\ Cardinality(S) <= n
<1>1. IsFiniteSet(1 .. n) /\ Cardinality(1 .. n) = n
  BY FS_Interval
<1> QED BY <1>1, FS_Subset, FS_CardinalityType

\* Dropping entries and keeping the rest in order keeps the store in order.
LEMMA SelectDescends ==
  ASSUME BoundedDescending(list), NEW S \in SUBSET (DOMAIN list), NEW f \in Kept(S)
  PROVE  BoundedDescending(Select(f))
<1>1. Cardinality(S) \in Nat /\ Cardinality(S) <= Len(list)
  BY KeptIsShort DEF BoundedDescending
<1>2. /\ DOMAIN f = 1 .. Cardinality(S)
      /\ \A i \in DOMAIN f : f[i] \in 1 .. Len(list)
      /\ \A i, j \in DOMAIN f : i < j => f[i] < f[j]
  BY DEF Kept, BoundedDescending
<1>3. Select(f) \in Seq(Entry) /\ Len(Select(f)) = Cardinality(S)
  BY <1>1, <1>2 DEF Select, BoundedDescending
<1>4. Descending(Select(f))
  BY <1>1, <1>2, <1>3 DEF Select, Descending, BoundedDescending
<1> QED BY <1>1, <1>3, <1>4, BagConstants DEF BoundedDescending

\* Integer division by a positive number is monotone.
LEMMA DivMonotone ==
  ASSUME NEW x \in Nat, NEW y \in Nat, NEW d \in Nat \ {0}, x >= y
  PROVE  x \div d \in Nat /\ y \div d \in Nat /\ x \div d >= y \div d
<1>1. /\ x \div d \in Int /\ y \div d \in Int
      /\ x = d * (x \div d) + (x % d) /\ x % d \in 0 .. d - 1
      /\ y = d * (y \div d) + (y % d) /\ y % d \in 0 .. d - 1
  OBVIOUS
<1>2. ASSUME NEW a \in Int, NEW b \in Int, NEW r \in 0 .. d - 1, NEW q \in 0 .. d - 1,
             d * a + r >= d * b + q
      PROVE  a >= b
  <2> SUFFICES ASSUME a + 1 <= b PROVE FALSE
    OBVIOUS
  <2>1. d * b >= d * (a + 1)
    BY SMT
  <2>2. d * (a + 1) = d * a + d
    BY SMT
  <2>3. d * a \in Int /\ d * b \in Int
    OBVIOUS
  <2>4. d * b >= d * a + d
    BY <2>1, <2>2
  <2> DEFINE da == d * a
             db == d * b
  <2>5. da \in Int /\ db \in Int /\ db >= da + d /\ da + r >= db + q
    BY <1>2, <2>3, <2>4
  <2> HIDE DEF da, db
  <2> QED BY <2>5
<1>3. x \div d >= y \div d
  BY <1>1, <1>2
<1>4. ASSUME NEW n \in Nat PROVE n \div d >= 0
  OBVIOUS
<1> QED BY <1>1, <1>3, <1>4

\* Decay never raises a priority above the scale and never swaps two priorities.
LEMMA DecayIsMonotone ==
  ASSUME NEW p \in Priorities, NEW q \in Priorities, p >= q, NEW keep \in KeepRates
  PROVE  /\ Decayed(p, keep) \in Priorities /\ Decayed(q, keep) \in Priorities
         /\ Decayed(p, keep) >= Decayed(q, keep)
<1>1. /\ p \in Nat /\ q \in Nat /\ keep \in Nat /\ keep <= MaxPriority
      /\ p <= MaxPriority /\ q <= MaxPriority /\ MaxPriority \in Nat \ {0}
      /\ ForgetRate \in Nat
  BY BagConstants DEF Priorities
<1>2. p * keep \in Nat /\ q * keep \in Nat /\ p * keep >= q * keep
  BY <1>1
<1>3. p * keep <= MaxPriority * MaxPriority /\ MaxPriority * MaxPriority \in Nat
  BY <1>1
<1>4. (MaxPriority * MaxPriority) \div MaxPriority = MaxPriority
  BY <1>1
<1>5. /\ (p * keep) \div MaxPriority \in Nat /\ (q * keep) \div MaxPriority \in Nat
      /\ (p * keep) \div MaxPriority >= (q * keep) \div MaxPriority
  BY <1>1, <1>2, DivMonotone
<1>6. (p * keep) \div MaxPriority <= MaxPriority
  BY <1>1, <1>2, <1>3, <1>4, DivMonotone
<1> DEFINE u == (p * keep) \div MaxPriority
           v == (q * keep) \div MaxPriority
<1>7. u \in Nat /\ v \in Nat /\ v <= u /\ u <= MaxPriority
  BY <1>5, <1>6
<1>8. /\ Decayed(p, keep) = IF u < ForgetRate THEN 0 ELSE u
      /\ Decayed(q, keep) = IF v < ForgetRate THEN 0 ELSE v
  BY DEF Decayed
<1> HIDE DEF u, v
<1> QED BY <1>1, <1>7, <1>8 DEF Priorities

-----------------------------------------------------------------------------

\* The inductive invariant: the part of the state the order depends on.
StoreInv == BoundedDescending(list)

\* An insertion by add, into the store or into what an overflow leaves of it.
LEMMA InsertEntryKeepsOrder ==
  ASSUME NEW s, BoundedDescending(s), Len(s) < Capacity, NEW e \in Entry,
         NEW t, NEW stale, InsertEntry(e, s, t, stale)
  PROVE  StoreInv'
<1>1. PICK k \in 0 .. Len(s) :
        /\ InsertPoint(s, e.priority, k)
        /\ list' = SubSeq(s, 1, k) \o <<e>> \o SubSeq(s, k + 1, Len(s))
  BY DEF InsertEntry
<1>2. BoundedDescending(SubSeq(s, 1, k) \o <<e>> \o SubSeq(s, k + 1, Len(s)))
  BY <1>1, InsertDescends
<1>3. BoundedDescending(list')
  BY <1>1, <1>2
<1> QED BY <1>3 DEF StoreInv, BoundedDescending, Descending

\* Decay keeps the survivors in order.
LEMMA DecayKeepsOrder ==
  ASSUME StoreInv, NEW keep \in KeepRates, Decay(keep)
  PROVE  StoreInv'
<1> DEFINE alive == {k \in DOMAIN list : Decayed(list[k].priority, keep) > 0}
<1>1. PICK f \in Kept(alive) :
        list' = [k \in DOMAIN f |->
                   [list[f[k]] EXCEPT !.priority = Decayed(list[f[k]].priority, keep)]]
  BY DEF Decay
<1>2. alive \in SUBSET DOMAIN list
  OBVIOUS
<1> HIDE DEF alive
<1>3. BoundedDescending(Select(f))
  BY <1>2, SelectDescends DEF StoreInv
<1>4. /\ DOMAIN f = 1 .. Cardinality(alive) /\ Cardinality(alive) \in Nat
      /\ DOMAIN Select(f) = DOMAIN f
      /\ \A k \in DOMAIN f : Select(f)[k] = list[f[k]]
  <2>1. Cardinality(alive) \in Nat
    BY <1>2, KeptIsShort DEF StoreInv, BoundedDescending
  <2> QED BY <2>1 DEF Kept, Select
<1> DEFINE n == Cardinality(alive)
           kept == Select(f)
<1>5. /\ n \in Nat /\ kept \in Seq(Entry) /\ Len(kept) = n /\ n <= Capacity
      /\ \A i, j \in 1 .. n : i < j => kept[i].priority >= kept[j].priority
      /\ \A k \in 1 .. n : kept[k] \in Entry
      /\ list' = [k \in 1 .. n |->
                    [kept[k] EXCEPT !.priority = Decayed(kept[k].priority, keep)]]
  BY <1>1, <1>3, <1>4 DEF BoundedDescending, Descending
<1> HIDE DEF n, kept
<1>6. ASSUME NEW k \in 1 .. n
      PROVE  /\ list'[k] \in Entry
             /\ list'[k].priority = Decayed(kept[k].priority, keep)
  <2>1. kept[k] \in Entry /\ kept[k].priority \in Priorities
    BY <1>5, EntryPriority
  <2>2. Decayed(kept[k].priority, keep) \in Priorities
    BY <2>1, DecayIsMonotone, EntryPriority
  <2>3. list'[k] = [kept[k] EXCEPT !.priority = Decayed(kept[k].priority, keep)]
    BY <1>5
  <2> QED BY <2>1, <2>2, <2>3 DEF Entry
<1>7. list' \in Seq(Entry) /\ Len(list') = n
  <2>1. n \in Nat /\ list' = [k \in 1 .. n |-> list'[k]]
    BY <1>5, Zenon
  <2>2. \A k \in 1 .. n : list'[k] \in Entry
    BY <1>6
  <2>3. ASSUME NEW g, \A k \in 1 .. n : g[k] \in Entry, g = [k \in 1 .. n |-> g[k]]
        PROVE  g \in Seq(Entry) /\ Len(g) = n
    BY <2>1, <2>3
  <2> QED BY <2>1, <2>2, <2>3
<1>8. ASSUME NEW i \in 1 .. n, NEW j \in 1 .. n, i < j
      PROVE  list'[i].priority >= list'[j].priority
  <2>1. /\ kept[i].priority \in Priorities /\ kept[j].priority \in Priorities
        /\ kept[i].priority >= kept[j].priority
    BY <1>5, <1>8, EntryPriority
  <2> QED BY <1>6, <2>1, DecayIsMonotone
<1> QED BY <1>5, <1>7, <1>8, BagConstants DEF StoreInv, BoundedDescending, Descending

\* Every operation, one by one.
LEMMA StoreInvInductive ==
  ASSUME StoreInv, [Next]_bagVars
  PROVE  StoreInv'
<1> USE DEF StoreInv
<1>1. ASSUME NEW i \in Items \ Present, NEW p \in Priorities, Add(i, p)
      PROVE  StoreInv'
  <2> DEFINE e == [item |-> i, priority |-> p]
  <2>1. e \in Entry
    BY DEF Entry
  <2>2. CASE AddToRoom(e)
    BY <2>1, <2>2, InsertEntryKeepsOrder DEF AddToRoom, Room
  <2>3. CASE AddByOverflow(e)
    <3>1. /\ list # <<>> /\ Len(list) = Capacity /\ Capacity \in Nat
      BY <2>3, BagConstants DEF AddByOverflow, Room, BoundedDescending
    <3>2. BoundedDescending(Front(list)) /\ Len(Front(list)) < Capacity
      BY <3>1, FrontDescends
    <3> QED BY <2>1, <2>3, <3>2, InsertEntryKeepsOrder DEF AddByOverflow
  <2> QED BY <1>1, <2>2, <2>3 DEF Add
<1>2. CASE Sample
  BY <1>2 DEF Sample, BoundedDescending, Descending
<1>3. CASE EvictLowest
  BY <1>3, FrontDescends DEF EvictLowest, BoundedDescending, Descending
<1>4. CASE Clear
  BY <1>4, BagConstants DEF Clear, BoundedDescending, Descending
<1>5. CASE Pressure
  BY <1>5 DEF Pressure, BoundedDescending, Descending
<1>6. ASSUME NEW S \in SUBSET DOMAIN list, KeepOnly(S)
      PROVE  StoreInv'
  <2>1. PICK f \in Kept(S) : list' = Select(f)
    BY <1>6 DEF KeepOnly
  <2>2. BoundedDescending(Select(f))
    BY SelectDescends
  <2>3. BoundedDescending(list')
    BY <2>1, <2>2
  <2> QED BY <2>3 DEF BoundedDescending, Descending
<1>7. ASSUME NEW k \in DOMAIN list, DropAt(k)
      PROVE  StoreInv'
  BY <1>6, <1>7 DEF DropAt
<1>8. ASSUME NEW ids \in SUBSET Present, RemoveAll(ids) \/ RemoveMany(ids)
      PROVE  StoreInv'
  BY <1>6, <1>8 DEF RemoveAll, RemoveMany
<1>9. CASE UNCHANGED bagVars
  BY <1>9 DEF bagVars, BoundedDescending, Descending
<1> QED BY <1>1, <1>2, <1>3, <1>4, <1>5, <1>7, <1>8, <1>9, DecayKeepsOrder DEF Next

\* The store is in descending priority order and within capacity after any
\* sequence of adds, removals, evictions, samples and decays.
THEOREM StoreStaysSorted == Spec => [](Sorted /\ Len(list) <= Capacity)
<1>1. Init => StoreInv
  BY BagConstants DEF Init, StoreInv, BoundedDescending, Descending
<1>2. StoreInv /\ [Next]_bagVars => StoreInv'
  BY StoreInvInductive
<1>3. StoreInv => Sorted /\ Len(list) <= Capacity
  BY DEF StoreInv, BoundedDescending, Descending, Sorted
<1> QED BY <1>1, <1>2, <1>3, PTL DEF Spec

-----------------------------------------------------------------------------
(* PriorityBag: the cached total.                                            *)

\* The priorities of a sequence of entries, by position.
PrioritiesOf(s) == [i \in 1 .. Len(s) |-> s[i].priority]

\* They are numbers.
LEMMA PrioritiesAreNumbers ==
  ASSUME NEW s \in Seq(Entry)
  PROVE  /\ PrioritiesOf(s) \in [1 .. Len(s) -> Int]
         /\ \A i \in 1 .. Len(s) : s[i].priority \in Int /\ PrioritiesOf(s)[i] = s[i].priority
         /\ IsFiniteSet(1 .. Len(s)) /\ Len(s) \in Nat /\ DOMAIN s = 1 .. Len(s)
<1>1. \A i \in 1 .. Len(s) : s[i] \in Entry
  OBVIOUS
<1>2. \A i \in 1 .. Len(s) : s[i].priority \in Int
  BY <1>1, EntryPriority
<1>3. Len(s) \in Nat /\ DOMAIN s = 1 .. Len(s)
  OBVIOUS
<1>4. IsFiniteSet(1 .. Len(s))
  BY <1>3, FS_Interval
<1> QED
  BY <1>2, <1>3, <1>4 DEF PrioritiesOf

\* The cached total's definition, a fold from the left, is the sum.
LEMMA TotalIsSum ==
  ASSUME NEW s \in Seq(Entry)
  PROVE  \E g : IsSum(g, PrioritiesOf(s), 1 .. Len(s)) /\ Total(s) = g[1 .. Len(s)]
<1> DEFINE S == 1 .. Len(s)
           F == PrioritiesOf(s)
           C == [t \in (SUBSET S) \ {{}} |-> Max(t)]
           iter == CHOOSE g : g = [t \in SUBSET (DOMAIN s) |->
                     IF t = {} THEN 0 ELSE g[t \ {Max(t)}] + s[Max(t)].priority]
<1>0. Total(s) = iter[DOMAIN s]
  BY DEF Total, FoldLeft, MapThenFoldSet
<1>1. F \in [S -> Int] /\ (\A i \in S : s[i].priority \in Int /\ F[i] = s[i].priority) /\ IsFiniteSet(S)
      /\ DOMAIN s = S /\ Len(s) \in Nat
  BY PrioritiesAreNumbers
<1>2. \A t \in (SUBSET S) \ {{}} : Max(t) \in t
  <2> TAKE t \in (SUBSET S) \ {{}}
  <2>1. t \in SUBSET (0 .. Len(s)) /\ t # {}
    BY <1>1
  <2>2. PICK i \in t : \A j \in t : j <= i
    BY <1>1, <2>1, FirstAndLast
  <2>3. i \in t /\ \A j \in t : i >= j
    BY <2>1, <2>2
  <2> QED
    BY <2>3 DEF Max
<1>3. C \in [(SUBSET S) \ {{}} -> S] /\ \A t \in (SUBSET S) \ {{}} : C[t] \in t /\ C[t] = Max(t)
  BY <1>2
<1> HIDE DEF C, F, S, iter
<1>4. PICK g : Folds(g, F, C, S)
  BY <1>1, <1>3, FoldExists
<1>a. (\A x \in S : F[x] \in Int) /\ \A t \in SUBSET S : t # {} => C[t] \in t
  BY <1>1, <1>3
<1>5. IsSum(g, F, S)
  <2>1. \A t \in SUBSET S : g[t] = IF t = {} THEN 0 ELSE F[C[t]] + g[t \ {C[t]}]
    BY <1>4 DEF Folds
  <2> QED
    BY <1>1, <1>a, <2>1, FoldIsSum
<1>6. g = [t \in SUBSET (DOMAIN s) |-> IF t = {} THEN 0 ELSE g[t \ {Max(t)}] + s[Max(t)].priority]
  <2>1. ASSUME NEW t \in SUBSET S, t # {} PROVE g[t] = g[t \ {Max(t)}] + s[Max(t)].priority
    <3>1. Max(t) \in t
      BY <1>2, <2>1
    <3>2. F[Max(t)] = s[Max(t)].priority
      BY <1>1, <3>1
    <3> QED
      BY <1>5, <3>1, <3>2 DEF IsSum
  <2>2. \A t \in SUBSET S : t = {} => g[t] = 0
    BY <1>4 DEF Folds
  <2>3. \A t \in SUBSET S : g[t] = IF t = {} THEN 0 ELSE g[t \ {Max(t)}] + s[Max(t)].priority
    BY <2>1, <2>2
  <2>4. g = [t \in SUBSET S |-> g[t]]
    BY <1>4 DEF Folds
  <2>5. g = [t \in SUBSET S |-> IF t = {} THEN 0 ELSE g[t \ {Max(t)}] + s[Max(t)].priority]
    BY <2>3, <2>4
  <2> QED
    BY <1>1, <2>5
<1>7. iter = [t \in SUBSET (DOMAIN s) |-> IF t = {} THEN 0 ELSE iter[t \ {Max(t)}] + s[Max(t)].priority]
  BY <1>6 DEF iter
<1>8. \A t \in SUBSET S : iter[t] = IF t = {} THEN 0 ELSE iter[t \ {Max(t)}] + s[Max(t)].priority
  BY <1>1, <1>7
<1>9. \A t \in SUBSET S : iter[t] = IF t = {} THEN 0 ELSE iter[t \ {C[t]}] + F[C[t]]
  <2>1. ASSUME NEW t \in SUBSET S, t # {} PROVE iter[t] = iter[t \ {C[t]}] + F[C[t]]
    <3>1. iter[t] = iter[t \ {Max(t)}] + s[Max(t)].priority
      BY <1>8, <2>1
    <3>2. C[t] = Max(t) /\ C[t] \in t
      BY <1>3, <2>1
    <3>3. F[C[t]] = s[Max(t)].priority
      BY <1>1, <3>2
    <3> QED
      BY <3>1, <3>2, <3>3
  <2>2. \A t \in SUBSET S : t = {} => iter[t] = 0
    BY <1>8
  <2> QED
    BY <2>1, <2>2
<1>10. IsSum(iter, F, S)
  BY <1>1, <1>a, <1>9, FoldIsSum
<1> QED
  BY <1>0, <1>1, <1>10 DEF F, S

\* An empty store weighs nothing.
LEMMA TotalOfNothing == Total(<<>>) = 0
<1> DEFINE s == <<>>
<1>1. s \in Seq(Entry) /\ 1 .. Len(s) = {}
  OBVIOUS
<1> HIDE DEF s
<1>2. PICK g : IsSum(g, PrioritiesOf(s), 1 .. Len(s)) /\ Total(s) = g[1 .. Len(s)]
  BY <1>1, TotalIsSum
<1> QED
  BY <1>1, <1>2 DEF IsSum, s

\* What a part of a store weighs.
WeightOf(s, P) == MapThenSumSet(LAMBDA k : s[k].priority, P)

\* It is a sum.
LEMMA WeightIsSum ==
  ASSUME NEW s \in Seq(Entry), NEW P \in SUBSET (1 .. Len(s))
  PROVE  \E g : IsSum(g, PrioritiesOf(s), P) /\ WeightOf(s, P) = g[P]
<1> DEFINE F == PrioritiesOf(s)
           H == [x \in P |-> F[x]]
           C == [t \in (SUBSET P) \ {{}} |-> CHOOSE x \in t : TRUE]
           iter == CHOOSE g : g = [t \in SUBSET P |->
                     IF t = {} THEN 0
                     ELSE s[CHOOSE x \in t : TRUE].priority + g[t \ {CHOOSE x \in t : TRUE}]]
<1>0. WeightOf(s, P) = iter[P]
  BY DEF WeightOf, MapThenSumSet, MapThenFoldSet
<1>1. IsFiniteSet(P) /\ \A x \in P : F[x] \in Int /\ F[x] = s[x].priority
  BY PrioritiesAreNumbers, FS_Subset
<1>2. C \in [(SUBSET P) \ {{}} -> P] /\ \A t \in (SUBSET P) \ {{}} : C[t] \in t
  OBVIOUS
<1>3. H \in [P -> Int] /\ \A x \in P : H[x] = F[x]
  BY <1>1
<1>4. \A t \in SUBSET P :
        t # {} => C[t] = (CHOOSE x \in t : TRUE) /\ F[C[t]] = s[CHOOSE x \in t : TRUE].priority
                  /\ H[C[t]] = F[C[t]]
  BY <1>1, <1>2
<1> HIDE DEF C, F, H, iter
<1>5. PICK g : Folds(g, H, C, P)
  BY <1>1, <1>2, <1>3, FoldExists
<1>6. iter = [t \in SUBSET P |->
        IF t = {} THEN 0 ELSE s[CHOOSE x \in t : TRUE].priority + iter[t \ {CHOOSE x \in t : TRUE}]]
  <2>1. ASSUME NEW t \in SUBSET P, t # {}
        PROVE  g[t] = s[CHOOSE x \in t : TRUE].priority + g[t \ {CHOOSE x \in t : TRUE}]
    <3>1. g[t] = H[C[t]] + g[t \ {C[t]}]
      BY <1>5, <2>1 DEF Folds
    <3> QED
      BY <1>4, <2>1, <3>1
  <2>2. \A t \in SUBSET P : t = {} => g[t] = 0
    BY <1>5 DEF Folds
  <2>3. \A t \in SUBSET P :
          g[t] = IF t = {} THEN 0 ELSE s[CHOOSE x \in t : TRUE].priority + g[t \ {CHOOSE x \in t : TRUE}]
    BY <2>1, <2>2
  <2>4. g = [t \in SUBSET P |->
          IF t = {} THEN 0 ELSE s[CHOOSE x \in t : TRUE].priority + g[t \ {CHOOSE x \in t : TRUE}]]
    BY <1>5, <2>3 DEF Folds
  <2> QED
    BY <2>4 DEF iter
<1>7. \A t \in SUBSET P : iter[t] = IF t = {} THEN 0 ELSE F[C[t]] + iter[t \ {C[t]}]
  <2>1. \A t \in SUBSET P : iter[t] =
          IF t = {} THEN 0 ELSE s[CHOOSE x \in t : TRUE].priority + iter[t \ {CHOOSE x \in t : TRUE}]
    BY <1>6
  <2>2. ASSUME NEW t \in SUBSET P, t # {} PROVE iter[t] = F[C[t]] + iter[t \ {C[t]}]
    <3>1. C[t] = (CHOOSE x \in t : TRUE) /\ F[C[t]] = s[CHOOSE x \in t : TRUE].priority
      BY <1>4, <2>2
    <3>2. iter[t] = s[CHOOSE x \in t : TRUE].priority + iter[t \ {CHOOSE x \in t : TRUE}]
      BY <2>1, <2>2
    <3> QED
      BY <3>1, <3>2
  <2>3. \A t \in SUBSET P : t = {} => iter[t] = 0
    BY <2>1
  <2> QED
    BY <2>2, <2>3
<1>8. IsSum(iter, F, P)
  BY <1>1, <1>2, <1>7, FoldIsSum
<1> QED
  BY <1>0, <1>8 DEF F

\* f enumerates the positions in U of s, and r holds what is there.
Places(f, r, s, U) ==
  /\ \A i \in 1 .. Len(r) : f[i] \in U /\ s[f[i]].priority = r[i].priority
  /\ \A i, j \in 1 .. Len(r) : f[i] = f[j] => i = j
  /\ \A u \in U : \E i \in 1 .. Len(r) : f[i] = u

\* The total of what is at some positions of s is the sum over them.
LEMMA TotalOfPart ==
  ASSUME NEW s \in Seq(Entry), NEW r \in Seq(Entry), NEW g, IsSum(g, PrioritiesOf(s), 1 .. Len(s)),
         NEW U \in SUBSET (1 .. Len(s)), NEW f, Places(f, r, s, U)
  PROVE  Total(r) = g[U]
<1> DEFINE R == 1 .. Len(r)  F == PrioritiesOf(r)  G == PrioritiesOf(s)
<1>1. PICK h : IsSum(h, F, R) /\ Total(r) = h[R]
  BY TotalIsSum
<1>2. IsFiniteSet(R)
  BY PrioritiesAreNumbers
<1>3. \A x \in R : f[x] \in U /\ G[f[x]] = F[x]
  <2> TAKE x \in R
  <2>1. f[x] \in U /\ f[x] \in 1 .. Len(s) /\ s[f[x]].priority = r[x].priority
    BY DEF Places
  <2>2. G[f[x]] = s[f[x]].priority
    BY <2>1, PrioritiesAreNumbers
  <2>3. F[x] = r[x].priority
    BY PrioritiesAreNumbers
  <2> QED
    BY <2>1, <2>2, <2>3
<1>4. (\A x, y \in R : f[x] = f[y] => x = y) /\ (\A u \in U : \E x \in R : f[x] = u)
  BY DEF Places
<1>5. IsSum(g, G, U)
  BY SumOfPart
<1> HIDE DEF R, F, G
<1>6. Carries(f, F, R, G, U)
  BY <1>3, <1>4 DEF Carries
<1>7. h[R] = g[U]
  BY <1>1, <1>2, <1>5, <1>6, SumsAgree
<1> QED
  BY <1>1, <1>7

\* An insertion adds its entry's priority.
LEMMA TotalOfInsertion ==
  ASSUME NEW s \in Seq(Entry), NEW e \in Entry, NEW k \in 0 .. Len(s)
  PROVE  Total(SubSeq(s, 1, k) \o <<e>> \o SubSeq(s, k + 1, Len(s))) = Total(s) + e.priority
<1> DEFINE r == SubSeq(s, 1, k) \o <<e>> \o SubSeq(s, k + 1, Len(s))
           n == Len(s)
           f == [i \in 1 .. n |-> IF i <= k THEN i ELSE i + 1]
           T == 1 .. n + 1
           U == T \ {k + 1}
<1>1. /\ r \in Seq(Entry) /\ Len(r) = n + 1 /\ \A i \in 1 .. k : r[i] = s[i]
      /\ r[k + 1] = e /\ \A i \in k + 2 .. n + 1 : r[i] = s[i - 1]
  BY InsertedAfter
<1> HIDE DEF r
<1>2. n \in Nat /\ k \in Nat /\ k <= n
  OBVIOUS
<1>3. \A i \in 1 .. n : f[i] \in U /\ r[f[i]].priority = s[i].priority
  <2> TAKE i \in 1 .. n
  <2>1. CASE i <= k
    <3>1. f[i] = i /\ i \in 1 .. k /\ i \in U
      BY <1>2, <2>1
    <3> QED
      BY <1>1, <1>2, <3>1
  <2>2. CASE ~(i <= k)
    <3>1. f[i] = i + 1 /\ i + 1 \in k + 2 .. n + 1 /\ (i + 1) - 1 = i /\ i + 1 \in U
      BY <1>2, <2>2
    <3> QED
      BY <1>1, <1>2, <3>1
  <2> QED
    BY <2>1, <2>2
<1>4. \A i, j \in 1 .. n : f[i] = f[j] => i = j
  BY <1>2
<1>5. ASSUME NEW x \in U PROVE \E i \in 1 .. n : f[i] = x
  <2>1. CASE x <= k
    <3>1. x \in 1 .. n /\ f[x] = x
      BY <1>2, <2>1
    <3> QED
      BY <3>1
  <2>2. CASE ~(x <= k)
    <3>1. x - 1 \in 1 .. n /\ ~(x - 1 <= k) /\ (x - 1) + 1 = x
      BY <1>2, <1>5, <2>2
    <3>2. f[x - 1] = x
      BY <3>1
    <3> QED
      BY <3>1, <3>2
  <2> QED
    BY <2>1, <2>2
<1>6. k + 1 \in T
  BY <1>2
<1>7. PICK g : IsSum(g, PrioritiesOf(r), 1 .. Len(r)) /\ Total(r) = g[1 .. Len(r)]
  BY <1>1, TotalIsSum
<1>8. 1 .. Len(r) = T
  BY <1>1
<1>9. PrioritiesOf(r)[k + 1] = e.priority
  BY <1>1, <1>6, <1>8 DEF PrioritiesOf
<1>10. Total(s) = g[U]
  <2>1. U \in SUBSET (1 .. Len(r))
    BY <1>8
  <2> HIDE DEF f, U
  <2>2. Places(f, s, r, U)
    BY <1>3, <1>4, <1>5 DEF Places
  <2> QED
    BY <1>1, <1>7, <2>1, <2>2, TotalOfPart
<1> HIDE DEF f, T
<1>11. g[T] = g[T \ {k + 1}] + e.priority
  <2>1. T \in SUBSET (1 .. Len(r))
    BY <1>8
  <2> QED
    BY <1>6, <1>7, <1>9, <2>1 DEF IsSum
<1> QED
  BY <1>7, <1>8, <1>10, <1>11 DEF r

\* Without its tail a store weighs that much less.
LEMMA TotalOfFront ==
  ASSUME NEW s \in Seq(Entry), s # <<>>
  PROVE  /\ Front(s) \in Seq(Entry) /\ Len(Front(s)) = Len(s) - 1
         /\ Total(Front(s)) = Total(s) - Last(s).priority
         /\ Total(s) \in Int /\ Last(s).priority \in Int
<1> DEFINE n == Len(s)  r == Front(s)  f == [i \in 1 .. n - 1 |-> i]
<1>1. /\ n \in Nat \ {0} /\ r \in Seq(Entry) /\ Len(r) = n - 1 /\ \A i \in 1 .. n - 1 : r[i] = s[i]
      /\ Last(s) = s[n]
  <2>1. n \in Nat \ {0}
    OBVIOUS
  <2> DEFINE m == n - 1
  <2>2. m \in Nat /\ m <= n /\ Front(s) = SubSeq(s, 1, m)
    BY <2>1 DEF Front
  <2> HIDE DEF m
  <2>3. SubSeq(s, 1, m) \in Seq(Entry) /\ Len(SubSeq(s, 1, m)) = m
        /\ \A i \in 1 .. m : SubSeq(s, 1, m)[i] = s[i]
    BY <2>1, <2>2
  <2> QED
    BY <2>1, <2>2, <2>3 DEF Last, m
<1>2. s[n].priority \in Int /\ PrioritiesOf(s)[n] = s[n].priority /\ n \in 1 .. n
  BY <1>1, PrioritiesAreNumbers
<1>3. PICK g : IsSum(g, PrioritiesOf(s), 1 .. Len(s)) /\ Total(s) = g[1 .. Len(s)]
  BY TotalIsSum
<1> HIDE DEF r
<1> DEFINE U == (1 .. n) \ {n}
<1>4. U \in SUBSET (1 .. Len(s)) /\ U = 1 .. n - 1
  BY <1>1
<1>5. Places(f, r, s, U)
  BY <1>1, <1>4 DEF Places
<1> HIDE DEF f, U
<1>6. Total(r) = g[U]
  BY <1>1, <1>3, <1>4, <1>5, TotalOfPart
<1>7. g[1 .. n] = g[(1 .. n) \ {n}] + s[n].priority /\ g[1 .. n] \in Int /\ g[(1 .. n) \ {n}] \in Int
  <2> DEFINE T == 1 .. n
  <2>1. IsSum(g, PrioritiesOf(s), T) /\ n \in T /\ T \in SUBSET T /\ T \ {n} \in SUBSET T
    BY <1>2, <1>3
  <2> HIDE DEF T
  <2>2. g[T] = g[T \ {n}] + s[n].priority /\ g[T] \in Int /\ g[T \ {n}] \in Int
    BY <1>2, <2>1 DEF IsSum
  <2> QED
    BY <2>2 DEF T
<1>8. Total(r) = g[(1 .. n) \ {n}] /\ Total(s) = g[1 .. n]
  BY <1>3, <1>6 DEF U
<1>9. Total(r) = Total(s) - s[n].priority
  BY <1>2, <1>7, <1>8
<1> QED
  BY <1>1, <1>2, <1>7, <1>8, <1>9 DEF r

\* What is kept weighs what is not dropped does.
LEMMA TotalOfKept ==
  ASSUME BoundedDescending(list), NEW S \in SUBSET (DOMAIN list), NEW f \in Kept(S)
  PROVE  Total(Select(f)) = Total(list) - WeightOf(list, (DOMAIN list) \ S)
<1> DEFINE n == Cardinality(S)  r == Select(f)  P == (DOMAIN list) \ S
<1>1. list \in Seq(Entry) /\ DOMAIN list = 1 .. Len(list) /\ IsFiniteSet(1 .. Len(list))
  BY PrioritiesAreNumbers DEF BoundedDescending
<1>2. IsFiniteSet(S) /\ n \in Nat
  BY <1>1, FS_Subset, FS_CardinalityType
<1>3. f \in [1 .. n -> S] /\ \A i, j \in 1 .. n : i < j => f[i] < f[j]
  BY DEF Kept
<1>4. r \in Seq(Entry) /\ Len(r) = n /\ \A i \in 1 .. n : r[i] = list[f[i]]
  <2>1. BoundedDescending(r)
    BY SelectDescends
  <2>2. r = [k \in 1 .. n |-> list[f[k]]]
    BY <1>3 DEF Select
  <2> HIDE DEF r, n
  <2> QED
    BY <1>2, <2>1, <2>2 DEF BoundedDescending
<1> HIDE DEF r, n
<1>5. \A i, j \in 1 .. n : f[i] = f[j] => i = j
  <2> SUFFICES ASSUME NEW i \in 1 .. n, NEW j \in 1 .. n, f[i] = f[j] PROVE i = j
    OBVIOUS
  <2>1. f[i] \in Int /\ f[j] \in Int
    BY <1>1, <1>3
  <2> QED
    BY <1>2, <1>3, <2>1
<1>6. \A u \in S : \E i \in 1 .. n : f[i] = u
  <2>1. f \in Injection(1 .. n, S)
    BY <1>3, <1>5 DEF Injection, IsInjective
  <2>2. Cardinality(1 .. n) = Cardinality(S)
    BY <1>2, FS_Interval DEF n
  <2>3. f \in Surjection(1 .. n, S)
    BY <1>2, <2>1, <2>2, FS_Injection
  <2> QED
    BY <1>3, <2>3 DEF Surjection
<1>7. PICK g : IsSum(g, PrioritiesOf(list), 1 .. Len(list)) /\ Total(list) = g[1 .. Len(list)]
  BY <1>1, TotalIsSum
<1>8. Total(r) = g[S]
  <2>1. Places(f, r, list, S)
    BY <1>3, <1>4, <1>5, <1>6 DEF Places
  <2> QED
    BY <1>1, <1>4, <1>7, <2>1, TotalOfPart
<1> DEFINE D == 1 .. Len(list)
<1>9. P \in SUBSET D /\ P = D \ S /\ S \in SUBSET D
  BY <1>1
<1>10. PICK h : IsSum(h, PrioritiesOf(list), P) /\ WeightOf(list, P) = h[P]
  BY <1>1, <1>9, WeightIsSum
<1>11. h[P] = g[P]
  <2>1. IsSum(g, PrioritiesOf(list), P)
    BY <1>7, <1>9, SumOfPart
  <2>2. IsFiniteSet(P)
    BY <1>1, <1>9, FS_Subset
  <2> HIDE DEF P
  <2> QED
    BY <1>10, <2>1, <2>2, SumIsOne
<1>12. g[D] = g[S] + g[D \ S]
  <2>1. IsFiniteSet(D) /\ IsSum(g, PrioritiesOf(list), D) /\ \A x \in D : PrioritiesOf(list)[x] \in Int
    BY <1>1, <1>7, PrioritiesAreNumbers
  <2> HIDE DEF D
  <2> QED
    BY <1>9, <2>1, SumSplits
<1>13. g[S] \in Int /\ g[P] \in Int
  BY <1>7, <1>9 DEF IsSum
<1>14. Total(r) = g[S] /\ Total(list) = g[D]
  BY <1>7, <1>8
<1>15. Total(r) = Total(list) - WeightOf(list, P)
  <2> HIDE DEF P, D
  <2> QED
    BY <1>9, <1>10, <1>11, <1>12, <1>13, <1>14
<1> QED
  BY <1>15 DEF r

\* One entry weighs its priority.
LEMMA WeightOfOne ==
  ASSUME NEW s \in Seq(Entry), NEW k \in 1 .. Len(s)
  PROVE  WeightOf(s, {k}) = s[k].priority
<1> DEFINE P == {k}
<1>1. P \in SUBSET (1 .. Len(s)) /\ k \in P /\ P \ {k} = {}
  OBVIOUS
<1> HIDE DEF P
<1>2. PICK g : IsSum(g, PrioritiesOf(s), P) /\ WeightOf(s, P) = g[P]
  BY <1>1, WeightIsSum
<1>3. PrioritiesOf(s)[k] = s[k].priority /\ s[k].priority \in Int
  BY PrioritiesAreNumbers
<1>4. g[P] = g[{}] + PrioritiesOf(s)[k] /\ g[{}] = 0
  <2>1. P \in SUBSET P
    OBVIOUS
  <2> QED
    BY <1>1, <1>2, <2>1 DEF IsSum
<1>5. WeightOf(s, P) = s[k].priority
  BY <1>2, <1>3, <1>4
<1> QED
  BY <1>5 DEF P

\* The inductive invariant: the store and its weight.
WeightInv == StoreInv /\ TotalMatches

\* Every operation that changes the store changes the total by as much.
LEMMA TotalStep ==
  ASSUME WeightInv, [Next]_bagVars
  PROVE  TotalMatches'
<1>0. /\ BoundedDescending(list) /\ list \in Seq(Entry) /\ totalPriority = Total(list)
      /\ DOMAIN list = 1 .. Len(list) /\ Len(list) \in Nat
  BY DEF WeightInv, StoreInv, TotalMatches, BoundedDescending
<1>1. ASSUME NEW s \in Seq(Entry), NEW e \in Entry, NEW t, NEW stale, InsertEntry(e, s, t, stale)
      PROVE  Total(list') = Total(s) + e.priority
  <2>1. PICK k \in 0 .. Len(s) : list' = SubSeq(s, 1, k) \o <<e>> \o SubSeq(s, k + 1, Len(s))
    BY <1>1 DEF InsertEntry
  <2> QED
    BY <2>1, TotalOfInsertion
<1>2. ASSUME NEW i \in Items \ Present, NEW p \in Priorities, Add(i, p) PROVE TotalMatches'
  <2> DEFINE e == [item |-> i, priority |-> p]
  <2>1. e \in Entry
    BY DEF Entry
  <2> HIDE DEF e
  <2>2. CASE AddToRoom(e)
    <3>1. InsertEntry(e, list, tree, treeStale) /\ totalPriority' = totalPriority + e.priority
      BY <2>2 DEF AddToRoom
    <3> QED
      BY <1>0, <1>1, <2>1, <3>1 DEF TotalMatches
  <2>3. CASE AddByOverflow(e)
    <3>1. /\ InsertEntry(e, Front(list), TreeAfterDropLast, FALSE)
          /\ totalPriority' = totalPriority - Last(list).priority + e.priority
          /\ list # <<>>
      BY <1>0, <2>3, BagConstants DEF AddByOverflow, DisplacedTotal, Room
    <3>2. /\ Front(list) \in Seq(Entry) /\ Total(Front(list)) = Total(list) - Last(list).priority
      BY <1>0, <3>1, TotalOfFront
    <3>3. Total(list') = Total(Front(list)) + e.priority
      BY <1>1, <2>1, <3>1, <3>2
    <3> QED
      BY <1>0, <3>1, <3>2, <3>3 DEF TotalMatches
  <2> QED
    BY <1>2, <2>2, <2>3 DEF Add, e
<1>3. CASE Sample
  BY <1>0, <1>3 DEF Sample, TotalMatches
<1>4. CASE EvictLowest
  BY <1>0, <1>4, TotalOfFront DEF EvictLowest, TotalMatches
<1>5. CASE Clear
  BY <1>5, TotalOfNothing DEF Clear, TotalMatches
<1>6. CASE Pressure
  BY <1>0, <1>6 DEF Pressure, TotalMatches
<1>7. ASSUME NEW S \in SUBSET DOMAIN list, KeepOnly(S),
             totalPriority' = totalPriority - WeightOf(list, (DOMAIN list) \ S)
      PROVE  TotalMatches'
  <2>1. PICK f \in Kept(S) : list' = Select(f)
    BY <1>7 DEF KeepOnly
  <2> QED
    BY <1>0, <1>7, <2>1, TotalOfKept DEF TotalMatches
<1>8. ASSUME NEW k \in DOMAIN list, DropAt(k) PROVE TotalMatches'
  <2> DEFINE S == DOMAIN list \ {k}
  <2>1. S \in SUBSET DOMAIN list /\ (DOMAIN list) \ S = {k}
    OBVIOUS
  <2>2. KeepOnly(S) /\ totalPriority' = totalPriority - list[k].priority
    BY <1>8 DEF DropAt
  <2>3. WeightOf(list, {k}) = list[k].priority
    BY <1>0, WeightOfOne
  <2> HIDE DEF S
  <2> QED
    BY <1>7, <2>1, <2>2, <2>3
<1>9. ASSUME NEW ids \in SUBSET Present, RemoveAll(ids) PROVE TotalMatches'
  BY <1>9 DEF RemoveAll, TotalMatches
<1>10. ASSUME NEW ids \in SUBSET Present, RemoveMany(ids) PROVE TotalMatches'
  <2> DEFINE S == DOMAIN list \ Positions(ids)
  <2>1. S \in SUBSET DOMAIN list /\ (DOMAIN list) \ S = Positions(ids)
    BY DEF Positions
  <2>2. KeepOnly(S)
    BY <1>10 DEF RemoveMany
  <2>3. totalPriority' = totalPriority - WeightOf(list, Positions(ids))
    BY <1>10 DEF RemoveMany, WeightOf
  <2> HIDE DEF S
  <2> QED
    BY <1>7, <2>1, <2>2, <2>3
<1>11. ASSUME NEW keep \in KeepRates, Decay(keep) PROVE TotalMatches'
  BY <1>11 DEF Decay, TotalMatches
<1>12. CASE UNCHANGED bagVars
  BY <1>0, <1>12 DEF bagVars, TotalMatches
<1> QED
  BY <1>2, <1>3, <1>4, <1>5, <1>6, <1>8, <1>9, <1>10, <1>11, <1>12 DEF Next

\* The cached total is the sum of the priorities in the store after any sequence
\* of operations, though adds, overflows, removals and evictions only add and
\* subtract what they moved (Bag.ts, totalPriority).
THEOREM TotalIsKept == Spec => []TotalMatches
<1>1. Init => WeightInv
  <2> SUFFICES ASSUME Init PROVE WeightInv
    OBVIOUS
  <2>1. StoreInv
    BY BagConstants DEF Init, StoreInv, BoundedDescending, Descending
  <2>2. Total(<<>>) = 0
    BY TotalOfNothing
  <2> QED
    BY <2>1, <2>2 DEF Init, WeightInv, TotalMatches
<1>2. WeightInv /\ [Next]_bagVars => WeightInv'
  BY StoreInvInductive, TotalStep DEF WeightInv
<1>3. WeightInv => TotalMatches
  BY DEF WeightInv
<1> QED BY <1>1, <1>2, <1>3, PTL DEF Spec

-----------------------------------------------------------------------------
(* PriorityBag: the rebuilt tree.  What the low bit of an index is takes the *)
(* arithmetic of the powers of two; the rest only adds and subtracts sums of *)
(* the first entries.                                                        *)

\* i is a multiple of p.
Aligned(i, p) == \E m \in Int : i = m * p

\* Multiples of p and of its double.
LEMMA AlignedArithmetic ==
  ASSUME NEW p \in Nat, p > 0, NEW i \in Int, NEW j \in Int
  PROVE  /\ Aligned(i, p) /\ Aligned(j, p) => Aligned(i + j, p) /\ Aligned(i - j, p)
         /\ Aligned(i, 2 * p) => Aligned(i, p)
         /\ Aligned(i, p) => Aligned(i, 2 * p) \/ Aligned(i - p, 2 * p)
         /\ ~Aligned(p, 2 * p) /\ Aligned(p, p)
         /\ Aligned(i, p) /\ i > 0 => i >= p
<1>1. ASSUME NEW m \in Int, NEW n \in Int, i = m * p, j = n * p
      PROVE  i + j = (m + n) * p /\ i - j = (m - n) * p
  <2>1. (m + n) * p = m * p + n * p /\ (m - n) * p = m * p - n * p
    BY SMT
  <2> QED
    BY <1>1, <2>1
<1>2. ASSUME NEW m \in Int, i = m * (2 * p) PROVE i = (2 * m) * p
  BY <1>2, SMT
<1>3. ASSUME NEW m \in Int, i = m * p PROVE Aligned(i, 2 * p) \/ Aligned(i - p, 2 * p)
  <2>1. PICK n \in Int : m = 2 * n \/ m = 2 * n + 1
    <3>1. m = 2 * (m \div 2) \/ m = 2 * (m \div 2) + 1
      BY SMT
    <3> QED
      BY <3>1
  <2>2. CASE m = 2 * n
    <3>1. (2 * n) * p = n * (2 * p)
      BY SMT
    <3> QED
      BY <1>3, <2>2, <3>1 DEF Aligned
  <2>3. CASE m = 2 * n + 1
    <3>1. (2 * n + 1) * p - p = n * (2 * p)
      BY SMT
    <3> QED
      BY <1>3, <2>3, <3>1 DEF Aligned
  <2> QED
    BY <2>1, <2>2, <2>3
<1>4. ASSUME NEW m \in Int, p = m * (2 * p) PROVE FALSE
  <2>1. CASE m <= 0
    <3>1. m * (2 * p) <= 0
      BY <2>1, SMT
    <3> QED
      BY <1>4, <3>1
  <2>2. CASE m >= 1
    <3>1. m * (2 * p) >= 2 * p
      BY <2>2, SMT
    <3> QED
      BY <1>4, <3>1
  <2> QED
    BY <2>1, <2>2
<1>5. ASSUME NEW m \in Int, i = m * p, i > 0 PROVE i >= p
  <2>1. CASE m <= 0
    <3>1. m * p <= 0
      BY <2>1, SMT
    <3> QED
      BY <1>5, <3>1
  <2>2. CASE m >= 1
    <3>1. m * p >= p
      BY <2>2, SMT
    <3> QED
      BY <1>5, <3>1
  <2> QED
    BY <2>1, <2>2
<1>6. p = 1 * p
  OBVIOUS
<1>7. Aligned(i, p) /\ Aligned(j, p) => Aligned(i + j, p) /\ Aligned(i - j, p)
  <2> SUFFICES ASSUME NEW m \in Int, NEW n \in Int, i = m * p, j = n * p
               PROVE  Aligned(i + j, p) /\ Aligned(i - j, p)
    BY DEF Aligned
  <2>1. m + n \in Int /\ m - n \in Int
    OBVIOUS
  <2> QED
    BY <1>1, <2>1 DEF Aligned
<1>8. Aligned(i, 2 * p) => Aligned(i, p)
  <2> SUFFICES ASSUME NEW m \in Int, i = m * (2 * p) PROVE Aligned(i, p)
    BY DEF Aligned
  <2>1. 2 * m \in Int
    OBVIOUS
  <2> QED
    BY <1>2, <2>1 DEF Aligned
<1> QED
  BY <1>3, <1>4, <1>5, <1>6, <1>7, <1>8 DEF Aligned

\* A larger power is at least the double of a smaller one, and a multiple of it.
LEMMA PowersOrdered ==
  ASSUME NEW a \in Nat, NEW b \in Nat, a < b
  PROVE  2 * 2 ^ a <= 2 ^ b /\ Aligned(2 ^ b, 2 * 2 ^ a)
<1> DEFINE p == 2 ^ (a + 1)
           T == {d \in Nat : 2 ^ (a + 1 + d) >= p /\ Aligned(2 ^ (a + 1 + d), p)}
<1>1. p \in Nat /\ p > 0 /\ p = 2 * 2 ^ a
  <2>1. a + 1 \in Nat
    OBVIOUS
  <2> QED
    BY <2>1, PowersDouble
<1>2. 0 \in T
  <2>1. a + 1 + 0 = a + 1
    OBVIOUS
  <2> HIDE DEF p
  <2>2. Aligned(p, p)
    BY <1>1, AlignedArithmetic
  <2> QED
    BY <1>1, <2>1, <2>2 DEF p
<1>3. ASSUME NEW d \in Nat, d \in T PROVE d + 1 \in T
  <2> DEFINE q == 2 ^ (a + 1 + d)
  <2>1. a + 1 + d \in Nat /\ a + 1 + (d + 1) = (a + 1 + d) + 1
    OBVIOUS
  <2>2. q \in Nat /\ 2 ^ (a + 1 + (d + 1)) = 2 * q
    BY <2>1, PowersDouble
  <2>3. q >= p /\ Aligned(q, p)
    BY <1>3
  <2> HIDE DEF p, q
  <2>4. Aligned(q + q, p) /\ q + q = 2 * q /\ 2 * q >= p
    BY <1>1, <2>2, <2>3, AlignedArithmetic
  <2> QED
    BY <2>2, <2>4
<1> HIDE DEF T
<1>4. Nat \subseteq T
  BY <1>2, <1>3, NatInSets
<1>5. b - a - 1 \in T
  BY <1>4
<1>6. a + 1 + (b - a - 1) = b
  OBVIOUS
<1> QED
  BY <1>1, <1>5, <1>6 DEF T

\* Divisible is aligned.
LEMMA DivisibleIsAligned ==
  ASSUME NEW i \in Nat, NEW p \in Nat, p > 0
  PROVE  i % p = 0 <=> Aligned(i, p)
<1>1. i = p * (i \div p) + (i % p) /\ i % p \in Nat /\ i % p < p /\ i \div p \in Int
  BY SMT
<1>2. i % p = 0 => Aligned(i, p)
  <2> SUFFICES ASSUME i % p = 0 PROVE i = (i \div p) * p
    BY <1>1 DEF Aligned
  <2>1. p * (i \div p) = (i \div p) * p
    BY <1>1
  <2> QED
    BY <1>1, <2>1
<1>3. ASSUME NEW m \in Int, i = m * p PROVE i % p = 0
  <2> DEFINE q == i \div p  r == i % p
  <2>1. q \in Int /\ r \in Nat /\ r < p /\ m * p = p * q + r
    BY <1>1, <1>3
  <2> HIDE DEF q, r
  <2>2. r = (m - q) * p
    <3>1. (m - q) * p = m * p - p * q
      BY <2>1, SMT
    <3> QED
      BY <2>1, <3>1
  <2>3. Aligned(r, p)
    <3>1. m - q \in Int
      BY <2>1
    <3> QED
      BY <2>2, <3>1 DEF Aligned
  <2>4. r > 0 => r >= p
    BY <2>1, <2>3, AlignedArithmetic
  <2> QED
    BY <2>1, <2>4 DEF r
<1> QED
  BY <1>2, <1>3 DEF Aligned
\* Sums and differences of multiples are multiples.
LEMMA AlignedSums ==
  ASSUME NEW p \in Nat, p > 0, NEW i \in Int, NEW j \in Int, Aligned(i, p), Aligned(j, p)
  PROVE  Aligned(i + j, p) /\ Aligned(i - j, p)
  BY AlignedArithmetic

\* A multiple of a multiple is one.
LEMMA AlignedThrough ==
  ASSUME NEW i \in Int, NEW q \in Nat, NEW p \in Nat, Aligned(i, q), Aligned(q, p)
  PROVE  Aligned(i, p)
<1>1. PICK m \in Int, n \in Int : i = m * q /\ q = n * p
  BY DEF Aligned
<1>2. m * (n * p) = (m * n) * p /\ m * n \in Int
  BY SMT
<1> QED
  BY <1>1, <1>2 DEF Aligned

\* 2 ^ b is the lowest bit of i.
Lowest(b, i) == Aligned(i - 2 ^ b, 2 * 2 ^ b)

\* Only one power is.
LEMMA LowestIsUnique ==
  ASSUME NEW i \in Int, NEW a \in Nat, NEW b \in Nat, Lowest(a, i), Lowest(b, i)
  PROVE  a = b
<1>1. ASSUME NEW c \in Nat, NEW d \in Nat, Lowest(c, i), Lowest(d, i), c < d PROVE FALSE
  <2> DEFINE p == 2 ^ c  q == 2 ^ d
  <2>1. p \in Nat /\ p > 0 /\ q \in Nat /\ q > 0 /\ Aligned(q, 2 * p)
    BY <1>1, PowersDouble, PowersOrdered
  <2>2. Aligned(i - p, 2 * p) /\ Aligned(i - q, 2 * q)
    BY <1>1 DEF Lowest
  <2> HIDE DEF p, q
  <2>3. Aligned(i - q, 2 * p)
    <3>1. Aligned(i - q, q)
      BY <2>1, <2>2, AlignedArithmetic
    <3>2. i - q \in Int /\ 2 * p \in Nat
      BY <2>1
    <3> QED
      BY <2>1, <3>1, <3>2, AlignedThrough
  <2>4. 2 * p \in Nat /\ 2 * p > 0 /\ i - q \in Int /\ i - p \in Int /\ (i - q) + q = i /\ i - (i - p) = p
    BY <2>1
  <2>5. Aligned((i - q) + q, 2 * p)
    BY <2>1, <2>3, <2>4, AlignedArithmetic
  <2>6. Aligned(i - (i - p), 2 * p)
    BY <2>2, <2>4, <2>5, AlignedArithmetic
  <2> QED
    BY <2>1, <2>4, <2>6, AlignedArithmetic
<1> QED
  BY <1>1

\* The power the code's i & -i is.
LEMMA LowBitIsLowest ==
  ASSUME NEW i \in 1 .. Capacity
  PROVE  \E b \in Nat : b <= Capacity /\ Lowest(b, i) /\ LowBit(i) = 2 ^ b
<1>1. i \in Nat /\ i > 0 /\ Capacity \in Nat
  BY BagConstants
<1>2. \A b \in Nat : 2 ^ b \in Nat /\ 2 ^ b > 0
  BY PowersDouble
<1> DEFINE B == {b \in 0 .. Capacity : i % 2 ^ b = 0}
<1>3. 0 \in B
  <2>1. i % 1 = 0
    BY <1>1, SMT
  <2> QED
    BY <1>1, <2>1, PowersDouble
<1>4. PICK b \in B : \A a \in B : a <= b
  BY <1>1, <1>3, FirstAndLast
<1>5. b \in Nat /\ b <= Capacity /\ Aligned(i, 2 ^ b)
  BY <1>1, <1>2, <1>4, DivisibleIsAligned
<1>6. ~Aligned(i, 2 * 2 ^ b)
  <2> SUFFICES ASSUME Aligned(i, 2 * 2 ^ b) PROVE FALSE
    OBVIOUS
  <2> DEFINE p == 2 ^ (b + 1)
  <2>1. b + 1 \in Nat /\ p \in Nat /\ p > b + 1 /\ p = 2 * 2 ^ b
    BY <1>5, PowersDouble
  <2>2. Aligned(i, p)
    BY <2>1
  <2>3. i >= p
    <3> HIDE DEF p
    <3> QED
      BY <1>1, <2>1, <2>2, AlignedArithmetic
  <2>4. i % p = 0
    <3> HIDE DEF p
    <3>1. p > 0
      BY <2>1
    <3> QED
      BY <1>1, <2>1, <2>2, <3>1, DivisibleIsAligned
  <2>5. b + 1 \in 0 .. Capacity
    BY <1>1, <2>1, <2>3
  <2>6. b + 1 \in B
    BY <2>4, <2>5
  <2> HIDE DEF B
  <2> QED
    BY <1>4, <1>5, <2>6
<1>7. Lowest(b, i)
  <2> DEFINE p == 2 ^ b
  <2>1. p \in Nat /\ p > 0 /\ Aligned(i, p) /\ ~Aligned(i, 2 * p)
    BY <1>2, <1>5, <1>6
  <2> HIDE DEF p
  <2>2. Aligned(i - p, 2 * p)
    BY <1>1, <2>1, AlignedArithmetic
  <2> QED
    BY <2>2 DEF Lowest, p
<1>8. LowBit(i) = 2 ^ b
  <2> DEFINE M == {p \in PowersOfTwo : i % p = 0}
  <2>1. 2 ^ b \in M
    BY <1>1, <1>4 DEF PowersOfTwo
  <2>2. ASSUME NEW q \in M PROVE q \in Int /\ 2 ^ b >= q
    <3>1. PICK a \in B : q = 2 ^ a
      BY DEF PowersOfTwo
    <3>2. a \in Nat /\ a <= b
      BY <1>4, <1>1
    <3>3. a < b => 2 * 2 ^ a <= 2 ^ b
      BY <1>5, <3>2, PowersOrdered
    <3>4. 2 ^ a \in Nat /\ 2 ^ b \in Nat
      BY <1>2, <1>5, <3>2
    <3>5. a = b => 2 ^ a = 2 ^ b
      OBVIOUS
    <3> QED
      BY <1>5, <3>1, <3>2, <3>3, <3>4, <3>5
  <2>3. LowBit(i) = Max(M)
    BY DEF LowBit
  <2> HIDE DEF M
  <2>4. Max(M) \in M /\ \A q \in M : Max(M) >= q
    <3>1. \E x \in M : \A q \in M : x >= q
      BY <2>1, <2>2
    <3> QED
      BY <3>1, Zenon DEF Max
  <2>5. Max(M) \in Int /\ Max(M) >= 2 ^ b /\ 2 ^ b >= Max(M) /\ 2 ^ b \in Int
    BY <2>1, <2>2, <2>4
  <2> QED
    BY <2>3, <2>5
<1> QED
  BY <1>5, <1>7, <1>8

\* The exponent of the lowest bit.
Rank(i) == CHOOSE b \in Nat : Lowest(b, i)

\* It is the only exponent that will do, and the bit is within the number.
LEMMA RankIsLowest ==
  ASSUME NEW i \in 1 .. Capacity
  PROVE  /\ Rank(i) \in Nat /\ LowBit(i) = 2 ^ Rank(i) /\ LowBit(i) \in Nat
         /\ 1 <= LowBit(i) /\ LowBit(i) <= i
         /\ Lowest(Rank(i), i)
         /\ \A b \in Nat : Lowest(b, i) => b = Rank(i)
<1>1. i \in Int /\ i > 0 /\ \A a, b \in Nat : Lowest(a, i) /\ Lowest(b, i) => a = b
  BY BagConstants, LowestIsUnique
<1>2. PICK b \in Nat : Lowest(b, i) /\ LowBit(i) = 2 ^ b
  BY LowBitIsLowest
<1>3. Rank(i) \in Nat /\ Lowest(Rank(i), i)
  BY <1>2, Zenon DEF Rank
<1>4. Rank(i) = b
  BY <1>1, <1>2, <1>3
<1> DEFINE p == 2 ^ b
<1>5. p \in Nat /\ p > 0 /\ Aligned(i - p, 2 * p)
  BY <1>2, PowersDouble DEF Lowest
<1> HIDE DEF p
<1>6. p <= i
  <2>1. i - p \in Int /\ (i - p) + p = i
    BY <1>1, <1>5
  <2>2. Aligned((i - p) + p, p)
    BY <1>5, <2>1, AlignedArithmetic
  <2> QED
    BY <1>1, <1>5, <2>1, <2>2, AlignedArithmetic
<1> QED
  BY <1>1, <1>2, <1>3, <1>4, <1>5, <1>6 DEF p

\* Below its lowest bit a number has children: a power less is their lowest bit.
LEMMA ChildRank ==
  ASSUME NEW j \in 1 .. Capacity, NEW d \in Nat, d < Rank(j)
  PROVE  /\ 2 ^ d \in Nat /\ 1 <= 2 ^ d /\ 2 * 2 ^ d <= LowBit(j)
         /\ j - 2 ^ d \in 1 .. Capacity /\ Rank(j - 2 ^ d) = d
<1> DEFINE p == 2 ^ d  q == LowBit(j)
<1>1. /\ q = 2 ^ Rank(j) /\ q \in Nat /\ q >= 1 /\ q <= j /\ Rank(j) \in Nat
      /\ Aligned(j - q, 2 * q) /\ j \in Nat /\ Capacity \in Nat /\ j <= Capacity
  BY RankIsLowest, BagConstants DEF Lowest
<1>2. p \in Nat /\ p > 0 /\ 2 * p <= q /\ Aligned(q, 2 * p)
  BY <1>1, PowersDouble, PowersOrdered
<1>3. Lowest(d, j - p)
  <2> HIDE DEF p, q
  <2>1. j - q \in Int /\ (j - q) + q = j /\ j - 2 * p \in Int /\ (j - p) - p = j - 2 * p
    BY <1>1, <1>2
  <2>2. 2 * p \in Nat /\ 2 * p > 0
    BY <1>2
  <2>3. Aligned(j - q, 2 * p)
    <3>1. Aligned(j - q, q)
      BY <1>1, <2>1, AlignedArithmetic
    <3> QED
      BY <1>1, <1>2, <2>1, <2>2, <3>1, AlignedThrough
  <2>4. Aligned((j - q) + q, 2 * p)
    BY <1>1, <1>2, <2>1, <2>2, <2>3, AlignedArithmetic
  <2>5. Aligned(j, 2 * p) /\ Aligned(2 * p, 2 * p)
    BY <2>1, <2>2, <2>4, AlignedArithmetic
  <2>6. Aligned(j - 2 * p, 2 * p)
    BY <1>1, <2>2, <2>5, AlignedSums
  <2>7. Aligned((j - p) - p, 2 * p)
    BY <2>1, <2>6
  <2> QED
    BY <2>7 DEF Lowest, p
<1>4. j - p \in 1 .. Capacity
  BY <1>1, <1>2
<1>5. Rank(j - p) = d
  BY <1>3, <1>4, RankIsLowest
<1> QED
  BY <1>2, <1>4, <1>5

\* The parent's lowest bit is a larger one.
LEMMA ParentRank ==
  ASSUME NEW i \in 1 .. Capacity, i + LowBit(i) <= Capacity
  PROVE  i + LowBit(i) \in 1 .. Capacity /\ Rank(i) < Rank(i + LowBit(i))
<1> DEFINE p == LowBit(i)  j == i + p  r == Rank(i)  c == Rank(j)  q == 2 ^ c
<1>1. /\ p = 2 ^ r /\ p \in Nat /\ p >= 1 /\ r \in Nat /\ Aligned(i - p, 2 * p) /\ i \in Nat /\ i > 0
  BY RankIsLowest, BagConstants DEF Lowest
<1>2. j \in 1 .. Capacity
  BY <1>1, BagConstants
<1>3. c \in Nat /\ q \in Nat /\ q >= 1 /\ Aligned(j - q, 2 * q)
  BY <1>2, RankIsLowest DEF Lowest
<1>4. Aligned(j, 2 * p)
  <2> HIDE DEF p, c
  <2>1. 2 * p \in Nat /\ 2 * p > 0 /\ i - p \in Int /\ (i - p) + 2 * p = j
    BY <1>1
  <2> HIDE DEF j
  <2>2. Aligned(2 * p, 2 * p)
    BY <2>1, AlignedArithmetic
  <2>3. Aligned((i - p) + 2 * p, 2 * p)
    BY <1>1, <2>1, <2>2, AlignedArithmetic
  <2> QED
    BY <2>1, <2>3
<1>5. ASSUME c <= r PROVE FALSE
  <2>1. Aligned(2 * p, 2 * q)
    <3>1. c < r + 1 /\ r + 1 \in Nat /\ 2 ^ (r + 1) = 2 * p
      BY <1>1, <1>3, <1>5, PowersDouble
    <3> QED
      BY <1>3, <3>1, PowersOrdered
  <2> HIDE DEF p, q, r, c, j
  <2>2. 2 * p \in Nat /\ 2 * q \in Nat /\ j \in Int
    BY <1>1, <1>2, <1>3
  <2>4. Aligned(j, 2 * q)
    BY <1>4, <2>1, <2>2, AlignedThrough
  <2>5. j \in Int /\ j - q \in Int /\ 2 * q \in Nat /\ 2 * q > 0 /\ j - (j - q) = q
    BY <1>2, <1>3
  <2>6. Aligned(j - (j - q), 2 * q)
    BY <1>3, <2>4, <2>5, AlignedArithmetic
  <2> QED
    BY <1>3, <2>5, <2>6, AlignedArithmetic
<1> QED
  BY <1>1, <1>2, <1>3, <1>5

\* P holds the sums of the first values of L.
SumsTo(P, L, n) ==
  P \in [0 .. n -> Int] /\ L \in [1 .. n -> Int] /\ \A j \in 1 .. n : P[j] = P[j - 1] + L[j]

\* Node j holds its own value and those of its children, down to a power: the
\* children still to come are beyond k.
Gathered(t, k, j, a, P, L) ==
  /\ a \in Nat /\ a <= Rank(j) /\ (a = Rank(j) \/ j - 2 ^ a <= k)
  /\ \A d \in Nat : d < a => k < j - 2 ^ d
  /\ t[j] = L[j] + P[j - 2 ^ a] - P[j - LowBit(j)]

\* What every node holds once the loop has done the first k.
LiftedUpTo(t, k, n, P, L) ==
  t \in [Nodes -> Int] /\ \A j \in 1 .. n : \E a \in Nat : Gathered(t, k, j, a, P, L)

\* A node that has all its children holds the sum of its range.
LEMMA AllGathered ==
  ASSUME NEW n \in Nat, n <= Capacity, NEW P, NEW L, SumsTo(P, L, n), NEW t,
         NEW j \in 1 .. n, NEW k \in Int, j - 1 <= k, NEW a \in Nat, Gathered(t, k, j, a, P, L)
  PROVE  a = 0 /\ t[j] = P[j] - P[j - LowBit(j)]
<1>1. 2 ^ 0 = 1 /\ 0 \in Nat /\ j \in Int
  BY PowersDouble
<1>2. a = 0
  <2>1. 0 < a => k < j - 1
    BY <1>1 DEF Gathered
  <2> QED
    BY <1>1, <2>1
<1>3. t[j] = L[j] + P[j - 1] - P[j - LowBit(j)]
  BY <1>1, <1>2 DEF Gathered
<1>4. j \in 1 .. Capacity
  BY BagConstants
<1>5. LowBit(j) \in Nat /\ 1 <= LowBit(j) /\ LowBit(j) <= j
  BY <1>4, RankIsLowest
<1>6. j - 1 \in 0 .. n /\ j - LowBit(j) \in 0 .. n
  BY <1>5
<1>7. L[j] \in Int /\ P[j - 1] \in Int /\ P[j] = P[j - 1] + L[j] /\ P[j - LowBit(j)] \in Int
  BY <1>6 DEF SumsTo
<1> QED
  BY <1>2, <1>3, <1>7

\* The loop's step.
LEMMA LiftStep ==
  ASSUME NEW n \in Nat, n <= Capacity, NEW P, NEW L, SumsTo(P, L, n),
         NEW t, NEW i \in 1 .. n, LiftedUpTo(t, i - 1, n, P, L)
  PROVE  LiftedUpTo(Lifted(t, i, n), i, n, P, L)
<1> DEFINE p == LowBit(i)  r == Rank(i)  u == Lifted(t, i, n)
<1>1. i \in 1 .. Capacity /\ i \in Nat /\ 1 .. n \subseteq 1 .. Capacity /\ Capacity \in Nat
  BY BagConstants
<1>2. p = 2 ^ r /\ p \in Nat /\ r \in Nat /\ 1 <= p /\ p <= i
  BY <1>1, RankIsLowest
<1>3. t[i] = P[i] - P[i - p]
  <2>1. PICK a \in Nat : Gathered(t, i - 1, i, a, P, L)
    BY DEF LiftedUpTo
  <2>2. i - 1 \in Int /\ i - 1 <= i - 1
    OBVIOUS
  <2> QED
    BY <2>1, <2>2, AllGathered
<1>4. t \in [Nodes -> Int] /\ i \in Nodes /\ t[i] \in Int
  BY <1>1 DEF LiftedUpTo, Nodes
<1>5. u \in [Nodes -> Int] /\ \A j \in Nodes : u[j] = IF j = i + p /\ i + p <= n THEN t[j] + t[i] ELSE t[j]
  <2>1. CASE i + p <= n
    <3>1. i + p \in Nodes
      BY <1>1, <1>2, <2>1 DEF Nodes
    <3>2. u = [t EXCEPT ![i + p] = @ + t[i]]
      BY <2>1 DEF Lifted
    <3> DEFINE h == i + p
    <3>3. u = [t EXCEPT ![h] = @ + t[i]] /\ h \in Nodes
      BY <3>1, <3>2
    <3> HIDE DEF u, h
    <3>4. u \in [Nodes -> Int] /\ \A j \in Nodes : u[j] = IF j = h THEN t[j] + t[i] ELSE t[j]
      BY <1>4, <3>3
    <3> QED
      BY <2>1, <3>4 DEF h
  <2>2. CASE ~(i + p <= n)
    <3>1. u = t
      BY <2>2 DEF Lifted
    <3> HIDE DEF u, p
    <3> QED
      BY <1>4, <2>2, <3>1
  <2> QED
    BY <2>1, <2>2
<1> HIDE DEF u, p, r
<1>6. ASSUME NEW j \in 1 .. n, j # i + p PROVE \E a \in Nat : Gathered(u, i, j, a, P, L)
  <2>1. PICK a \in Nat : Gathered(t, i - 1, j, a, P, L)
    BY DEF LiftedUpTo
  <2>2. j \in Nodes /\ u[j] = t[j] /\ j \in 1 .. Capacity /\ j \in Nat
    BY <1>1, <1>5, <1>6 DEF Nodes
  <2>3. ASSUME NEW d \in Nat, d < a PROVE i < j - 2 ^ d
    <3>1. i - 1 < j - 2 ^ d /\ d < Rank(j) /\ Rank(j) \in Nat
      BY <2>1, <2>2, <2>3, RankIsLowest DEF Gathered
    <3>2. 2 ^ d \in Nat /\ Rank(j - 2 ^ d) = d
      BY <2>2, <3>1, ChildRank
    <3>3. ASSUME i = j - 2 ^ d PROVE FALSE
      <4>1. p = 2 ^ d
        BY <1>2, <3>2, <3>3 DEF r
      <4> QED
        BY <1>2, <1>6, <2>2, <3>2, <3>3, <4>1
    <3> QED
      BY <1>1, <2>2, <3>1, <3>2, <3>3
  <2>4. a = Rank(j) \/ j - 2 ^ a <= i
    <3>1. 2 ^ a \in Nat
      BY PowersDouble
    <3>2. a = Rank(j) \/ j - 2 ^ a <= i - 1
      BY <2>1 DEF Gathered
    <3> QED
      BY <1>1, <2>2, <3>1, <3>2
  <2> QED
    BY <2>1, <2>2, <2>3, <2>4 DEF Gathered
<1>7. ASSUME NEW j \in 1 .. n, j = i + p PROVE Gathered(u, i, j, r, P, L)
  <2> DEFINE c == Rank(j)
  <2>1. j \in 1 .. Capacity /\ j \in Nat /\ r < c /\ c \in Nat /\ j - p = i
    <3>1. i + p <= Capacity
      BY <1>1, <1>7
    <3>2. r < Rank(i + p)
      BY <1>1, <3>1, ParentRank DEF p, r
    <3> QED
      BY <1>1, <1>2, <1>7, <3>2, RankIsLowest
  <2>2. PICK a \in Nat : Gathered(t, i - 1, j, a, P, L)
    BY DEF LiftedUpTo
  <2>3. ~(a <= r)
    <3> SUFFICES ASSUME a <= r PROVE FALSE
      OBVIOUS
    <3>1. j - 2 ^ a <= i - 1
      BY <1>2, <2>1, <2>2 DEF Gathered
    <3>2. 2 ^ a <= p
      <4>1. a < r => 2 * 2 ^ a <= p
        BY <1>2, PowersOrdered
      <4>2. 2 ^ a \in Nat
        BY PowersDouble
      <4> QED
        BY <1>2, <4>1, <4>2
    <3>3. 2 ^ a \in Nat
      BY PowersDouble
    <3> QED
      BY <1>1, <1>2, <2>1, <3>1, <3>2, <3>3
  <2>4. r + 1 \in Nat /\ 2 ^ (r + 1) = 2 * p
    BY <1>2, PowersDouble
  <2>5. ~(r + 1 < a)
    <3> SUFFICES ASSUME r + 1 < a PROVE FALSE
      OBVIOUS
    <3>1. i - 1 < j - 2 * p
      BY <2>2, <2>4 DEF Gathered
    <3> QED
      BY <1>1, <1>2, <2>1, <3>1
  <2>6. a = r + 1
    BY <1>2, <2>3, <2>5
  <2>7. t[j] = L[j] + P[j - 2 * p] - P[j - LowBit(j)]
    BY <2>2, <2>4, <2>6 DEF Gathered
  <2>8. j - 2 * p = i - p
    BY <1>1, <1>2, <1>7
  <2>9. u[j] = t[j] + t[i]
    BY <1>1, <1>5, <1>7, <2>1 DEF Nodes
  <2>10. u[j] = L[j] + P[j - 2 ^ r] - P[j - LowBit(j)]
    <3>1. LowBit(j) \in Nat /\ LowBit(j) <= j
      BY <2>1, RankIsLowest
    <3>2. i - p \in 0 .. n /\ j - LowBit(j) \in 0 .. n /\ i \in 0 .. n /\ j - 2 ^ r = i
      BY <1>1, <1>2, <2>1, <3>1
    <3>3. L[j] \in Int /\ P[i - p] \in Int /\ P[j - LowBit(j)] \in Int /\ P[i] \in Int
      BY <3>2 DEF SumsTo
    <3>4. u[j] = (L[j] + P[i - p] - P[j - LowBit(j)]) + (P[i] - P[i - p])
      BY <1>3, <2>7, <2>8, <2>9
    <3>5. u[j] = L[j] + P[i] - P[j - LowBit(j)]
      BY <3>3, <3>4
    <3> QED
      BY <3>2, <3>5
  <2>11. ASSUME NEW d \in Nat, d < r PROVE i < j - 2 ^ d
    <3>1. 2 * 2 ^ d <= p /\ 2 ^ d \in Nat /\ 2 ^ d > 0
      BY <1>2, <2>11, PowersOrdered, PowersDouble
    <3> QED
      BY <1>1, <1>2, <2>1, <3>1
  <2> QED
    BY <1>1, <1>2, <2>1, <2>10, <2>11 DEF Gathered
<1>8. \A j \in 1 .. n : \E a \in Nat : Gathered(u, i, j, a, P, L)
  BY <1>2, <1>6, <1>7
<1> QED
  BY <1>5, <1>8 DEF LiftedUpTo, u

\* rebuild is its loop, run over the nodes of the store in order.
LEMMA RebuildLoops ==
  ASSUME NEW s \in Seq(Entry), Len(s) <= Capacity
  PROVE  \E f : /\ f[0] = Leaves(s) /\ f[Len(s)] = Rebuild(s)
                /\ \A i \in 1 .. Len(s) : f[i] = Lifted(f[i - 1], i, Len(s))
<1> DEFINE n == Len(s)  S == 1 .. n  D == [Nodes -> Int]  base == Leaves(s)
           F == [x \in S |-> x]
           C == [t \in (SUBSET S) \ {{}} |-> Max(t)]
           G == [d \in D \X S |-> Lifted(d[1], d[2], n)]
           iter == CHOOSE g : g = [t \in SUBSET S |->
                     IF t = {} THEN base ELSE Lifted(g[t \ {Max(t)}], F[Max(t)], n)]
<1>1. n \in Nat /\ DOMAIN F = S /\ IsFiniteSet(S) /\ Capacity \in Nat
  BY FS_Interval, BagConstants
<1>2. Rebuild(s) = iter[S]
  BY <1>1 DEF Rebuild, FoldLeft, MapThenFoldSet
<1>3. ASSUME NEW t \in D, NEW i \in S PROVE Lifted(t, i, n) \in D
  <2>1. i \in 1 .. Capacity /\ i \in Nodes /\ i \in Nat
    BY <1>1 DEF Nodes
  <2>2. LowBit(i) \in Nat /\ LowBit(i) >= 1
    BY <2>1, RankIsLowest
  <2> DEFINE h == i + LowBit(i)
  <2>3. h <= n => h \in Nodes
    BY <1>1, <2>1, <2>2 DEF Nodes
  <2>4. Lifted(t, i, n) = IF h <= n THEN [t EXCEPT ![h] = @ + t[i]] ELSE t
    BY DEF Lifted
  <2> HIDE DEF h
  <2>5. t[i] \in Int
    BY <1>3, <2>1
  <2>6. h \in Nodes => t[h] + t[i] \in Int
    BY <1>3, <2>5
  <2>7. h \in Nodes => [t EXCEPT ![h] = @ + t[i]] \in D
    BY <1>3, <2>6
  <2> QED
    BY <1>3, <2>3, <2>4, <2>7
<1>4. base \in D
  <2>1. ASSUME NEW j \in Nodes PROVE (IF j <= Len(s) THEN s[j].priority ELSE 0) \in Int
    <3>1. j <= Len(s) => j \in 1 .. Len(s)
      BY <1>1 DEF Nodes
    <3> QED
      BY <3>1, PrioritiesAreNumbers
  <2> QED
    BY <2>1 DEF Leaves
<1>5. ChoosesFrom(C, S) /\ \A t \in (SUBSET S) \ {{}} : C[t] = Max(t) /\ C[t] \in t
  <2>1. ChoosesFrom(C, S) /\ \A t \in (SUBSET S) \ {{}} : C[t] = Max(t)
    BY <1>1, MaxChooses
  <2> QED
    BY <2>1 DEF ChoosesFrom
<1>6. G \in [D \X S -> D] /\ \A t \in D, i \in S : G[<<t, i>>] = Lifted(t, i, n)
  <2> HIDE DEF D, S
  <2> QED
    BY <1>3
<1>7. F \in [S -> S] /\ \A x \in S : F[x] = x
  OBVIOUS
<1> HIDE DEF G, C, F, base, iter
<1>8. PICK g \in [SUBSET S -> D] : FoldsTo(g, S, C, F, G, base)
  <2>1. FoldsOver(S, C, F, S, G, D)
    BY <1>1, <1>5, <1>6, <1>7 DEF FoldsOver
  <2> HIDE DEF S, D
  <2> QED
    BY <1>4, <2>1, FoldHasValues
<1> HIDE DEF D
<1>9. g = [t \in SUBSET S |-> IF t = {} THEN base ELSE Lifted(g[t \ {Max(t)}], F[Max(t)], n)]
  <2>1. ASSUME NEW t \in SUBSET S, t # {} PROVE g[t] = Lifted(g[t \ {Max(t)}], F[Max(t)], n)
    <3>1. g[t] = G[<<g[t \ {C[t]}], F[C[t]]>>] /\ C[t] = Max(t) /\ C[t] \in S
      BY <1>5, <1>8, <2>1 DEF FoldsTo
    <3>2. g[t \ {C[t]}] \in D /\ F[C[t]] \in S
      BY <1>7, <1>8, <3>1
    <3> HIDE DEF S
    <3> QED
      BY <1>6, <3>1, <3>2
  <2>2. \A t \in SUBSET S : t = {} => g[t] = base
    BY <1>8 DEF FoldsTo
  <2> HIDE DEF S
  <2>3. \A t \in SUBSET S : g[t] = IF t = {} THEN base ELSE Lifted(g[t \ {Max(t)}], F[Max(t)], n)
    BY <2>1, <2>2
  <2> QED
    BY <1>8, <2>3
<1>10. iter = [t \in SUBSET S |-> IF t = {} THEN base ELSE Lifted(iter[t \ {Max(t)}], F[Max(t)], n)]
  BY <1>9 DEF iter
<1> DEFINE f == [m \in 0 .. n |-> iter[1 .. m]]
<1>11. f[0] = base /\ f[n] = iter[S]
  <2>1. 1 .. 0 = {} /\ {} \in SUBSET S /\ 0 \in 0 .. n /\ n \in 0 .. n
    BY <1>1
  <2>2. iter[{}] = base
    BY <1>10, <2>1
  <2> QED
    BY <2>1, <2>2
<1>12. ASSUME NEW i \in 1 .. n PROVE f[i] = Lifted(f[i - 1], i, n)
  <2>1. /\ (1 .. i) \in SUBSET S /\ i \in 1 .. i /\ i \in S /\ i \in Nat /\ i > 0
        /\ i - 1 \in 0 .. n /\ i \in 0 .. n
    BY <1>1
  <2>2. Max(1 .. i) = i /\ (1 .. i) \ {i} = 1 .. i - 1
    BY <2>1, LastOfFirst
  <2>3. iter[1 .. i] = Lifted(iter[(1 .. i) \ {Max(1 .. i)}], F[Max(1 .. i)], n)
    BY <1>10, <2>1
  <2>4. iter[1 .. i] = Lifted(iter[1 .. i - 1], i, n)
    BY <1>7, <2>1, <2>2, <2>3
  <2> QED
    BY <2>1, <2>4
<1> HIDE DEF f
<1> QED
  BY <1>2, <1>11, <1>12 DEF base

\* What the first k entries weigh.
Prefix(s) == [k \in 0 .. Len(s) |-> Total(SubSeq(s, 1, k))]

\* It grows by one entry at a time.
LEMMA PrefixSums ==
  ASSUME NEW s \in Seq(Entry)
  PROVE  SumsTo(Prefix(s), PrioritiesOf(s), Len(s)) /\ Prefix(s)[0] = 0 /\ Prefix(s)[Len(s)] = Total(s)
<1> DEFINE n == Len(s)
<1>1. n \in Nat /\ PrioritiesOf(s) \in [1 .. n -> Int] /\ \A i \in 1 .. n : PrioritiesOf(s)[i] = s[i].priority
  BY PrioritiesAreNumbers
<1>2. ASSUME NEW k \in 0 .. n
      PROVE  /\ SubSeq(s, 1, k) \in Seq(Entry) /\ Len(SubSeq(s, 1, k)) = k
             /\ \A i \in 1 .. k : SubSeq(s, 1, k)[i] = s[i]
  <2>1. k \in Nat /\ \A i \in 1 .. k : s[i] \in Entry
    BY <1>1
  <2> QED
    BY <2>1, SubSeqProperties
<1>3. Prefix(s)[0] = 0
  <2>1. 0 \in 0 .. n
    BY <1>1
  <2>2. SubSeq(s, 1, 0) = <<>>
    BY <1>2, <2>1
  <2>3. Prefix(s)[0] = Total(SubSeq(s, 1, 0))
    BY <2>1 DEF Prefix
  <2> QED
    BY <2>2, <2>3, TotalOfNothing
<1>4. ASSUME NEW k \in 1 .. n
      PROVE  Prefix(s)[k] = Prefix(s)[k - 1] + s[k].priority /\ Prefix(s)[k] \in Int
  <2> DEFINE a == SubSeq(s, 1, k)  b == SubSeq(s, 1, k - 1)
  <2>1. k \in 0 .. n /\ k - 1 \in 0 .. n /\ k \in 1 .. k
    BY <1>1
  <2>2. a \in Seq(Entry) /\ Len(a) = k /\ \A i \in 1 .. k : a[i] = s[i]
    BY <1>2, <2>1
  <2>3. b \in Seq(Entry) /\ Len(b) = k - 1 /\ \A i \in 1 .. k - 1 : b[i] = s[i]
    BY <1>2, <2>1
  <2>4. Prefix(s)[k] = Total(a) /\ Prefix(s)[k - 1] = Total(b)
    BY <2>1 DEF Prefix
  <2> HIDE DEF a, b
  <2>5. a # <<>>
    BY <2>2
  <2>6. Front(a) \in Seq(Entry) /\ Len(Front(a)) = k - 1 /\ Total(Front(a)) = Total(a) - Last(a).priority
        /\ Total(a) \in Int /\ Last(a).priority \in Int
    BY <2>2, <2>5, TotalOfFront
  <2>7. Last(a) = s[k]
    BY <2>1, <2>2 DEF Last
  <2>8. \A i \in 1 .. k - 1 : Front(a)[i] = b[i]
    <3>1. Front(a) = SubSeq(a, 1, k - 1)
      BY <2>2 DEF Front
    <3>2. k - 1 \in Nat /\ \A i \in 1 .. k - 1 : a[i] \in Entry /\ a[i] = s[i]
      BY <2>1, <2>2
    <3>3. \A i \in 1 .. k - 1 : SubSeq(a, 1, k - 1)[i] = a[i]
      BY <3>2, SubSeqProperties
    <3> QED
      BY <2>3, <3>1, <3>2, <3>3
  <2>9. Front(a) = b
    BY <2>3, <2>6, <2>8, SeqEqual
  <2> QED
    BY <2>4, <2>6, <2>7, <2>9
<1>5. Prefix(s)[n] = Total(s)
  <2>1. n \in 0 .. n
    BY <1>1
  <2>2. SubSeq(s, 1, n) = s
    OBVIOUS
  <2>3. Prefix(s)[n] = Total(SubSeq(s, 1, n))
    BY <2>1 DEF Prefix
  <2> QED
    BY <2>2, <2>3
<1>6. Prefix(s) \in [0 .. n -> Int]
  <2>1. ASSUME NEW k \in 0 .. n PROVE Prefix(s)[k] \in Int
    <3>1. CASE k = 0
      BY <1>3, <3>1
    <3>2. CASE k # 0
      BY <1>4, <3>2
    <3> QED
      BY <3>1, <3>2
  <2> QED
    BY <2>1 DEF Prefix
<1> QED
  BY <1>1, <1>3, <1>4, <1>5, <1>6 DEF SumsTo

\* Every node of a rebuilt tree holds the weight of its range.
LEMMA RebuildIsFenwick ==
  ASSUME NEW s \in Seq(Entry), Len(s) <= Capacity
  PROVE  /\ Rebuild(s) \in [Nodes -> Int]
         /\ \A j \in 1 .. Len(s) : Rebuild(s)[j] = Prefix(s)[j] - Prefix(s)[j - LowBit(j)]
<1> DEFINE n == Len(s)  P == Prefix(s)  L == PrioritiesOf(s)
<1>1. n \in Nat /\ n <= Capacity /\ SumsTo(P, L, n) /\ \A i \in 1 .. n : L[i] = s[i].priority
  BY PrefixSums, PrioritiesAreNumbers
<1>2. PICK f : /\ f[0] = Leaves(s) /\ f[n] = Rebuild(s)
               /\ \A i \in 1 .. n : f[i] = Lifted(f[i - 1], i, n)
  BY RebuildLoops
<1> HIDE DEF P, L
<1> DEFINE T == {k \in Nat : k <= n => LiftedUpTo(f[k], k, n, P, L)}
<1>3. 0 \in T
  <2>1. Leaves(s) \in [Nodes -> Int] /\ \A i \in 1 .. n : i \in Nodes /\ Leaves(s)[i] = L[i]
    <3>1. ASSUME NEW i \in Nodes PROVE (IF i <= n THEN s[i].priority ELSE 0) \in Int
      <4>1. i <= n => i \in 1 .. n
        BY <1>1 DEF Nodes
      <4> QED
        BY <4>1, PrioritiesAreNumbers
    <3>2. \A i \in 1 .. n : i \in Nodes
      BY <1>1, BagConstants DEF Nodes
    <3> QED
      BY <1>1, <3>1, <3>2 DEF Leaves
  <2>2. ASSUME NEW i \in 1 .. n PROVE Gathered(Leaves(s), 0, i, Rank(i), P, L)
    <3>1. /\ i \in 1 .. Capacity /\ i \in Nat /\ Rank(i) \in Nat /\ LowBit(i) = 2 ^ Rank(i)
          /\ LowBit(i) \in Nat /\ LowBit(i) <= i
      <4>1. i \in 1 .. Capacity /\ i \in Nat
        BY <1>1, BagConstants
      <4> QED
        BY <4>1, RankIsLowest
    <3>2. ASSUME NEW d \in Nat, d < Rank(i) PROVE 0 < i - 2 ^ d
      <4>1. 2 ^ d \in Nat /\ 1 <= 2 ^ d /\ 2 * 2 ^ d <= LowBit(i)
        BY <3>1, <3>2, ChildRank
      <4> QED
        BY <3>1, <4>1
    <3>3. Leaves(s)[i] = L[i] + P[i - LowBit(i)] - P[i - LowBit(i)]
      <4>1. L[i] \in Int /\ P[i - LowBit(i)] \in Int
        BY <1>1, <3>1 DEF SumsTo
      <4> QED
        BY <2>1, <4>1
    <3> QED
      BY <3>1, <3>2, <3>3 DEF Gathered
  <2>3. LiftedUpTo(Leaves(s), 0, n, P, L)
    <3>1. \A i \in 1 .. n : Rank(i) \in Nat
      BY <2>2 DEF Gathered
    <3> QED
      BY <2>1, <2>2, <3>1 DEF LiftedUpTo
  <2> QED
    BY <1>2, <2>3
<1>4. ASSUME NEW k \in Nat, k \in T PROVE k + 1 \in T
  <2> SUFFICES ASSUME k + 1 <= n PROVE LiftedUpTo(f[k + 1], k + 1, n, P, L)
    OBVIOUS
  <2>1. LiftedUpTo(f[k], k, n, P, L)
    BY <1>1, <1>4
  <2>2. k + 1 \in 1 .. n /\ (k + 1) - 1 = k
    BY <1>1
  <2>3. f[k + 1] = Lifted(f[k], k + 1, n)
    BY <1>2, <2>2
  <2> QED
    BY <1>1, <2>1, <2>2, <2>3, LiftStep
<1> HIDE DEF T
<1>5. n \in T
  BY <1>1, <1>3, <1>4, NatInSets
<1>6. LiftedUpTo(Rebuild(s), n, n, P, L)
  BY <1>1, <1>2, <1>5 DEF T
<1>7. ASSUME NEW j \in 1 .. n PROVE Rebuild(s)[j] = P[j] - P[j - LowBit(j)]
  <2>1. PICK a \in Nat : Gathered(Rebuild(s), n, j, a, P, L)
    BY <1>6 DEF LiftedUpTo
  <2>2. n \in Int /\ j - 1 <= n
    BY <1>1
  <2> QED
    BY <1>1, <2>1, <2>2, AllGathered
<1>8. Rebuild(s) \in [Nodes -> Int]
  BY <1>6 DEF LiftedUpTo
<1> QED
  BY <1>7, <1>8 DEF P

\* The descent starts at the largest power within the length.
LEMMA HighestBitIsHighest ==
  ASSUME NEW n \in 1 .. Capacity
  PROVE  HighestBit(n) \in Nat /\ 2 ^ HighestBit(n) <= n /\ n < 2 ^ (HighestBit(n) + 1)
<1> DEFINE B == {b \in 0 .. Capacity : b = 0 \/ 2 ^ b <= n}
<1>1. n \in Nat /\ 1 <= n /\ n <= Capacity /\ Capacity \in Nat /\ 0 \in B
  BY BagConstants
<1>2. PICK b \in B : \A a \in B : a <= b
  BY <1>1, FirstAndLast
<1>3. HighestBit(n) \in B /\ \A a \in B : HighestBit(n) >= a
  <2>1. \E x \in B : \A a \in B : x >= a
    BY <1>1, <1>2
  <2>2. Max(B) \in B /\ \A a \in B : Max(B) >= a
    BY <2>1, Zenon DEF Max
  <2> QED
    BY <2>2 DEF HighestBit
<1> DEFINE h == HighestBit(n)
<1>4. h \in Nat /\ 2 ^ h <= n
  <2>1. h \in Nat /\ (h = 0 \/ 2 ^ h <= n)
    BY <1>3
  <2> QED
    BY <1>1, <2>1, PowersDouble
<1>5. ASSUME 2 ^ (h + 1) <= n PROVE FALSE
  <2>1. h + 1 \in Nat /\ 2 ^ (h + 1) > h + 1 /\ 2 ^ (h + 1) \in Nat
    BY <1>4, PowersDouble
  <2>2. h + 1 \in 0 .. Capacity
    BY <1>1, <1>5, <2>1
  <2>3. h + 1 \in B
    BY <1>5, <2>2
  <2> QED
    BY <1>3, <1>4, <2>3
<1>6. 2 ^ (h + 1) \in Nat
  <2>1. h + 1 \in Nat
    BY <1>4
  <2> QED
    BY <2>1, PowersDouble
<1> QED
  BY <1>1, <1>4, <1>5, <1>6

\* Where the descent stands once it has taken the step h: what it has passed
\* weighs less than the target, and the next h entries suffice to reach it.
Narrowed(at, h, n, P, target) ==
  /\ at.idx \in Nat /\ at.idx < n /\ Aligned(at.idx, h)
  /\ at.remaining = target - P[at.idx] /\ at.remaining >= 1
  /\ target <= P[IF at.idx + h <= n THEN at.idx + h ELSE n]

\* A step halves what is left to search.
LEMMA DescentNarrows ==
  ASSUME NEW n \in Nat, n <= Capacity, NEW P \in [0 .. n -> Int], NEW target \in Int,
         NEW t, \A j \in 1 .. n : t[j] = P[j] - P[j - LowBit(j)],
         NEW b \in Nat, NEW at, Narrowed(at, 2 * 2 ^ b, n, P, target)
  PROVE  Narrowed(Descended(t, n, at, 2 ^ b), 2 ^ b, n, P, target)
<1> DEFINE h == 2 ^ b  j == at.idx + h  idx == at.idx
<1>1. h \in Nat /\ h >= 1 /\ h > 0
  BY PowersDouble
<1>2. /\ idx \in Nat /\ idx \in Int /\ idx < n /\ Aligned(idx, 2 * h)
      /\ at.remaining = target - P[idx] /\ at.remaining >= 1
      /\ target <= P[IF idx + 2 * h <= n THEN idx + 2 * h ELSE n]
  BY DEF Narrowed
<1>3. P[idx] \in Int /\ n \in 0 .. n /\ P[n] \in Int
  BY <1>2
<1>4. Aligned(idx, h) /\ Aligned(h, h)
  <2> HIDE DEF h, idx
  <2> QED
    BY <1>1, <1>2, AlignedArithmetic
<1>5. ASSUME j < n PROVE t[j] = P[j] - P[idx] /\ j \in Nat /\ P[j] \in Int
  <2>1. j \in 1 .. n /\ j \in 1 .. Capacity /\ j - h = idx /\ j \in 0 .. n
    <3>1. j = idx + h /\ Capacity \in Nat
      BY BagConstants
    <3> HIDE DEF h, idx, j
    <3> QED
      BY <1>1, <1>2, <1>5, <3>1
  <2>2. Lowest(b, j)
    BY <1>2, <2>1 DEF Lowest
  <2>3. LowBit(j) = h
    BY <2>1, <2>2, RankIsLowest
  <2> HIDE DEF j, h, idx
  <2> QED
    BY <2>1, <2>3
<1>6. CASE j < n /\ t[j] < at.remaining
  <2> DEFINE to == [idx |-> j, remaining |-> at.remaining - t[j]]
  <2>1. Descended(t, n, at, h) = to
    BY <1>6 DEF Descended
  <2>2. to.idx = j /\ to.remaining = at.remaining - t[j]
    OBVIOUS
  <2>3. j + h = idx + 2 * h /\ j \in Nat
    BY <1>1, <1>2
  <2>4. to.remaining = target - P[j] /\ to.remaining >= 1
    <3> HIDE DEF j, idx, h, to
    <3> QED
      BY <1>2, <1>3, <1>5, <1>6, <2>2
  <2>5. Aligned(j, h)
    <3>1. j = idx + h
      OBVIOUS
    <3> HIDE DEF h, idx, j
    <3>2. h \in Int
      BY <1>1
    <3>3. Aligned(idx + h, h)
      BY <1>1, <1>2, <1>4, <3>2, AlignedSums
    <3> QED
      BY <3>1, <3>3
  <2>6. target <= P[IF j + h <= n THEN j + h ELSE n]
    BY <1>2, <2>3
  <2> HIDE DEF to, j, h, idx
  <2>7. Narrowed(to, h, n, P, target)
    BY <1>6, <2>2, <2>3, <2>4, <2>5, <2>6 DEF Narrowed
  <2> QED
    BY <2>1, <2>7 DEF h
<1>7. CASE ~(j < n /\ t[j] < at.remaining)
  <2>1. Descended(t, n, at, h) = at
    BY <1>7 DEF Descended
  <2>2. CASE j < n
    <3>1. ~(t[j] < at.remaining)
      BY <1>7, <2>2
    <3>2. target <= P[j] /\ j <= n
      <4> HIDE DEF j, idx, h
      <4> QED
        BY <1>2, <1>3, <1>5, <2>2, <3>1
    <3>3. target <= P[IF j <= n THEN j ELSE n]
      BY <3>2
    <3> QED
      BY <1>2, <1>4, <2>1, <3>3 DEF Narrowed
  <2>3. CASE ~(j < n)
    <3>1. ~(idx + 2 * h <= n)
      BY <1>1, <1>2, <2>3
    <3>2. target <= P[n]
      BY <1>2, <3>1
    <3>3. (IF j <= n THEN j ELSE n) = n
      <4>1. j \in Int
        BY <1>1, <1>2
      <4> HIDE DEF j
      <4> QED
        BY <2>3, <4>1
    <3> QED
      BY <1>2, <1>4, <2>1, <3>2, <3>3 DEF Narrowed
  <2> QED
    BY <2>2, <2>3
<1> QED
  BY <1>6, <1>7

\* f is what the descent over t passes through in m steps.
Descends(f, m, t, n, target) ==
  /\ f[0] = [idx |-> 0, remaining |-> target]
  /\ f[m].idx = FindByPrefixSum(t, target, n)
  /\ \A i \in 1 .. m : f[i] = Descended(t, n, f[i - 1], 2 ^ (m - i))

\* findByPrefixSum is its loop, run over the powers from the highest.
LEMMA DescentLoops ==
  ASSUME NEW n \in 1 .. Capacity, NEW t \in [Nodes -> Int], NEW target \in Int
  PROVE  \E f : Descends(f, HighestBit(n) + 1, t, n, target)
<1> DEFINE m == HighestBit(n) + 1  S == 1 .. m  D == [idx : Nat, remaining : Int]
           base == [idx |-> 0, remaining |-> target]
           F == Powers(n)
           C == [u \in (SUBSET S) \ {{}} |-> Max(u)]
           G == [d \in D \X (Nat \ {0}) |-> Descended(t, n, d[1], d[2])]
           iter == CHOOSE g : g = [u \in SUBSET (DOMAIN F) |->
                     IF u = {} THEN base ELSE Descended(t, n, g[u \ {Max(u)}], F[Max(u)])]
<1>1. m \in Nat /\ m > 0 /\ DOMAIN F = S /\ IsFiniteSet(S) /\ n \in Nat /\ Capacity \in Nat
  <2>1. HighestBit(n) \in Nat /\ n \in Nat /\ Capacity \in Nat
    BY HighestBitIsHighest, BagConstants
  <2>2. m \in Nat /\ m > 0
    BY <2>1
  <2>3. IsFiniteSet(S)
    BY <2>2, FS_Interval
  <2>4. DOMAIN F = S
    BY DEF Powers
  <2> QED
    BY <2>1, <2>2, <2>3, <2>4
<1>2. FindByPrefixSum(t, target, n) = iter[DOMAIN F].idx
  BY DEF FindByPrefixSum, FoldLeft, MapThenFoldSet
<1>3. ASSUME NEW at \in D, NEW h \in Nat \ {0} PROVE Descended(t, n, at, h) \in D
  <2> DEFINE j == at.idx + h
  <2>1. at.idx \in Nat /\ at.remaining \in Int
    BY <1>3
  <2>2. j < n => j \in Nodes
    BY <1>1, <2>1 DEF Nodes
  <2>3. j < n => t[j] \in Int /\ j \in Nat
    <3>1. j \in Nat
      BY <2>1
    <3> HIDE DEF j
    <3> QED
      BY <2>2, <3>1
  <2> HIDE DEF j
  <2>4. j < n => [idx |-> j, remaining |-> at.remaining - t[j]] \in D
    BY <2>1, <2>3
  <2> QED
    BY <1>3, <2>4 DEF Descended, j
<1>4. base \in D
  OBVIOUS
<1>5. ChoosesFrom(C, S) /\ \A u \in (SUBSET S) \ {{}} : C[u] = Max(u) /\ C[u] \in u
  <2>1. ChoosesFrom(C, S) /\ \A u \in (SUBSET S) \ {{}} : C[u] = Max(u)
    BY <1>1, MaxChooses
  <2> QED
    BY <2>1 DEF ChoosesFrom
<1>6. G \in [D \X (Nat \ {0}) -> D]
      /\ \A at \in D, h \in Nat \ {0} : G[<<at, h>>] = Descended(t, n, at, h)
  <2> HIDE DEF D
  <2> QED
    BY <1>3
<1>7. F \in [S -> Nat \ {0}] /\ \A k \in S : F[k] = 2 ^ (m - k)
  <2>1. ASSUME NEW k \in S PROVE 2 ^ (m - k) \in Nat \ {0}
    <3>1. m - k \in Nat
      BY <1>1
    <3> QED
      BY <3>1, PowersDouble
  <2>2. F = [k \in S |-> 2 ^ (m - k)]
    BY DEF Powers
  <2> HIDE DEF F, S, m
  <2> QED
    BY <2>1, <2>2
<1> HIDE DEF G, C, F, base, iter, D
<1>8. PICK g \in [SUBSET S -> D] : FoldsTo(g, S, C, F, G, base)
  <2>1. FoldsOver(S, C, F, Nat \ {0}, G, D)
    BY <1>1, <1>5, <1>6, <1>7 DEF FoldsOver
  <2> HIDE DEF S
  <2> QED
    BY <1>4, <2>1, FoldHasValues
<1>9. g = [u \in SUBSET S |-> IF u = {} THEN base ELSE Descended(t, n, g[u \ {Max(u)}], F[Max(u)])]
  <2>1. ASSUME NEW u \in SUBSET S, u # {} PROVE g[u] = Descended(t, n, g[u \ {Max(u)}], F[Max(u)])
    <3>1. g[u] = G[<<g[u \ {C[u]}], F[C[u]]>>] /\ C[u] = Max(u) /\ C[u] \in S
      BY <1>5, <1>8, <2>1 DEF FoldsTo
    <3>2. g[u \ {C[u]}] \in D /\ F[C[u]] \in Nat \ {0}
      BY <1>7, <1>8, <3>1
    <3> HIDE DEF S
    <3> QED
      BY <1>6, <3>1, <3>2
  <2>2. \A u \in SUBSET S : u = {} => g[u] = base
    BY <1>8 DEF FoldsTo
  <2> HIDE DEF S
  <2>3. \A u \in SUBSET S :
          g[u] = IF u = {} THEN base ELSE Descended(t, n, g[u \ {Max(u)}], F[Max(u)])
    BY <2>1, <2>2
  <2> QED
    BY <1>8, <2>3
<1>10. iter = [u \in SUBSET S |->
                 IF u = {} THEN base ELSE Descended(t, n, iter[u \ {Max(u)}], F[Max(u)])]
  BY <1>1, <1>9 DEF iter
<1> DEFINE f == [k \in 0 .. m |-> iter[1 .. k]]
<1>11. f[0] = base /\ f[m] = iter[S]
  <2>1. 1 .. 0 = {} /\ {} \in SUBSET S /\ 0 \in 0 .. m /\ m \in 0 .. m
    BY <1>1
  <2>2. iter[{}] = base
    BY <1>10, <2>1
  <2> QED
    BY <2>1, <2>2
<1>12. ASSUME NEW i \in 1 .. m PROVE f[i] = Descended(t, n, f[i - 1], 2 ^ (m - i))
  <2>1. /\ (1 .. i) \in SUBSET S /\ i \in 1 .. i /\ i \in S /\ i \in Nat /\ i > 0
        /\ i - 1 \in 0 .. m /\ i \in 0 .. m
    BY <1>1
  <2>2. Max(1 .. i) = i /\ (1 .. i) \ {i} = 1 .. i - 1
    BY <2>1, LastOfFirst
  <2>3. iter[1 .. i] = Descended(t, n, iter[(1 .. i) \ {Max(1 .. i)}], F[Max(1 .. i)])
    BY <1>10, <2>1
  <2>4. iter[1 .. i] = Descended(t, n, iter[1 .. i - 1], 2 ^ (m - i))
    BY <1>7, <2>1, <2>2, <2>3
  <2> QED
    BY <2>1, <2>4
<1> HIDE DEF f
<1> QED
  BY <1>1, <1>2, <1>11, <1>12 DEF base, Descends

\* The descent ends on the entry whose share of the weight holds the target.
LEMMA DescentFinds ==
  ASSUME NEW n \in 1 .. Capacity, NEW P \in [0 .. n -> Int], P[0] = 0,
         NEW target \in Int, 1 <= target, target <= P[n],
         NEW t \in [Nodes -> Int], \A j \in 1 .. n : t[j] = P[j] - P[j - LowBit(j)]
  PROVE  LET picked == FindByPrefixSum(t, target, n)
         IN  picked \in 0 .. n - 1 /\ P[picked] < target /\ target <= P[picked + 1]
<1> DEFINE m == HighestBit(n) + 1
<1>1. n \in Nat /\ n <= Capacity /\ n >= 1 /\ m \in Nat /\ m > 0 /\ n < 2 ^ m /\ 2 ^ m \in Nat
  <2>1. HighestBit(n) \in Nat /\ n < 2 ^ m /\ n \in Nat /\ n <= Capacity /\ n >= 1
    BY HighestBitIsHighest, BagConstants
  <2>2. m \in Nat /\ m > 0
    BY <2>1
  <2> QED
    BY <2>1, <2>2, PowersDouble
<1>2. PICK f : Descends(f, m, t, n, target)
  BY DescentLoops
<1> HIDE DEF m
<1> DEFINE T == {i \in Nat : i <= m => Narrowed(f[i], 2 ^ (m - i), n, P, target)}
<1>3. 0 \in T
  <2>1. f[0].idx = 0 /\ f[0].remaining = target /\ m - 0 = m
    BY <1>1, <1>2 DEF Descends
  <2>2. Aligned(0, 2 ^ m)
    <3>1. 0 = 0 * 2 ^ m
      BY <1>1
    <3> QED
      BY <3>1 DEF Aligned
  <2>3. (IF 0 + 2 ^ m <= n THEN 0 + 2 ^ m ELSE n) = n
    BY <1>1
  <2>4. target = target - P[0]
    OBVIOUS
  <2> QED
    BY <1>1, <2>1, <2>2, <2>3, <2>4 DEF Narrowed
<1>4. ASSUME NEW i \in Nat, i \in T PROVE i + 1 \in T
  <2> SUFFICES ASSUME i + 1 <= m PROVE Narrowed(f[i + 1], 2 ^ (m - (i + 1)), n, P, target)
    OBVIOUS
  <2> DEFINE b == m - (i + 1)
  <2>1. b \in Nat /\ m - i = b + 1 /\ i + 1 \in 1 .. m /\ (i + 1) - 1 = i /\ i <= m
    BY <1>1
  <2>2. Narrowed(f[i], 2 ^ (m - i), n, P, target)
    BY <1>4, <2>1
  <2>3. 2 ^ (m - i) = 2 * 2 ^ b
    BY <2>1, PowersDouble
  <2>4. f[i + 1] = Descended(t, n, f[i], 2 ^ b)
    BY <1>2, <2>1 DEF Descends
  <2> HIDE DEF b
  <2>5. Narrowed(f[i], 2 * 2 ^ b, n, P, target)
    BY <2>2, <2>3
  <2>6. Narrowed(Descended(t, n, f[i], 2 ^ b), 2 ^ b, n, P, target)
    BY <1>1, <2>1, <2>5, DescentNarrows
  <2> QED
    BY <2>4, <2>6 DEF b
<1> HIDE DEF T
<1>5. m \in T
  BY <1>1, <1>3, <1>4, NatInSets
<1>6. Narrowed(f[m], 1, n, P, target)
  <2>1. m - m = 0 /\ m <= m
    BY <1>1
  <2> QED
    BY <1>5, <2>1, PowersDouble DEF T
<1> DEFINE picked == f[m].idx
<1>7. /\ picked \in Nat /\ picked < n /\ target - P[picked] >= 1
      /\ target <= P[IF picked + 1 <= n THEN picked + 1 ELSE n]
  BY <1>6 DEF Narrowed
<1> HIDE DEF picked
<1>8. picked \in 0 .. n - 1 /\ picked \in 0 .. n /\ picked + 1 <= n
  BY <1>1, <1>7
<1>9. P[picked] \in Int
  BY <1>8
<1> QED
  BY <1>2, <1>7, <1>8, <1>9 DEF picked, Descends

\* A rebuilt tree picks in proportion to priority, whatever the store holds and
\* however large the capacity is: findByPrefixSum over rebuild's nodes finds the
\* entry whose share of the priority mass holds the target.
THEOREM PicksAreProportional == Spec => []RebuildIsFaithful
<1>1. Init => StoreInv
  BY BagConstants DEF Init, StoreInv, BoundedDescending, Descending
<1>2. StoreInv /\ [Next]_bagVars => StoreInv'
  BY StoreInvInductive
<1>3. StoreInv => RebuildIsFaithful
  <2> SUFFICES ASSUME StoreInv, NEW target \in 1 .. Total(list)
               PROVE  LET picked == FindByPrefixSum(Rebuild(list), target, Len(list))
                      IN  /\ Total(SubSeq(list, 1, picked)) < target
                          /\ target <= Total(SubSeq(list, 1, picked + 1))
    BY DEF RebuildIsFaithful, PickIsFaithful
  <2> DEFINE n == Len(list)  P == Prefix(list)  t == Rebuild(list)
             picked == FindByPrefixSum(t, target, n)
  <2>1. list \in Seq(Entry) /\ n \in Nat /\ n <= Capacity
    BY DEF StoreInv, BoundedDescending
  <2>2. P \in [0 .. n -> Int] /\ P[0] = 0 /\ P[n] = Total(list)
    BY <2>1, PrefixSums DEF SumsTo
  <2>3. n \in 1 .. Capacity
    <3>1. n # 0
      BY <2>2
    <3> QED
      BY <2>1, <3>1, BagConstants
  <2>4. t \in [Nodes -> Int]
    BY <2>1, RebuildIsFenwick
  <2>5. \A j \in 1 .. n : t[j] = P[j] - P[j - LowBit(j)]
    BY <2>1, RebuildIsFenwick
  <2>6. target \in Int /\ 1 <= target /\ target <= P[n]
    BY <2>2, <2>3
  <2> HIDE DEF P, t, n
  <2>7. picked \in 0 .. n - 1 /\ P[picked] < target /\ target <= P[picked + 1]
    BY <2>2, <2>3, <2>4, <2>5, <2>6, DescentFinds
  <2> HIDE DEF picked
  <2>8. picked \in 0 .. n /\ picked + 1 \in 0 .. n
    BY <2>1, <2>7
  <2>9. P[picked] = Total(SubSeq(list, 1, picked)) /\ P[picked + 1] = Total(SubSeq(list, 1, picked + 1))
    BY <2>8 DEF Prefix, P, n
  <2> QED
    BY <2>7, <2>9 DEF picked, t, n
<1> QED
  BY <1>1, <1>2, <1>3, PTL DEF Spec

-----------------------------------------------------------------------------
(* FocusMemory.                                                              *)

\* No two entries of a sequence hold the same item.
Distinct(s) == \A i, j \in 1 .. Len(s) : s[i].item = s[j].item => i = j

\* The inductive invariant.
FocusInv ==
  /\ list \in Seq(Entry) /\ Len(list) <= Capacity
  /\ Distinct(list)
  /\ conceptsById \subseteq Items
  /\ version \in 0 .. MaxVersion /\ indexVersion \in -1 .. version
  /\ IndexCoversMemory

-----------------------------------------------------------------------------

\* Inserting an entry whose item is new keeps the items distinct, and brings in
\* no other item.
LEMMA InsertKeepsDistinct ==
  ASSUME NEW s \in Seq(Entry), Distinct(s), NEW e \in Entry, NEW k \in 0 .. Len(s),
         \A i \in 1 .. Len(s) : s[i].item # e.item
  PROVE  LET r == SubSeq(s, 1, k) \o <<e>> \o SubSeq(s, k + 1, Len(s))
         IN  /\ r \in Seq(Entry) /\ Len(r) = Len(s) + 1
             /\ Distinct(r)
             /\ \A i \in 1 .. Len(r) :
                  r[i] = e \/ \E j \in 1 .. Len(s) : r[i] = s[j]
<1> DEFINE before == SubSeq(s, 1, k)
           after  == SubSeq(s, k + 1, Len(s))
           head   == before \o <<e>>
           r      == head \o after
<1>0. Len(s) \in Nat /\ k \in Nat /\ k <= Len(s)
  OBVIOUS
<1>1. before \in Seq(Entry) /\ Len(before) = k /\ \A i \in 1 .. k : before[i] = s[i]
  BY <1>0
<1>2. /\ after \in Seq(Entry) /\ Len(after) = Len(s) - k
      /\ \A i \in 1 .. Len(s) - k : after[i] = s[i + k]
  BY <1>0
<1> HIDE DEF before, after
<1>3. /\ head \in Seq(Entry) /\ Len(head) = k + 1
      /\ \A i \in 1 .. k : head[i] = s[i]
      /\ head[k + 1] = e
  BY <1>0, <1>1
<1> HIDE DEF head
<1>4. /\ r \in Seq(Entry) /\ Len(r) = Len(s) + 1
      /\ \A i \in 1 .. k + 1 : r[i] = head[i]
      /\ \A i \in k + 2 .. Len(s) + 1 : r[i] = after[i - (k + 1)]
  BY <1>0, <1>2, <1>3
<1>5. ASSUME NEW i \in k + 2 .. Len(s) + 1
      PROVE  r[i] = s[i - 1]
  <2>1. i - (k + 1) \in 1 .. Len(s) - k /\ (i - (k + 1)) + k = i - 1
    BY <1>0
  <2> QED BY <1>2, <1>4, <2>1
<1> HIDE DEF r
<1> DEFINE from(i) == IF i <= k THEN i ELSE i - 1
<1>6. ASSUME NEW i \in 1 .. Len(s) + 1, i # k + 1
      PROVE  from(i) \in 1 .. Len(s) /\ r[i] = s[from(i)]
  BY <1>0, <1>3, <1>4, <1>5, <1>6
<1>7. r[k + 1] = e
  BY <1>0, <1>3, <1>4
<1>8. Distinct(r)
  <2> SUFFICES ASSUME NEW i \in 1 .. Len(s) + 1, NEW j \in 1 .. Len(s) + 1,
                      r[i].item = r[j].item
               PROVE  i = j
    BY <1>4 DEF Distinct
  <2>1. CASE i # k + 1 /\ j # k + 1
    <3>1. from(i) = from(j)
      BY <1>6, <2>1 DEF Distinct
    <3> QED BY <1>0, <2>1, <3>1
  <2>2. CASE i = k + 1 \/ j = k + 1
    <3>1. CASE i = k + 1 /\ j # k + 1
      BY <1>6, <1>7, <3>1
    <3>2. CASE j = k + 1 /\ i # k + 1
      BY <1>6, <1>7, <3>2
    <3> QED BY <2>2, <3>1, <3>2
  <2> QED BY <2>1, <2>2
<1>9. ASSUME NEW i \in 1 .. Len(r)
      PROVE  r[i] = e \/ \E j \in 1 .. Len(s) : r[i] = s[j]
  BY <1>4, <1>6, <1>7
<1> QED BY <1>4, <1>8, <1>9 DEF r, head, before, after

\* What an eviction of the tail leaves.
LEMMA FrontKeeps ==
  ASSUME NEW s \in Seq(Entry), s # <<>>
  PROVE  /\ Front(s) \in Seq(Entry) /\ Len(Front(s)) = Len(s) - 1
         /\ \A i \in 1 .. Len(Front(s)) : Front(s)[i] = s[i]
<1> DEFINE n == Len(s) - 1
<1>1. Len(s) \in Nat /\ Len(s) = n + 1 /\ n \in Nat
  OBVIOUS
<1>2. Front(s) = SubSeq(s, 1, n)
  BY DEF Front
<1> HIDE DEF n
<1>3. \A i \in 1 .. n : s[i] \in Entry
  BY <1>1
<1>4. SubSeq(s, 1, n) \in Seq(Entry)
  BY <1>1, <1>3
<1>5. Len(SubSeq(s, 1, n)) = n /\ \A i \in 1 .. n : SubSeq(s, 1, n)[i] = s[i]
  BY <1>1
<1> QED BY <1>1, <1>2, <1>4, <1>5

\* What the index that addConcept reads may miss: nothing.
LEMMA IndexReadCovers ==
  ASSUME FocusInv
  PROVE  Present \subseteq CurrentIndex /\ CurrentIndex \subseteq Items
<1>1. Present \subseteq Items
  <2>1. list \in Seq(Entry)
    BY DEF FocusInv
  <2>2. ASSUME NEW k \in DOMAIN list PROVE list[k] \in Entry
    BY <2>1
  <2> QED BY <2>2 DEF Present, Entry
<1> QED BY <1>1 DEF FocusInv, CurrentIndex, IndexCoversMemory

\* addConcept of a new id, with room or at the expense of the tail.
LEMMA AdmitKeepsInv ==
  ASSUME FocusInv, NEW id \in Items, NEW p \in Priorities, Admit(id, p)
  PROVE  FocusInv'
<1> DEFINE e == [item |-> id, priority |-> p]
<1>1. e \in Entry /\ e.item = id
  BY DEF Entry
<1>2. /\ list \in Seq(Entry) /\ Len(list) \in Nat /\ Len(list) <= Capacity /\ Capacity \in Nat
      /\ Distinct(list)
      /\ version \in 0 .. MaxVersion
  BY BagConstants DEF FocusInv
<1>3. \A i \in 1 .. Len(list) : list[i].item # id
  BY <1>2, IndexReadCovers DEF Admit, Present
<1>4. PICK s, t, stale :
        /\ InsertEntry(e, s, t, stale)
        /\ (s = list /\ Len(list) < Capacity) \/ (s = Front(list) /\ list # <<>>)
        /\ version' = version + 1 /\ version' <= MaxVersion
  <2>1. CASE AddToRoom(e)
    <3>1. InsertEntry(e, list, tree, treeStale) /\ Len(list) < Capacity
      BY <2>1 DEF AddToRoom, Room
    <3>2. version' = version + 1 /\ version' <= MaxVersion
      BY <1>2, <2>1 DEF AddToRoom, Bump
    <3> HIDE DEF e
    <3> QED BY <3>1, <3>2
  <2>2. CASE AddByOverflow(e)
    <3>1. list # <<>>
      BY <1>2, <2>2 DEF AddByOverflow, Room
    <3>2. InsertEntry(e, Front(list), TreeAfterDropLast, FALSE)
      BY <2>2 DEF AddByOverflow
    <3>3. version' = version + 1 /\ version' <= MaxVersion
      BY <1>2, <2>2 DEF AddByOverflow, Bump
    <3> HIDE DEF e
    <3> QED BY <3>1, <3>2, <3>3
  <2> QED BY <2>1, <2>2 DEF Admit, Add
<1>5. /\ s \in Seq(Entry) /\ Distinct(s) /\ Len(s) + 1 <= Capacity
      /\ \A i \in 1 .. Len(s) : s[i].item # e.item
      /\ \A i \in 1 .. Len(s) : s[i].item \in Present
  <2>1. CASE s = list /\ Len(list) < Capacity
    BY <1>2, <1>3, <2>1 DEF Present
  <2>2. CASE s = Front(list) /\ list # <<>>
    <3>2. /\ s \in Seq(Entry) /\ Len(s) = Len(list) - 1
          /\ \A i \in 1 .. Len(s) : s[i] = list[i]
      BY <1>2, <2>2, FrontKeeps
    <3>3. \A i \in 1 .. Len(s) : i \in DOMAIN list /\ i \in 1 .. Len(list)
      BY <1>2, <3>2
    <3>4. Distinct(s)
      BY <1>2, <3>2, <3>3 DEF Distinct
    <3>5. \A i \in 1 .. Len(s) : s[i].item # e.item /\ s[i].item \in Present
      BY <1>1, <1>3, <3>2, <3>3 DEF Present
    <3> QED BY <1>2, <3>2, <3>4, <3>5
  <2> QED BY <1>4, <2>1, <2>2
<1> HIDE DEF e
<1>6. PICK k \in 0 .. Len(s) : list' = SubSeq(s, 1, k) \o <<e>> \o SubSeq(s, k + 1, Len(s))
  BY <1>4 DEF InsertEntry
<1>7. /\ list' \in Seq(Entry) /\ Len(list') = Len(s) + 1 /\ Distinct(list')
      /\ \A i \in 1 .. Len(list') : list'[i] = e \/ \E j \in 1 .. Len(s) : list'[i] = s[j]
  BY <1>1, <1>5, <1>6, InsertKeepsDistinct
<1>8. Present' \subseteq Present \cup {id}
  BY <1>1, <1>5, <1>7 DEF Present
<1>9. conceptsById' = CurrentIndex \cup {id} /\ indexVersion' = version'
  BY DEF Admit
<1>10. IndexCoversMemory'
  BY <1>8, <1>9, IndexReadCovers DEF IndexCoversMemory
<1> QED BY <1>2, <1>4, <1>5, <1>7, <1>9, <1>10, IndexReadCovers, BagConstants DEF FocusInv, Distinct

\* addConcept of a known id: the items stay where they are.
LEMMA RaiseKeepsInv ==
  ASSUME FocusInv, NEW id \in Items, NEW p \in Priorities, Raise(id, p)
  PROVE  FocusInv'
<1>1. /\ list \in Seq(Entry) /\ Len(list) \in Nat /\ Distinct(list)
      /\ DOMAIN list = 1 .. Len(list)
  BY DEF FocusInv
<1> DEFINE raised(k) == IF list[k].item = id
                        THEN [list[k] EXCEPT !.priority = MaxOf(list[k].priority, p)] ELSE list[k]
<1>2. list' = [k \in 1 .. Len(list) |-> raised(k)]
  BY <1>1 DEF Raise
<1>3. ASSUME NEW k \in 1 .. Len(list)
      PROVE  raised(k) \in Entry /\ raised(k).item = list[k].item
  <2>1. list[k] \in Entry
    BY <1>1
  <2> QED BY <2>1 DEF Entry, MaxOf
<1> HIDE DEF raised
<1>4. list' \in Seq(Entry) /\ Len(list') = Len(list)
  BY <1>1, <1>2, <1>3
<1>5. \A k \in 1 .. Len(list) : list'[k].item = list[k].item
  BY <1>2, <1>3
<1>6. Distinct(list') /\ Present' = Present
  BY <1>1, <1>4, <1>5 DEF Distinct, Present
<1>7. conceptsById' = CurrentIndex /\ indexVersion' = version /\ version' = version
  BY DEF Raise
<1> QED BY <1>4, <1>6, <1>7, IndexReadCovers DEF FocusInv, IndexCoversMemory, Distinct

\* The decay at the end of a step: survivors keep their items, and the version
\* leaves the index behind.
LEMMA AgeKeepsInv ==
  ASSUME FocusInv, NEW keep \in KeepRates, Age(keep)
  PROVE  FocusInv'
<1> DEFINE alive == {k \in DOMAIN list : Decayed(list[k].priority, keep) > 0}
           n == Cardinality(alive)
<1>1. /\ list \in Seq(Entry) /\ Len(list) \in Nat /\ Distinct(list)
      /\ DOMAIN list = 1 .. Len(list) /\ Len(list) <= Capacity /\ Capacity \in Nat
  BY BagConstants DEF FocusInv
<1>2. PICK f \in Kept(alive) :
        list' = [k \in DOMAIN f |->
                   [list[f[k]] EXCEPT !.priority = Decayed(list[f[k]].priority, keep)]]
  BY DEF Age, Decay
<1>3. n \in Nat /\ n <= Len(list)
  BY <1>1, KeptIsShort
<1>4. /\ DOMAIN f = 1 .. n
      /\ \A i \in 1 .. n : f[i] \in 1 .. Len(list)
      /\ \A i, j \in 1 .. n : f[i] = f[j] => i = j
  <2>1. /\ DOMAIN f = 1 .. n
        /\ \A i \in 1 .. n : f[i] \in 1 .. Len(list)
        /\ \A i, j \in 1 .. n : i < j => f[i] < f[j]
    BY <1>1 DEF Kept
  <2> QED BY <1>3, <2>1
<1> HIDE DEF alive, n
<1> DEFINE aged(k) == [list[f[k]] EXCEPT !.priority = Decayed(list[f[k]].priority, keep)]
<1>5. list' = [k \in 1 .. n |-> aged(k)]
  BY <1>2, <1>4
<1>6. ASSUME NEW k \in 1 .. n
      PROVE  aged(k) \in Entry /\ aged(k).item = list[f[k]].item
  <2>0. f[k] \in 1 .. Len(list)
    BY <1>4
  <2>1. list[f[k]] \in Entry /\ list[f[k]].priority \in Priorities
    BY <1>1, <2>0, EntryPriority
  <2>2. Decayed(list[f[k]].priority, keep) \in Priorities
    BY <2>1, DecayIsMonotone, EntryPriority
  <2> QED BY <2>1, <2>2 DEF Entry
<1> HIDE DEF aged
<1>7. list' \in Seq(Entry) /\ Len(list') = n
  BY <1>3, <1>5, <1>6
<1>8. Distinct(list')
  <2> SUFFICES ASSUME NEW i \in 1 .. n, NEW j \in 1 .. n, list'[i].item = list'[j].item
               PROVE  i = j
    BY <1>7 DEF Distinct
  <2>1. list'[i].item = list[f[i]].item /\ list'[j].item = list[f[j]].item
    BY <1>5, <1>6
  <2>2. f[i] \in 1 .. Len(list) /\ f[j] \in 1 .. Len(list)
    BY <1>4
  <2>3. f[i] = f[j]
    BY <1>1, <2>1, <2>2 DEF Distinct
  <2> QED BY <1>4, <2>3
<1>9. /\ version' = version + 1 /\ version' <= MaxVersion
      /\ indexVersion' = indexVersion /\ conceptsById' = conceptsById
  BY DEF Age, Decay, Bump, indexVars
<1> QED BY <1>1, <1>3, <1>7, <1>8, <1>9, BagConstants DEF FocusInv, IndexCoversMemory, Distinct

\* Every call of a focus on its memory.
LEMMA FocusInvInductive ==
  ASSUME FocusInv, [FocusNext]_focusVars
  PROVE  FocusInv'
<1>1. ASSUME NEW id \in Items, NEW p \in Priorities, Raise(id, p) \/ Admit(id, p)
      PROVE  FocusInv'
  BY <1>1, RaiseKeepsInv, AdmitKeepsInv
<1>2. ASSUME NEW id \in Items, NEW p \in Priorities, Refuse(id, p)
      PROVE  FocusInv'
  BY <1>2, IndexReadCovers DEF Refuse, FocusInv, IndexCoversMemory, bagVars, Present, Distinct
<1>3. CASE ReadIndex
  BY <1>3, IndexReadCovers DEF ReadIndex, FocusInv, IndexCoversMemory, bagVars, Present, Distinct
<1>4. CASE ReportPressure
  BY <1>4 DEF ReportPressure, Pressure, FocusInv, IndexCoversMemory, indexVars, Present, Distinct
<1>5. CASE UNCHANGED focusVars
  BY <1>5 DEF focusVars, FocusInv, IndexCoversMemory, Present, Distinct
<1> QED BY <1>1, <1>2, <1>3, <1>4, <1>5, AgeKeepsInv DEF FocusNext

LEMMA FocusInvInitial == FocusInit => FocusInv
BY BagConstants DEF FocusInit, Init, FocusInv, Distinct, IndexCoversMemory

\* A term never gets a second concept, however admissions, evictions, raises and
\* decays interleave with reads of a stale or a fresh index.
THEOREM ConceptsAreUnique == FocusSpec => []NoDuplicates
<1>1. FocusInv => NoDuplicates
  BY DEF FocusInv, NoDuplicates, Distinct
<1> QED BY <1>1, FocusInvInitial, FocusInvInductive, PTL DEF FocusSpec

\* An index that claims to be current finds every concept the memory holds.
THEOREM IndexMissesNothing == FocusSpec => []IndexCoversMemory
<1>1. FocusInv => IndexCoversMemory
  BY DEF FocusInv
<1> QED BY <1>1, FocusInvInitial, FocusInvInductive, PTL DEF FocusSpec
=============================================================================

----------------------------- MODULE PriorityBag -----------------------------
(***************************************************************************)
(* util/src/bag: the AIKR priority bag.  A priority-descending store of    *)
(* entries with a Fenwick tree over it, a cached total and a version.      *)
(* Priorities are naturals (the code's are floats in [0, 1]); recency,     *)
(* which only chooses the victim of an LRU eviction, is left open.         *)
(***************************************************************************)
EXTENDS Integers, SequencesExt

CONSTANTS Items,        \* identities of the items a caller may offer
          Capacity,     \* BagOptions.capacity
          MaxPriority,  \* priorities are 0..MaxPriority
          KeepRates,    \* what a decay keeps of a priority, out of MaxPriority
          ForgetRate,   \* a decayed priority below this is zeroed
          MaxVersion    \* bound on the version counter, for TLC

ASSUME BagConstants ==
  /\ Capacity \in Nat /\ MaxPriority \in Nat \ {0} /\ MaxVersion \in Nat
  /\ KeepRates \subseteq 0 .. MaxPriority /\ ForgetRate \in Nat

VARIABLES list,           \* the store
          totalPriority,  \* cached sum of the priorities in list
          tree,           \* FenwickTree.tree, nodes 1..Capacity
          treeStale,      \* a mutation the tree could not absorb
          version,        \* bumped by every structural mutation
          pressureLevel   \* lastPressureLevel

bagVars == <<list, totalPriority, tree, treeStale, version, pressureLevel>>

Priorities == 0 .. MaxPriority
Entry == [item : Items, priority : Priorities]
Present == {list[k].item : k \in DOMAIN list}
Total(s) == FoldLeft(LAMBDA acc, e : acc + e.priority, 0, s)

-----------------------------------------------------------------------------
(* The Fenwick tree.                                                        *)

Nodes == 1 .. Capacity
PowersOfTwo == {2 ^ b : b \in 0 .. Capacity}
LowBit(i) == Max({p \in PowersOfTwo : i % p = 0})
HighestBit(n) == Max({b \in 0 .. Capacity : b = 0 \/ 2 ^ b <= n})   \* its position

\* add(index, delta): every node whose range holds position index + 1 takes delta.
FenwickAdd(t, index, delta) ==
  [j \in DOMAIN t |->
     IF j - LowBit(j) <= index /\ index < j THEN t[j] + delta ELSE t[j]]

\* Mutant: no node is folded into its parent.
LiftedNever(t, i, n) == t
\* Node i is folded into its parent, when the store reaches that far.
Lifted(t, i, n) ==
  IF i + LowBit(i) <= n THEN [t EXCEPT ![i + LowBit(i)] = @ + t[i]] ELSE t

\* rebuild(store): leaves, then each node folded into its parent.
Leaves(s) == [j \in Nodes |-> IF j <= Len(s) THEN s[j].priority ELSE 0]
Rebuild(s) ==
  FoldLeft(LAMBDA t, i : Lifted(t, i, Len(s)), Leaves(s), [i \in 1 .. Len(s) |-> i])

\* Binary lifting goes past a node that leaves some of the target.
Descended(t, n, at, step) ==
  IF at.idx + step < n /\ t[at.idx + step] < at.remaining
  THEN [idx |-> at.idx + step, remaining |-> at.remaining - t[at.idx + step]] ELSE at

\* findByPrefixSum(target, length): the 0-based index it ends on, from the highest
\* power down.
Powers(n) == [k \in 1 .. HighestBit(n) + 1 |-> 2 ^ ((HighestBit(n) + 1) - k)]
FindByPrefixSum(t, target, length) ==
  FoldLeft(LAMBDA at, step : Descended(t, length, at, step),
           [idx |-> 0, remaining |-> target], Powers(length)).idx

\* The tree a read of it would use, before and after the read (syncTree).
Synced(s, t, stale) == IF stale THEN Rebuild(s) ELSE t

-----------------------------------------------------------------------------
(* The store.                                                               *)

\* Mutant: no search, any place will do.
InsertPointAnywhere(s, priority, k) == k \in 0 .. Len(s)

\* insertIndex: where the binary search may end (one place in a sorted store).
InsertPoint(s, priority, k) ==
  /\ k > 0 => s[k].priority >= priority
  /\ k < Len(s) => s[k + 1].priority < priority

\* insertEntry into store s over tree t: only a tail insert is a point update.
InsertEntry(e, s, t, stale) ==
  \E k \in 0 .. Len(s) :
    /\ InsertPoint(s, e.priority, k)
    /\ list' = SubSeq(s, 1, k) \o <<e>> \o SubSeq(s, k + 1, Len(s))
    /\ IF ~stale /\ k = Len(s)
       THEN tree' = FenwickAdd(t, k, e.priority) /\ treeStale' = FALSE
       ELSE tree' = t /\ treeStale' = TRUE

\* The tree after dropLast: read (and rebuilt when stale) once the tail is gone.
TreeAfterDropLast ==
  LET s == Front(list)
  IN  FenwickAdd(Synced(s, tree, treeStale), Len(s), -Last(list).priority)

\* The increasing enumerations of a set of positions: what a filter keeps.
Kept(S) == {f \in [1 .. Cardinality(S) -> S] :
              \A i, j \in DOMAIN f : i < j => f[i] < f[j]}
Select(f) == [k \in DOMAIN f |-> list[f[k]]]
Positions(ids) == {k \in DOMAIN list : list[k].item \in ids}

\* eraseAt and replaceAll: the positions in S stay, the tree goes stale.
KeepOnly(S) ==
  /\ \E f \in Kept(S) : list' = Select(f)
  /\ treeStale' = TRUE
  /\ UNCHANGED tree

Bump(n) == version + n <= MaxVersion /\ version' = version + n

-----------------------------------------------------------------------------
(* Operations.  Each is one call, run to completion: the bag never awaits.  *)

Init ==
  /\ list = <<>> /\ totalPriority = 0
  /\ tree = [j \in Nodes |-> 0] /\ treeStale = TRUE
  /\ version = 0 /\ pressureLevel = "normal"

\* Mutant: one entry too many.
RoomOffByOne == Len(list) <= Capacity
\* add's first test.
Room == Len(list) < Capacity

\* add below capacity.
AddToRoom(e) ==
  /\ Capacity > 0 /\ Room
  /\ InsertEntry(e, list, tree, treeStale)
  /\ totalPriority' = totalPriority + e.priority
  /\ Bump(1)
  /\ UNCHANGED pressureLevel

\* shouldOverflow: a newcomer must outrank the tail to take its place.
Overflows(priority) == Last(list).priority < priority

\* Mutant: the displaced tail is never subtracted.
DisplacedStillCounted(e) == totalPriority + e.priority
\* totalPriority once the tail has been replaced by e.
DisplacedTotal(e) == totalPriority - Last(list).priority + e.priority

\* add at capacity: drop the tail, then insert.
AddByOverflow(e) ==
  /\ Capacity > 0 /\ ~Room
  /\ Overflows(e.priority)
  /\ InsertEntry(e, Front(list), TreeAfterDropLast, FALSE)
  /\ totalPriority' = DisplacedTotal(e)
  /\ Bump(1)
  /\ UNCHANGED pressureLevel

\* sample: the state it leaves; which entry it returns is FindByPrefixSum's.
Sample ==
  LET total == IF totalPriority <= 0 /\ list # <<>> THEN Total(list) ELSE totalPriority
  IN  /\ totalPriority' = total
      /\ IF list = <<>> \/ total <= 0 THEN UNCHANGED <<tree, treeStale>>
         ELSE tree' = Synced(list, tree, treeStale) /\ treeStale' = FALSE
      /\ UNCHANGED <<list, version, pressureLevel>>

\* remove, and evict by recency or at random: one entry, wherever it stands.
DropAt(k) ==
  /\ totalPriority' = totalPriority - list[k].priority
  /\ KeepOnly(DOMAIN list \ {k})
  /\ Bump(1)
  /\ UNCHANGED pressureLevel

\* removeAll(ids): one filter, one version bump, none when nothing matched.
RemoveAll(ids) ==
  /\ Positions(ids) # {}
  /\ KeepOnly(DOMAIN list \ Positions(ids))
  /\ totalPriority' = Total(list')
  /\ Bump(1)
  /\ UNCHANGED pressureLevel

\* removeMany(predicate): dropAt for each match, from the tail.
RemoveMany(ids) ==
  /\ Positions(ids) # {}
  /\ KeepOnly(DOMAIN list \ Positions(ids))
  /\ totalPriority' = totalPriority - MapThenSumSet(LAMBDA k : list[k].priority, Positions(ids))
  /\ Bump(Cardinality(Positions(ids)))
  /\ UNCHANGED pressureLevel

\* evict('LowestPriority').
EvictLowest ==
  /\ list # <<>>
  /\ totalPriority' = totalPriority - Last(list).priority
  /\ list' = Front(list)
  /\ tree' = TreeAfterDropLast /\ treeStale' = FALSE
  /\ Bump(1)
  /\ UNCHANGED pressureLevel

\* retain, then the forget threshold.
Decayed(priority, keep) ==
  LET kept == (priority * keep) \div MaxPriority
  IN  IF kept < ForgetRate THEN 0 ELSE kept

\* decay(rate): age every entry, drop the ones that reach zero.
Decay(keep) ==
  LET alive == {k \in DOMAIN list : Decayed(list[k].priority, keep) > 0}
  IN  /\ \E f \in Kept(alive) :
           list' = [k \in DOMAIN f |->
                      [list[f[k]] EXCEPT !.priority = Decayed(@, keep)]]
      /\ totalPriority' = Total(list')
      /\ treeStale' = TRUE
      /\ Bump(1)
      /\ UNCHANGED <<tree, pressureLevel>>

Clear ==
  /\ list' = <<>> /\ totalPriority' = 0 /\ treeStale' = TRUE
  /\ Bump(1)
  /\ UNCHANGED <<tree, pressureLevel>>

\* occupancy against PRESSURE.HIGH and PRESSURE.CRITICAL.
Level ==
  IF 10 * Len(list) >= 9 * Capacity THEN "critical"
  ELSE IF 10 * Len(list) >= 7 * Capacity THEN "high" ELSE "normal"

\* pressure(): the only place a level change is noticed.
Pressure ==
  /\ Level # pressureLevel
  /\ pressureLevel' = Level
  /\ UNCHANGED <<list, totalPriority, tree, treeStale, version>>

\* A caller offers an object the bag does not hold.
Add(i, p) == LET e == [item |-> i, priority |-> p] IN AddToRoom(e) \/ AddByOverflow(e)

Next ==
  \/ \E i \in Items \ Present, p \in Priorities : Add(i, p)
  \/ Sample \/ EvictLowest \/ Clear \/ Pressure
  \/ \E k \in DOMAIN list : DropAt(k)
  \/ \E ids \in SUBSET Present : RemoveAll(ids) \/ RemoveMany(ids)
  \/ \E keep \in KeepRates : Decay(keep)

Spec == Init /\ [][Next]_bagVars

-----------------------------------------------------------------------------
(* Properties.                                                              *)

\* The state has its shape and the store never outgrows the capacity the tree
\* was sized to (fenwick.ts: "the store never exceeds capacity").
TypeOK ==
  /\ list \in Seq(Entry) /\ Len(list) <= Capacity
  /\ totalPriority \in Int
  /\ tree \in [Nodes -> Int] /\ treeStale \in BOOLEAN
  /\ version \in 0 .. MaxVersion
  /\ pressureLevel \in {"normal", "high", "critical"}

\* The store is in descending priority order, the order evict, peek, the
\* iterators and admission at capacity all rely on.
Sorted ==
  \A i, j \in DOMAIN list : i < j => list[i].priority >= list[j].priority

\* The cached total that scales every sampling target is the sum of what the
\* store holds, through the six operations that adjust it incrementally or not.
TotalMatches == totalPriority = Total(list)

\* Sampling target k (the k-th unit of priority mass) belongs to the entry
\* whose share of the mass contains it.
PickIsFaithful(t) ==
  \A target \in 1 .. Total(list) :
    LET picked == FindByPrefixSum(t, target, Len(list)) IN
      /\ Total(SubSeq(list, 1, picked)) < target
      /\ target <= Total(SubSeq(list, 1, picked + 1))

\* A rebuilt tree, descended by binary lifting, picks in proportion to priority.
RebuildIsFaithful == PickIsFaithful(Rebuild(list))

-----------------------------------------------------------------------------
(* What a comment of the code says and the code does not do.                 *)

\* The class comment's promise: an append or a tail drop is a single point
\* update, so a tree that is not stale picks as a rebuilt one would.
FreshTreeIsFaithful ==
  (~treeStale /\ totalPriority = Total(list)) => PickIsFaithful(tree)
=============================================================================

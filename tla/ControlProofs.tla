--------------------------- MODULE ControlProofs ----------------------------
(***************************************************************************)
(* What bounds a run.  BudgetGate, for any dimensions, scopes, ceilings    *)
(* and costs: that a charge fits is decided on the counter of the scope,   *)
(* so the invariant says that the counter is exactly what was granted and  *)
(* never above the ceiling.  CognitiveThread, for any threads, dimensions  *)
(* and requests: what a slice lent is a sum over its children.             *)
(* CycleControl, for any drivers, inputs, intervals and budget of the      *)
(* window.                                                                 *)
(***************************************************************************)
EXTENDS BudgetGate, CognitiveThread, CycleControl, SequenceLemmas

-----------------------------------------------------------------------------
(* BudgetGate: the per-cycle bound of every budget scope.                    *)

\* A budget that has not spent more than it may.
Solvent(b) == b \in Budgets /\ \A d \in Dims : b.spent[d] <= b.limit[d]

\* The counter of an open scope is what the scope was granted; nothing is owed
\* to a scope that is not open.
Accounted ==
  /\ \A s \in Open : Solvent(scopes[s]) /\ granted[s] = scopes[s].spent
  /\ \A s \in Scopes \ Open : granted[s] = Zero

GateInv ==
  /\ root \in Budgets
  /\ Open \subseteq Scopes
  /\ granted \in [Scopes -> [Dims -> 0 .. MaxLimit]]
  /\ Accounted

-----------------------------------------------------------------------------

LEMMA ZeroIsACounter == Zero \in [Dims -> 0 .. MaxLimit]
BY GateConstants DEF Zero

\* A check keeps a budget a budget, whether it charges or refuses.
LEMMA CheckedIsABudget ==
  ASSUME NEW b \in Budgets, NEW d \in Dims, NEW cost \in Nat \ {0}
  PROVE  Checked(b, d, cost) \in Budgets
<1>1. CASE Affords(b, d, cost)
  <2>1. b.spent[d] + cost \in 0 .. MaxLimit
    BY <1>1, GateConstants DEF Affords, Budgets
  <2>2. [b.spent EXCEPT ![d] = @ + cost] \in [Dims -> 0 .. MaxLimit]
    BY <2>1 DEF Budgets
  <2> QED BY <1>1, <2>2 DEF Checked, Budgets, Reasons
<1>2. CASE ~ Affords(b, d, cost)
  BY <1>2 DEF Checked, Refusal, Budgets, Reasons
<1> QED BY <1>1, <1>2

\* A charge that is granted fits: a solvent budget stays solvent, and its
\* counter grows by exactly what was granted.
LEMMA CheckedStaysSolvent ==
  ASSUME NEW b, Solvent(b), NEW d \in Dims, NEW cost \in Nat \ {0}
  PROVE  /\ Solvent(Checked(b, d, cost))
         /\ Checked(b, d, cost).spent = [b.spent EXCEPT ![d] = @ + Granted(b, d, cost)]
<1>1. b \in Budgets
  BY DEF Solvent
<1>2. Checked(b, d, cost) \in Budgets
  BY <1>1, CheckedIsABudget
<1>3. CASE Affords(b, d, cost)
  <2>1. /\ Checked(b, d, cost).spent = [b.spent EXCEPT ![d] = @ + cost]
        /\ Checked(b, d, cost).limit = b.limit
    BY <1>1, <1>3 DEF Checked, Budgets
  <2>2. \A e \in Dims : [b.spent EXCEPT ![d] = @ + cost][e] <= b.limit[e]
    BY <1>1, <1>3, GateConstants DEF Affords, Solvent, Budgets
  <2> QED BY <1>2, <1>3, <2>1, <2>2 DEF Solvent, Granted
<1>4. CASE ~ Affords(b, d, cost)
  <2>1. /\ Checked(b, d, cost).spent = b.spent
        /\ Checked(b, d, cost).limit = b.limit
    BY <1>1, <1>4 DEF Checked, Budgets
  <2>2. [b.spent EXCEPT ![d] = @ + 0] = b.spent
    BY <1>1 DEF Budgets
  <2> QED BY <1>2, <1>4, <2>1, <2>2 DEF Solvent, Granted
<1> QED BY <1>3, <1>4

\* The three ways to come by a new account: all of them unspent.
LEMMA FreshIsUnspent ==
  ASSUME NEW b \in Budgets
  PROVE  Fresh(b) \in Budgets /\ Solvent(Fresh(b)) /\ Fresh(b).spent = Zero
<1>1. Fresh(b) = [b EXCEPT !.spent = Zero, !.reason = "none"]
  BY DEF Fresh
<1>2. Fresh(b) \in Budgets /\ Fresh(b).spent = Zero /\ Fresh(b).limit = b.limit
  BY <1>1, ZeroIsACounter DEF Budgets, Reasons
<1>3. \A d \in Dims : Zero[d] = 0 /\ b.limit[d] \in 0 .. MaxLimit
  BY DEF Zero, Budgets
<1>4. \A d \in Dims : Fresh(b).spent[d] <= Fresh(b).limit[d]
  BY <1>2, <1>3, GateConstants
<1> QED BY <1>2, <1>4 DEF Solvent

LEMMA StampKeepsTheAccount ==
  ASSUME NEW b \in Budgets, NEW id \in Ids
  PROVE  /\ Stamped(b, id) \in Budgets
         /\ Stamped(b, id).spent = b.spent /\ Stamped(b, id).limit = b.limit
BY DEF Stamped, Budgets

LEMMA InheritedIsUnspent ==
  ASSUME root \in Budgets, NEW s \in Scopes
  PROVE  Solvent(Stamped(Fresh(root), s)) /\ Stamped(Fresh(root), s).spent = Zero
<1>1. s \in Ids
  BY DEF Ids
<1> QED BY <1>1, FreshIsUnspent, StampKeepsTheAccount DEF Solvent

LEMMA DeclaredIsUnspent ==
  ASSUME root \in Budgets, NEW s \in Declared
  PROVE  Solvent(DeclaredBudget(s)) /\ DeclaredBudget(s).spent = Zero
<1> DEFINE b == [Fresh(root) EXCEPT !.limit[Spends[s]] = Ceiling[s]]
<1>1. Fresh(root) \in Budgets /\ Fresh(root).spent = Zero
  BY FreshIsUnspent
<1>2. Spends[s] \in Dims /\ Ceiling[s] \in 0 .. MaxLimit
  BY GateConstants
<1>3. b \in Budgets /\ b.spent = Zero
  BY <1>1, <1>2 DEF Budgets
<1> HIDE DEF b
<1>4. s \in Ids /\ "root" \in Ids
  BY DEF Ids, Scopes
<1>5. DeclaredBudget(s) \in Budgets /\ DeclaredBudget(s).spent = Zero
  BY <1>3, <1>4, StampKeepsTheAccount DEF DeclaredBudget, b
<1> QED BY <1>5, GateConstants DEF Solvent, Budgets, Zero

\* The budget a scope's check runs on is the scope's own account, or a new one
\* that owes nothing, as the history says of a scope that is not open.
LEMMA ResolvedIsTheAccount ==
  ASSUME GateInv, NEW s \in Scopes
  PROVE  Solvent(Resolved(s)) /\ Resolved(s).spent = granted[s]
BY InheritedIsUnspent DEF Resolved, GateInv, Accounted

LEMMA OpenedIsTheAccount ==
  ASSUME GateInv, NEW s \in Declared
  PROVE  Solvent(Opened(s)) /\ Opened(s).spent = granted[s]
BY DeclaredIsUnspent DEF Opened, GateInv, Accounted, Scopes

-----------------------------------------------------------------------------

\* A check of a scope on its account keeps every account right.
LEMMA CheckKeepsAccounts ==
  ASSUME GateInv, NEW s \in Scopes, NEW b, Solvent(b), b.spent = granted[s],
         NEW d \in Dims, NEW cost \in Nat \ {0}, CheckAs(s, b, d, cost)
  PROVE  GateInv'
<1> DEFINE c == Checked(b, d, cost)
           g == Granted(b, d, cost)
<1>1. Solvent(c) /\ c.spent = [b.spent EXCEPT ![d] = @ + g]
  BY CheckedStaysSolvent
<1>2. /\ scopes' = [k \in Open \cup {s} |-> IF k = s THEN c ELSE scopes[k]]
      /\ granted' = [granted EXCEPT ![s][d] = @ + g]
      /\ root' = root
  BY DEF CheckAs, Put, Open
<1>3. c.spent \in [Dims -> 0 .. MaxLimit]
  BY <1>1 DEF Solvent, Budgets
<1> HIDE DEF c, g
<1>4. granted'[s] = c.spent /\ \A k \in Scopes \ {s} : granted'[k] = granted[k]
  BY <1>1, <1>2 DEF GateInv
<1>5. granted' \in [Scopes -> [Dims -> 0 .. MaxLimit]]
  BY <1>2, <1>3, <1>4 DEF GateInv
<1>6. Open' = Open \cup {s} /\ scopes'[s] = c /\ \A k \in Open \ {s} : scopes'[k] = scopes[k]
  BY <1>2 DEF Open
<1>7. \A k \in Open' : Solvent(scopes'[k]) /\ granted'[k] = scopes'[k].spent
  BY <1>1, <1>4, <1>6 DEF GateInv, Accounted
<1>8. \A k \in Scopes \ Open' : granted'[k] = Zero
  BY <1>4, <1>6 DEF GateInv, Accounted
<1> QED BY <1>2, <1>5, <1>6, <1>7, <1>8 DEF GateInv, Accounted, Solvent

\* Every call, one by one.
LEMMA GateInvInductive ==
  ASSUME GateInv, [BudgetNext]_gateVars
  PROVE  GateInv'
<1> USE DEF GateInv
<1>1. ASSUME NEW d \in Dims, NEW cost \in Costs, CheckRoot(d, cost)
      PROVE  GateInv'
  <2>1. root' \in Budgets
    BY <1>1, CheckedIsABudget, GateConstants DEF CheckRoot
  <2> QED BY <1>1, <2>1 DEF CheckRoot, Accounted, Solvent, Open
<1>2. ASSUME NEW s \in Declared, NEW cost \in Costs, Charge(s, cost)
      PROVE  GateInv'
  <2>1. s \in Scopes /\ Spends[s] \in Dims /\ cost \in Nat \ {0}
    BY GateConstants DEF Scopes
  <2> QED BY <1>2, <2>1, OpenedIsTheAccount, CheckKeepsAccounts DEF Charge
<1>3. ASSUME NEW cost \in Costs, Judge(cost)
      PROVE  GateInv'
  <2>1. Judged \in Scopes /\ Spends[Judged] \in Dims /\ cost \in Nat \ {0}
    BY GateConstants DEF Scopes
  <2> QED BY <1>3, <2>1, ResolvedIsTheAccount, CheckKeepsAccounts DEF Judge
<1>4. ASSUME NEW f \in Focuses, FocusStep(f)
      PROVE  GateInv'
  <2>1. f \in Scopes /\ "cycles" \in Dims
    BY GateConstants DEF Scopes
  <2> QED BY <1>4, <2>1, ResolvedIsTheAccount, CheckKeepsAccounts DEF FocusStep
<1>5. ASSUME NEW f \in Focuses, GameTick(f)
      PROVE  GateInv'
  <2> DEFINE b == Stamped(Fresh(root), f)
             c == Checked(b, "cycles", 1)
             g == Granted(b, "cycles", 1)
  <2>1. f \in Scopes /\ "cycles" \in Dims
    BY GateConstants DEF Scopes
  <2>2. Solvent(b) /\ b.spent = Zero
    BY <2>1, InheritedIsUnspent
  <2> HIDE DEF b
  <2>3. Solvent(c) /\ c.spent = [Zero EXCEPT !["cycles"] = @ + g]
    BY <2>1, <2>2, CheckedStaysSolvent
  <2>4. /\ scopes' = [k \in Open \cup {f} |-> IF k = f THEN c ELSE scopes[k]]
        /\ granted' = [granted EXCEPT ![f] = [Zero EXCEPT !["cycles"] = g]]
        /\ root' = root
    BY <1>5 DEF GameTick, Put, Open, b
  <2>5. g \in Nat
    BY DEF Granted
  <2> HIDE DEF c, g
  <2>6. [Zero EXCEPT !["cycles"] = g] = c.spent
    BY <2>1, <2>3, <2>5 DEF Zero
  <2>7. c.spent \in [Dims -> 0 .. MaxLimit]
    BY <2>3 DEF Solvent, Budgets
  <2>8. granted'[f] = c.spent /\ \A k \in Scopes \ {f} : granted'[k] = granted[k]
    BY <2>1, <2>4, <2>6
  <2>9. Open' = Open \cup {f} /\ scopes'[f] = c /\ \A k \in Open \ {f} : scopes'[k] = scopes[k]
    BY <2>4 DEF Open
  <2>10. granted' \in [Scopes -> [Dims -> 0 .. MaxLimit]]
    BY <2>1, <2>4, <2>6, <2>7
  <2>11. Accounted'
    <3>1. \A k \in Open' : k = f \/ (k \in Open \ {f} /\ k \in Scopes \ {f})
      BY <2>9
    <3>2. \A k \in Open' : Solvent(scopes'[k]) /\ granted'[k] = scopes'[k].spent
      BY <2>3, <2>8, <2>9, <3>1 DEF Accounted
    <3>3. \A k \in Scopes \ Open' : granted'[k] = Zero
      BY <2>8, <2>9 DEF Accounted
    <3> QED BY <3>2, <3>3 DEF Accounted
  <2> QED BY <2>1, <2>4, <2>9, <2>10, <2>11
<1>6. ASSUME NEW f \in Focuses, Release(f)
      PROVE  GateInv'
  <2>1. f \in Scopes
    BY DEF Scopes
  <2>2. Open' = Open \ {f} /\ \A k \in Open' : scopes'[k] = scopes[k]
    BY <1>6 DEF Release, Open
  <2>3. /\ granted' = [granted EXCEPT ![f] = Zero]
        /\ root' = root
    BY <1>6 DEF Release, Renewed
  <2>4. granted' \in [Scopes -> [Dims -> 0 .. MaxLimit]]
    BY <2>3, ZeroIsACounter
  <2>5. Accounted'
    <3>1. granted'[f] = Zero /\ \A k \in Scopes \ {f} : granted'[k] = granted[k]
      BY <2>1, <2>3
    <3>2. \A k \in Open' : k \in Open /\ k # f /\ k \in Scopes
      BY <2>2
    <3>3. \A k \in Open' : Solvent(scopes'[k]) /\ granted'[k] = scopes'[k].spent
      BY <2>2, <3>1, <3>2 DEF Accounted
    <3>4. \A k \in Scopes \ Open' : granted'[k] = Zero
      BY <2>2, <3>1 DEF Accounted
    <3> QED BY <3>3, <3>4 DEF Accounted
  <2> QED BY <2>2, <2>3, <2>4, <2>5
<1>7. ASSUME NEW m \in CycleLimits, AdjustCycleBudget(m)
      PROVE  GateInv'
  <2> DEFINE b == [root EXCEPT !.limit["cycles"] = m]
  <2>1. m \in 0 .. MaxLimit /\ "root" \in Ids
    BY GateConstants DEF Ids
  <2>2. b \in Budgets
    BY <2>1 DEF Budgets
  <2>3. root' \in Budgets
    BY <1>7, <2>1, <2>2, StampKeepsTheAccount DEF AdjustCycleBudget
  <2> QED BY <1>7, <2>3 DEF AdjustCycleBudget, Accounted, Solvent, Open
<1>8. CASE BeginCycle
  <2>1. /\ Open' = Open \cup Declared
        /\ \A k \in Declared : scopes'[k] = Fresh(Opened(k)) /\ granted'[k] = Zero
        /\ \A k \in Open \ Declared : scopes'[k] = scopes[k]
        /\ \A k \in Scopes \ Declared : granted'[k] = granted[k]
        /\ granted' = [s \in Scopes |-> IF s \in Declared THEN Zero ELSE granted[s]]
        /\ root' = root
    BY <1>8 DEF BeginCycle, Scopes, Open
  <2>2. \A k \in Declared : Solvent(scopes'[k]) /\ scopes'[k].spent = Zero
    <3> TAKE k \in Declared
    <3>1. Opened(k) \in Budgets
      BY OpenedIsTheAccount DEF Solvent
    <3> QED
      BY <2>1, <3>1, FreshIsUnspent
  <2>3. granted' \in [Scopes -> [Dims -> 0 .. MaxLimit]]
    BY <2>1, ZeroIsACounter
  <2>4. Accounted'
    BY <2>1, <2>2 DEF Accounted, Solvent, Budgets, Zero, Scopes
  <2>5. Open' \subseteq Scopes
    BY <2>1 DEF Scopes
  <2> QED BY <2>1, <2>3, <2>4, <2>5
<1>9. CASE ResetBudget
  <2>1. Open' = {}
    BY <1>9 DEF ResetBudget, Open
  <2>2. /\ root' = [limit |-> RootLimits, spent |-> Zero, reason |-> "none", id |-> "unstamped"]
        /\ granted' = [s \in Scopes |-> Zero]
    BY <1>9 DEF ResetBudget
  <2>3. root' \in Budgets
    BY <2>2, ZeroIsACounter, GateConstants DEF Budgets, Reasons, Ids
  <2> QED BY <2>1, <2>2, <2>3, ZeroIsACounter DEF Accounted, Zero
<1>10. CASE UNCHANGED gateVars
  BY <1>10 DEF gateVars, Accounted, Open
<1> QED BY <1>1, <1>2, <1>3, <1>4, <1>5, <1>6, <1>7, <1>8, <1>9, <1>10 DEF BudgetNext

LEMMA GateInvInitial == BudgetInit => GateInv
<1> SUFFICES ASSUME BudgetInit PROVE GateInv
  OBVIOUS
<1>1. root \in Budgets
  BY ZeroIsACounter, GateConstants DEF BudgetInit, Budgets, Reasons, Ids
<1>2. Open = {} /\ granted = [s \in Scopes |-> Zero]
  BY DEF BudgetInit, Open
<1> QED BY <1>1, <1>2, ZeroIsACounter DEF GateInv, Accounted

\* No call ever leaves a budget out of its shape, or a counter out of the range
\* of the limits.
THEOREM BudgetsKeepTheirShape == BudgetSpec => []BudgetTypeOK
<1>1. GateInv => BudgetTypeOK
  BY DEF GateInv, Accounted, Solvent, BudgetTypeOK
<1> QED BY <1>1, GateInvInitial, GateInvInductive, PTL DEF BudgetSpec

\* What a scope was granted since it was last renewed never exceeds the ceiling
\* it carries, in any dimension, for any order of charges, judgments, ticks,
\* re-openings and resets.
THEOREM ScopesAreBounded == BudgetSpec => []PerCycleBound
<1>1. GateInv => PerCycleBound
  BY DEF GateInv, Accounted, Solvent, Budgets, PerCycleBound, Zero
<1> QED BY <1>1, GateInvInitial, GateInvInductive, PTL DEF BudgetSpec

-----------------------------------------------------------------------------
(* CycleControl: shapes.                                                     *)

\* A driver at rest is a driver, and so is one that only has its tail to do.
LEMMA RestIsDriver ==
  /\ AtRest \in Driver /\ [AtRest EXCEPT !.pc = "tail", !.kind = "beat"] \in Driver
  /\ AtRest.pc = "idle" /\ AtRest.kind = "run"
BY DEF AtRest, Driver, Controls

\* The checkpoints of a ring after a push are those before it and the new one.
LEMMA PushKeeps ==
  ASSUME ring \in Seq(Checkpoint), NEW c \in Checkpoint
  PROVE  /\ Push(c) \in Seq(Checkpoint)
         /\ \A i \in DOMAIN Push(c) : Push(c)[i] = c \/ \E j \in DOMAIN ring : Push(c)[i] = ring[j]
<1> DEFINE all == Append(ring, c)
<1>1. all \in Seq(Checkpoint) /\ Len(all) = Len(ring) + 1 /\ Len(ring) \in Nat
  OBVIOUS
<1>2. \A i \in 1..Len(all) : all[i] = c \/ \E j \in DOMAIN ring : all[i] = ring[j]
  OBVIOUS
<1>3. all # <<>>
  BY <1>1
<1>4. /\ Tail(all) \in Seq(Checkpoint) /\ Len(Tail(all)) = Len(all) - 1
      /\ \A i \in 1..Len(Tail(all)) : Tail(all)[i] = all[i + 1]
  BY <1>1, <1>3
<1>5. \A i \in 1..Len(Tail(all)) : i + 1 \in 1..Len(all)
  BY <1>1, <1>4
<1>6. \A i \in DOMAIN Tail(all) : Tail(all)[i] = c \/ \E j \in DOMAIN ring : Tail(all)[i] = ring[j]
  BY <1>1, <1>2, <1>4, <1>5
<1> HIDE DEF all
<1>7. Push(c) = IF Len(all) > RingCap THEN Tail(all) ELSE all
  BY DEF Push, all
<1>8. QED
  BY <1>1, <1>2, <1>4, <1>6, <1>7

\* The checkpoints of the state there is, of whatever cycle.
OfNow == {c \in Checkpoint : c.graph = graph /\ c.queue = queue}

LEMMA SnapshotIsCheckpoint ==
  ASSUME CyclesTypeOK, NEW cycle \in Nat
  PROVE  Snapshot(cycle) \in OfNow /\ Snapshot(cycle) \in Checkpoint
BY DEF CyclesTypeOK, Snapshot, Checkpoint, OfNow

\* A capture keeps nothing, or the state there is; then a restore under way is
\* crossed.
LEMMA CaptureDoes ==
  ASSUME CyclesTypeOK, NEW cycle \in Nat, Capture(cycle)
  PROVE  /\ ring' \in Seq(Checkpoint) /\ crossed' \in BOOLEAN
         /\ \A i \in DOMAIN ring' :
              ring'[i] \in OfNow \/ \E j \in DOMAIN ring : ring'[i] = ring[j]
         /\ crossed => crossed'
         /\ ~crossed' => ring' = ring \/ restoring = {}
<1> DEFINE due == Interval > 0 /\ cycle % Interval = 0
           new == Snapshot(cycle)
<1>1. new \in OfNow /\ new \in Checkpoint /\ ring \in Seq(Checkpoint) /\ crossed \in BOOLEAN
  BY SnapshotIsCheckpoint DEF CyclesTypeOK
<1>2. /\ ring' = IF due THEN Push(new) ELSE ring
      /\ crossed' = (crossed \/ (due /\ restoring # {}))
  BY DEF Capture
<1> HIDE DEF due, new
<1>3. QED
  BY <1>1, <1>2, PushKeeps

\* A cycle that opens is the driver's; it dispatches the goals queued by then.
LEMMA OpenCycleDoes ==
  ASSUME CyclesTypeOK, NEW d \in Drivers, NEW driver \in Driver, OpenCycle(d, driver)
  PROVE  /\ drive' \in [Drivers -> Driver] /\ cycleCount' = cycleCount + 1 /\ begun' \in Nat
         /\ drive'[d].pc = "tools" /\ drive'[d].kind = driver.kind /\ drive'[d].was = driver.was
         /\ drive'[d].before = driver.before /\ drive'[d].goals = queue \cap ToolGoals
         /\ \A e \in Drivers : e # d => drive'[e] = drive[e]
<1> DEFINE opened == [driver EXCEPT !.pc = "tools", !.goals = queue \cap ToolGoals]
<1>1. /\ opened \in Driver /\ opened.pc = "tools" /\ opened.kind = driver.kind
      /\ opened.was = driver.was /\ opened.before = driver.before
      /\ opened.goals = queue \cap ToolGoals
  BY DEF CyclesTypeOK, Driver
<1>2. drive' = [drive EXCEPT ![d] = opened]
  BY DEF OpenCycle
<1> HIDE DEF opened
<1>3. QED
  BY <1>1, <1>2 DEF CyclesTypeOK, OpenCycle

\* At the end of its stages a driver is the same, but for where it is.
LEMMA LearnDoes ==
  ASSUME CyclesTypeOK, NEW d \in Drivers, Learn(d)
  PROVE  /\ drive' \in [Drivers -> Driver] /\ drive'[d].pc = "learn"
         /\ \A e \in Drivers : /\ e # d => drive'[e] = drive[e]
                               /\ drive'[e].kind = drive[e].kind /\ drive'[e].was = drive[e].was
                               /\ drive'[e].before = drive[e].before
                               /\ Cycling(e)' = Cycling(e)
<1> DEFINE driver == [drive[d] EXCEPT !.pc = "learn", !.at = cycleCount]
<1>1. drive[d] \in Driver /\ cycleCount \in Nat /\ drive[d].pc = "reason"
  BY DEF Learn, CyclesTypeOK
<1>2. /\ driver \in Driver /\ driver.pc = "learn" /\ driver.kind = drive[d].kind
      /\ driver.was = drive[d].was /\ driver.before = drive[d].before
  BY <1>1 DEF Driver
<1>3. drive' = [drive EXCEPT ![d] = driver]
  BY DEF Learn
<1> HIDE DEF driver
<1>4. /\ drive' \in [Drivers -> Driver] /\ drive'[d] = driver
      /\ \A e \in Drivers : e # d => drive'[e] = drive[e]
  BY <1>2, <1>3 DEF CyclesTypeOK
<1>5. QED
  BY <1>1, <1>2, <1>4 DEF Cycling

\* The next cycle of a run is the same driver's.
LEMMA NextCycleDoes ==
  ASSUME CyclesTypeOK, NEW d \in Drivers, NextCycle(d)
  PROVE  /\ drive' \in [Drivers -> Driver] /\ cycleCount' = cycleCount + 1 /\ begun' \in Nat
         /\ drive'[d].pc = "tools" /\ drive'[d].kind = drive[d].kind
         /\ drive'[d].was = drive[d].was /\ drive'[d].before = drive[d].before
         /\ drive'[d].goals = queue \cap ToolGoals
         /\ \A e \in Drivers : e # d => drive'[e] = drive[e]
<1> DEFINE driver == [drive[d] EXCEPT !.left = @ - 1, !.at = 0]
<1>1. drive[d] \in Driver /\ drive[d].left \in Nat /\ drive[d].left > 1
  BY DEF NextCycle, CyclesTypeOK, Driver
<1>2. drive[d].left - 1 \in Nat
  BY <1>1
<1>3. driver = [drive[d] EXCEPT !.left = drive[d].left - 1, !.at = 0] /\ OpenCycle(d, driver)
  BY DEF NextCycle
<1> HIDE DEF driver
<1>4. /\ driver \in Driver /\ driver.kind = drive[d].kind /\ driver.was = drive[d].was
      /\ driver.before = drive[d].before
  BY <1>1, <1>2, <1>3 DEF Driver
<1>5. QED
  BY <1>3, <1>4, OpenCycleDoes

\* The driver of a step remembers what control was.
LEMMA StepBeginsDoes ==
  ASSUME CyclesTypeOK, NEW d \in Drivers, NEW driver \in Driver, StepBegins(d, driver)
  PROVE  /\ drive' \in [Drivers -> Driver] /\ cycleCount' = cycleCount + 1 /\ begun' \in Nat
         /\ drive'[d].pc = "tools" /\ drive'[d].kind = driver.kind /\ drive'[d].was = control
         /\ drive'[d].before = driver.before /\ drive'[d].goals = queue \cap ToolGoals
         /\ \A e \in Drivers : e # d => drive'[e] = drive[e]
         /\ control' = "stepping"
         /\ off' = IF off = "held" /\ \E e \in Drivers : Stepping(e) THEN "torn" ELSE off
<1> DEFINE stepper == [driver EXCEPT !.left = 1, !.was = control]
<1>1. stepper \in Driver /\ stepper.kind = driver.kind /\ stepper.was = control
      /\ stepper.before = driver.before
  BY DEF CyclesTypeOK, Driver
<1>2. OpenCycle(d, stepper)
  BY DEF StepBegins
<1> HIDE DEF stepper
<1>3. QED
  BY <1>1, <1>2, OpenCycleDoes DEF StepBegins

\* Every checkpoint a step keeps was kept before, or is the state there is.
LEMMA ConsolidateDoes ==
  ASSUME CyclesTypeOK, NEW d \in Drivers, NEW kept \in SUBSET graph, Consolidate(d, kept)
  PROVE  /\ ring' \in Seq(Checkpoint) /\ recovery' \subseteq Checkpoint
         /\ Checkpoints' \subseteq Checkpoints \cup OfNow
         /\ crossed' \in BOOLEAN /\ (crossed => crossed')
         /\ ~crossed' => Checkpoints' = Checkpoints \/ restoring = {}
<1> DEFINE new == Snapshot(cycleCount)
<1>1. new \in Checkpoint /\ new \in OfNow /\ ring \in Seq(Checkpoint) /\ recovery \subseteq Checkpoint
      /\ crossed \in BOOLEAN
  BY SnapshotIsCheckpoint DEF CyclesTypeOK
<1> HIDE DEF new
<1>2. CASE ring' = Push(new) /\ recovery' = {new} /\ crossed' = (crossed \/ restoring # {})
  <2>1. /\ ring' \in Seq(Checkpoint)
        /\ \A i \in DOMAIN ring' : ring'[i] = new \/ \E j \in DOMAIN ring : ring'[i] = ring[j]
    BY <1>1, <1>2, PushKeeps
  <2>2. recovery' \subseteq Checkpoint /\ crossed' \in BOOLEAN /\ (crossed => crossed')
        /\ (~crossed' => restoring = {})
    BY <1>1, <1>2
  <2>3. Checkpoints' \subseteq Checkpoints \cup OfNow
    BY <1>1, <1>2, <2>1 DEF Checkpoints
  <2>4. QED
    BY <2>1, <2>2, <2>3
<1>3. CASE UNCHANGED <<checkpointed, crossed>>
  BY <1>1, <1>3 DEF Checkpoints, checkpointed
<1>4. QED
  BY <1>2, <1>3 DEF Consolidate, new

LEMMA TypesInit == CyclesInit => CyclesTypeOK
<1> SUFFICES ASSUME CyclesInit PROVE CyclesTypeOK
  OBVIOUS
<1>1. AtRest \in Driver /\ <<>> \in Seq(Checkpoint)
  BY RestIsDriver
<1>2. drive \in [Drivers -> Driver] /\ ring \in Seq(Checkpoint)
  BY <1>1 DEF CyclesInit
<1>3. crossed \in BOOLEAN /\ blurred \in BOOLEAN
  BY DEF CyclesInit
<1>4. QED
  BY <1>2, <1>3 DEF CyclesInit, CyclesTypeOK, Controls

LEMMA TypesStep == CyclesTypeOK /\ [CyclesNext]_cycleVars => CyclesTypeOK'
<1> SUFFICES ASSUME CyclesTypeOK, [CyclesNext]_cycleVars PROVE CyclesTypeOK'
  OBVIOUS
<1> USE DEF checkpointed, windowed, restored
<1>1. ASSUME NEW t \in Inputs, Enqueue(t) \/ ExpireTask(t) PROVE CyclesTypeOK'
  BY <1>1 DEF Enqueue, ExpireTask, CyclesTypeOK
<1>2. CASE Pause \/ Resume
  BY <1>2 DEF Pause, Resume, CyclesTypeOK, Controls
<1>3. ASSUME NEW d \in Drivers, Cycle(d) PROVE CyclesTypeOK'
  <2>1. ASSUME NEW n \in 1..MaxRun, CallRun(d, n) PROVE CyclesTypeOK'
    <3>1. [AtRest EXCEPT !.left = n] \in Driver
      BY <2>1, CycleAssumption DEF CycleAssumption, AtRest, Driver, Controls
    <3>2. OpenCycle(d, [AtRest EXCEPT !.left = n])
      BY <2>1 DEF CallRun
    <3>3. drive' \in [Drivers -> Driver] /\ cycleCount' = cycleCount + 1 /\ begun' \in Nat
      BY <3>1, <3>2, OpenCycleDoes
    <3>4. QED
      BY <2>1, <3>3 DEF CallRun, CyclesTypeOK
  <2>2. CASE CallStep(d)
    <3>1. [AtRest EXCEPT !.kind = "step"] \in Driver
      BY DEF AtRest, Driver, Controls
    <3>2. StepBegins(d, [AtRest EXCEPT !.kind = "step"])
      BY <2>2 DEF CallStep
    <3>3. /\ drive' \in [Drivers -> Driver] /\ cycleCount' = cycleCount + 1 /\ begun' \in Nat
          /\ control' = "stepping"
          /\ off' = IF off = "held" /\ \E e \in Drivers : Stepping(e) THEN "torn" ELSE off
      BY <3>1, <3>2, StepBeginsDoes
    <3>4. QED
      BY <2>2, <3>3 DEF CallStep, CyclesTypeOK, Controls
  <2>3. ASSUME NEW rolled \in BOOLEAN, Tick(d, rolled) PROVE CyclesTypeOK'
    <3> DEFINE used == IF rolled THEN 0 ELSE beats
               beat == [AtRest EXCEPT !.kind = "beat", !.before = cycleCount]
    <3>1. used \in Int /\ beats' = used
      BY <2>3 DEF Tick, CyclesTypeOK
    <3>2. ASSUME Spare(used) PROVE CyclesTypeOK'
      <4>1. beat \in Driver
        BY DEF CyclesTypeOK, AtRest, Driver, Controls
      <4>2. /\ StepBegins(d, beat)
            /\ beaten' = (IF rolled THEN 0 ELSE beaten) + 1
            /\ blurred' = ((~rolled /\ blurred) \/ \E e \in Drivers : Beating(e))
        BY <2>3, <3>2 DEF Tick
      <4> HIDE DEF beat
      <4>3. /\ drive' \in [Drivers -> Driver] /\ cycleCount' = cycleCount + 1 /\ begun' \in Nat
            /\ control' = "stepping"
            /\ off' = IF off = "held" /\ \E e \in Drivers : Stepping(e) THEN "torn" ELSE off
        BY <4>1, <4>2, StepBeginsDoes
      <4>4. beaten' \in Nat /\ blurred' \in BOOLEAN
        BY <4>2 DEF CyclesTypeOK
      <4>5. QED
        BY <2>3, <3>1, <4>3, <4>4 DEF Tick, CyclesTypeOK, Controls
    <3>3. ASSUME ~Spare(used) PROVE CyclesTypeOK'
      BY <2>3, <3>1, <3>3, RestIsDriver DEF Tick, CyclesTypeOK
    <3>4. QED
      BY <3>2, <3>3
  <2>4. ASSUME NEW g \in ToolGoals, Dispatch(d, g) PROVE CyclesTypeOK'
    <3>1. drive' = [drive EXCEPT ![d] = [drive[d] EXCEPT !.goals = drive[d].goals \ {g}]]
      BY <2>4 DEF Dispatch
    <3>2. [drive[d] EXCEPT !.goals = drive[d].goals \ {g}] \in Driver
      BY DEF CyclesTypeOK, Driver
    <3>3. drive' \in [Drivers -> Driver]
      BY <3>1, <3>2 DEF CyclesTypeOK
    <3> QED
      BY <2>4, <3>3 DEF Dispatch, CyclesTypeOK
  <2>5. ASSUME NEW taken \in SUBSET queue, NEW kept \in SUBSET (graph \cup taken),
               Perceive(d, taken, kept)
        PROVE  CyclesTypeOK'
    <3>1. drive' \in [Drivers -> Driver]
      <4>1. drive' = [drive EXCEPT ![d] = [drive[d] EXCEPT !.pc = "reason"]]
        BY <2>5 DEF Perceive, Process
      <4>2. [drive[d] EXCEPT !.pc = "reason"] \in Driver
        BY DEF CyclesTypeOK, Driver
      <4> QED
        BY <4>1, <4>2 DEF CyclesTypeOK
    <3>2. crossed' \in BOOLEAN
      BY <2>5 DEF Perceive, Process
    <3>3. QED
      BY <2>5, <3>1, <3>2 DEF Perceive, Process, CyclesTypeOK
  <2>6. CASE NextCycle(d)
    <3>1. Capture(drive[d].at) /\ drive[d].at \in Nat
      BY <2>6 DEF NextCycle, CyclesTypeOK, Driver
    <3>2. /\ drive' \in [Drivers -> Driver] /\ cycleCount' \in Nat /\ begun' \in Nat
      BY <2>6, NextCycleDoes DEF CyclesTypeOK
    <3>3. ring' \in Seq(Checkpoint) /\ crossed' \in BOOLEAN
      BY <3>1, CaptureDoes
    <3>4. QED
      BY <2>6, <3>2, <3>3 DEF NextCycle, CyclesTypeOK
  <2>7. CASE FailCycle(d)
    BY <2>7, RestIsDriver DEF FailCycle, ControlAfter, CyclesTypeOK, Controls
  <2>8. ASSUME NEW kept \in SUBSET graph, LastCycle(d, kept) PROVE CyclesTypeOK'
    <3>1. ring' \in Seq(Checkpoint) /\ crossed' \in BOOLEAN
      <4>1. Capture(drive[d].at) /\ drive[d].at \in Nat
        BY <2>8 DEF LastCycle, CyclesTypeOK, Driver
      <4>2. QED
        BY <4>1, CaptureDoes
    <3>2. drive' \in [Drivers -> Driver]
      BY <2>8, RestIsDriver DEF LastCycle, CyclesTypeOK
    <3>3. beats' \in Int
      BY <2>8 DEF LastCycle, CyclesTypeOK, Driver
    <3>4. QED
      BY <2>8, <3>1, <3>2, <3>3 DEF LastCycle, ControlAfter, CyclesTypeOK, Controls
  <2>9. ASSUME NEW kept \in SUBSET graph, Consolidate(d, kept) PROVE CyclesTypeOK'
    <3>1. ring' \in Seq(Checkpoint) /\ recovery' \subseteq Checkpoint /\ crossed' \in BOOLEAN
      BY <2>9, ConsolidateDoes
    <3>2. QED
      BY <2>9, <3>1, RestIsDriver DEF Consolidate, CyclesTypeOK
  <2>10. CASE Learn(d)
    <3>1. drive' \in [Drivers -> Driver]
      BY <2>10, LearnDoes
    <3>2. QED
      BY <2>10, <3>1 DEF Learn, CyclesTypeOK
  <2>11. QED
    BY <1>3, <2>1, <2>2, <2>3, <2>4, <2>5, <2>6, <2>7, <2>8, <2>9, <2>10 DEF Cycle
<1>4. ASSUME NEW c \in Checkpoint, RestoreGraph(c) PROVE CyclesTypeOK'
  BY <1>4 DEF RestoreGraph, CyclesTypeOK, Checkpoint
<1>5. CASE Recover \/ \E n \in 0..cycleCount : Rewind(n)
  <2>1. \E c \in Checkpoint : RestoreGraph(c)
    BY <1>5 DEF Recover, Rewind, Picks, CyclesTypeOK
  <2>2. QED
    BY <1>4, <2>1
<1>6. ASSUME NEW c \in restoring, RestoreBoundary(c) PROVE CyclesTypeOK'
  BY <1>6 DEF RestoreBoundary, CyclesTypeOK, Checkpoint
<1>7. CASE UNCHANGED cycleVars
  BY <1>7 DEF cycleVars, CyclesTypeOK
<1>8. QED
  BY <1>1, <1>2, <1>3, <1>5, <1>6, <1>7 DEF CyclesNext

\* The clock's variables keep their types.
THEOREM ClockKeepsItsShape == CyclesSpec => []CyclesTypeOK
<1>1. QED
  BY TypesInit, TypesStep, PTL DEF CyclesSpec

-----------------------------------------------------------------------------
(* Control.                                                                  *)

\* While a pause holds, nobody steps, or one does and will put it back.
HeldIsPutBack ==
  off = "held" =>
    \/ control = "paused" /\ \A d \in Drivers : ~Stepping(d)
    \/ /\ control = "stepping"
       /\ \E d \in Drivers : /\ Stepping(d) /\ drive[d].was = "paused"
                             /\ \A e \in Drivers : Stepping(e) => e = d

ControlInv == SteppingIsStepping /\ HeldIsPutBack

\* A step that begins is the one under way, or it crosses the pause.
LEMMA StepBeginsControls ==
  ASSUME CyclesTypeOK, ControlInv,
         NEW d \in Drivers, drive[d].pc = "idle",
         NEW driver \in Driver, driver.kind # "run", StepBegins(d, driver)
  PROVE  ControlInv'
<1>1. /\ drive'[d].pc = "tools" /\ drive'[d].kind # "run" /\ drive'[d].was = control
      /\ \A e \in Drivers : e # d => drive'[e] = drive[e]
      /\ control' = "stepping"
      /\ off' = IF off = "held" /\ \E e \in Drivers : Stepping(e) THEN "torn" ELSE off
  BY StepBeginsDoes
<1>2. Stepping(d)' /\ \A e \in Drivers : e # d => Stepping(e)' = Stepping(e)
  BY <1>1 DEF Stepping, Cycling
<1>3. SteppingIsStepping'
  BY <1>2 DEF SteppingIsStepping
<1>4. ASSUME off' = "held" PROVE HeldIsPutBack'
  <2>1. off = "held" /\ \A e \in Drivers : ~Stepping(e)
    BY <1>1, <1>4
  <2>2. control = "paused"
    BY <2>1 DEF ControlInv, HeldIsPutBack
  <2>3. QED
    BY <1>1, <1>2, <2>1, <2>2 DEF HeldIsPutBack
<1>5. QED
  BY <1>3, <1>4 DEF ControlInv, HeldIsPutBack

\* What leaves who steps, and what each remembers, leaves the control.
LEMMA ControlUntouched ==
  ASSUME ControlInv, UNCHANGED <<control, off>>,
         \A e \in Drivers : Stepping(e)' = Stepping(e) /\ drive'[e].was = drive[e].was
  PROVE  ControlInv'
BY DEF ControlInv, SteppingIsStepping, HeldIsPutBack

\* A driver that comes to rest puts back what its step found.
LEMMA StepEndsControls ==
  ASSUME CyclesTypeOK, ControlInv, NEW d \in Drivers, Cycling(d),
         control' = ControlAfter(drive[d]), ~Stepping(d)', UNCHANGED off,
         \A e \in Drivers : e # d => drive'[e] = drive[e]
  PROVE  ControlInv'
<1>1. \A e \in Drivers : e # d => Stepping(e)' = Stepping(e)
  BY DEF Stepping, Cycling
<1>2. CASE drive[d].kind = "run"
  <2>1. UNCHANGED control /\ ~Stepping(d)
    BY <1>2 DEF ControlAfter, Stepping
  <2>2. SteppingIsStepping'
    BY <1>1, <2>1 DEF ControlInv, SteppingIsStepping
  <2>3. HeldIsPutBack'
    BY <1>1, <2>1 DEF ControlInv, HeldIsPutBack
  <2>4. QED
    BY <2>2, <2>3 DEF ControlInv
<1>3. CASE drive[d].kind # "run"
  <2>1. Stepping(d) /\ control' = IF drive[d].was = "paused" THEN "paused" ELSE "running"
    BY <1>3 DEF ControlAfter, Stepping
  <2>2. SteppingIsStepping'
    BY <2>1 DEF SteppingIsStepping
  <2>3. ASSUME off' = "held"
        PROVE  control' = "paused" /\ \A e \in Drivers : ~Stepping(e)'
    <3>1. drive[d].was = "paused" /\ \A e \in Drivers : Stepping(e) => e = d
      BY <2>1, <2>3 DEF ControlInv, HeldIsPutBack
    <3>2. QED
      BY <1>1, <2>1, <3>1
  <2>4. QED
    BY <2>2, <2>3 DEF ControlInv, HeldIsPutBack
<1>4. QED
  BY <1>2, <1>3

LEMMA ControlStep == CyclesTypeOK /\ ControlInv /\ [CyclesNext]_cycleVars => ControlInv'
<1> SUFFICES ASSUME CyclesTypeOK, ControlInv, [CyclesNext]_cycleVars PROVE ControlInv'
  OBVIOUS
<1>1. ASSUME UNCHANGED <<control, off, drive>> PROVE ControlInv'
  BY <1>1, ControlUntouched DEF Stepping, Cycling
<1>2. ASSUME NEW t \in Inputs, Enqueue(t) \/ ExpireTask(t) PROVE ControlInv'
  BY <1>1, <1>2 DEF Enqueue, ExpireTask
<1>3. CASE Pause
  BY <1>3 DEF Pause, ControlInv, SteppingIsStepping, HeldIsPutBack, Stepping, Cycling
<1>4. CASE Resume
  BY <1>4 DEF Resume, ControlInv, SteppingIsStepping, HeldIsPutBack
<1>5. ASSUME NEW d \in Drivers, Cycle(d) PROVE ControlInv'
  <2>1. ASSUME NEW n \in 1..MaxRun, CallRun(d, n) PROVE ControlInv'
    <3>1. [AtRest EXCEPT !.left = n] \in Driver /\ [AtRest EXCEPT !.left = n].kind = "run"
      BY <2>1, CycleAssumption DEF CycleAssumption, AtRest, Driver, Controls
    <3>2. OpenCycle(d, [AtRest EXCEPT !.left = n])
      BY <2>1 DEF CallRun
    <3>3. drive'[d].kind = "run" /\ \A e \in Drivers : e # d => drive'[e] = drive[e]
      BY <3>1, <3>2, OpenCycleDoes
    <3>4. control # "paused" /\ ~Stepping(d) /\ ~Stepping(d)' /\ UNCHANGED <<control, off>>
      BY <2>1, <3>3 DEF CallRun, Stepping, Cycling
    <3>5. \A e \in Drivers : Stepping(e)' = Stepping(e)
      BY <3>3, <3>4 DEF Stepping, Cycling
    <3>6. \A e \in Drivers : Stepping(e) => drive'[e].was = drive[e].was
      BY <3>3, <3>4
    <3>7. SteppingIsStepping'
      BY <3>4, <3>5 DEF ControlInv, SteppingIsStepping
    <3>8. HeldIsPutBack'
      BY <3>4, <3>5, <3>6 DEF ControlInv, HeldIsPutBack
    <3>9. QED
      BY <3>7, <3>8 DEF ControlInv
  <2>2. CASE CallStep(d)
    <3>1. /\ [AtRest EXCEPT !.kind = "step"] \in Driver
          /\ [AtRest EXCEPT !.kind = "step"].kind # "run"
      BY DEF AtRest, Driver, Controls
    <3>2. drive[d].pc = "idle" /\ StepBegins(d, [AtRest EXCEPT !.kind = "step"])
      BY <2>2 DEF CallStep
    <3>3. QED
      BY <3>1, <3>2, StepBeginsControls
  <2>3. ASSUME NEW rolled \in BOOLEAN, Tick(d, rolled) PROVE ControlInv'
    <3> DEFINE used == IF rolled THEN 0 ELSE beats
               beat == [AtRest EXCEPT !.kind = "beat", !.before = cycleCount]
    <3>1. ASSUME Spare(used) PROVE ControlInv'
      <4>1. beat \in Driver /\ beat.kind # "run"
        BY DEF CyclesTypeOK, AtRest, Driver, Controls
      <4>2. drive[d].pc = "idle" /\ StepBegins(d, beat)
        BY <2>3, <3>1 DEF Tick
      <4> HIDE DEF beat
      <4>3. QED
        BY <4>1, <4>2, StepBeginsControls
    <3>2. ASSUME ~Spare(used) PROVE ControlInv'
      <4>1. /\ drive[d].pc = "idle" /\ drive'[d].pc = "tail" /\ UNCHANGED <<control, off>>
            /\ \A e \in Drivers : e # d => drive'[e] = drive[e]
        BY <2>3, <3>2, RestIsDriver DEF Tick, CyclesTypeOK, Driver, AtRest
      <4>2. ~Stepping(d) /\ \A e \in Drivers : Stepping(e)' = Stepping(e)
        BY <4>1 DEF Stepping, Cycling
      <4>3. \A e \in Drivers : Stepping(e) => drive'[e].was = drive[e].was
        BY <4>1, <4>2
      <4>4. QED
        BY <4>1, <4>2, <4>3 DEF ControlInv, SteppingIsStepping, HeldIsPutBack
    <3>3. QED
      BY <3>1, <3>2
  <2>4. ASSUME NEW g \in ToolGoals, Dispatch(d, g) PROVE ControlInv'
    <3>1. /\ UNCHANGED <<control, off>>
          /\ \A e \in Drivers : /\ drive'[e].pc = drive[e].pc /\ drive'[e].kind = drive[e].kind
                                /\ drive'[e].was = drive[e].was
      BY <2>4 DEF Dispatch, CyclesTypeOK, Driver
    <3>2. QED
      BY <3>1, ControlUntouched DEF Stepping, Cycling
  <2>5. ASSUME NEW taken \in SUBSET queue, NEW kept \in SUBSET (graph \cup taken),
               Perceive(d, taken, kept)
        PROVE  ControlInv'
    <3>1. /\ UNCHANGED <<control, off>> /\ drive[d].pc = "tools" /\ drive'[d].pc = "reason"
          /\ drive'[d].kind = drive[d].kind
          /\ \A e \in Drivers : drive'[e].was = drive[e].was
          /\ \A e \in Drivers : e # d => drive'[e] = drive[e]
      BY <2>5 DEF Perceive, Process, CyclesTypeOK, Driver
    <3>2. QED
      BY <3>1, ControlUntouched DEF Stepping, Cycling
  <2>6. CASE NextCycle(d)
    <3>1. drive[d].pc = "learn" /\ UNCHANGED <<control, off>>
      BY <2>6 DEF NextCycle
    <3>2. QED
      BY <2>6, <3>1, NextCycleDoes, ControlUntouched DEF Stepping, Cycling
  <2>7. CASE FailCycle(d)
    <3>1. /\ drive'[d].pc = "idle" /\ \A e \in Drivers : e # d => drive'[e] = drive[e]
      BY <2>7, RestIsDriver DEF FailCycle, CyclesTypeOK
    <3>2. Cycling(d) /\ ~Stepping(d)' /\ control' = ControlAfter(drive[d]) /\ UNCHANGED off
      BY <2>7, <3>1 DEF FailCycle, Stepping, Cycling
    <3>3. QED
      BY <3>1, <3>2, StepEndsControls
  <2>8. ASSUME NEW kept \in SUBSET graph, LastCycle(d, kept) PROVE ControlInv'
    <3>1. /\ drive'[d].pc \in {"idle", "tail"} /\ \A e \in Drivers : e # d => drive'[e] = drive[e]
      BY <2>8, RestIsDriver DEF LastCycle, CyclesTypeOK, AtRest
    <3>2. Cycling(d) /\ ~Stepping(d)' /\ control' = ControlAfter(drive[d]) /\ UNCHANGED off
      BY <2>8, <3>1 DEF LastCycle, Stepping, Cycling
    <3>3. QED
      BY <3>1, <3>2, StepEndsControls
  <2>9. ASSUME NEW kept \in SUBSET graph, Consolidate(d, kept) PROVE ControlInv'
    <3>1. /\ drive[d].pc = "tail" /\ drive'[d].pc = "idle" /\ UNCHANGED <<control, off>>
          /\ \A e \in Drivers : e # d => drive'[e] = drive[e]
      BY <2>9, RestIsDriver DEF Consolidate, windowed, restored, CyclesTypeOK
    <3>2. ~Stepping(d) /\ \A e \in Drivers : Stepping(e)' = Stepping(e)
      BY <3>1 DEF Stepping, Cycling
    <3>3. \A e \in Drivers : Stepping(e) => drive'[e].was = drive[e].was
      BY <3>1, <3>2
    <3>4. QED
      BY <3>1, <3>2, <3>3 DEF ControlInv, SteppingIsStepping, HeldIsPutBack
  <2>10. CASE Learn(d)
    <3>1. /\ UNCHANGED <<control, off>>
          /\ \A e \in Drivers : drive'[e].was = drive[e].was /\ Stepping(e)' = Stepping(e)
      BY <2>10, LearnDoes DEF Learn, Stepping
    <3>2. QED
      BY <3>1, ControlUntouched
  <2>11. QED
    BY <1>5, <2>1, <2>2, <2>3, <2>4, <2>5, <2>6, <2>7, <2>8, <2>9, <2>10 DEF Cycle
<1>6. CASE Recover \/ \E n \in 0..cycleCount : Rewind(n)
  BY <1>1, <1>6 DEF Recover, Rewind, RestoreGraph
<1>7. ASSUME NEW c \in restoring, RestoreBoundary(c) PROVE ControlInv'
  BY <1>1, <1>7 DEF RestoreBoundary
<1>8. CASE UNCHANGED cycleVars
  BY <1>1, <1>8 DEF cycleVars
<1>9. QED
  BY <1>2, <1>3, <1>4, <1>5, <1>6, <1>7, <1>8 DEF CyclesNext

LEMMA ControlHolds == CyclesSpec => []ControlInv
<1>1. CyclesInit => ControlInv
  BY RestIsDriver DEF CyclesInit, ControlInv, SteppingIsStepping, HeldIsPutBack
<1>2. QED
  BY <1>1, ControlStep, ClockKeepsItsShape, PTL DEF CyclesSpec

\* A kernel that says it is stepping is.
THEOREM SteppingMeansAStep == CyclesSpec => []SteppingIsStepping
<1>1. ControlInv => SteppingIsStepping
  BY DEF ControlInv
<1>2. QED
  BY <1>1, ControlHolds, PTL

\* A pause no step crosses survives every step taken under it, of a caller or of
\* the autonomy loop.
THEOREM PausesOutliveSteps == CyclesSpec => []PauseOutlivesSteps
<1>1. ControlInv => PauseOutlivesSteps
  BY DEF ControlInv, HeldIsPutBack, PauseOutlivesSteps
<1>2. QED
  BY <1>1, ControlHolds, PTL

-----------------------------------------------------------------------------
(* The queue, memory and the checkpoints.                                    *)

Held == Checkpoints \cup restoring

\* Every task queued or remembered, now or in a checkpoint, was queued once;
\* and it is in one place, in the checkpoint under way of a restore too.
PlaceInv ==
  /\ queue \subseteq entered /\ graph \subseteq entered
  /\ \A c \in Held : c.queue \subseteq entered /\ c.graph \subseteq entered
  /\ ~crossed => /\ restoring = {} => graph \cap queue = {}
                 /\ \A c \in Held : c.graph \cap c.queue = {}
                 /\ \A c \in restoring : graph \subseteq c.graph

\* What memory has of the tool goals came late, and so it is in the checkpoints;
\* who dispatches has the others before it.
LateInv ==
  /\ graph \cap ToolGoals \subseteq late
  /\ \A c \in Held : c.graph \cap ToolGoals \subseteq late
  /\ \A d \in Drivers : drive[d].pc = "tools" => queue \cap ToolGoals \subseteq drive[d].goals \cup late

QueueInv == PlaceInv /\ LateInv

\* A step that only moves the checkpoints, keeping the state there is.
LEMMA KeepsTheState ==
  ASSUME CyclesTypeOK, QueueInv, Checkpoints' \subseteq Checkpoints \cup OfNow,
         UNCHANGED <<queue, entered, restoring>>, late \subseteq late', graph' \subseteq graph,
         crossed => crossed', ~crossed' => Checkpoints' = Checkpoints \/ restoring = {}
  PROVE  /\ PlaceInv'
         /\ graph' \cap ToolGoals \subseteq late'
         /\ \A c \in Held' : c.graph \cap ToolGoals \subseteq late'
<1>1. \A c \in OfNow : c.graph = graph /\ c.queue = queue
  BY DEF OfNow
<1>2. Held' \subseteq Held \cup OfNow
  BY DEF Held
<1>3. \A c \in Held' : c.queue \subseteq entered /\ c.graph \subseteq entered
  BY <1>1, <1>2 DEF QueueInv, PlaceInv
<1>4. ASSUME ~crossed'
      PROVE  /\ restoring = {} => graph' \cap queue = {}
             /\ \A c \in Held' : c.graph \cap c.queue = {}
             /\ \A c \in restoring : graph' \subseteq c.graph
  <2>1. /\ restoring = {} => graph \cap queue = {}
        /\ \A c \in Held : c.graph \cap c.queue = {}
        /\ \A c \in restoring : graph \subseteq c.graph
    BY <1>4 DEF QueueInv, PlaceInv
  <2>2. CASE Checkpoints' = Checkpoints
    BY <2>1, <2>2 DEF Held
  <2>3. CASE restoring = {}
    BY <1>1, <1>2, <2>1, <2>3
  <2>4. QED
    BY <1>4, <2>2, <2>3
<1>5. PlaceInv'
  BY <1>3, <1>4 DEF QueueInv, PlaceInv
<1>6. \A c \in Held' : c.graph \cap ToolGoals \subseteq late'
  BY <1>1, <1>2 DEF QueueInv, LateInv
<1>7. QED
  BY <1>5, <1>6 DEF QueueInv, LateInv

\* A capture is such a step, whatever the driver does next.
LEMMA CaptureKeepsTheState ==
  ASSUME CyclesTypeOK, NEW cycle \in Nat, Capture(cycle), UNCHANGED <<recovery, restoring>>
  PROVE  /\ Checkpoints' \subseteq Checkpoints \cup OfNow
         /\ crossed => crossed'
         /\ ~crossed' => Checkpoints' = Checkpoints \/ restoring = {}
<1>1. /\ \A i \in DOMAIN ring' : ring'[i] \in OfNow \/ \E j \in DOMAIN ring : ring'[i] = ring[j]
      /\ crossed => crossed'
      /\ ~crossed' => ring' = ring \/ restoring = {}
  BY CaptureDoes
<1>2. Checkpoints' \subseteq Checkpoints \cup OfNow
  BY <1>1 DEF Checkpoints
<1>3. QED
  BY <1>1, <1>2 DEF Checkpoints

\* Opening a cycle takes the tool goals that are queued.
LEMMA OpenCycleQueues ==
  ASSUME CyclesTypeOK, QueueInv, NEW d \in Drivers, drive'[d].goals = queue \cap ToolGoals,
         \A e \in Drivers : e # d => drive'[e] = drive[e],
         UNCHANGED <<queue, graph, restoring, entered, late>>,
         Checkpoints' \subseteq Checkpoints \cup OfNow, crossed => crossed',
         ~crossed' => Checkpoints' = Checkpoints \/ restoring = {}
  PROVE  QueueInv'
<1>1. /\ PlaceInv' /\ graph' \cap ToolGoals \subseteq late'
      /\ \A c \in Held' : c.graph \cap ToolGoals \subseteq late'
  BY KeepsTheState
<1>2. \A e \in Drivers :
        drive'[e].pc = "tools" => queue \cap ToolGoals \subseteq drive'[e].goals \cup late
  BY DEF QueueInv, LateInv
<1>3. QED
  BY <1>1, <1>2 DEF QueueInv, LateInv

\* A driver that leaves its cycle leaves the queue; memory may forget.
LEMMA LeavingQueues ==
  ASSUME CyclesTypeOK, QueueInv, NEW d \in Drivers, drive'[d].pc # "tools",
         \A e \in Drivers : e # d => drive'[e] = drive[e],
         UNCHANGED <<queue, restoring, entered, late>>, graph' \subseteq graph,
         Checkpoints' \subseteq Checkpoints \cup OfNow, crossed => crossed',
         ~crossed' => Checkpoints' = Checkpoints \/ restoring = {}
  PROVE  QueueInv'
<1>1. /\ PlaceInv' /\ graph' \cap ToolGoals \subseteq late'
      /\ \A c \in Held' : c.graph \cap ToolGoals \subseteq late'
  BY KeepsTheState
<1>2. \A e \in Drivers :
        drive'[e].pc = "tools" => queue \cap ToolGoals \subseteq drive'[e].goals \cup late
  BY DEF QueueInv, LateInv
<1>3. QED
  BY <1>1, <1>2 DEF QueueInv, LateInv

LEMMA QueueStep == CyclesTypeOK /\ QueueInv /\ [CyclesNext]_cycleVars => QueueInv'
<1> SUFFICES ASSUME CyclesTypeOK, QueueInv, [CyclesNext]_cycleVars PROVE QueueInv'
  OBVIOUS
<1> USE DEF checkpointed, windowed, restored
<1>1. ASSUME UNCHANGED <<queue, graph, ring, recovery, restoring, drive, entered, late, crossed>>
      PROVE  QueueInv'
  BY <1>1 DEF QueueInv, PlaceInv, LateInv, Held, Checkpoints
<1>2. ASSUME NEW t \in Inputs, Enqueue(t) PROVE QueueInv'
  <2>1. /\ t \notin entered /\ entered' = entered \cup {t} /\ queue' = queue \cup {t}
        /\ late' = IF Dispatching THEN late \cup ({t} \cap ToolGoals) ELSE late
        /\ UNCHANGED <<graph, restoring, drive, crossed>> /\ Held' = Held
    BY <1>2 DEF Enqueue, Held, Checkpoints
  <2>2. PlaceInv'
    BY <2>1 DEF QueueInv, PlaceInv
  <2>3. ASSUME NEW d \in Drivers, drive[d].pc = "tools"
        PROVE  queue' \cap ToolGoals \subseteq drive[d].goals \cup late'
    BY <2>1, <2>3 DEF QueueInv, LateInv, Dispatching
  <2>4. late \subseteq late'
    BY <2>1
  <2>5. QED
    BY <2>1, <2>2, <2>3, <2>4 DEF QueueInv, LateInv
<1>3. ASSUME NEW t \in Inputs, ExpireTask(t) PROVE QueueInv'
  BY <1>3 DEF ExpireTask, QueueInv, PlaceInv, LateInv, Held, Checkpoints
<1>4. CASE Pause \/ Resume
  BY <1>1, <1>4 DEF Pause, Resume
<1>5. ASSUME NEW d \in Drivers, Cycle(d) PROVE QueueInv'
  <2>1. ASSUME NEW n \in 1..MaxRun, CallRun(d, n) PROVE QueueInv'
    <3>1. [AtRest EXCEPT !.left = n] \in Driver
      BY <2>1, CycleAssumption DEF CycleAssumption, AtRest, Driver, Controls
    <3>2. OpenCycle(d, [AtRest EXCEPT !.left = n])
      BY <2>1 DEF CallRun
    <3>3. drive'[d].goals = queue \cap ToolGoals /\ \A e \in Drivers : e # d => drive'[e] = drive[e]
      BY <3>1, <3>2, OpenCycleDoes
    <3>4. UNCHANGED <<queue, graph, restoring, entered, late, crossed, Checkpoints>>
      BY <2>1 DEF CallRun, Checkpoints
    <3>5. QED
      BY <3>3, <3>4, OpenCycleQueues
  <2>2. CASE CallStep(d)
    <3>1. [AtRest EXCEPT !.kind = "step"] \in Driver
      BY DEF AtRest, Driver, Controls
    <3>2. StepBegins(d, [AtRest EXCEPT !.kind = "step"])
      BY <2>2 DEF CallStep
    <3>3. drive'[d].goals = queue \cap ToolGoals /\ \A e \in Drivers : e # d => drive'[e] = drive[e]
      BY <3>1, <3>2, StepBeginsDoes
    <3>4. UNCHANGED <<queue, graph, restoring, entered, late, crossed, Checkpoints>>
      BY <2>2 DEF CallStep, Checkpoints
    <3>5. QED
      BY <3>3, <3>4, OpenCycleQueues
  <2>3. ASSUME NEW rolled \in BOOLEAN, Tick(d, rolled) PROVE QueueInv'
    <3> DEFINE used == IF rolled THEN 0 ELSE beats
               beat == [AtRest EXCEPT !.kind = "beat", !.before = cycleCount]
    <3>1. UNCHANGED <<queue, graph, restoring, entered, late, crossed, Checkpoints>>
      BY <2>3 DEF Tick, Checkpoints
    <3>2. ASSUME Spare(used) PROVE QueueInv'
      <4>1. beat \in Driver
        BY DEF CyclesTypeOK, AtRest, Driver, Controls
      <4>2. StepBegins(d, beat)
        BY <2>3, <3>2 DEF Tick
      <4> HIDE DEF beat
      <4>3. drive'[d].goals = queue \cap ToolGoals /\ \A e \in Drivers : e # d => drive'[e] = drive[e]
        BY <4>1, <4>2, StepBeginsDoes
      <4>4. QED
        BY <3>1, <4>3, OpenCycleQueues
    <3>3. ASSUME ~Spare(used) PROVE QueueInv'
      <4>1. drive'[d].pc # "tools" /\ \A e \in Drivers : e # d => drive'[e] = drive[e]
        BY <2>3, <3>3, RestIsDriver DEF Tick, CyclesTypeOK, AtRest
      <4>2. QED
        BY <3>1, <4>1, LeavingQueues
    <3>4. QED
      BY <3>2, <3>3
  <2>4. ASSUME NEW g \in ToolGoals, Dispatch(d, g) PROVE QueueInv'
    <3>1. /\ queue' = queue \ {g} /\ UNCHANGED <<graph, restoring, entered, late, crossed>>
          /\ Held' = Held
      BY <2>4 DEF Dispatch, Held, Checkpoints
    <3>2. \A e \in Drivers : /\ drive'[e].pc = drive[e].pc
                             /\ drive[e].goals \subseteq drive'[e].goals \cup {g}
      BY <2>4 DEF Dispatch, CyclesTypeOK, Driver
    <3>3. PlaceInv'
      BY <3>1 DEF QueueInv, PlaceInv
    <3>4. LateInv'
      BY <3>1, <3>2 DEF QueueInv, LateInv
    <3>5. QED
      BY <3>3, <3>4 DEF QueueInv
  <2>5. ASSUME NEW taken \in SUBSET queue, NEW kept \in SUBSET (graph \cup taken),
               Perceive(d, taken, kept)
        PROVE  QueueInv'
    <3>1. /\ drive[d].pc = "tools" /\ drive[d].goals = {}
          /\ queue' = queue \ taken /\ graph' = kept /\ crossed' = (crossed \/ restoring # {})
          /\ UNCHANGED <<restoring, entered, late>> /\ Held' = Held
      BY <2>5 DEF Perceive, Process, Held, Checkpoints
    <3>2. /\ drive'[d].pc = "reason" /\ \A e \in Drivers : e # d => drive'[e] = drive[e]
      BY <2>5 DEF Perceive, Process, CyclesTypeOK, Driver
    <3>3. PlaceInv'
      BY <3>1 DEF QueueInv, PlaceInv
    <3>4. queue \cap ToolGoals \subseteq late
      BY <3>1 DEF QueueInv, LateInv
    <3>5. graph' \cap ToolGoals \subseteq late'
      BY <3>1, <3>4 DEF QueueInv, LateInv
    <3>6. LateInv'
      BY <3>1, <3>2, <3>5 DEF QueueInv, LateInv
    <3>7. QED
      BY <3>3, <3>6 DEF QueueInv
  <2>6. CASE NextCycle(d)
    <3>1. /\ Capture(drive[d].at) /\ drive[d].at \in Nat
          /\ UNCHANGED <<queue, graph, recovery, restoring, entered, late>>
      BY <2>6 DEF NextCycle, CyclesTypeOK, Driver
    <3>2. QED
      BY <2>6, <3>1, NextCycleDoes, CaptureKeepsTheState, OpenCycleQueues
  <2>7. CASE FailCycle(d)
    <3>1. drive'[d].pc # "tools" /\ \A e \in Drivers : e # d => drive'[e] = drive[e]
      BY <2>7, RestIsDriver DEF FailCycle, CyclesTypeOK
    <3>2. UNCHANGED <<queue, graph, restoring, entered, late, crossed, Checkpoints>>
      BY <2>7 DEF FailCycle, Checkpoints
    <3>3. QED
      BY <3>1, <3>2, LeavingQueues
  <2>8. ASSUME NEW kept \in SUBSET graph, LastCycle(d, kept) PROVE QueueInv'
    <3>1. drive'[d].pc # "tools" /\ \A e \in Drivers : e # d => drive'[e] = drive[e]
      BY <2>8, RestIsDriver DEF LastCycle, CyclesTypeOK, AtRest
    <3>2. /\ Capture(drive[d].at) /\ drive[d].at \in Nat /\ graph' \subseteq graph
          /\ UNCHANGED <<queue, recovery, restoring, entered, late>>
      BY <2>8 DEF LastCycle, CyclesTypeOK, Driver
    <3>3. QED
      BY <3>1, <3>2, CaptureKeepsTheState, LeavingQueues
  <2>9. ASSUME NEW kept \in SUBSET graph, Consolidate(d, kept) PROVE QueueInv'
    <3>1. drive'[d].pc # "tools" /\ \A e \in Drivers : e # d => drive'[e] = drive[e]
      BY <2>9, RestIsDriver DEF Consolidate, CyclesTypeOK
    <3>2. graph' \subseteq graph /\ UNCHANGED <<queue, restoring, entered, late>>
      BY <2>9 DEF Consolidate
    <3>3. /\ Checkpoints' \subseteq Checkpoints \cup OfNow /\ (crossed => crossed')
          /\ ~crossed' => Checkpoints' = Checkpoints \/ restoring = {}
      BY <2>9, ConsolidateDoes
    <3>4. QED
      BY <3>1, <3>2, <3>3, LeavingQueues
  <2>10. CASE Learn(d)
    <3>1. drive'[d].pc # "tools" /\ \A e \in Drivers : e # d => drive'[e] = drive[e]
      BY <2>10, LearnDoes
    <3>2. UNCHANGED <<queue, graph, restoring, entered, late, crossed, Checkpoints>>
      BY <2>10 DEF Learn, Checkpoints
    <3>3. QED
      BY <3>1, <3>2, LeavingQueues
  <2>11. QED
    BY <1>5, <2>1, <2>2, <2>3, <2>4, <2>5, <2>6, <2>7, <2>8, <2>9, <2>10 DEF Cycle
<1>6. ASSUME NEW c \in Checkpoints, RestoreGraph(c) PROVE QueueInv'
  <2>1. /\ restoring = {} /\ restoring' = {c} /\ graph' = c.graph /\ Checkpoints' = Checkpoints
        /\ UNCHANGED <<queue, drive, entered, late, crossed>>
    BY <1>6 DEF RestoreGraph, Checkpoints
  <2>2. c \in Held /\ Held' = Held
    BY <1>6, <2>1 DEF Held
  <2>3. PlaceInv'
    BY <2>1, <2>2 DEF QueueInv, PlaceInv
  <2>4. LateInv'
    BY <2>1, <2>2 DEF QueueInv, LateInv
  <2>5. QED
    BY <2>3, <2>4 DEF QueueInv
<1>7. CASE Recover \/ \E n \in 0..cycleCount : Rewind(n)
  <2>1. \E c \in Checkpoints : RestoreGraph(c)
    BY <1>7 DEF Recover, Rewind, Picks, Checkpoints
  <2>2. QED
    BY <1>6, <2>1
<1>8. ASSUME NEW c \in restoring, RestoreBoundary(c) PROVE QueueInv'
  <2>1. /\ restoring' = {} /\ queue' = c.queue /\ Checkpoints' = Checkpoints
        /\ late' = IF Dispatching THEN late \cup (c.queue \cap ToolGoals) ELSE late
        /\ UNCHANGED <<graph, drive, entered, crossed>>
    BY <1>8 DEF RestoreBoundary, Checkpoints
  <2>2. c \in Held /\ Held' \subseteq Held /\ late \subseteq late'
    BY <1>8, <2>1 DEF Held
  <2>3. ~crossed => graph' \cap queue' = {}
    BY <1>8, <2>1, <2>2 DEF QueueInv, PlaceInv
  <2>4. PlaceInv'
    BY <2>1, <2>2, <2>3 DEF QueueInv, PlaceInv
  <2>5. ASSUME NEW d \in Drivers, drive[d].pc = "tools"
        PROVE  queue' \cap ToolGoals \subseteq drive[d].goals \cup late'
    BY <2>1, <2>5 DEF Dispatching
  <2>6. LateInv'
    BY <2>1, <2>2, <2>5 DEF QueueInv, LateInv
  <2>7. QED
    BY <2>4, <2>6 DEF QueueInv
<1>9. CASE UNCHANGED cycleVars
  BY <1>1, <1>9 DEF cycleVars
<1>10. QED
  BY <1>2, <1>3, <1>4, <1>5, <1>7, <1>8, <1>9 DEF CyclesNext

LEMMA QueueHolds == CyclesSpec => []QueueInv
<1>1. CyclesInit => QueueInv
  BY RestIsDriver DEF CyclesInit, QueueInv, PlaceInv, LateInv, Held, Checkpoints
<1>2. QED
  BY <1>1, QueueStep, ClockKeepsItsShape, PTL DEF CyclesSpec

\* No task is queued and remembered at once, in any checkpoint either.
THEOREM OnePlacePerTask == CyclesSpec => []TasksAreInOnePlace
<1>1. QueueInv => TasksAreInOnePlace
  BY DEF QueueInv, PlaceInv, TasksAreInOnePlace, Held
<1>2. QED
  BY <1>1, QueueHolds, PTL

\* A tool goal memory keeps as a plain goal came while others were dispatched.
THEOREM ToolGoalsAreDispatched == CyclesSpec => []OnlyLateGoalsAreRemembered
<1>1. QueueInv => OnlyLateGoalsAreRemembered
  BY DEF QueueInv, LateInv, OnlyLateGoalsAreRemembered, Held
<1>2. QED
  BY <1>1, QueueHolds, PTL

-----------------------------------------------------------------------------
(* The window of the autonomy loop.                                          *)

\* The beats of a window that have ended are counted, one cycle each at least;
\* one more may be under way.
WindowInv ==
  ~blurred =>
    /\ beaten <= WindowMax
    /\ (\A d \in Drivers : ~Beating(d)) => beaten <= beats
    /\ \A d \in Drivers : Beating(d) => /\ beaten <= beats + 1 /\ drive[d].before < cycleCount
                                        /\ \A e \in Drivers : Beating(e) => e = d

\* Who beats, and since which count, is as it was; cycles only went on.
LEMMA BeatsUntouched ==
  ASSUME CyclesTypeOK, WindowInv, UNCHANGED <<beats, beaten>>, blurred => blurred',
         cycleCount' = cycleCount \/ cycleCount' = cycleCount + 1
                                  \/ (~blurred' => \A e \in Drivers : ~Beating(e)),
         \A e \in Drivers : Beating(e)' = Beating(e) /\ (Beating(e) => drive'[e].before = drive[e].before)
  PROVE  WindowInv'
<1>1. ASSUME ~blurred', NEW e \in Drivers, Beating(e) PROVE drive'[e].before < cycleCount'
  <2>1. drive[e].before \in Nat /\ cycleCount \in Nat /\ drive[e].before < cycleCount
    BY <1>1 DEF WindowInv, CyclesTypeOK, Driver
  <2>2. cycleCount' = cycleCount \/ cycleCount' = cycleCount + 1
    BY <1>1
  <2>3. QED
    BY <1>1, <2>1, <2>2
<1>2. QED
  BY <1>1 DEF WindowInv

LEMMA WindowStep == CyclesTypeOK /\ WindowInv /\ [CyclesNext]_cycleVars => WindowInv'
<1> SUFFICES ASSUME CyclesTypeOK, WindowInv, [CyclesNext]_cycleVars PROVE WindowInv'
  OBVIOUS
<1> USE DEF checkpointed, windowed, restored
<1>1. ASSUME UNCHANGED <<drive, cycleCount, beats, beaten, blurred>> PROVE WindowInv'
  BY <1>1 DEF WindowInv, Beating, Cycling
<1>2. ASSUME NEW t \in Inputs, Enqueue(t) \/ ExpireTask(t) PROVE WindowInv'
  BY <1>1, <1>2 DEF Enqueue, ExpireTask
<1>3. CASE Pause \/ Resume
  BY <1>1, <1>3 DEF Pause, Resume
<1>4. ASSUME NEW d \in Drivers, Cycle(d) PROVE WindowInv'
  <2>1. ASSUME NEW n \in 1..MaxRun, CallRun(d, n) PROVE WindowInv'
    <3>1. [AtRest EXCEPT !.left = n] \in Driver /\ [AtRest EXCEPT !.left = n].kind = "run"
      BY <2>1, CycleAssumption DEF CycleAssumption, AtRest, Driver, Controls
    <3>2. OpenCycle(d, [AtRest EXCEPT !.left = n])
      BY <2>1 DEF CallRun
    <3>3. /\ drive'[d].kind = "run" /\ \A e \in Drivers : e # d => drive'[e] = drive[e]
          /\ cycleCount' = cycleCount + 1
      BY <3>1, <3>2, OpenCycleDoes
    <3>4. ~Beating(d) /\ ~Beating(d)' /\ UNCHANGED <<beats, beaten, blurred>>
      BY <2>1, <3>3 DEF CallRun, Beating, Cycling
    <3>5. QED
      BY <3>3, <3>4, BeatsUntouched DEF Beating, Cycling
  <2>2. CASE CallStep(d)
    <3>1. /\ [AtRest EXCEPT !.kind = "step"] \in Driver
          /\ [AtRest EXCEPT !.kind = "step"].kind = "step"
      BY DEF AtRest, Driver, Controls
    <3>2. StepBegins(d, [AtRest EXCEPT !.kind = "step"])
      BY <2>2 DEF CallStep
    <3>3. /\ drive'[d].kind = "step" /\ \A e \in Drivers : e # d => drive'[e] = drive[e]
          /\ cycleCount' = cycleCount + 1
      BY <3>1, <3>2, StepBeginsDoes
    <3>4. ~Beating(d) /\ ~Beating(d)' /\ UNCHANGED <<beats, beaten, blurred>>
      BY <2>2, <3>3 DEF CallStep, Beating, Cycling
    <3>5. QED
      BY <3>3, <3>4, BeatsUntouched DEF Beating, Cycling
  <2>3. ASSUME NEW rolled \in BOOLEAN, Tick(d, rolled) PROVE WindowInv'
    <3> DEFINE used == IF rolled THEN 0 ELSE beats
               beat == [AtRest EXCEPT !.kind = "beat", !.before = cycleCount]
    <3>1. used \in Int /\ beats' = used /\ drive[d].pc = "idle" /\ ~Beating(d)
      BY <2>3 DEF Tick, CyclesTypeOK, Beating, Cycling
    <3>2. ASSUME Spare(used) PROVE WindowInv'
      <4>1. beat \in Driver /\ beat.kind = "beat" /\ beat.before = cycleCount
        BY DEF CyclesTypeOK, AtRest, Driver, Controls
      <4>2. /\ StepBegins(d, beat)
            /\ beaten' = (IF rolled THEN 0 ELSE beaten) + 1
            /\ blurred' = ((~rolled /\ blurred) \/ \E e \in Drivers : Beating(e))
        BY <2>3, <3>2 DEF Tick
      <4> HIDE DEF beat
      <4>3. /\ drive'[d].kind = "beat" /\ drive'[d].before = cycleCount
            /\ cycleCount' = cycleCount + 1
            /\ \A e \in Drivers : e # d => drive'[e] = drive[e]
        BY <4>1, <4>2, StepBeginsDoes
      <4>4. SUFFICES ASSUME ~blurred' PROVE WindowInv'
        BY DEF WindowInv
      <4>5. /\ rolled \/ ~blurred
            /\ \A e \in Drivers : ~Beating(e)
        BY <4>2, <4>4
      <4>6. \A e \in Drivers : Beating(e)' => e = d
        BY <4>3, <4>5 DEF Beating, Cycling
      <4>7. beaten' <= used + 1
        BY <4>2, <4>5 DEF WindowInv, CyclesTypeOK
      <4>8. used < WindowMax /\ beaten' <= WindowMax
        BY <3>1, <3>2, <4>2, <4>7, CycleAssumption DEF Spare, CyclesTypeOK, CycleAssumption
      <4>9. Beating(d)'
        <5>1. drive'[d].pc = "tools"
          BY <4>1, <4>2, StepBeginsDoes
        <5>2. QED
          BY <4>3, <5>1 DEF Beating, Cycling
      <4>10. cycleCount < cycleCount'
        BY <4>3 DEF CyclesTypeOK
      <4>11. QED
        BY <3>1, <4>3, <4>6, <4>7, <4>8, <4>9, <4>10 DEF WindowInv
    <3>3. ASSUME ~Spare(used) PROVE WindowInv'
      <4>1. /\ drive'[d].pc = "tail" /\ UNCHANGED <<cycleCount, beaten, blurred>>
            /\ \A e \in Drivers : e # d => drive'[e] = drive[e]
        BY <2>3, <3>3, RestIsDriver DEF Tick, CyclesTypeOK, AtRest
      <4>2. \A e \in Drivers : /\ Beating(e)' = Beating(e)
                               /\ Beating(e) => drive'[e].before = drive[e].before
        BY <3>1, <4>1 DEF Beating, Cycling
      <4>3. CASE rolled
        <5>1. beats' = 0 /\ WindowMax = 0
          BY <3>1, <3>3, <4>3, CycleAssumption DEF Spare, CycleAssumption
        <5>2. ~blurred => beaten <= beats' /\ beaten <= beats' + 1
          BY <5>1 DEF WindowInv, CyclesTypeOK
        <5>3. QED
          BY <4>1, <4>2, <5>2 DEF WindowInv
      <4>4. CASE ~rolled
        BY <3>1, <4>1, <4>2, <4>4, BeatsUntouched
      <4>5. QED
        BY <4>3, <4>4
    <3>4. QED
      BY <3>2, <3>3
  <2>4. ASSUME NEW g \in ToolGoals, Dispatch(d, g) PROVE WindowInv'
    <3>1. /\ UNCHANGED <<cycleCount, beats, beaten, blurred>>
          /\ \A e \in Drivers : /\ drive'[e].pc = drive[e].pc /\ drive'[e].kind = drive[e].kind
                                /\ drive'[e].before = drive[e].before
      BY <2>4 DEF Dispatch, CyclesTypeOK, Driver
    <3>2. QED
      BY <3>1, BeatsUntouched DEF Beating, Cycling
  <2>5. ASSUME NEW taken \in SUBSET queue, NEW kept \in SUBSET (graph \cup taken),
               Perceive(d, taken, kept)
        PROVE  WindowInv'
    <3>1. /\ UNCHANGED <<cycleCount, beats, beaten, blurred>>
          /\ drive[d].pc = "tools" /\ drive'[d].pc = "reason" /\ drive'[d].kind = drive[d].kind
          /\ \A e \in Drivers : drive'[e].before = drive[e].before
          /\ \A e \in Drivers : e # d => drive'[e] = drive[e]
      BY <2>5 DEF Perceive, Process, CyclesTypeOK, Driver
    <3>2. QED
      BY <3>1, BeatsUntouched DEF Beating, Cycling
  <2>6. CASE NextCycle(d)
    <3>1. drive[d].pc = "learn" /\ UNCHANGED <<beats, beaten, blurred>>
      BY <2>6 DEF NextCycle
    <3>2. QED
      BY <2>6, <3>1, NextCycleDoes, BeatsUntouched DEF Beating, Cycling
  <2>7. CASE FailCycle(d)
    <3>1. /\ drive'[d].pc = "idle" /\ \A e \in Drivers : e # d => drive'[e] = drive[e]
          /\ UNCHANGED <<cycleCount, beats, beaten>>
          /\ blurred' = (blurred \/ drive[d].kind = "beat")
      BY <2>7, RestIsDriver DEF FailCycle, CyclesTypeOK
    <3>2. CASE drive[d].kind = "beat"
      BY <3>1, <3>2 DEF WindowInv
    <3>3. CASE drive[d].kind # "beat"
      BY <3>1, <3>3, BeatsUntouched DEF Beating, Cycling
    <3>4. QED
      BY <3>2, <3>3
  <2>8. ASSUME NEW kept \in SUBSET graph, LastCycle(d, kept) PROVE WindowInv'
    <3>1. /\ drive'[d].pc \in {"idle", "tail"} /\ \A e \in Drivers : e # d => drive'[e] = drive[e]
          /\ UNCHANGED <<cycleCount, beaten, blurred>> /\ drive[d].pc = "learn"
      BY <2>8, RestIsDriver DEF LastCycle, CyclesTypeOK, AtRest
    <3>2. ~Beating(d)' /\ \A e \in Drivers : e # d => Beating(e)' = Beating(e)
      BY <3>1 DEF Beating, Cycling
    <3>3. CASE drive[d].kind = "beat"
      <4>1. Beating(d) /\ beats' = beats + (cycleCount - drive[d].before)
        BY <2>8, <3>1, <3>3 DEF LastCycle, Beating, Cycling
      <4>2. SUFFICES ASSUME ~blurred PROVE WindowInv'
        BY <3>1 DEF WindowInv
      <4>3. /\ beaten <= WindowMax /\ beaten <= beats + 1 /\ drive[d].before < cycleCount
            /\ \A e \in Drivers : Beating(e) => e = d
        BY <4>1, <4>2 DEF WindowInv
      <4>4. beaten <= beats'
        <5>1. drive[d].before \in Nat /\ cycleCount \in Nat /\ beats \in Int /\ beaten \in Nat
          BY DEF CyclesTypeOK, Driver
        <5>2. QED
          BY <4>1, <4>3, <5>1
      <4>5. QED
        BY <3>1, <3>2, <4>3, <4>4 DEF WindowInv
    <3>4. CASE drive[d].kind # "beat"
      <4>1. UNCHANGED beats /\ ~Beating(d)
        BY <2>8, <3>4 DEF LastCycle, Beating
      <4>2. ASSUME NEW e \in Drivers
            PROVE  /\ Beating(e)' = Beating(e)
                   /\ Beating(e) => drive'[e].before = drive[e].before
        <5>1. CASE e = d
          BY <3>2, <4>1, <5>1 DEF Beating, Cycling
        <5>2. CASE e # d
          BY <3>1, <5>2 DEF Beating, Cycling
        <5>3. QED
          BY <5>1, <5>2
      <4>3. QED
        BY <3>1, <4>1, <4>2, BeatsUntouched
    <3>5. QED
      BY <3>3, <3>4
  <2>9. ASSUME NEW kept \in SUBSET graph, Consolidate(d, kept) PROVE WindowInv'
    <3>1. /\ drive[d].pc = "tail" /\ drive'[d].pc = "idle"
          /\ UNCHANGED <<cycleCount, beats, beaten, blurred>>
          /\ \A e \in Drivers : e # d => drive'[e] = drive[e]
      BY <2>9, RestIsDriver DEF Consolidate, CyclesTypeOK
    <3>2. QED
      BY <3>1, BeatsUntouched DEF Beating, Cycling
  <2>10. CASE Learn(d)
    <3>1. /\ UNCHANGED <<cycleCount, beats, beaten, blurred>>
          /\ \A e \in Drivers : /\ Beating(e)' = Beating(e)
                                /\ drive'[e].before = drive[e].before
      BY <2>10, LearnDoes DEF Learn, Beating
    <3>2. QED
      BY <3>1, BeatsUntouched
  <2>11. QED
    BY <1>4, <2>1, <2>2, <2>3, <2>4, <2>5, <2>6, <2>7, <2>8, <2>9, <2>10 DEF Cycle
<1>5. CASE Recover \/ \E n \in 0..cycleCount : Rewind(n)
  BY <1>1, <1>5 DEF Recover, Rewind, RestoreGraph
<1>6. ASSUME NEW c \in restoring, RestoreBoundary(c) PROVE WindowInv'
  <2>1. /\ UNCHANGED <<drive, beats, beaten>>
        /\ blurred' = (blurred \/ \E d \in Drivers : Beating(d))
    BY <1>6 DEF RestoreBoundary
  <2>2. QED
    BY <2>1, BeatsUntouched DEF Beating, Cycling
<1>7. CASE UNCHANGED cycleVars
  BY <1>1, <1>7 DEF cycleVars
<1>8. QED
  BY <1>2, <1>3, <1>4, <1>5, <1>6, <1>7 DEF CyclesNext

\* The beats of a window stay within its budget while none overlaps another,
\* throws or is crossed by a rewind.
THEOREM WindowsAreHeld == CyclesSpec => []WindowHeld
<1>1. CyclesInit => WindowInv
  BY RestIsDriver, CycleAssumption
     DEF CyclesInit, WindowInv, Beating, Cycling, CycleAssumption
<1>2. WindowInv => WindowHeld
  BY DEF WindowInv, WindowHeld
<1>3. QED
  BY <1>1, <1>2, WindowStep, ClockKeepsItsShape, PTL DEF CyclesSpec

-----------------------------------------------------------------------------
(* CognitiveThread: the hard inheritance bound.                              *)

\* What the members of S were given, in one dimension, out of the limits L.
LentOf(L, d, S) == MapThenSumSet(LAMBDA c : L[c][d], S)

\* It is a sum.
LEMMA LentIsSum ==
  ASSUME NEW L, NEW d, NEW S, IsFiniteSet(S), \A x \in S : L[x][d] \in Int
  PROVE  \E g : IsSum(g, [x \in S |-> L[x][d]], S) /\ LentOf(L, d, S) = g[S]
<1> DEFINE C == [t \in (SUBSET S) \ {{}} |-> CHOOSE x \in t : TRUE]
           F == [x \in S |-> L[x][d]]
           iter == CHOOSE g : g = [t \in SUBSET S |->
                     IF t = {} THEN 0 ELSE L[CHOOSE x \in t : TRUE][d] + g[t \ {CHOOSE x \in t : TRUE}]]
<1>1. C \in [(SUBSET S) \ {{}} -> S] /\ \A t \in (SUBSET S) \ {{}} : C[t] \in t
  OBVIOUS
<1>2. PICK g : Folds(g, F, C, S)
  <2>1. F \in [S -> Int]
    OBVIOUS
  <2> HIDE DEF C, F, iter
  <2> QED
    BY <1>1, <2>1, FoldExists
<1>3. \A t \in SUBSET S :
        t # {} => C[t] = (CHOOSE x \in t : TRUE) /\ F[C[t]] = L[CHOOSE x \in t : TRUE][d]
  BY <1>1
<1>4. iter = [t \in SUBSET S |->
        IF t = {} THEN 0 ELSE L[CHOOSE x \in t : TRUE][d] + iter[t \ {CHOOSE x \in t : TRUE}]]
  <2>1. g = [t \in SUBSET S |->
          IF t = {} THEN 0 ELSE L[CHOOSE x \in t : TRUE][d] + g[t \ {CHOOSE x \in t : TRUE}]]
    <3> HIDE DEF C, F, iter
    <3>1. ASSUME NEW t \in SUBSET S, t # {}
          PROVE  g[t] = L[CHOOSE x \in t : TRUE][d] + g[t \ {CHOOSE x \in t : TRUE}]
      <4>1. g[t] = F[C[t]] + g[t \ {C[t]}]
        BY <1>2, <3>1 DEF Folds
      <4> QED
        BY <1>3, <3>1, <4>1
    <3>2. \A t \in SUBSET S : t = {} => g[t] = 0
      BY <1>2 DEF Folds
    <3>3. \A t \in SUBSET S :
            g[t] = IF t = {} THEN 0 ELSE L[CHOOSE x \in t : TRUE][d] + g[t \ {CHOOSE x \in t : TRUE}]
      BY <3>1, <3>2
    <3> QED
      BY <1>2, <3>3 DEF Folds
  <2> QED
    BY <2>1
<1>5. LentOf(L, d, S) = iter[S]
  BY DEF LentOf, MapThenSumSet, MapThenFoldSet
<1> HIDE DEF iter
<1>7. \A t \in SUBSET S : iter[t] = IF t = {} THEN 0 ELSE F[C[t]] + iter[t \ {C[t]}]
  <2> HIDE DEF C, F
  <2>1. \A t \in SUBSET S : iter[t] =
          IF t = {} THEN 0 ELSE L[CHOOSE x \in t : TRUE][d] + iter[t \ {CHOOSE x \in t : TRUE}]
    BY <1>4
  <2>2. ASSUME NEW t \in SUBSET S, t # {} PROVE iter[t] = F[C[t]] + iter[t \ {C[t]}]
    <3>1. C[t] = (CHOOSE x \in t : TRUE) /\ F[C[t]] = L[CHOOSE x \in t : TRUE][d]
      BY <1>3, <2>2
    <3>2. iter[t] = L[CHOOSE x \in t : TRUE][d] + iter[t \ {CHOOSE x \in t : TRUE}]
      BY <2>1, <2>2
    <3> QED
      BY <3>1, <3>2
  <2>3. \A t \in SUBSET S : t = {} => iter[t] = 0
    BY <2>1
  <2> QED
    BY <2>2, <2>3
<1>8. \A x \in S : F[x] \in Int
  OBVIOUS
<1>9. IsSum(iter, F, S)
  <2> HIDE DEF C, F
  <2> QED
    BY <1>1, <1>7, <1>8, FoldIsSum
<1> QED
  BY <1>5, <1>9

\* Equal limits, equal sums.
LEMMA LentSame ==
  ASSUME NEW L, NEW M, NEW d, NEW S, IsFiniteSet(S),
         \A x \in S : L[x][d] \in Int /\ M[x][d] = L[x][d]
  PROVE  LentOf(M, d, S) = LentOf(L, d, S)
<1> DEFINE F == [x \in S |-> L[x][d]]  G == [x \in S |-> M[x][d]]
<1>1. PICK g : IsSum(g, F, S) /\ LentOf(L, d, S) = g[S]
  BY LentIsSum
<1>2. PICK h : IsSum(h, G, S) /\ LentOf(M, d, S) = h[S]
  BY LentIsSum
<1>3. \A x \in S : F[x] = G[x]
  OBVIOUS
<1> HIDE DEF F, G
<1> QED
  BY <1>1, <1>2, <1>3, SumIsOne

\* One more member adds its limit.
LEMMA LentMore ==
  ASSUME NEW L, NEW d, NEW S, IsFiniteSet(S), NEW c, c \notin S,
         \A x \in S \cup {c} : L[x][d] \in Int
  PROVE  LentOf(L, d, S \cup {c}) = LentOf(L, d, S) + L[c][d]
<1> DEFINE R == S \cup {c}  F == [x \in S |-> L[x][d]]  G == [x \in R |-> L[x][d]]
<1>1. IsFiniteSet(R) /\ c \in R /\ R \ {c} = S /\ S \in SUBSET R
  BY FS_AddElement
<1>2. PICK g : IsSum(g, F, S) /\ LentOf(L, d, S) = g[S]
  BY LentIsSum
<1>3. PICK h : IsSum(h, G, R) /\ LentOf(L, d, R) = h[R]
  BY <1>1, LentIsSum
<1>4. (\A x \in S : F[x] = G[x]) /\ G[c] = L[c][d]
  OBVIOUS
<1> HIDE DEF F, G, R
<1>5. IsSum(h, G, S)
  BY <1>1, <1>3, SumOfPart
<1>6. g[S] = h[S]
  BY <1>2, <1>4, <1>5, SumIsOne
<1>7. h[R] = h[S] + G[c]
  BY <1>1, <1>3 DEF IsSum
<1> QED
  BY <1>2, <1>3, <1>4, <1>6, <1>7 DEF R

\* Nobody has nothing.
LEMMA LentNothing == ASSUME NEW L, NEW d PROVE LentOf(L, d, {}) = 0
<1> DEFINE F == [x \in {} |-> L[x][d]]
<1>1. PICK g : IsSum(g, F, {}) /\ LentOf(L, d, {}) = g[{}]
  BY LentIsSum, FS_EmptySet
<1> QED
  BY <1>1 DEF IsSum

\* HardInheritance, with the sums named.
Bounds ==
  \A p \in Owners, d \in Dimensions :
    LentOf(limit, d, Children(p) \cap hard) <= spent[p][d] /\ spent[p][d] <= limit[p][d]

\* The two say the same.
LEMMA BoundsAre == Bounds <=> HardInheritance
BY DEF Bounds, HardInheritance, LentOf

\* A thread that does not exist yet has spent nothing; only one that exists has
\* children, is charged for, or is pooled.
KinExist ==
  /\ hard \cup pooled \subseteq Alive /\ IsFiniteSet(Alive)
  /\ \A t \in Threads : parent[t] \in Alive \cup {"pool", "none"}
  /\ \A t \in Threads \ Alive, d \in Dimensions : spent[t][d] = 0

ThreadInv == ThreadTypeOK /\ KinExist /\ Bounds

\* What a slice has left is its own.
LEMMA RemainingFits ==
  ASSUME ThreadConstants, ThreadInv, NEW o \in Owners, NEW d \in Dimensions
  PROVE  /\ Remaining(o)[d] \in 0 .. LimitBound
         /\ spent[o][d] + Remaining(o)[d] = limit[o][d]
         /\ limit[o][d] \in 0 .. LimitBound /\ spent[o][d] \in 0 .. LimitBound
<1>1. limit[o][d] \in 0 .. LimitBound /\ spent[o][d] \in 0 .. LimitBound /\ spent[o][d] <= limit[o][d]
  <2>1. limit[o] \in [Dimensions -> 0 .. LimitBound] /\ spent[o] \in [Dimensions -> 0 .. LimitBound]
    BY DEF ThreadInv, ThreadTypeOK
  <2>2. spent[o][d] <= limit[o][d]
    BY DEF ThreadInv, Bounds
  <2> QED
    BY <2>1, <2>2
<1>2. Remaining(o)[d] = IF limit[o][d] > spent[o][d] THEN limit[o][d] - spent[o][d] ELSE 0
  BY DEF Remaining
<1>3. LimitBound \in Nat
  BY DEF ThreadConstants
<1> QED
  BY <1>1, <1>2, <1>3

\* Whatever is asked for, what is allotted is part of what remains.
LEMMA AllottedFits ==
  ASSUME ThreadConstants, ThreadInv, NEW o \in Owners, NEW req \in Requests, NEW default,
         \A d \in Dimensions : default[d] \in Nat
  PROVE  \A d \in Dimensions : /\ Allotted(o, req, default)[d] \in 0 .. LimitBound
                               /\ spent[o][d] + Allotted(o, req, default)[d] <= limit[o][d]
                               /\ limit[o][d] \in 0 .. LimitBound /\ spent[o][d] \in 0 .. LimitBound
<1> SUFFICES ASSUME NEW d \in Dimensions
             PROVE  /\ Allotted(o, req, default)[d] \in 0 .. LimitBound
                    /\ spent[o][d] + Allotted(o, req, default)[d] <= limit[o][d]
                    /\ limit[o][d] \in 0 .. LimitBound /\ spent[o][d] \in 0 .. LimitBound
  OBVIOUS
<1> DEFINE want == IF d \in DOMAIN req THEN req[d] ELSE default[d]
<1>1. want \in Nat
  <2>1. PICK D \in SUBSET Dimensions : req \in [D -> 0 .. LimitBound]
    BY DEF ThreadConstants
  <2>2. d \in DOMAIN req => req[d] \in 0 .. LimitBound
    BY <2>1
  <2> QED
    BY <2>2 DEF ThreadConstants
<1>2. Allotted(o, req, default)[d] = Least(want, Remaining(o)[d])
  BY DEF Allotted
<1> HIDE DEF want
<1>3. \A m, n \in Nat : Least(m, n) \in Nat /\ Least(m, n) <= n
  BY DEF Least
<1>4. /\ Remaining(o)[d] \in 0 .. LimitBound
      /\ spent[o][d] + Remaining(o)[d] = limit[o][d]
      /\ limit[o][d] \in 0 .. LimitBound /\ spent[o][d] \in 0 .. LimitBound
  BY RemainingFits
<1>5. LimitBound \in Nat
  BY DEF ThreadConstants
<1> DEFINE left == Remaining(o)[d]  given == Allotted(o, req, default)[d]
<1>6. left \in Nat /\ left <= LimitBound /\ given = Least(want, left)
  BY <1>2, <1>4, <1>5
<1> HIDE DEF left, given
<1>7. given \in Nat /\ given <= left
  BY <1>1, <1>3, <1>6
<1>8. given \in 0 .. LimitBound /\ spent[o][d] + given <= limit[o][d]
  <2>1. spent[o][d] + left = limit[o][d] /\ spent[o][d] \in Nat
    BY <1>4, <1>5 DEF left
  <2> QED
    BY <1>5, <1>6, <1>7, <2>1
<1> QED
  BY <1>4, <1>8 DEF given

\* A share is a natural number.
LEMMA SharesAreNaturals ==
  ASSUME ThreadConstants, ThreadInv, NEW p \in Alive, NEW d \in Dimensions
  PROVE  Shares(p)[d] \in Nat
<1>1. p \in Owners
  BY DEF Alive, Owners
<1>2. IsFiniteSet(Children(p)) /\ Cardinality(Children(p)) \in Nat
  <2>1. Children(p) \subseteq Alive
    BY DEF Children, Alive, ThreadConstants
  <2> QED
    BY <2>1, FS_Subset, FS_CardinalityType DEF ThreadInv, KinExist
<1>3. Remaining(p)[d] \in Nat
  BY <1>1, RemainingFits
<1>4. \A m, n \in Nat : m \div (n + 2) \in Nat
  OBVIOUS
<1>5. Remaining(p)[d] \div (Cardinality(Children(p)) + 2) \in Nat
  BY <1>2, <1>3, <1>4
<1> QED
  BY <1>3, <1>5 DEF Shares

\* What a slice lent, once a thread c is born with its own limits.
LEMMA LentBefore ==
  ASSUME ThreadConstants, ThreadInv, NEW c \in Threads \ Alive, NEW limits,
         limit' = [limit EXCEPT ![c] = limits], NEW o \in Owners, NEW d \in Dimensions
  PROVE  LET S == Children(o) \cap hard
         IN  /\ IsFiniteSet(S) /\ c \notin S /\ LentOf(limit', d, S) = LentOf(limit, d, S)
             /\ LentOf(limit, d, S) \in Int
             /\ \A x \in S : limit'[x][d] = limit[x][d] /\ limit[x][d] \in Int
<1> DEFINE S == Children(o) \cap hard
<1>1. S \subseteq Alive /\ IsFiniteSet(S) /\ c \notin S
  <2>1. S \subseteq Alive
    BY DEF ThreadInv, KinExist
  <2> QED
    BY <2>1, FS_Subset DEF ThreadInv, KinExist
<1>2. \A x \in S : limit'[x][d] = limit[x][d] /\ limit[x][d] \in Int
  <2> TAKE x \in S
  <2>1. x \in Owners /\ x # c
    BY <1>1 DEF Alive, Owners
  <2>2. limit[x][d] \in 0 .. LimitBound
    BY <2>1, RemainingFits
  <2>3. limit'[x] = limit[x]
    BY <2>1 DEF ThreadInv, ThreadTypeOK
  <2> QED
    BY <2>2, <2>3
<1> HIDE DEF S
<1>3. LentOf(limit', d, S) = LentOf(limit, d, S)
  <2> DEFINE after == limit'
  <2>1. \A x \in S : limit[x][d] \in Int /\ after[x][d] = limit[x][d]
    BY <1>2
  <2> HIDE DEF after
  <2>2. LentOf(after, d, S) = LentOf(limit, d, S)
    BY <1>1, <2>1, LentSame
  <2> QED
    BY <2>2 DEF after
<1>4. LentOf(limit, d, S) \in Int
  <2>1. PICK g : IsSum(g, [x \in S |-> limit[x][d]], S) /\ LentOf(limit, d, S) = g[S]
    BY <1>1, <1>2, LentIsSum
  <2> QED
    BY <2>1 DEF IsSum
<1> QED
  BY <1>1, <1>2, <1>3, <1>4 DEF S

\* A birth adds one child to its parent's, and the child has none.
LEMMA BirthKeepsKin ==
  ASSUME ThreadConstants, ThreadInv, NEW c \in Threads \ Alive, NEW p \in Alive \cup {"pool"},
         parent' = [parent EXCEPT ![c] = p]
  PROVE  /\ parent' \in [Threads -> Owners \cup {"none"}]
         /\ Alive' = Alive \cup {c} /\ IsFiniteSet(Alive')
         /\ \A t \in Threads : parent'[t] \in Alive' \cup {"pool", "none"}
         /\ p \in Owners /\ p # c
         /\ Children(p)' = Children(p) \cup {c} /\ Children(c)' = {} /\ c \notin Children(p)
         /\ \A o \in Owners \ {p} : Children(o)' = Children(o)
<1>1. p \in Owners /\ p # c /\ p # "none" /\ c # "pool" /\ c # "none" /\ parent[c] = "none"
  BY DEF ThreadConstants, Alive, Owners
<1>2. parent \in [Threads -> Owners \cup {"none"}]
  BY DEF ThreadInv, ThreadTypeOK
<1>3. Alive' = Alive \cup {c}
  BY <1>1, <1>2 DEF Alive
<1>4. \A t \in Threads : parent[t] \in Alive \cup {"pool", "none"}
  BY DEF ThreadInv, KinExist
<1>5. \A o \in Owners : Children(o)' = IF o = p THEN Children(o) \cup {c} ELSE Children(o)
  <2>1. \A o \in Owners : o # "none"
    BY DEF Owners, ThreadConstants
  <2> QED
    BY <1>1, <1>2, <2>1 DEF Children
<1>6. Children(c) = {} /\ c \notin Children(p)
  BY <1>1, <1>4 DEF Children
<1>7. IsFiniteSet(Alive')
  BY <1>3, FS_AddElement DEF ThreadInv, KinExist
<1>8. parent' \in [Threads -> Owners \cup {"none"}]
  BY <1>1, <1>2
<1>9. \A t \in Threads : parent'[t] \in Alive' \cup {"pool", "none"}
  BY <1>1, <1>2, <1>3, <1>4
<1>10. c \in Owners
  BY DEF Owners
<1> QED
  BY <1>1, <1>3, <1>5, <1>6, <1>7, <1>8, <1>9, <1>10

\* A charged birth: what the child may spend is part of what its parent spent.
LEMMA InheritKeepsBounds ==
  ASSUME ThreadConstants, ThreadInv, NEW c \in Threads \ Alive, NEW p \in Alive \cup {"pool"},
         NEW req \in Requests, NEW default, \A d \in Dimensions : default[d] \in Nat,
         Inherit(c, p, req, default), pooled' \in {pooled, pooled \cup {c}}
  PROVE  /\ limit' \in [Owners -> [Dimensions -> 0 .. LimitBound]]
         /\ spent' \in [Owners -> [Dimensions -> 0 .. LimitBound]]
         /\ parent' \in [Threads -> Owners \cup {"none"}] /\ hard' \subseteq Threads
         /\ KinExist' /\ Bounds'
<1> DEFINE alloc == Allotted(p, req, default)
<1>1. /\ spent' = [spent EXCEPT ![p] = [d \in Dimensions |-> spent[p][d] + alloc[d]]]
      /\ hard' = hard \cup {c} /\ parent' = [parent EXCEPT ![c] = p]
      /\ limit' = [limit EXCEPT ![c] = alloc]
  BY DEF Inherit, Born, Charged
<1>2. /\ parent' \in [Threads -> Owners \cup {"none"}]
      /\ Alive' = Alive \cup {c} /\ IsFiniteSet(Alive')
      /\ \A t \in Threads : parent'[t] \in Alive' \cup {"pool", "none"}
      /\ p \in Owners /\ p # c
      /\ Children(p)' = Children(p) \cup {c} /\ Children(c)' = {} /\ c \notin Children(p)
      /\ \A o \in Owners \ {p} : Children(o)' = Children(o)
  BY <1>1, BirthKeepsKin
<1>3. \A d \in Dimensions : /\ alloc[d] \in 0 .. LimitBound
                            /\ spent[p][d] + alloc[d] <= limit[p][d]
                            /\ limit[p][d] \in 0 .. LimitBound /\ spent[p][d] \in 0 .. LimitBound
  BY <1>2, AllottedFits
<1>4. alloc \in [Dimensions -> 0 .. LimitBound]
  <2>1. alloc = [d \in Dimensions |-> alloc[d]]
    BY DEF Allotted
  <2> HIDE DEF alloc
  <2> QED
    BY <1>3, <2>1
<1> HIDE DEF alloc
<1>5. /\ limit \in [Owners -> [Dimensions -> 0 .. LimitBound]]
      /\ spent \in [Owners -> [Dimensions -> 0 .. LimitBound]]
      /\ hard \cup pooled \subseteq Alive /\ Alive \subseteq Threads /\ c \in Owners /\ LimitBound \in Nat
  BY DEF ThreadInv, ThreadTypeOK, KinExist, Alive, Owners, ThreadConstants
<1>6. limit' \in [Owners -> [Dimensions -> 0 .. LimitBound]]
  BY <1>1, <1>4, <1>5
<1>7. [d \in Dimensions |-> spent[p][d] + alloc[d]] \in [Dimensions -> 0 .. LimitBound]
  BY <1>3, <1>5
<1>8. spent' \in [Owners -> [Dimensions -> 0 .. LimitBound]]
  BY <1>1, <1>5, <1>7
<1>9. KinExist'
  <2>1. hard' \cup pooled' \subseteq Alive'
    BY <1>1, <1>2, <1>5
  <2>2. \A t \in Threads \ Alive', d \in Dimensions : spent'[t][d] = 0
    <3>1. \A t \in Threads \ Alive' : t # p /\ t \in Threads \ Alive /\ t \in Owners
      <4>1. \A t \in Threads : t # "pool" /\ t \in Owners
        BY DEF ThreadConstants, Owners
      <4> QED
        BY <1>2, <4>1
    <3>2. \A t \in Threads \ Alive, d \in Dimensions : spent[t][d] = 0
      BY DEF ThreadInv, KinExist
    <3>3. \A t \in Threads \ Alive' : spent'[t] = spent[t]
      BY <1>1, <1>5, <3>1
    <3> QED
      BY <3>1, <3>2, <3>3
  <2> QED
    BY <1>2, <2>1, <2>2 DEF KinExist
<1>10. ASSUME NEW o \in Owners, NEW d \in Dimensions
       PROVE  /\ LentOf(limit', d, Children(o)' \cap hard') <= spent'[o][d]
              /\ spent'[o][d] <= limit'[o][d]
  <2> DEFINE S == Children(o) \cap hard  lent == LentOf(limit, d, S)
  <2>1. /\ IsFiniteSet(S) /\ c \notin S /\ LentOf(limit', d, S) = lent /\ lent \in Int
        /\ \A x \in S : limit'[x][d] = limit[x][d] /\ limit[x][d] \in Int
    BY <1>1, LentBefore
  <2>2. lent <= spent[o][d] /\ spent[o][d] <= limit[o][d]
    BY DEF ThreadInv, Bounds
  <2>3. limit'[c] = alloc
    BY <1>1, <1>5
  <2>4. CASE o = p
    <3>1. Children(o)' \cap hard' = S \cup {c}
      BY <1>1, <1>2, <2>4
    <3>2. LentOf(limit', d, S \cup {c}) = LentOf(limit', d, S) + limit'[c][d]
      <4> HIDE DEF S
      <4>1. \A x \in S \cup {c} : limit'[x][d] \in Int
        BY <1>3, <2>1, <2>3
      <4> QED
        BY <2>1, <4>1, LentMore
    <3>3. spent'[o][d] = spent[p][d] + alloc[d] /\ limit'[o][d] = limit[p][d]
      BY <1>1, <1>2, <1>5, <2>4
    <3> HIDE DEF S, lent
    <3>4. /\ alloc[d] \in Nat /\ spent[p][d] \in Nat /\ limit[p][d] \in Nat
          /\ spent[p][d] + alloc[d] <= limit[p][d]
      BY <1>3, <1>5
    <3>5. LentOf(limit', d, S \cup {c}) <= spent'[o][d]
      BY <2>1, <2>2, <2>3, <2>4, <3>2, <3>3, <3>4
    <3> QED
      BY <3>1, <3>3, <3>4, <3>5
  <2>5. CASE o = c
    <3>1. Children(o)' \cap hard' = {}
      BY <1>2, <2>5
    <3>2. spent'[o][d] = 0
      BY <1>1, <1>2, <1>5, <2>5 DEF ThreadInv, KinExist
    <3>3. limit'[o][d] \in Nat
      BY <1>3, <2>3, <2>5
    <3>4. LentOf(limit', d, {}) = 0
      BY LentNothing
    <3>5. LentOf(limit', d, Children(o)' \cap hard') = 0
      BY <3>1, <3>4
    <3> HIDE DEF S, lent
    <3> QED
      BY <3>2, <3>3, <3>5
  <2>6. CASE o # p /\ o # c
    <3>1. Children(o)' \cap hard' = S
      <4>1. c \notin Children(o)'
        BY <1>2, <2>6, <1>1, <1>5 DEF Children, ThreadInv, ThreadTypeOK
      <4> QED
        BY <1>1, <1>2, <2>6, <4>1
    <3>2. spent'[o] = spent[o] /\ limit'[o] = limit[o]
      BY <1>1, <1>5, <2>6
    <3> HIDE DEF S, lent
    <3> QED
      BY <2>1, <2>2, <3>1, <3>2
  <2> QED
    BY <2>4, <2>5, <2>6
<1> QED
  BY <1>1, <1>2, <1>5, <1>6, <1>8, <1>9, <1>10 DEF Bounds

\* A birth the root is not charged for.
LEMMA PoolSpawnKeepsBounds ==
  ASSUME ThreadConstants, ThreadInv, NEW c \in Threads, NEW req \in Requests, PoolSpawn(c, req)
  PROVE  /\ limit' \in [Owners -> [Dimensions -> 0 .. LimitBound]]
         /\ parent' \in [Threads -> Owners \cup {"none"}]
         /\ KinExist' /\ Bounds'
<1> DEFINE given == [d \in Dimensions |-> IF d \in DOMAIN req THEN req[d]
                                     ELSE IF d = "depth" THEN limit["pool"][d]
                                     ELSE limit["pool"][d] - spent["pool"][d]]
<1>1. /\ c \in Threads \ Alive /\ parent' = [parent EXCEPT ![c] = "pool"]
      /\ limit' = [limit EXCEPT ![c] = given] /\ spent' = spent /\ hard' = hard
      /\ pooled' = pooled \cup {c}
  BY DEF PoolSpawn, Born
<1>2. /\ parent' \in [Threads -> Owners \cup {"none"}]
      /\ Alive' = Alive \cup {c} /\ IsFiniteSet(Alive')
      /\ \A t \in Threads : parent'[t] \in Alive' \cup {"pool", "none"}
      /\ Children("pool")' = Children("pool") \cup {c}
      /\ \A o \in Owners \ {"pool"} : Children(o)' = Children(o)
  BY <1>1, BirthKeepsKin
<1>3. /\ limit \in [Owners -> [Dimensions -> 0 .. LimitBound]]
      /\ hard \cup pooled \subseteq Alive /\ Alive \subseteq Threads /\ c \in Owners /\ "pool" \in Owners
      /\ LimitBound \in Nat
  BY DEF ThreadInv, ThreadTypeOK, KinExist, Alive, Owners, ThreadConstants
<1>4. given \in [Dimensions -> 0 .. LimitBound]
  <2>1. PICK D \in SUBSET Dimensions : req \in [D -> 0 .. LimitBound]
    BY DEF ThreadConstants
  <2>2. \A d \in Dimensions :
          /\ limit["pool"][d] \in 0 .. LimitBound
          /\ limit["pool"][d] - spent["pool"][d] \in 0 .. LimitBound
    <3> TAKE d \in Dimensions
    <3>1. /\ Remaining("pool")[d] \in 0 .. LimitBound
          /\ spent["pool"][d] + Remaining("pool")[d] = limit["pool"][d]
          /\ limit["pool"][d] \in 0 .. LimitBound /\ spent["pool"][d] \in 0 .. LimitBound
      BY <1>3, RemainingFits
    <3> QED
      BY <1>3, <3>1
  <2> QED
    BY <2>1, <2>2
<1> HIDE DEF given
<1>5. limit' \in [Owners -> [Dimensions -> 0 .. LimitBound]]
  BY <1>1, <1>3, <1>4
<1>6. KinExist'
  <2>1. hard' \cup pooled' \subseteq Alive'
    BY <1>1, <1>2, <1>3
  <2>2. \A t \in Threads \ Alive', d \in Dimensions : spent'[t][d] = 0
    <3>1. \A t \in Threads \ Alive, d \in Dimensions : spent[t][d] = 0
      BY DEF ThreadInv, KinExist
    <3> QED
      BY <1>1, <1>2, <3>1
  <2> QED
    BY <1>2, <2>1, <2>2 DEF KinExist
<1>7. ASSUME NEW o \in Owners, NEW d \in Dimensions
      PROVE  /\ LentOf(limit', d, Children(o)' \cap hard') <= spent'[o][d]
             /\ spent'[o][d] <= limit'[o][d]
  <2> DEFINE S == Children(o) \cap hard  lent == LentOf(limit, d, S)
  <2>1. LentOf(limit', d, S) = lent
    BY <1>1, LentBefore
  <2>2. lent <= spent[o][d] /\ spent[o][d] <= limit[o][d]
    BY DEF ThreadInv, Bounds
  <2>3. Children(o)' \cap hard' = S
    BY <1>1, <1>2, <1>3
  <2>4. spent[o][d] <= limit'[o][d]
    <3>1. CASE o = c
      <4>1. spent[o][d] = 0 /\ limit'[o] = given
        BY <1>1, <1>3, <3>1 DEF ThreadInv, KinExist
      <4>2. given[d] \in Nat
        BY <1>3, <1>4
      <4> QED
        BY <4>1, <4>2
    <3>2. CASE o # c
      BY <1>1, <1>3, <2>2, <3>2
    <3> QED
      BY <3>1, <3>2
  <2> HIDE DEF S, lent
  <2> QED
    BY <1>1, <2>1, <2>2, <2>3, <2>4
<1> QED
  BY <1>2, <1>5, <1>6, <1>7 DEF Bounds

\* Between births a slice only spends, and only what fits.
LEMMA SpendingKeepsBounds ==
  ASSUME ThreadConstants, ThreadInv, NEW t \in Alive, NEW n \in Nat, Consumed(t, "cycles", n),
         UNCHANGED <<limit, parent, hard>>, pooled' \subseteq pooled
  PROVE  /\ spent' \in [Owners -> [Dimensions -> 0 .. LimitBound]]
         /\ reason' \in [Owners -> {"none", "backpressure"} \cup Dimensions]
         /\ KinExist' /\ Bounds'
<1>1. t \in Owners /\ "cycles" \in Dimensions /\ LimitBound \in Nat
  BY DEF Alive, Owners, ThreadConstants
<1>2. /\ spent \in [Owners -> [Dimensions -> 0 .. LimitBound]]
      /\ reason \in [Owners -> {"none", "backpressure"} \cup Dimensions]
  BY DEF ThreadInv, ThreadTypeOK
<1> DEFINE s == spent[t]["cycles"]  l == limit[t]["cycles"]
<1>3. s \in Nat /\ l \in Nat /\ l <= LimitBound
  BY <1>1, RemainingFits
<1>4. \/ spent' = spent
      \/ spent' = [spent EXCEPT ![t]["cycles"] = s + n] /\ l - s >= n
  BY DEF Consumed
<1>5. reason' \in [Owners -> {"none", "backpressure"} \cup Dimensions]
  BY <1>1, <1>2 DEF Consumed
<1> HIDE DEF s, l
<1>6. l - s >= n => s + n \in 0 .. LimitBound /\ s + n <= l /\ s <= s + n
  BY <1>1, <1>3
<1>7. /\ spent' \in [Owners -> [Dimensions -> 0 .. LimitBound]]
      /\ \A o \in Owners, d \in Dimensions :
           \/ spent'[o][d] = spent[o][d]
           \/ o = t /\ d = "cycles" /\ s <= spent'[o][d] /\ spent'[o][d] <= l
  <2>1. CASE spent' = spent
    BY <1>2, <2>1
  <2>2. CASE spent' = [spent EXCEPT ![t]["cycles"] = s + n] /\ l - s >= n
    <3>1. s + n \in 0 .. LimitBound /\ s + n <= l /\ s <= s + n
      BY <1>6, <2>2
    <3> QED
      BY <1>1, <1>2, <2>2, <3>1
  <2> QED
    BY <1>4, <2>1, <2>2
<1>8. KinExist'
  <2>1. Alive' = Alive /\ t \in Alive
    BY DEF Alive
  <2>2. \A u \in Threads \ Alive' : u \in Owners /\ u # t
    BY <2>1 DEF Owners
  <2>3. \A u \in Threads \ Alive', d \in Dimensions : spent'[u][d] = 0
    <3>1. \A u \in Threads \ Alive, d \in Dimensions : spent[u][d] = 0
      BY DEF ThreadInv, KinExist
    <3> QED
      BY <1>7, <2>1, <2>2, <3>1
  <2> QED
    BY <2>1, <2>3 DEF KinExist, ThreadInv
<1>9. \A o \in Owners : Children(o)' = Children(o)
  BY DEF Children
<1>10. ASSUME NEW o \in Owners, NEW d \in Dimensions
       PROVE  /\ LentOf(limit', d, Children(o)' \cap hard') <= spent'[o][d]
              /\ spent'[o][d] <= limit'[o][d]
  <2> DEFINE lent == LentOf(limit, d, Children(o) \cap hard)
  <2>1. LentOf(limit', d, Children(o)' \cap hard') = lent
    BY <1>9
  <2>2. lent <= spent[o][d] /\ spent[o][d] <= limit[o][d]
    BY DEF ThreadInv, Bounds
  <2>3. lent \in Int
    <3> DEFINE S == Children(o) \cap hard
    <3>1. IsFiniteSet(S) /\ S \subseteq Alive
      BY FS_Subset DEF ThreadInv, KinExist
    <3>2. \A x \in S : limit[x][d] \in Int
      <4> TAKE x \in S
      <4>1. x \in Owners
        BY <3>1 DEF Alive, Owners
      <4>2. limit[x][d] \in 0 .. LimitBound
        BY <4>1, RemainingFits
      <4> QED
        BY <4>2
    <3> HIDE DEF S
    <3>3. PICK g : IsSum(g, [x \in S |-> limit[x][d]], S) /\ LentOf(limit, d, S) = g[S]
      BY <3>1, <3>2, LentIsSum
    <3> QED
      BY <3>3 DEF IsSum, S
  <2> HIDE DEF lent
  <2>4. CASE spent'[o][d] = spent[o][d]
    BY <2>1, <2>2, <2>4
  <2>5. CASE o = t /\ d = "cycles" /\ s <= spent'[o][d] /\ spent'[o][d] <= l
    <3>1. lent <= s /\ limit'[o][d] = l
      BY <2>2, <2>5 DEF s, l
    <3>2. spent'[o][d] \in Int
      BY <1>1, <1>7
    <3> QED
      BY <1>3, <2>1, <2>3, <2>5, <3>1, <3>2
  <2> QED
    BY <1>7, <2>4, <2>5
<1> QED
  BY <1>5, <1>7, <1>8, <1>10 DEF Bounds

\* A step that leaves slices and kinship alone.
LEMMA QuietKeepsBounds ==
  ASSUME ThreadInv, UNCHANGED <<slices, parent, hard>>, pooled' \subseteq pooled
  PROVE  /\ limit' \in [Owners -> [Dimensions -> 0 .. LimitBound]]
         /\ spent' \in [Owners -> [Dimensions -> 0 .. LimitBound]]
         /\ reason' \in [Owners -> {"none", "backpressure"} \cup Dimensions]
         /\ KinExist' /\ Bounds'
<1>1. limit' = limit /\ spent' = spent /\ reason' = reason /\ parent' = parent /\ hard' = hard
  BY DEF slices
<1>2. Alive' = Alive /\ \A o \in Owners : Children(o)' = Children(o)
  BY <1>1 DEF Alive, Children
<1>3. Bounds'
  <2>1. \A o \in Owners, d \in Dimensions :
          LentOf(limit', d, Children(o)' \cap hard') = LentOf(limit, d, Children(o) \cap hard)
    BY <1>1, <1>2
  <2> QED
    BY <1>1, <2>1 DEF Bounds, ThreadInv
<1>4. KinExist'
  BY <1>1, <1>2 DEF KinExist, ThreadInv
<1> QED
  BY <1>1, <1>3, <1>4 DEF ThreadInv, ThreadTypeOK

\* A pool that admits has room; one that is left has more.
LEMMA PoolKeepsRoom ==
  ASSUME ThreadConstants, ThreadInv
  PROVE  /\ \A c \in Threads : Admits => Cardinality(pooled \cup {c}) <= MaxThreads
         /\ \A S : S \subseteq pooled => Cardinality(S) <= MaxThreads
<1>1. /\ IsFiniteSet(pooled) /\ Cardinality(pooled) \in Nat
      /\ MaxThreads \in Nat /\ Cardinality(pooled) <= MaxThreads
  BY FS_Subset, FS_CardinalityType DEF ThreadInv, ThreadTypeOK, KinExist, ThreadConstants
<1>2. ASSUME NEW c \in Threads, Admits PROVE Cardinality(pooled \cup {c}) <= MaxThreads
  <2>1. Cardinality(pooled) + 1 <= MaxThreads
    BY <1>1, <1>2 DEF Admits
  <2>2. Cardinality(pooled \cup {c}) = IF c \in pooled THEN Cardinality(pooled) ELSE Cardinality(pooled) + 1
    BY <1>1, FS_AddElement
  <2> QED
    BY <1>1, <2>1, <2>2
<1>3. ASSUME NEW S, S \subseteq pooled PROVE Cardinality(S) <= MaxThreads
  <2>1. Cardinality(S) <= Cardinality(pooled) /\ Cardinality(S) \in Nat
    BY <1>1, <1>3, FS_Subset, FS_CardinalityType
  <2> QED
    BY <1>1, <2>1
<1> QED
  BY <1>2, <1>3

\* A charged birth keeps the invariant, in the pool or not.
LEMMA InheritKeepsInv ==
  ASSUME ThreadConstants, ThreadInv, NEW c \in Threads \ Alive, NEW p \in Alive \cup {"pool"},
         NEW req \in Requests, NEW default, \A d \in Dimensions : default[d] \in Nat,
         Inherit(c, p, req, default), pooled' \in {pooled, pooled \cup {c}},
         Cardinality(pooled') <= MaxThreads
  PROVE  ThreadInv'
<1>1. /\ limit' \in [Owners -> [Dimensions -> 0 .. LimitBound]]
      /\ spent' \in [Owners -> [Dimensions -> 0 .. LimitBound]]
      /\ parent' \in [Threads -> Owners \cup {"none"}] /\ hard' \subseteq Threads
      /\ KinExist' /\ Bounds'
  BY InheritKeepsBounds
<1>2. /\ reason' = reason /\ status' = status /\ failed' = failed /\ working' = working
      /\ queued' = queued /\ cut' = cut
  BY DEF Inherit, Born
<1>3. pooled' \subseteq Threads
  BY DEF ThreadInv, ThreadTypeOK
<1>4. /\ reason \in [Owners -> {"none", "backpressure"} \cup Dimensions]
      /\ status \in [Threads -> {"created", "running", "completed", "killed", "error"}]
      /\ failed \subseteq Threads /\ working \subseteq Threads
      /\ queued \in [Threads -> 0 .. MailboxCapacity] /\ cut \in BOOLEAN
  BY DEF ThreadInv, ThreadTypeOK
<1>5. ThreadTypeOK'
  BY <1>1, <1>2, <1>3, <1>4 DEF ThreadTypeOK
<1> QED
  BY <1>1, <1>5 DEF ThreadInv

\* Every step keeps every slice within its limits.
LEMMA ThreadStep == ThreadInv /\ [ThreadNext]_threadVars => ThreadInv'
<1> SUFFICES ASSUME ThreadInv, [ThreadNext]_threadVars PROVE ThreadInv'
  OBVIOUS
<1> USE ThreadConstants
<1>0. /\ parent \in [Threads -> Owners \cup {"none"}] /\ hard \subseteq Threads
      /\ reason \in [Owners -> {"none", "backpressure"} \cup Dimensions]
      /\ spent \in [Owners -> [Dimensions -> 0 .. LimitBound]]
      /\ limit \in [Owners -> [Dimensions -> 0 .. LimitBound]]
      /\ status \in [Threads -> {"created", "running", "completed", "killed", "error"}]
      /\ failed \subseteq Threads /\ working \subseteq Threads
      /\ pooled \subseteq Threads /\ Cardinality(pooled) <= MaxThreads
      /\ queued \in [Threads -> 0 .. MailboxCapacity] /\ cut \in BOOLEAN
  BY DEF ThreadInv, ThreadTypeOK
<1>1. ASSUME NEW c \in Threads, NEW req \in Requests, NEW t \in Threads, Spawn(t, c, req)
      PROVE  ThreadInv'
  <2>1. c \in Threads \ Alive /\ t \in Alive /\ Inherit(c, t, req, Shares(t)) /\ pooled' = pooled
    BY <1>1 DEF Spawn
  <2>2. \A d \in Dimensions : Shares(t)[d] \in Nat
    BY <2>1, SharesAreNaturals
  <2>3. Cardinality(pooled') <= MaxThreads
    BY <1>0, <2>1
  <2> QED
    BY <2>1, <2>2, <2>3, InheritKeepsInv
<1>2. ASSUME NEW c \in Threads, NEW req \in Requests, PoolSpawnWithBudget(c, req)
      PROVE  ThreadInv'
  <2>1. /\ c \in Threads \ Alive /\ Inherit(c, "pool", req, Remaining("pool"))
        /\ pooled' = pooled \cup {c} /\ Admits
    BY <1>2 DEF PoolSpawnWithBudget
  <2>2. \A d \in Dimensions : Remaining("pool")[d] \in Nat
    <3>1. "pool" \in Owners
      BY DEF Owners
    <3>2. \A d \in Dimensions : Remaining("pool")[d] \in 0 .. LimitBound
      BY <3>1, RemainingFits
    <3> QED
      BY <3>2
  <2>3. Cardinality(pooled') <= MaxThreads
    BY <2>1, PoolKeepsRoom
  <2> QED
    BY <2>1, <2>2, <2>3, InheritKeepsInv
<1>3. ASSUME NEW c \in Threads, NEW req \in Requests, PoolSpawn(c, req)
      PROVE  ThreadInv'
  <2>1. /\ limit' \in [Owners -> [Dimensions -> 0 .. LimitBound]]
        /\ parent' \in [Threads -> Owners \cup {"none"}]
        /\ KinExist' /\ Bounds'
    BY <1>3, PoolSpawnKeepsBounds
  <2>2. /\ reason' = reason /\ status' = status /\ failed' = failed /\ working' = working
        /\ queued' = queued /\ cut' = cut /\ spent' = spent /\ hard' = hard
        /\ pooled' = pooled \cup {c} /\ Admits
    BY <1>3 DEF PoolSpawn, Born
  <2>3. Cardinality(pooled') <= MaxThreads
    BY <2>2, PoolKeepsRoom
  <2>4. ThreadTypeOK'
    BY <1>0, <2>1, <2>2, <2>3 DEF ThreadTypeOK
  <2> QED
    BY <2>1, <2>4 DEF ThreadInv
<1>4. ASSUME NEW t \in Alive, NEW n \in Nat, Consumed(t, "cycles", n),
             UNCHANGED <<limit, kinship, cut>>,
             status' \in [Threads -> {"created", "running", "completed", "killed", "error"}],
             failed' = failed, working' \subseteq Threads, queued' \in [Threads -> 0 .. MailboxCapacity]
      PROVE  ThreadInv'
  <2>1. UNCHANGED <<limit, parent, hard>> /\ pooled' = pooled /\ cut' = cut
    BY <1>4 DEF kinship
  <2>2. /\ spent' \in [Owners -> [Dimensions -> 0 .. LimitBound]]
        /\ reason' \in [Owners -> {"none", "backpressure"} \cup Dimensions]
        /\ KinExist' /\ Bounds'
    BY <1>4, <2>1, SpendingKeepsBounds
  <2>3. ThreadTypeOK'
    BY <1>0, <1>4, <2>1, <2>2 DEF ThreadTypeOK
  <2> QED
    BY <2>2, <2>3 DEF ThreadInv
<1>5. ASSUME UNCHANGED <<slices, parent, hard>>, pooled' \subseteq pooled,
             status' \in [Threads -> {"created", "running", "completed", "killed", "error"}],
             failed' \subseteq Threads, working' \subseteq Threads,
             queued' \in [Threads -> 0 .. MailboxCapacity], cut' \in BOOLEAN
      PROVE  ThreadInv'
  <2>1. /\ limit' \in [Owners -> [Dimensions -> 0 .. LimitBound]]
        /\ spent' \in [Owners -> [Dimensions -> 0 .. LimitBound]]
        /\ reason' \in [Owners -> {"none", "backpressure"} \cup Dimensions]
        /\ KinExist' /\ Bounds'
    BY <1>5, QuietKeepsBounds
  <2>2. Cardinality(pooled') <= MaxThreads
    BY <1>5, PoolKeepsRoom
  <2>3. ThreadTypeOK'
    BY <1>0, <1>5, <2>1, <2>2 DEF ThreadTypeOK
  <2> QED
    BY <2>1, <2>3 DEF ThreadInv
<1>6. ASSUME NEW t \in Threads, Send(t) PROVE ThreadInv'
  <2>1. queued' \in [Threads -> 0 .. MailboxCapacity]
    <3>1. queued[t] \in 0 .. MailboxCapacity /\ MailboxCapacity \in Nat
      BY <1>0 DEF ThreadConstants
    <3>2. CASE queued[t] < MailboxCapacity
      <4>1. queued[t] + 1 \in 0 .. MailboxCapacity
        BY <3>1, <3>2
      <4> QED
        BY <1>0, <1>6, <3>2, <4>1 DEF Send
    <3>3. CASE ~(queued[t] < MailboxCapacity)
      BY <1>0, <1>6, <3>3 DEF Send
    <3> QED
      BY <3>2, <3>3
  <2>2. t \in Alive /\ Consumed(t, "cycles", 1) /\ UNCHANGED <<limit, kinship, status, failed, working, cut>>
    BY <1>6 DEF Send
  <2> QED
    BY <1>0, <1>4, <2>1, <2>2
<1>7. ASSUME NEW t \in Threads, Receive(t) PROVE ThreadInv'
  <2>1. queued' \in [Threads -> 0 .. MailboxCapacity]
    <3>1. queued[t] \in 0 .. MailboxCapacity /\ MailboxCapacity \in Nat /\ queued[t] > 0
      BY <1>0, <1>7 DEF ThreadConstants, Receive
    <3>2. queued[t] - 1 \in 0 .. MailboxCapacity
      BY <3>1
    <3> QED
      BY <1>0, <1>7, <3>2 DEF Receive
  <2> QED
    BY <1>0, <1>5, <1>7, <2>1 DEF Receive, kinship
<1>8. ASSUME NEW t \in Threads, RunStart(t) PROVE ThreadInv'
  <2>1. t \in Alive /\ Consumed(t, "cycles", 1) /\ UNCHANGED <<limit, kinship, failed, queued, cut>>
    BY <1>8 DEF RunStart
  <2>2. /\ status' \in [Threads -> {"created", "running", "completed", "killed", "error"}]
        /\ working' \subseteq Threads
    BY <1>0, <1>8 DEF RunStart
  <2> QED
    BY <1>0, <1>4, <2>1, <2>2
<1>9. ASSUME NEW t \in Threads, NEW ok \in BOOLEAN, RunEnd(t, ok) PROVE ThreadInv'
  <2>1. /\ status' \in [Threads -> {"created", "running", "completed", "killed", "error"}]
        /\ working' \subseteq Threads /\ failed' \subseteq Threads
    BY <1>0, <1>9 DEF RunEnd
  <2> QED
    BY <1>0, <1>5, <1>9, <2>1 DEF RunEnd, kinship
<1>10. ASSUME NEW S, S \subseteq Threads, Killed(S), pooled' \subseteq pooled,
              UNCHANGED <<slices, parent, hard, working, queued, cut>>
       PROVE  ThreadInv'
  <2>1. /\ status' \in [Threads -> {"created", "running", "completed", "killed", "error"}]
        /\ failed' \subseteq Threads
    BY <1>0, <1>10 DEF Killed
  <2> QED
    BY <1>0, <1>5, <1>10, <2>1
<1>11. ASSUME NEW t \in Threads, Kill(t) PROVE ThreadInv'
  BY <1>10, <1>11 DEF Kill, kinship
<1>12. ASSUME NEW t \in Threads, NEW cycles \in 1 .. 2, Consume(t, cycles) PROVE ThreadInv'
  <2>1. /\ t \in Alive /\ cycles \in Nat /\ Consumed(t, "cycles", cycles)
        /\ UNCHANGED <<limit, kinship, status, failed, working, queued, cut>>
    BY <1>12 DEF Consume
  <2> QED
    BY <1>0, <1>4, <2>1
<1>13. ASSUME NEW S \in SUBSET pooled, PoolKill(S) PROVE ThreadInv'
  BY <1>0, <1>10, <1>13 DEF PoolKill
<1>14. CASE CutOff
  BY <1>0, <1>5, <1>14 DEF CutOff, kinship
<1>15. CASE UNCHANGED threadVars
  BY <1>0, <1>5, <1>15 DEF threadVars, slices
<1>16. ASSUME ThreadNext PROVE ThreadInv'
  <2>1. \A t \in pooled : {t} \in SUBSET pooled
    OBVIOUS
  <2> QED
    BY <1>1, <1>2, <1>3, <1>6, <1>7, <1>8, <1>9, <1>11, <1>12, <1>13, <1>14, <1>16, <2>1 DEF ThreadNext
<1> QED
  BY <1>15, <1>16

\* Nothing is lent at the start.
LEMMA ThreadStart == ThreadInit => ThreadInv
<1> SUFFICES ASSUME ThreadInit PROVE ThreadInv
  OBVIOUS
<1> USE ThreadConstants
<1>1. LimitBound \in Nat /\ MailboxCapacity \in Nat /\ MaxThreads \in Nat
      /\ RootMaxima \in [Dimensions -> 0 .. LimitBound] /\ "pool" \notin Threads /\ "none" \notin Threads
  BY DEF ThreadConstants
<1>2. Alive = {} /\ \A o \in Owners : Children(o) \cap hard = {}
  BY DEF ThreadInit, Alive
<1>3. NoSpend \in [Dimensions -> 0 .. LimitBound]
  BY <1>1 DEF NoSpend
<1>4. ThreadTypeOK
  <2>1. /\ limit \in [Owners -> [Dimensions -> 0 .. LimitBound]]
        /\ spent \in [Owners -> [Dimensions -> 0 .. LimitBound]]
    BY <1>1, <1>3 DEF ThreadInit
  <2>2. Cardinality(pooled) <= MaxThreads
    BY <1>1, FS_EmptySet DEF ThreadInit
  <2>3. queued \in [Threads -> 0 .. MailboxCapacity]
    BY <1>1 DEF ThreadInit
  <2>4. /\ parent \in [Threads -> Owners \cup {"none"}]
        /\ reason \in [Owners -> {"none", "backpressure"} \cup Dimensions]
    BY DEF ThreadInit
  <2>5. status \in [Threads -> {"created", "running", "completed", "killed", "error"}]
    BY DEF ThreadInit
  <2> QED
    BY <2>1, <2>2, <2>3, <2>4, <2>5 DEF ThreadInit, ThreadTypeOK
<1>5. KinExist
  BY <1>1, <1>2, FS_EmptySet DEF KinExist, ThreadInit, Owners, NoSpend
<1>6. Bounds
  <2> SUFFICES ASSUME NEW o \in Owners, NEW d \in Dimensions
               PROVE  LentOf(limit, d, Children(o) \cap hard) <= spent[o][d] /\ spent[o][d] <= limit[o][d]
    BY DEF Bounds
  <2>1. spent[o][d] = 0
    BY DEF ThreadInit, NoSpend
  <2>2. limit[o][d] \in 0 .. LimitBound
    BY <1>4 DEF ThreadTypeOK
  <2>3. LentOf(limit, d, Children(o) \cap hard) = 0
    BY <1>2, LentNothing
  <2> QED
    BY <1>1, <2>1, <2>2, <2>3
<1> QED
  BY <1>4, <1>5, <1>6 DEF ThreadInv

\* What a slice lent to the threads it was charged for is part of what it
\* spent, and no slice spends more than it has, whatever threads are born, run
\* and are killed, and however often (cognitive-thread.ts, chargeAllocation).
THEOREM LentIsSpent == ThreadSpec => []HardInheritance
<1>1. ThreadInv => HardInheritance
  BY BoundsAre DEF ThreadInv
<1> QED
  BY <1>1, ThreadStart, ThreadStep, PTL DEF ThreadSpec

\* Slices, mailboxes and pools keep within what they were made for.
THEOREM ThreadsKeepTheirShape == ThreadSpec => []ThreadTypeOK
<1>1. ThreadInv => ThreadTypeOK
  BY DEF ThreadInv
<1> QED
  BY <1>1, ThreadStart, ThreadStep, PTL DEF ThreadSpec

\* A step keeps the error of every killed thread.
LEMMA KillStep == ThreadTypeOK /\ KillIsRemembered /\ [ThreadNext]_threadVars => KillIsRemembered'
<1> SUFFICES ASSUME ThreadTypeOK, KillIsRemembered, [ThreadNext]_threadVars PROVE KillIsRemembered'
  OBVIOUS
<1>0. status \in [Threads -> {"created", "running", "completed", "killed", "error"}]
  BY DEF ThreadTypeOK
<1>1. ASSUME UNCHANGED <<status, failed>> PROVE KillIsRemembered'
  BY <1>1 DEF KillIsRemembered
<1>2. ASSUME NEW S, Killed(S) PROVE KillIsRemembered'
  BY <1>2 DEF Killed, KillIsRemembered
<1>3. ASSUME NEW t \in Threads, RunStart(t) PROVE KillIsRemembered'
  BY <1>0, <1>3 DEF RunStart, KillIsRemembered
<1>4. ASSUME NEW t \in Threads, NEW ok \in BOOLEAN, RunEnd(t, ok) PROVE KillIsRemembered'
  BY <1>0, <1>4 DEF RunEnd, KillIsRemembered
<1>5. ASSUME NEW c \in Threads, NEW req \in Requests, NEW t \in Threads, Spawn(t, c, req)
      PROVE  KillIsRemembered'
  BY <1>1, <1>5 DEF Spawn, Inherit, Born
<1>6. ASSUME NEW c \in Threads, NEW req \in Requests, PoolSpawnWithBudget(c, req) \/ PoolSpawn(c, req)
      PROVE  KillIsRemembered'
  BY <1>1, <1>6 DEF PoolSpawnWithBudget, PoolSpawn, Inherit, Born
<1>7. ASSUME NEW t \in Threads, Send(t) \/ Receive(t) \/ \E cycles \in 1 .. 2 : Consume(t, cycles)
      PROVE  KillIsRemembered'
  BY <1>1, <1>7 DEF Send, Receive, Consume
<1>8. CASE CutOff \/ UNCHANGED threadVars
  BY <1>1, <1>8 DEF CutOff, threadVars
<1>9. (\A t \in Threads : Kill(t) => Killed({t})) /\ \A S : PoolKill(S) => Killed(S)
  BY DEF Kill, PoolKill
<1> QED
  BY <1>2, <1>3, <1>4, <1>5, <1>6, <1>7, <1>8, <1>9 DEF ThreadNext

\* No step takes an error away: run, when its work returns, sets only the status.
LEMMA ErrorsStay == [ThreadNext]_threadVars => failed \subseteq failed'
<1> SUFFICES ASSUME [ThreadNext]_threadVars PROVE failed \subseteq failed'
  OBVIOUS
<1>1. ASSUME NEW t \in Threads, NEW ok \in BOOLEAN, RunEnd(t, ok) PROVE failed \subseteq failed'
  BY <1>1 DEF RunEnd
<1>2. ASSUME NEW S, PoolKill(S) PROVE failed \subseteq failed'
  BY <1>2 DEF PoolKill, Killed
<1>3. ASSUME NEW t \in Threads, Send(t) \/ Receive(t) \/ RunStart(t) \/ Kill(t)
      PROVE  failed \subseteq failed'
  BY <1>3 DEF Send, Receive, RunStart, Kill, Killed
<1>4. ASSUME NEW t \in Threads, NEW cycles \in 1 .. 2, Consume(t, cycles) PROVE failed \subseteq failed'
  BY <1>4 DEF Consume
<1>5. ASSUME NEW c \in Threads, NEW req \in Requests,
             PoolSpawnWithBudget(c, req) \/ PoolSpawn(c, req) \/ \E t \in Threads : Spawn(t, c, req)
      PROVE  failed \subseteq failed'
  BY <1>5 DEF PoolSpawnWithBudget, PoolSpawn, Spawn, Inherit, Born
<1>6. CASE CutOff \/ UNCHANGED threadVars
  BY <1>6 DEF CutOff, threadVars
<1> QED
  BY <1>1, <1>2, <1>3, <1>4, <1>5, <1>6 DEF ThreadNext

\* A killed thread has its error, and keeps it even when its run ends well
\* later: join throws (cognitive-thread.ts, kill, run and join).
THEOREM KillsAreRemembered == ThreadSpec => []KillIsRemembered /\ [][failed \subseteq failed']_threadVars
<1>1. ThreadInit => KillIsRemembered
  BY DEF ThreadInit, KillIsRemembered
<1>2. ThreadSpec => []KillIsRemembered
  BY <1>1, KillStep, ThreadsKeepTheirShape, PTL DEF ThreadSpec
<1>3. ThreadSpec => [][failed \subseteq failed']_threadVars
  BY ErrorsStay, PTL DEF ThreadSpec
<1> QED
  BY <1>2, <1>3, PTL
=============================================================================

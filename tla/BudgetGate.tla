----------------------------- MODULE BudgetGate -----------------------------
(***************************************************************************)
(* nar/src/kernel: the budget gate every charge goes through, its scopes,  *)
(* and the control budgets that open the declared ones and re-open them    *)
(* every cycle.  A budget is a ceiling and a counter per dimension, the    *)
(* reason of its last refusal and the id it is stamped with.  Every call   *)
(* is synchronous; calls of the cycle, of System One judgments and of      *)
(* focuses come in any order.                                              *)
(***************************************************************************)
EXTENDS Integers, FiniteSets

CONSTANTS Dims,         \* BUDGET_RESOURCES
          Declared,     \* BUDGET_SCOPE_IDS
          Spends,       \* consumedKey of each declared scope
          Ceiling,      \* defaultLimit, or its override, of each declared scope
          Judged,       \* DECISION_DERIVATIONS_SCOPE
          Focuses,      \* focus ids, each a scope id too
          RootLimits,   \* the limits the gate starts with
          CycleLimits,  \* what adjustCycleBudget may set
          Costs,        \* estimatedCost of a check
          MaxLimit      \* a bound on every limit

ASSUME GateConstants ==
  /\ Declared \cap Focuses = {} /\ Judged \in Declared /\ "cycles" \in Dims
  /\ MaxLimit \in Nat /\ Costs \subseteq Nat \ {0} /\ CycleLimits \subseteq 0 .. MaxLimit
  /\ RootLimits \in [Dims -> 0 .. MaxLimit]
  /\ Spends \in [Declared -> Dims] /\ Ceiling \in [Declared -> 0 .. MaxLimit]

VARIABLES root,    \* KernelBudgetGate.budget
          scopes,  \* KernelBudgetGate.scopes
          granted  \* history: what each scope was granted since it was last renewed

gateVars == <<root, scopes, granted>>

Scopes == Declared \cup Focuses
Open == DOMAIN scopes
Zero == [d \in Dims |-> 0]
\* A termination reason: the spent dimension's own, or backpressure.
Reasons == {"none", "backpressure"} \cup Dims
Ids == {"unstamped", "root"} \cup Scopes
Budgets == [limit : [Dims -> 0 .. MaxLimit], spent : [Dims -> 0 .. MaxLimit],
            reason : Reasons, id : Ids]

-----------------------------------------------------------------------------
(* Budgets.                                                                  *)

\* budgetAffords.
Affords(b, d, cost) == b.limit[d] - b.spent[d] >= cost

\* budgetRefusal.
Refusal(b, d) == IF b.limit[d] - b.spent[d] <= 0 THEN d ELSE "backpressure"

\* freshBudget: the ceilings and the id over an unspent account.
Fresh(b) == [b EXCEPT !.spent = Zero, !.reason = "none"]

\* withBudgetId: an id already there stays.
Stamped(b, id) == IF b.id = "unstamped" THEN [b EXCEPT !.id = id] ELSE b

\* decideBudget over the budget it resolved: a charge, or a refusal's reason.
Checked(b, d, cost) ==
  IF Affords(b, d, cost) THEN [b EXCEPT !.spent[d] = @ + cost, !.reason = "none"]
  ELSE [b EXCEPT !.reason = Refusal(b, d)]

\* What a check granted to a scope, in its dimension.
Granted(b, d, cost) == IF Affords(b, d, cost) THEN cost ELSE 0

-----------------------------------------------------------------------------
(* Scopes.                                                                   *)

Put(sc, s, b) == [k \in DOMAIN sc \cup {s} |-> IF k = s THEN b ELSE sc[k]]

\* resolveBudget of a scopeId: an unknown one takes the gate's own ceilings.
Resolved(s) == IF s \in Open THEN scopes[s] ELSE Stamped(Fresh(root), s)

\* scopeBudget, adopted by createScope: the declared ceiling in the dimension
\* the scope spends, the gate's in the others.
DeclaredBudget(s) == Stamped(Stamped([Fresh(root) EXCEPT !.limit[Spends[s]] = Ceiling[s]], "root"), s)

\* Mutant: every charge re-opens its scope.
OpenAlways(s) == DeclaredBudget(s)
\* ControlBudgets.open.
Opened(s) == IF s \in Open THEN scopes[s] ELSE DeclaredBudget(s)

Renewed(s) == granted' = [granted EXCEPT ![s] = Zero]

-----------------------------------------------------------------------------
(* Calls.                                                                    *)

BudgetInit ==
  /\ root = [limit |-> RootLimits, spent |-> Zero, reason |-> "none", id |-> "root"]
  /\ scopes = [s \in {} |-> root]
  /\ granted = [s \in Scopes |-> Zero]

\* check without a scope: the gate's own budget (memory-op, lm-call).
CheckRoot(d, cost) ==
  /\ root' = Checked(root, d, cost)
  /\ UNCHANGED <<scopes, granted>>

\* A check of budget b, d, cost under the id s.
CheckAs(s, b, d, cost) ==
  /\ scopes' = Put(scopes, s, Checked(b, d, cost))
  /\ granted' = [granted EXCEPT ![s][d] = @ + Granted(b, d, cost)]
  /\ UNCHANGED root

\* ControlBudgets.charge: the cycle's way to spend a declared scope.
Charge(s, cost) == CheckAs(s, Opened(s), Spends[s], cost)

\* chargeJudgment: straight to the gate, in a cycle or outside any.
Judge(cost) == CheckAs(Judged, Resolved(Judged), Spends[Judged], cost)

\* Focus.step: straight to the gate under the focus's id.
FocusStep(f) == CheckAs(f, Resolved(f), "cycles", 1)

\* ControlBudgets.beginCycle: open what is not open, zero every counter.
BeginCycle ==
  /\ scopes' = [s \in Open \cup Declared |-> IF s \in Declared THEN Fresh(Opened(s)) ELSE scopes[s]]
  /\ granted' = [s \in Scopes |-> IF s \in Declared THEN Zero ELSE granted[s]]
  /\ UNCHANGED root

\* GameFocus.beginTick: a new scope with the gate's ceilings, then the check.
GameTick(f) ==
  LET b == Stamped(Fresh(root), f)
  IN  /\ scopes' = Put(scopes, f, Checked(b, "cycles", 1))
      /\ granted' = [granted EXCEPT ![f] = [Zero EXCEPT !["cycles"] = Granted(b, "cycles", 1)]]
      /\ UNCHANGED root

\* GameFocus.releaseScope.
Release(f) ==
  /\ f \in Open
  /\ scopes' = [s \in Open \ {f} |-> scopes[s]]
  /\ Renewed(f)
  /\ UNCHANGED root

\* NAR.adjustCycleBudget: a new ceiling under the old consumption and reason.
AdjustCycleBudget(maxCycles) ==
  /\ root' = Stamped([root EXCEPT !.limit["cycles"] = maxCycles], "root")
  /\ UNCHANGED <<scopes, granted>>

\* resetBudget: the default budget, unstamped, and no scope.
ResetBudget ==
  /\ root' = [limit |-> RootLimits, spent |-> Zero, reason |-> "none", id |-> "unstamped"]
  /\ scopes' = [s \in {} |-> root]
  /\ granted' = [s \in Scopes |-> Zero]

BudgetNext ==
  \/ \E d \in Dims, cost \in Costs : CheckRoot(d, cost)
  \/ \E s \in Declared, cost \in Costs : Charge(s, cost)
  \/ \E cost \in Costs : Judge(cost)
  \/ \E f \in Focuses : FocusStep(f) \/ GameTick(f) \/ Release(f)
  \/ \E maxCycles \in CycleLimits : AdjustCycleBudget(maxCycles)
  \/ BeginCycle \/ ResetBudget

BudgetSpec == BudgetInit /\ [][BudgetNext]_gateVars

-----------------------------------------------------------------------------
(* Properties.                                                               *)

\* Every budget keeps its shape, and no counter leaves the range of a ceiling.
BudgetTypeOK ==
  /\ root \in Budgets
  /\ Open \subseteq Scopes /\ \A s \in Open : scopes[s] \in Budgets
  /\ granted \in [Scopes -> [Dims -> 0 .. MaxLimit]]

\* A bound is a bound: what a scope was granted since its cycle (or its tick)
\* began never exceeds the ceiling it carries, however charges, judgments,
\* refusals and re-openings interleave, and a scope that is not open holds
\* nothing over ("a scope could never exhaust — a bound wearing a counter").
PerCycleBound ==
  \A s \in Scopes, d \in Dims :
    granted[s][d] <= IF s \in Open THEN scopes[s].limit[d] ELSE 0

-----------------------------------------------------------------------------
(* What a comment of the code says and the code does not do.                 *)

\* The scope table: the declared limit is the one used, "unless configuration
\* overrides it", whoever spends the scope first.
DeclaredBound == \A s \in Declared : granted[s][Spends[s]] <= Ceiling[s]

\* withBudgetId: a scope's budget is "stamped with the slice identity".
ScopesCarryTheirId == \A s \in Open : scopes[s].id = s
=============================================================================

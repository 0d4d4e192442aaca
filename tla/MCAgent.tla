------------------------------ MODULE MCAgent -------------------------------
(* What one agent keeps and drives, each by itself, for TLC: the concept    *)
(* memory of a focus (two places, three terms); the gate's budgets (two     *)
(* dimensions, the two scopes that spend them, one focus, a root ceiling    *)
(* above every declared one); two threads over a small root with mailboxes  *)
(* of one place; two drivers of the reasoner's clock.                       *)
EXTENDS FocusMemory, BudgetGate, CognitiveThread, CycleControl

VARIABLE part
agentVars == <<focusVars, gateVars, threadVars, cycleVars, part>>

TwoDims == {"cycles", "llmCalls"}
TwoScopes == {"derivations", "decision-derivations"}
SpendsOf == [s \in TwoScopes |-> IF s = "derivations" THEN "cycles" ELSE "llmCalls"]
CeilingOf == [s \in TwoScopes |-> IF s = "derivations" THEN 2 ELSE 1]
RootLimitsOf == [d \in TwoDims |-> IF d = "cycles" THEN 1 ELSE 2]

ThreadDims == {"cycles", "depth"}
RootMaximaOf == [d \in ThreadDims |-> IF d = "cycles" THEN 3 ELSE 1]
\* Nothing asked for; more cycles than may be left.
SomeRequests == {[d \in {} |-> 0], [d \in {"cycles"} |-> 2]}

AgentInit ==
  /\ FocusInit /\ BudgetInit /\ ThreadInit /\ CyclesInit
  /\ part \in {"memory", "gate", "threads", "clock", "queue"}

\* Threads differ only by name, and so do drivers.
AgentSymmetry == Permutations(Threads) \cup Permutations(Drivers)

\* The clock without inputs and rewinds; and the queue and its checkpoints, one
\* input at a time, under one driver of runs of a cycle and one of beats.
ClockSteps == entered' = {} /\ restores' = 0
QueueSteps ==
  /\ \A d \in Drivers : drive'[d].kind # "step" /\ drive'[d].left <= 1
  /\ \A d, e \in Drivers :
       d # e /\ drive'[d].pc # "idle" /\ drive'[e].pc # "idle" => drive'[d].kind # drive'[e].kind
  /\ off' = "no" /\ beaten' <= 1 /\ ~blurred' /\ Cardinality(entered') <= 1

AgentNext ==
  \/ part = "memory" /\ FocusNext /\ UNCHANGED <<gateVars, threadVars, cycleVars, part>>
  \/ part = "gate" /\ BudgetNext /\ UNCHANGED <<focusVars, threadVars, cycleVars, part>>
  \/ part = "threads" /\ ThreadNext /\ UNCHANGED <<focusVars, gateVars, cycleVars, part>>
  \/ /\ part \in {"clock", "queue"} /\ CyclesNext
     /\ IF part = "clock" THEN ClockSteps ELSE QueueSteps
     /\ UNCHANGED <<focusVars, gateVars, threadVars, part>>

AgentSpec == AgentInit /\ [][AgentNext]_agentVars
=============================================================================

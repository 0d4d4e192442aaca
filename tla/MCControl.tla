------------------------------ MODULE MCControl ------------------------------
(* Who is in control, each by itself, for TLC: the autonomy mode of a gate, *)
(* which changes a few times, with its ledger; the requests of two pages,   *)
(* one of which may make two; the graph two pages follow; and the proposal  *)
(* seam, with two works and two proposals of one rule.                      *)
EXTENDS AutonomyGate, ControlChannel, GraphSync, ProposalSeam

CONSTANTS p1, p2

VARIABLE part
allVars == <<vars, controlVars, syncVars, seamVars, part>>

\* The events a ledger row may hold.
Events == (1 .. MaxChanges) \X Modes
PremiseOf == [w \in Works |-> IF w = "w1" THEN "a" ELSE "b"]
\* Works that read the same premise yield under one stamp.
StampsOf == [w \in Works |-> IF Premise[w] = "a" THEN "stamp-a" ELSE "stamp-b"]
RulesOf == [p \in Proposals |-> "r"]
ReferencesOf == [p \in Proposals |-> IF p = "rp1" THEN {"a"} ELSE {}]
MCQuota == p1 :> 2 @@ p2 :> 1

AllInit ==
  /\ GateInit /\ ControlInit /\ SyncInit /\ SeamInit
  /\ part \in {"gate", "control", "graph", "seam"}
  /\ part # "control" => ctxWs = <<p1, 1>>

AllNext ==
  \/ part = "gate" /\ GateNext /\ UNCHANGED <<controlVars, syncVars, seamVars, part>>
  \/ part = "control" /\ ControlNext /\ UNCHANGED <<vars, syncVars, seamVars, part>>
  \/ part = "graph" /\ SyncNext /\ UNCHANGED <<vars, controlVars, seamVars, part>>
  \/ part = "seam" /\ SeamNext /\ UNCHANGED <<vars, controlVars, syncVars, part>>

AllSpec == AllInit /\ [][AllNext]_allVars
=============================================================================

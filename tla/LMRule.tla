------------------------------- MODULE LMRule -------------------------------
(***************************************************************************)
(* nar/src/lm/rule/LMRule.ts: a model rule behind a breaker of its own.    *)
(* apply asks getSkipReason first and reaches the breaker's execute only   *)
(* when that found the breaker not open; in between it may await the       *)
(* System One adapter, or the tool a first answer asked for.               *)
(***************************************************************************)
EXTENDS CircuitBreaker

CONSTANT Appliers   \* applications of the rule under way at a time

VARIABLES breaker,  \* circuitBreaker
          enabled,  \* enabled
          applier   \* where each application is

ruleVars == <<breaker, enabled, applier>>

RuleInit ==
  /\ breaker = NewBreaker /\ enabled \in BOOLEAN
  /\ applier = [a \in Appliers |-> "idle"]

\* getSkipReason, as far as state goes.
Skipped == ~enabled \/ breaker.state = "open"

\* execute: one admission test, and the call if it is passed.
Execute(a) ==
  /\ breaker' = Asked(breaker)
  /\ applier' = [applier EXCEPT ![a] = IF CanRequest(breaker) THEN "calling" ELSE "idle"]
  /\ UNCHANGED enabled

\* apply, straight to the provider.
Apply(a) == applier[a] = "idle" /\ ~Skipped /\ Execute(a)

\* apply, to the adapter first.
AskAdapter(a) ==
  /\ applier[a] = "idle" /\ ~Skipped
  /\ applier' = [applier EXCEPT ![a] = "elsewhere"]
  /\ UNCHANGED <<breaker, enabled>>

\* The adapter or the tool has answered: the provider's turn.
Return(a) == applier[a] = "elsewhere" /\ Execute(a)

\* The adapter's answer was enough, or it failed and the fallback stands.
Settle(a) ==
  /\ applier[a] = "elsewhere"
  /\ applier' = [applier EXCEPT ![a] = "idle"]
  /\ UNCHANGED <<breaker, enabled>>

\* The call's outcome, or its deadline; an answer may name a tool to run.
Finish(a, ok, next) ==
  /\ applier[a] = "calling" /\ (next = "elsewhere" => ok)
  /\ breaker' = Record(breaker, ok)
  /\ applier' = [applier EXCEPT ![a] = next]
  /\ UNCHANGED enabled

\* resetTimeoutMs passes.
Expire ==
  /\ breaker.state = "open" /\ ~breaker.expired
  /\ breaker' = [breaker EXCEPT !.expired = TRUE]
  /\ UNCHANGED <<enabled, applier>>

\* enable, disable.
Toggle == enabled' = ~enabled /\ UNCHANGED <<breaker, applier>>

\* reset: the way out that somebody must take.
Reset == breaker' = NewBreaker /\ UNCHANGED <<enabled, applier>>

RuleNext ==
  \/ Toggle \/ Expire \/ Reset
  \/ \E a \in Appliers :
       \/ Apply(a) \/ AskAdapter(a) \/ Return(a) \/ Settle(a)
       \/ \E ok \in BOOLEAN, next \in {"idle", "elsewhere"} : Finish(a, ok, next)

\* Timers fire, what is awaited answers (a call has a deadline), an enabled
\* rule keeps being applied.
RuleFairness ==
  /\ WF_ruleVars(Expire)
  /\ WF_ruleVars(~enabled /\ Toggle)
  /\ \A a \in Appliers :
       /\ WF_ruleVars(\E ok \in BOOLEAN, next \in {"idle", "elsewhere"} : Finish(a, ok, next))
       /\ WF_ruleVars(Return(a) \/ Settle(a))
       /\ SF_ruleVars(Apply(a))

RuleSpec == RuleInit /\ [][RuleNext]_ruleVars /\ RuleFairness

\* LMRule.ts:410-411: the breaker's "`resetTimeoutMs` governs a half-open probe":
\* a rule whose breaker opened is tried again after it.  (Violated: getSkipReason
\* answers for the open breaker, so the canRequest that would half-open it is
\* reached only by an application that was elsewhere when it opened.)
RuleSelfHeals == breaker.state = "open" ~> breaker.state # "open"
=============================================================================

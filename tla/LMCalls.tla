------------------------------ MODULE LMCalls ------------------------------
(***************************************************************************)
(* nar/src/lm/service: concurrent calls of the language-model service over *)
(* the breakers of ProviderRuntime.  Opening a call is one step (resolve,  *)
(* gate, cache); it settles in another; a transport failure then awaits    *)
(* the one re-probe of the active provider.  The health probe runs beside. *)
(***************************************************************************)
EXTENDS CircuitBreaker

CONSTANTS Callers,    \* calls under way at a time
          Tasks,      \* "quality" and others, each with one prompt
          Models, Providers,
          Named,      \* the model that the calls of a task name, Idle if none
          Serves,     \* the provider a model's id is normalised to
          Chains,     \* CHAINS: the rungs of an active provider for a task
          Registries, \* what createSeNARSRegistry may answer for
          Tracked,    \* the models an instance follows: any, or those it asks about
          Idle        \* no call, no probe, no model decided yet

ASSUME ChainAssumption ==
  /\ "quality" \in Tasks /\ Serves \in [Models -> Providers] /\ Idle \notin Models \cup Providers
  /\ Tracked \subseteq Models
  /\ Named \in [Tasks -> Models \cup {Idle}] /\ Named["quality"] = Idle
  /\ Chains \in [Providers -> [Tasks -> SUBSET Models]] /\ Registries \subseteq SUBSET Models

VARIABLES breakers,     \* circuitBreakers
          active,       \* getLmProvider()
          registry,     \* registry
          lastDecision, \* lastDecision?.modelId
          failures,     \* #failures of a model; demotion asks for two
          demoted,      \* demotions
          cached,       \* tasks whose answer the ResponseCache holds
          reprobed,     \* reprobeDone
          probing,      \* the provider whose health probe is awaited
          calls,        \* where each call is
          \* history: a provider's failures in a row, the models that failed in
          \* transport, how the last call of a task settled
          streak, suffered, lastOutcome

lmVars == <<breakers, active, registry, lastDecision, failures, demoted, cached, reprobed,
            probing, calls, streak, suffered, lastOutcome>>

Resting == [pc |-> "idle", task |-> "quality", model |-> Idle, provider |-> Idle,
            kind |-> "text"]

Call == [pc : {"idle", "flight", "reprobing"}, task : Tasks, model : Tracked \cup {Idle},
         provider : Providers \cup {Idle},
         \* a stream that has yielded, or been retried, is not tried again
         kind : {"text", "stream", "yielded", "retried"}]

LMInit ==
  /\ breakers = [p \in Providers |-> NewBreaker]
  /\ active \in Providers /\ registry \in Registries /\ lastDecision = Idle
  /\ failures = [m \in Tracked |-> 0] /\ demoted = {} /\ cached = {}
  /\ reprobed = FALSE /\ probing = Idle
  /\ calls = [c \in Callers |-> Resting]
  /\ streak = [p \in Providers |-> 0] /\ suffered = {}
  /\ lastOutcome = [t \in Tasks |-> "none"]

-----------------------------------------------------------------------------

\* getModelForTask: the model that is named, or whichever rung the scores put
\* first, among those answered for.
Answering(task) ==
  registry \cap (IF Named[task] # Idle THEN {Named[task]} ELSE Chains[active][task])

Resolves(task, m) == IF Answering(task) = {} THEN m = Idle ELSE m \in Answering(task)

\* provider: whoever serves the quality model, or else the configured one.
ProviderOf(q) == IF q = Idle THEN active ELSE Serves[q]

\* A model as an instance sees it.
Seen(m) == IF m \in Tracked THEN m ELSE Idle

\* recordProviderCall.
RecordCall(p, ok) ==
  /\ breakers' = [breakers EXCEPT ![p] = Record(@, ok)]
  /\ streak' = [streak EXCEPT ![p] = IF ok THEN 0 ELSE UpTo(@, FailureThreshold)]

\* open: the task's model is resolved, then the quality one (for `provider`),
\* which leaves lastDecision at the last that was found.
Opened(c, task, m, q) ==
  /\ calls[c].pc = "idle" /\ Resolves(task, m) /\ Resolves("quality", q)
  /\ task = "quality" => m = q
  /\ lastDecision' = IF q # Idle THEN Seen(q) ELSE IF m # Idle THEN Seen(m) ELSE lastDecision
  /\ UNCHANGED <<active, registry, failures, demoted, reprobed, probing>>

\* Refused: no model, or the breaker's gate.
Refused(c, task, m, q) ==
  /\ Opened(c, task, m, q) /\ (m = Idle \/ ~CanRequest(breakers[ProviderOf(q)]))
  /\ UNCHANGED <<breakers, cached, calls, streak, suffered, lastOutcome>>

\* Let through to the provider of the quality model.
Gated(c, task, m, q) ==
  Opened(c, task, m, q) /\ m # Idle /\ CanRequest(breakers[ProviderOf(q)])

\* Answered by the cache, which the provider is credited with.
Hit(c, task, m, q) ==
  /\ Gated(c, task, m, q) /\ task \in cached
  /\ breakers' = [breakers EXCEPT ![ProviderOf(q)] = Record(Asked(@), TRUE)]
  /\ streak' = [streak EXCEPT ![ProviderOf(q)] = 0]
  /\ UNCHANGED <<cached, calls, suffered, lastOutcome>>

\* Sent to the provider; a stream names no model.
Start(c, task, m, q, kind) ==
  /\ Gated(c, task, m, q) /\ task \notin cached /\ (kind = "stream" => Named[task] = Idle)
  /\ breakers' = [breakers EXCEPT ![ProviderOf(q)] = Asked(@)]
  /\ calls' = [calls EXCEPT ![c] = [Resting EXCEPT !.pc = "flight", !.task = task,
                 !.model = Seen(m), !.provider = ProviderOf(q), !.kind = kind]]
  /\ UNCHANGED <<cached, streak, suffered, lastOutcome>>

\* A stream hands its first chunk to the caller.
Yield(c) ==
  /\ calls[c].pc = "flight" /\ calls[c].kind \in {"stream", "retried"}
  /\ calls' = [calls EXCEPT ![c].kind = "yielded"]
  /\ UNCHANGED <<breakers, active, registry, lastDecision, failures, demoted, cached, reprobed,
                 probing, streak, suffered, lastOutcome>>

\* settle of a call that succeeded.
Succeed(c) ==
  /\ calls[c].pc = "flight"
  /\ cached' = cached \cup {calls[c].task}
  /\ RecordCall(calls[c].provider, TRUE)
  /\ failures' = [m \in Tracked |-> IF m = lastDecision THEN 0 ELSE failures[m]]
  /\ calls' = [calls EXCEPT ![c] = Resting]
  /\ lastOutcome' = [lastOutcome EXCEPT ![calls[c].task] = "ok"]
  /\ UNCHANGED <<active, registry, lastDecision, demoted, reprobed, probing, suffered>>

\* A stream that failed before its first chunk is tried once more, ungated.
AfterFailure(call) ==
  IF call.kind = "stream" THEN [call EXCEPT !.pc = "flight", !.kind = "retried"] ELSE Resting

\* #noteFailure.
NoteFailure(m) ==
  /\ failures' = [t \in Tracked |-> IF t = m THEN UpTo(failures[t], 2) ELSE failures[t]]
  /\ demoted' = demoted \cup {t \in Tracked : t = m /\ failures'[t] = 2}

\* Mutant: the failed answer stays cached.
FailKeepingCache(c, transport) ==
  /\ calls[c].pc = "flight"
  /\ RecordCall(calls[c].provider, FALSE)
  /\ calls' = [calls EXCEPT ![c] = AfterFailure(@)]
  /\ lastOutcome' = IF calls[c].kind = "yielded" THEN lastOutcome
                    ELSE [lastOutcome EXCEPT ![calls[c].task] = "failed"]
  /\ UNCHANGED <<active, registry, lastDecision, failures, demoted, cached, reprobed, probing,
                 suffered>>

\* settle of a call that failed.
Fail(c, transport) ==
  /\ calls[c].pc = "flight"
  /\ cached' = IF calls[c].kind = "yielded" THEN cached ELSE cached \ {calls[c].task}
  /\ lastOutcome' = IF calls[c].kind = "yielded" THEN lastOutcome
                    ELSE [lastOutcome EXCEPT ![calls[c].task] = "failed"]
  /\ RecordCall(calls[c].provider, FALSE)
  /\ IF transport
     THEN /\ NoteFailure(lastDecision)
          /\ suffered' = suffered \cup ({calls[c].model} \ {Idle})
          /\ reprobed' = TRUE
     ELSE UNCHANGED <<failures, demoted, suffered, reprobed>>
  /\ calls' = [calls EXCEPT ![c] = IF transport /\ ~reprobed
                                   THEN [@ EXCEPT !.pc = "reprobing"] ELSE AfterFailure(@)]
  /\ UNCHANGED <<active, registry, lastDecision, probing>>

\* reprobe: the provider found may need another registry; or the probe threw.
Reprobed(c, q, found) ==
  /\ calls[c].pc = "reprobing"
  /\ calls' = [calls EXCEPT ![c] = AfterFailure(@)]
  /\ \/ /\ Resolves("quality", q) /\ registry' = found
        /\ lastDecision' = IF q = Idle THEN lastDecision ELSE Seen(q)
     \/ UNCHANGED <<lastDecision, registry>>
  /\ UNCHANGED <<breakers, active, failures, demoted, cached, reprobed, probing, streak,
                 suffered, lastOutcome>>

-----------------------------------------------------------------------------

\* selectProvider.
SelectProvider(p) ==
  /\ active' = p /\ reprobed' = FALSE
  /\ UNCHANGED <<breakers, registry, lastDecision, failures, demoted, cached, probing, calls,
                 streak, suffered, lastOutcome>>

\* startHealthProbes, up to the probe of a provider whose circuit admits it.
Probe(p) ==
  /\ probing = Idle /\ CanRequest(breakers[p])
  /\ probing' = p /\ breakers' = [breakers EXCEPT ![p] = Asked(@)]
  /\ UNCHANGED <<active, registry, lastDecision, failures, demoted, cached, reprobed, calls,
                 streak, suffered, lastOutcome>>

\* Its result: recordProbe, and a failure counts unless the circuit is open.
Probed(ok) ==
  /\ probing # Idle /\ probing' = Idle
  /\ LET open == breakers[probing].state = "open"
     IN IF ok
        THEN /\ breakers' = IF open THEN [breakers EXCEPT ![probing] = HalfOpen(@)] ELSE breakers
             /\ UNCHANGED streak
        ELSE IF open THEN UNCHANGED <<breakers, streak>> ELSE RecordCall(probing, FALSE)
  /\ UNCHANGED <<active, registry, lastDecision, failures, demoted, cached, reprobed, calls,
                 suffered, lastOutcome>>

\* resetTimeoutMs passes; a cached answer expires.
Expire(p) ==
  /\ breakers[p].state = "open" /\ ~breakers[p].expired
  /\ breakers' = [breakers EXCEPT ![p].expired = TRUE]
  /\ UNCHANGED <<active, registry, lastDecision, failures, demoted, cached, reprobed, probing,
                 calls, streak, suffered, lastOutcome>>

ForgetAnswer(task) ==
  /\ task \in cached /\ cached' = cached \ {task}
  /\ UNCHANGED <<breakers, active, registry, lastDecision, failures, demoted, reprobed, probing,
                 calls, streak, suffered, lastOutcome>>

Open(c) ==
  \E task \in Tasks, m, q \in Models \cup {Idle} :
    \/ Refused(c, task, m, q) \/ Hit(c, task, m, q)
    \/ \E kind \in {"text", "stream"} : Start(c, task, m, q, kind)

LMNext ==
  \/ \E c \in Callers :
       \/ Open(c) \/ Yield(c) \/ Succeed(c)
       \/ \E transport \in BOOLEAN : Fail(c, transport)
       \/ \E q \in Models \cup {Idle}, found \in Registries : Reprobed(c, q, found)
  \/ \E p \in Providers : SelectProvider(p) \/ Probe(p) \/ Expire(p)
  \/ \E ok \in BOOLEAN : Probed(ok)
  \/ \E task \in Tasks : ForgetAnswer(task)

\* A caller turns to the service while p is its provider, and is not refused.
Asks(p) ==
  \E c \in Callers, task \in Tasks, m, q \in Models \cup {Idle} :
    /\ ProviderOf(q) = p
    /\ Hit(c, task, m, q) \/ \E kind \in {"text", "stream"} : Start(c, task, m, q, kind)

\* Timers fire.  That what was sent is answered one way or the other is assumed
\* of the providers: the service itself sets a call no deadline.
LMFairness ==
  /\ \A p \in Providers : WF_lmVars(Expire(p))
  /\ \A c \in Callers :
       WF_lmVars(\/ Succeed(c) \/ \E transport \in BOOLEAN : Fail(c, transport)
                \/ \E q \in Models \cup {Idle}, found \in Registries : Reprobed(c, q, found))

LMSpec == LMInit /\ [][LMNext]_lmVars /\ LMFairness

-----------------------------------------------------------------------------

LMTypeOK ==
  /\ breakers \in [Providers -> Breaker]
  /\ active \in Providers /\ registry \in Registries /\ lastDecision \in Tracked \cup {Idle}
  /\ failures \in [Tracked -> 0..2] /\ demoted \subseteq Tracked /\ cached \subseteq Tasks
  /\ reprobed \in BOOLEAN /\ probing \in Providers \cup {Idle}
  /\ calls \in [Callers -> Call]
  /\ streak \in [Providers -> 0..FailureThreshold] /\ suffered \subseteq Tracked
  /\ lastOutcome \in [Tasks -> {"none", "ok", "failed"}]

\* A circuit leaves "closed" only after FailureThreshold failures of its
\* provider with no call of it that succeeded, and no answer credited to it from
\* the cache, between them, however the calls, the cache and the health probe
\* interleave.  (A probe that succeeds while the circuit is not open leaves the
\* failures counted so far.)
TripsAreEarned ==
  [][\A p \in Providers : breakers[p].state = "closed" /\ breakers'[p].state = "open"
                          => streak'[p] = FailureThreshold]_lmVars

\* "cleared on failure so a retry re-populates": what the cache answers is what
\* the last settled call of that task said, but for streams that failed midway.
CacheAgrees == \A task \in cached : lastOutcome[task] = "ok"

\* "Breaker will self-heal after resetTimeoutMs": a provider that is asked
\* whenever its circuit would admit it does not stay open for ever.  (One that is
\* never selected, or that no registry answers for, is never asked.)
OpenHeals ==
  \A p \in Providers :
    SF_lmVars(Asks(p)) => (breakers[p].state = "open" ~> breakers[p].state # "open")

\* "Consecutive transport failures per resolved model id -> demotion": a model
\* that never failed in transport is not demoted.  (Violated: the failures are
\* counted against lastDecision, which is the quality model's, or another call's.)
DemotionIsEarned == demoted \subseteq suffered
=============================================================================

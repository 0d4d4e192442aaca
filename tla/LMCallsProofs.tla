--------------------------- MODULE LMCallsProofs ---------------------------
(***************************************************************************)
(* Proofs about LMCalls, for any number of calls, providers and models.    *)
(***************************************************************************)
EXTENDS LMCalls, TLAPS

\* UpTo stays within its bound.
LEMMA UpToBounded ==
  ASSUME NEW bound \in Nat, NEW n \in 0..bound
  PROVE  UpTo(n, bound) \in 0..bound /\ n <= UpTo(n, bound)
BY DEF UpTo

\* #to leaves a breaker, in the state asked for, with no more failures.
LEMMA ToKeeps ==
  ASSUME NEW b \in Breaker, NEW mode \in Modes
  PROVE  /\ To(b, mode) \in Breaker /\ To(b, mode).state = mode
         /\ To(b, mode).failures <= b.failures
<1> DEFINE left == IF b.state = "half-open" /\ mode = "open" THEN 0 ELSE b.failures
<1>1. left \in 0..FailureThreshold /\ left <= b.failures
  BY ThresholdAssumption DEF ThresholdAssumption, Breaker
<1>2. To(b, mode) = [b EXCEPT !.state = mode, !.failures = left]
  BY DEF To, Breaker
<1> HIDE DEF left
<1>3. QED
  BY <1>1, <1>2 DEF Breaker

\* Asking a breaker, or half-opening it, keeps its shape, adds no failure and
\* opens nothing.
LEMMA AskedKeeps ==
  ASSUME NEW b \in Breaker
  PROVE  /\ Asked(b) \in Breaker /\ HalfOpen(b) \in Breaker
         /\ Asked(b).failures <= b.failures /\ HalfOpen(b).failures <= b.failures
         /\ Asked(b).state = "open" => b.state = "open"
         /\ HalfOpen(b).state = "half-open"
<1> DEFINE fresh == [b EXCEPT !.successes = 0]
<1>1. b.failures \in 0..FailureThreshold /\ "half-open" \in Modes
  BY DEF Breaker, Modes
<1>2. fresh \in Breaker /\ fresh.failures = b.failures
  BY ThresholdAssumption DEF ThresholdAssumption, Breaker
<1>3. HalfOpen(b) = To(fresh, "half-open")
  BY DEF HalfOpen
<1> HIDE DEF fresh
<1>4. HalfOpen(b) \in Breaker /\ HalfOpen(b).failures <= b.failures
      /\ HalfOpen(b).state = "half-open"
  BY <1>1, <1>2, <1>3, ToKeeps
<1>5. Asked(b) \in Breaker /\ Asked(b).failures <= b.failures
      /\ (Asked(b).state = "open" => b.state = "open")
  BY <1>1, ToKeeps, ThresholdAssumption DEF ThresholdAssumption, Asked
<1>6. QED
  BY <1>4, <1>5

\* A recorded success ends the run of failures and opens nothing.
LEMMA RecordOk ==
  ASSUME NEW b \in Breaker
  PROVE  /\ Record(b, TRUE) \in Breaker /\ Record(b, TRUE).failures = 0
         /\ Record(b, TRUE).state = "open" => b.state = "open"
<1> DEFINE more == UpTo(b.successes, SuccessThreshold)
           done == [b EXCEPT !.successes = more, !.failures = 0]
           closed == [done EXCEPT !.state = "closed", !.successes = 0]
<1>1. more \in 0..SuccessThreshold /\ 0 \in 0..FailureThreshold /\ 0 \in 0..SuccessThreshold
  BY UpToBounded, ThresholdAssumption DEF ThresholdAssumption, Breaker
<1>2. Record(b, TRUE) = IF b.state = "half-open" /\ done.successes = SuccessThreshold
                        THEN closed ELSE done
  BY DEF Record
<1> HIDE DEF more
<1>3. done \in Breaker /\ done.failures = 0 /\ done.state = b.state
  BY <1>1 DEF Breaker
<1>4. closed \in Breaker /\ closed.failures = 0 /\ closed.state = "closed"
  BY <1>1, <1>3 DEF Breaker, Modes
<1>5. QED
  BY <1>2, <1>3, <1>4

\* A recorded failure lengthens it by one at most, and opens a closed breaker
\* only when that reaches the threshold.
LEMMA RecordFailed ==
  ASSUME NEW b \in Breaker
  PROVE  /\ Record(b, FALSE) \in Breaker
         /\ Record(b, FALSE).failures <= UpTo(b.failures, FailureThreshold)
         /\ b.state = "closed" /\ Record(b, FALSE).state = "open"
              => UpTo(b.failures, FailureThreshold) = FailureThreshold
<1> DEFINE more == UpTo(b.failures, FailureThreshold)
           failed == [b EXCEPT !.failures = more, !.successes = 0, !.expired = FALSE]
<1>1. more \in 0..FailureThreshold /\ 0 \in 0..SuccessThreshold /\ "open" \in Modes
  BY UpToBounded, ThresholdAssumption DEF ThresholdAssumption, Breaker, Modes
<1>2. Record(b, FALSE) = IF b.state = "half-open" \/ (b.state = "closed" /\ failed.failures = FailureThreshold)
                         THEN To(failed, "open") ELSE failed
  BY DEF Record
<1> HIDE DEF more
<1>3. failed \in Breaker /\ failed.failures = more /\ failed.state = b.state
  BY <1>1 DEF Breaker
<1> HIDE DEF failed
<1>4. To(failed, "open") \in Breaker /\ To(failed, "open").failures <= more
  BY <1>1, <1>3, ToKeeps
<1>5. more <= more
  BY <1>1
<1>6. Record(b, FALSE) \in Breaker /\ Record(b, FALSE).failures <= more
      /\ (b.state = "closed" /\ Record(b, FALSE).state = "open" => more = FailureThreshold)
  BY <1>2, <1>3, <1>4, <1>5
<1>7. QED
  BY <1>6 DEF more

-----------------------------------------------------------------------------

\* The breaker never counts more failures in a row than its provider had.
FailuresAreReal == \A p \in Providers : breakers[p].failures <= streak[p]

Inv == LMTypeOK /\ FailuresAreReal

\* What a step may do to the breakers and the runs of failures beside them.
BreakerStep ==
  /\ breakers' \in [Providers -> Breaker] /\ streak' \in [Providers -> 0..FailureThreshold]
  /\ \A p \in Providers :
       /\ breakers'[p].failures <= streak'[p]
       /\ breakers[p].state = "closed" /\ breakers'[p].state = "open"
            => streak'[p] = FailureThreshold

\* Replacing one breaker and its run of failures is such a step when the new
\* pair is right.
LEMMA OneBreaker ==
  ASSUME Inv, NEW p \in Providers, NEW b \in Breaker, NEW run \in 0..FailureThreshold,
         b.failures <= run,
         breakers[p].state = "closed" /\ b.state = "open" => run = FailureThreshold,
         breakers' = [breakers EXCEPT ![p] = b], streak' = [streak EXCEPT ![p] = run]
  PROVE  BreakerStep
<1>1. breakers \in [Providers -> Breaker] /\ streak \in [Providers -> 0..FailureThreshold]
  BY DEF Inv, LMTypeOK
<1>2. breakers' \in [Providers -> Breaker] /\ streak' \in [Providers -> 0..FailureThreshold]
  BY <1>1
<1>3. ASSUME NEW q \in Providers
      PROVE  /\ breakers'[q].failures <= streak'[q]
             /\ breakers[q].state = "closed" /\ breakers'[q].state = "open"
                  => streak'[q] = FailureThreshold
  <2>1. CASE q = p
    <3>1. breakers'[q] = b /\ streak'[q] = run
      BY <1>1, <2>1
    <3>2. QED
      BY <2>1, <3>1
  <2>2. CASE q # p
    <3>1. breakers'[q] = breakers[q] /\ streak'[q] = streak[q]
      BY <1>1, <2>2
    <3>2. breakers[q].failures <= streak[q]
      BY DEF Inv, FailuresAreReal
    <3>3. QED
      BY <3>1, <3>2
  <2>3. QED
    BY <2>1, <2>2
<1>4. QED
  BY <1>2, <1>3 DEF BreakerStep

\* A breaker of the service, with its count and its run.
LEMMA OneType ==
  ASSUME Inv, NEW p \in Providers
  PROVE  /\ breakers[p] \in Breaker /\ streak[p] \in 0..FailureThreshold
         /\ breakers[p].failures \in 0..FailureThreshold
         /\ breakers[p].failures <= streak[p]
<1>1. breakers[p] \in Breaker /\ streak[p] \in 0..FailureThreshold
  BY DEF Inv, LMTypeOK
<1>2. QED
  BY <1>1 DEF Inv, FailuresAreReal, Breaker

\* RecordCall is such a step.
LEMMA RecordCallStep ==
  ASSUME Inv, NEW p \in Providers, NEW ok \in BOOLEAN, RecordCall(p, ok)
  PROVE  BreakerStep
<1> DEFINE b == breakers[p]
<1>1. /\ b \in Breaker /\ streak[p] \in 0..FailureThreshold
      /\ b.failures \in 0..FailureThreshold /\ b.failures <= streak[p]
  BY OneType
<1>2. CASE ok = TRUE
  <2>1. /\ breakers' = [breakers EXCEPT ![p] = Record(b, TRUE)]
        /\ streak' = [streak EXCEPT ![p] = 0]
    BY <1>2 DEF RecordCall
  <2>2. 0 \in 0..FailureThreshold /\ 0 <= 0
    BY ThresholdAssumption DEF ThresholdAssumption
  <2>3. /\ Record(b, TRUE) \in Breaker /\ Record(b, TRUE).failures <= 0
        /\ ~(b.state = "closed" /\ Record(b, TRUE).state = "open")
    BY <1>1, <2>2, RecordOk
  <2>4. QED
    BY <2>1, <2>2, <2>3, OneBreaker
<1>3. CASE ok = FALSE
  <2> DEFINE run == UpTo(streak[p], FailureThreshold)
             next == Record(b, FALSE)
  <2>1. /\ breakers' = [breakers EXCEPT ![p] = next]
        /\ streak' = [streak EXCEPT ![p] = run]
    BY <1>3 DEF RecordCall
  <2>2. next \in Breaker /\ next.failures <= UpTo(b.failures, FailureThreshold)
        /\ (b.state = "closed" /\ next.state = "open"
              => UpTo(b.failures, FailureThreshold) = FailureThreshold)
    BY <1>1, RecordFailed
  <2>3. next.failures \in 0..FailureThreshold
    BY <2>2 DEF Breaker
  <2>4. /\ UpTo(b.failures, FailureThreshold) <= run /\ run \in 0..FailureThreshold
        /\ UpTo(b.failures, FailureThreshold) \in 0..FailureThreshold
    BY <1>1, ThresholdAssumption DEF ThresholdAssumption, UpTo
  <2> HIDE DEF run, next, b
  <2>5. next.failures <= run
        /\ (b.state = "closed" /\ next.state = "open" => run = FailureThreshold)
    BY <2>2, <2>3, <2>4, ThresholdAssumption DEF ThresholdAssumption
  <2>6. QED
    BY <2>1, <2>2, <2>4, <2>5, OneBreaker DEF b
<1>4. QED
  BY <1>2, <1>3

\* So are asking a breaker and half-opening it, with the run unchanged.
LEMMA AskedStep ==
  ASSUME Inv, NEW p \in Providers, UNCHANGED streak,
         \/ breakers' = [breakers EXCEPT ![p] = Asked(@)]
         \/ breakers' = [breakers EXCEPT ![p] = HalfOpen(@)]
  PROVE  BreakerStep
<1> DEFINE b == breakers[p]
<1>1. /\ b \in Breaker /\ streak[p] \in 0..FailureThreshold
      /\ b.failures \in 0..FailureThreshold /\ b.failures <= streak[p]
  BY OneType
<1>2. streak' = [streak EXCEPT ![p] = streak[p]]
  BY DEF Inv, LMTypeOK
<1>3. ASSUME NEW next \in Breaker, next.failures <= b.failures,
             ~(b.state = "closed" /\ next.state = "open"),
             breakers' = [breakers EXCEPT ![p] = next]
      PROVE  BreakerStep
  <2>1. next.failures <= streak[p]
    BY <1>1, <1>3, ThresholdAssumption DEF ThresholdAssumption, Breaker
  <2>2. QED
    BY <1>1, <1>2, <1>3, <2>1, OneBreaker
<1>4. /\ Asked(b) \in Breaker /\ Asked(b).failures <= b.failures
      /\ ~(b.state = "closed" /\ Asked(b).state = "open")
      /\ HalfOpen(b) \in Breaker /\ HalfOpen(b).failures <= b.failures
      /\ ~(b.state = "closed" /\ HalfOpen(b).state = "open")
  BY <1>1, AskedKeeps
<1>5. QED
  BY <1>3, <1>4

\* And leaving everything alone.
LEMMA StutterStep ==
  ASSUME Inv, UNCHANGED <<breakers, streak>>
  PROVE  BreakerStep
BY DEF BreakerStep, Inv, LMTypeOK, FailuresAreReal

-----------------------------------------------------------------------------

\* The rest of the type invariant: all but the breakers and the runs.
RestTypeOK ==
  /\ active \in Providers /\ registry \in Registries /\ lastDecision \in Tracked \cup {Idle}
  /\ failures \in [Tracked -> 0..2] /\ demoted \subseteq Tracked /\ cached \subseteq Tasks
  /\ reprobed \in BOOLEAN /\ probing \in Providers \cup {Idle}
  /\ calls \in [Callers -> Call]
  /\ suffered \subseteq Tracked
  /\ lastOutcome \in [Tasks -> {"none", "ok", "failed"}]

\* A call under way has a provider; what comes after a failure is a call.
LEMMA CallKeeps ==
  ASSUME NEW call \in Call
  PROVE  AfterFailure(call) \in Call /\ Resting \in Call
<1>1. Resting \in Call
  BY ChainAssumption DEF ChainAssumption, Resting, Call
<1>2. AfterFailure(call) \in Call
  BY <1>1 DEF AfterFailure, Call
<1>3. QED
  BY <1>1, <1>2

\* The calls in flight are someone's; that is part of the inductive invariant.
InFlightHasProvider ==
  \A c \in Callers : calls[c].pc # "idle" => calls[c].provider \in Providers

IInv == Inv /\ InFlightHasProvider

\* Replacing one call by another with a provider keeps the calls typed.
LEMMA OneCall ==
  ASSUME RestTypeOK, InFlightHasProvider, NEW c \in Callers, NEW call \in Call,
         call.pc # "idle" => call.provider \in Providers,
         calls' = [calls EXCEPT ![c] = call]
  PROVE  calls' \in [Callers -> Call] /\ InFlightHasProvider'
BY DEF RestTypeOK, InFlightHasProvider

\* What a caller's failure leaves behind.
LEMMA AfterFailureHasProvider ==
  ASSUME NEW call \in Call, call.provider \in Providers, AfterFailure(call).pc # "idle"
  PROVE  AfterFailure(call).provider \in Providers
BY DEF AfterFailure, Resting, Call

\* Every action keeps the invariant and moves the breakers as a BreakerStep.
LEMMA NextStep ==
  ASSUME IInv, [LMNext]_lmVars
  PROVE  BreakerStep /\ RestTypeOK' /\ InFlightHasProvider'
<1> USE DEF IInv
<1>0. RestTypeOK /\ InFlightHasProvider /\ Inv
  BY DEF RestTypeOK, Inv, LMTypeOK
<1>1. ASSUME NEW c \in Callers, Open(c) PROVE BreakerStep /\ RestTypeOK' /\ InFlightHasProvider'
  <2>1. PICK task \in Tasks, m \in Models \cup {Idle}, q \in Models \cup {Idle} :
          \/ Refused(c, task, m, q) \/ Hit(c, task, m, q)
          \/ \E kind \in {"text", "stream"} : Start(c, task, m, q, kind)
    BY <1>1 DEF Open
  <2>2. /\ ProviderOf(q) \in Providers
        /\ Seen(q) \in Tracked \cup {Idle} /\ Seen(m) \in Tracked \cup {Idle}
    BY <1>0, ChainAssumption DEF ChainAssumption, ProviderOf, Seen, RestTypeOK
  <2>3. CASE Refused(c, task, m, q)
    BY <1>0, <2>2, <2>3, StutterStep
       DEF Refused, Opened, RestTypeOK, InFlightHasProvider
  <2>4. CASE Hit(c, task, m, q)
    <3> DEFINE p == ProviderOf(q)  asked == Asked(breakers[p])  next == Record(asked, TRUE)
    <3>1. breakers[p] \in Breaker /\ asked \in Breaker
          /\ (asked.state = "open" => breakers[p].state = "open")
      BY <1>0, <2>2, OneType, AskedKeeps
    <3>2. next \in Breaker /\ next.failures = 0 /\ (next.state = "open" => asked.state = "open")
      BY <3>1, RecordOk
    <3>3. 0 \in 0..FailureThreshold /\ 0 <= 0
      BY ThresholdAssumption DEF ThresholdAssumption
    <3>4. breakers' = [breakers EXCEPT ![p] = next] /\ streak' = [streak EXCEPT ![p] = 0]
      BY <2>4 DEF Hit
    <3> HIDE DEF p, next, asked
    <3>5. p \in Providers /\ ~(breakers[p].state = "closed" /\ next.state = "open")
      BY <2>2, <3>1, <3>2 DEF p
    <3>6. BreakerStep
      BY <1>0, <3>2, <3>3, <3>4, <3>5, OneBreaker
    <3>7. QED
      BY <1>0, <2>2, <2>4, <3>6 DEF Hit, Gated, Opened, RestTypeOK, InFlightHasProvider
  <2>5. ASSUME NEW kind \in {"text", "stream"}, Start(c, task, m, q, kind)
        PROVE  BreakerStep /\ RestTypeOK' /\ InFlightHasProvider'
    <3> DEFINE call == [Resting EXCEPT !.pc = "flight", !.task = task, !.model = Seen(m),
                                       !.provider = ProviderOf(q), !.kind = kind]
    <3>1. BreakerStep
      BY <1>0, <2>2, <2>5, AskedStep DEF Start
    <3>2. call \in Call /\ call.provider \in Providers
      BY <2>2, <2>5, ChainAssumption DEF ChainAssumption, Call, Resting
    <3>3. calls' = [calls EXCEPT ![c] = call]
      BY <2>5 DEF Start
    <3> HIDE DEF call
    <3>4. calls' \in [Callers -> Call] /\ InFlightHasProvider'
      BY <1>0, <3>2, <3>3, OneCall
    <3>5. QED
      BY <1>0, <2>2, <2>5, <3>1, <3>4 DEF Start, Gated, Opened, RestTypeOK
  <2>6. QED
    BY <2>1, <2>3, <2>4, <2>5
<1>2. ASSUME NEW c \in Callers, Yield(c) PROVE BreakerStep /\ RestTypeOK' /\ InFlightHasProvider'
  <2> DEFINE call == [calls[c] EXCEPT !.kind = "yielded"]
  <2>1. calls[c] \in Call /\ calls[c].pc = "flight" /\ calls[c].provider \in Providers
    BY <1>0, <1>2 DEF RestTypeOK, InFlightHasProvider, Yield
  <2>2. call \in Call /\ call.provider \in Providers
    BY <2>1 DEF Call
  <2>3. calls' = [calls EXCEPT ![c] = call]
    BY <1>2 DEF Yield
  <2> HIDE DEF call
  <2>4. calls' \in [Callers -> Call] /\ InFlightHasProvider'
    BY <1>0, <2>2, <2>3, OneCall
  <2>5. QED
    BY <1>0, <1>2, <2>4, StutterStep DEF Yield, RestTypeOK
<1>3. ASSUME NEW c \in Callers, Succeed(c) PROVE BreakerStep /\ RestTypeOK' /\ InFlightHasProvider'
  <2>1. calls[c] \in Call /\ calls[c].pc = "flight" /\ calls[c].provider \in Providers
        /\ calls[c].task \in Tasks
    BY <1>0, <1>3 DEF RestTypeOK, InFlightHasProvider, Succeed, Call
  <2>2. Resting \in Call /\ Resting.pc = "idle"
    BY <2>1, CallKeeps DEF Resting
  <2>3. calls' \in [Callers -> Call] /\ InFlightHasProvider'
    BY <1>0, <1>3, <2>2, OneCall DEF Succeed
  <2>4. BreakerStep
    BY <1>0, <1>3, <2>1, RecordCallStep DEF Succeed
  <2>5. QED
    BY <1>0, <1>3, <2>1, <2>3, <2>4 DEF Succeed, RestTypeOK
<1>4. ASSUME NEW c \in Callers, NEW transport \in BOOLEAN, Fail(c, transport)
      PROVE  BreakerStep /\ RestTypeOK' /\ InFlightHasProvider'
  <2>1. calls[c] \in Call /\ calls[c].pc = "flight" /\ calls[c].provider \in Providers
        /\ calls[c].task \in Tasks /\ calls[c].model \in Tracked \cup {Idle}
    BY <1>0, <1>4 DEF RestTypeOK, InFlightHasProvider, Fail, Call
  <2> DEFINE call == IF transport /\ ~reprobed THEN [calls[c] EXCEPT !.pc = "reprobing"]
                     ELSE AfterFailure(calls[c])
  <2>2. call \in Call /\ (call.pc # "idle" => call.provider \in Providers)
    <3>1. AfterFailure(calls[c]) \in Call
          /\ (AfterFailure(calls[c]).pc # "idle" => AfterFailure(calls[c]).provider \in Providers)
      BY <2>1, CallKeeps, AfterFailureHasProvider
    <3>2. /\ [calls[c] EXCEPT !.pc = "reprobing"] \in Call
          /\ [calls[c] EXCEPT !.pc = "reprobing"].provider \in Providers
      BY <2>1 DEF Call
    <3>3. QED
      BY <3>1, <3>2
  <2>3. calls' = [calls EXCEPT ![c] = call]
    BY <1>4 DEF Fail
  <2> HIDE DEF call
  <2>4. calls' \in [Callers -> Call] /\ InFlightHasProvider'
    BY <1>0, <2>2, <2>3, OneCall
  <2>5. BreakerStep
    BY <1>0, <1>4, <2>1, RecordCallStep DEF Fail
  <2>6. failures' \in [Tracked -> 0..2] /\ demoted' \subseteq Tracked /\ suffered' \subseteq Tracked
        /\ reprobed' \in BOOLEAN
    <3>1. CASE transport
      <4>1. \A t \in Tracked : UpTo(failures[t], 2) \in 0..2
        BY <1>0, UpToBounded DEF RestTypeOK
      <4>2. QED
        BY <1>0, <1>4, <2>1, <3>1, <4>1 DEF Fail, NoteFailure, RestTypeOK
    <3>2. CASE ~transport
      BY <1>0, <1>4, <3>2 DEF Fail, RestTypeOK
    <3>3. QED
      BY <3>1, <3>2
  <2>7. cached' \subseteq Tasks /\ lastOutcome' \in [Tasks -> {"none", "ok", "failed"}]
    BY <1>0, <1>4, <2>1 DEF Fail, RestTypeOK
  <2>8. QED
    BY <1>0, <1>4, <2>4, <2>5, <2>6, <2>7 DEF Fail, RestTypeOK
<1>5. ASSUME NEW c \in Callers, NEW q \in Models \cup {Idle}, NEW found \in Registries,
             Reprobed(c, q, found)
      PROVE  BreakerStep /\ RestTypeOK' /\ InFlightHasProvider'
  <2>1. calls[c] \in Call /\ calls[c].pc # "idle" /\ calls[c].provider \in Providers
    BY <1>0, <1>5 DEF RestTypeOK, InFlightHasProvider, Reprobed
  <2>2. AfterFailure(calls[c]) \in Call
        /\ (AfterFailure(calls[c]).pc # "idle" => AfterFailure(calls[c]).provider \in Providers)
    BY <2>1, CallKeeps, AfterFailureHasProvider
  <2>3. calls' = [calls EXCEPT ![c] = AfterFailure(calls[c])]
    BY <1>5 DEF Reprobed
  <2>4. calls' \in [Callers -> Call] /\ InFlightHasProvider'
    BY <1>0, <2>2, <2>3, OneCall
  <2>5. registry' \in Registries /\ lastDecision' \in Tracked \cup {Idle}
    BY <1>0, <1>5 DEF Reprobed, Seen, RestTypeOK
  <2>6. QED
    BY <1>0, <1>5, <2>4, <2>5, StutterStep DEF Reprobed, RestTypeOK
<1>6. ASSUME NEW p \in Providers, SelectProvider(p)
      PROVE  BreakerStep /\ RestTypeOK' /\ InFlightHasProvider'
  BY <1>0, <1>6, StutterStep DEF SelectProvider, RestTypeOK, InFlightHasProvider
<1>7. ASSUME NEW p \in Providers, Probe(p)
      PROVE  BreakerStep /\ RestTypeOK' /\ InFlightHasProvider'
  <2>1. BreakerStep
    BY <1>0, <1>7, AskedStep DEF Probe
  <2>2. QED
    BY <1>0, <1>7, <2>1 DEF Probe, RestTypeOK, InFlightHasProvider
<1>8. ASSUME NEW ok \in BOOLEAN, Probed(ok)
      PROVE  BreakerStep /\ RestTypeOK' /\ InFlightHasProvider'
  <2>1. probing \in Providers
    BY <1>0, <1>8 DEF Probed, RestTypeOK
  <2>2. \/ UNCHANGED <<breakers, streak>>
        \/ breakers' = [breakers EXCEPT ![probing] = HalfOpen(@)] /\ UNCHANGED streak
        \/ RecordCall(probing, FALSE)
    BY <1>8 DEF Probed
  <2>3. BreakerStep
    BY <1>0, <2>1, <2>2, StutterStep, AskedStep, RecordCallStep
  <2>4. QED
    BY <1>0, <1>8, <2>3 DEF Probed, RestTypeOK, InFlightHasProvider
<1>9. ASSUME NEW p \in Providers, Expire(p)
      PROVE  BreakerStep /\ RestTypeOK' /\ InFlightHasProvider'
  <2> DEFINE next == [breakers[p] EXCEPT !.expired = TRUE]
  <2>1. breakers[p] \in Breaker /\ streak[p] \in 0..FailureThreshold
        /\ breakers[p].failures <= streak[p]
    BY <1>0, OneType
  <2>2. next \in Breaker /\ next.failures = breakers[p].failures
    BY <2>1 DEF Breaker
  <2>3. breakers[p].state = "open" /\ breakers' = [breakers EXCEPT ![p] = next]
    BY <1>9 DEF Expire
  <2>4. streak' = [streak EXCEPT ![p] = streak[p]]
    BY <1>0, <1>9 DEF Expire, Inv, LMTypeOK
  <2> HIDE DEF next
  <2>5. BreakerStep
    BY <1>0, <2>1, <2>2, <2>3, <2>4, OneBreaker
  <2>6. QED
    BY <1>0, <1>9, <2>5 DEF Expire, RestTypeOK, InFlightHasProvider
<1>10. ASSUME NEW task \in Tasks, ForgetAnswer(task)
       PROVE  BreakerStep /\ RestTypeOK' /\ InFlightHasProvider'
  BY <1>0, <1>10, StutterStep DEF ForgetAnswer, RestTypeOK, InFlightHasProvider
<1>11. CASE UNCHANGED lmVars
  BY <1>0, <1>11, StutterStep DEF lmVars, RestTypeOK, InFlightHasProvider
<1>12. QED
  BY <1>1, <1>2, <1>3, <1>4, <1>5, <1>6, <1>7, <1>8, <1>9, <1>10, <1>11 DEF LMNext

\* The invariant holds from the start and is kept.
LEMMA Invariance == LMSpec => []IInv
<1>1. LMInit => IInv
  <2> SUFFICES ASSUME LMInit PROVE IInv
    OBVIOUS
  <2>1. NewBreaker \in Breaker /\ NewBreaker.failures = 0 /\ 0 \in 0..FailureThreshold
    BY ThresholdAssumption DEF ThresholdAssumption, NewBreaker, Breaker, Modes
  <2>2. Resting \in Call /\ Resting.pc = "idle"
    BY ChainAssumption DEF ChainAssumption, Resting, Call
  <2>3. LMTypeOK
    <3>1. breakers \in [Providers -> Breaker] /\ streak \in [Providers -> 0..FailureThreshold]
          /\ calls \in [Callers -> Call]
      BY <2>1, <2>2 DEF LMInit
    <3>2. lastOutcome \in [Tasks -> {"none", "ok", "failed"}]
      BY DEF LMInit
    <3>3. failures \in [Tracked -> 0..2]
      BY DEF LMInit
    <3>4. QED
      BY <3>1, <3>2, <3>3 DEF LMInit, LMTypeOK
  <2>4. FailuresAreReal
    BY <2>1 DEF LMInit, FailuresAreReal
  <2>5. InFlightHasProvider
    BY <2>2 DEF LMInit, InFlightHasProvider
  <2>6. QED
    BY <2>3, <2>4, <2>5 DEF IInv, Inv
<1>2. IInv /\ [LMNext]_lmVars => IInv'
  BY NextStep DEF IInv, Inv, LMTypeOK, FailuresAreReal, BreakerStep, RestTypeOK
<1>3. QED
  BY <1>1, <1>2, PTL DEF LMSpec

\* The state of the service keeps its shape, whatever the calls do.
THEOREM ServiceKeepsItsShape == LMSpec => []LMTypeOK
<1>1. IInv => LMTypeOK
  BY DEF IInv, Inv
<1>2. QED
  BY <1>1, Invariance, PTL

\* No interleaving of calls, cache hits and health probes opens a closed circuit
\* before its provider failed FailureThreshold times with no call of it, and no
\* answer from the cache, that succeeded in between.
THEOREM CircuitsTripOnRealFailures == LMSpec => TripsAreEarned
<1>1. IInv /\ [LMNext]_lmVars
        => [\A p \in Providers : breakers[p].state = "closed" /\ breakers'[p].state = "open"
                                => streak'[p] = FailureThreshold]_lmVars
  BY NextStep DEF BreakerStep
<1>2. QED
  BY <1>1, Invariance, PTL DEF LMSpec, TripsAreEarned

-----------------------------------------------------------------------------

\* Only a settled call touches what the cache holds and how a task's last call
\* went, and it touches both.
LEMMA CacheStep ==
  ASSUME IInv, CacheAgrees, [LMNext]_lmVars
  PROVE  CacheAgrees'
<1>1. /\ cached \subseteq Tasks /\ lastOutcome \in [Tasks -> {"none", "ok", "failed"}]
      /\ calls \in [Callers -> Call]
  BY DEF IInv, Inv, LMTypeOK
<1>2. ASSUME NEW c \in Callers PROVE calls[c].task \in Tasks
  BY <1>1 DEF Call
<1>3. ASSUME UNCHANGED <<cached, lastOutcome>> PROVE CacheAgrees'
  BY <1>3 DEF CacheAgrees
<1>4. ASSUME NEW c \in Callers, Open(c) PROVE CacheAgrees'
  BY <1>3, <1>4 DEF Open, Refused, Hit, Start
<1>5. ASSUME NEW c \in Callers, Succeed(c) PROVE CacheAgrees'
  <2>1. cached' = cached \cup {calls[c].task} /\ lastOutcome' = [lastOutcome EXCEPT ![calls[c].task] = "ok"]
    BY <1>5 DEF Succeed
  <2> QED
    BY <1>1, <1>2, <2>1 DEF CacheAgrees
<1>6. ASSUME NEW c \in Callers, NEW transport \in BOOLEAN, Fail(c, transport) PROVE CacheAgrees'
  <2>1. CASE calls[c].kind = "yielded"
    BY <1>3, <1>6, <2>1 DEF Fail
  <2>2. CASE calls[c].kind # "yielded"
    <3>1. cached' = cached \ {calls[c].task}
          /\ lastOutcome' = [lastOutcome EXCEPT ![calls[c].task] = "failed"]
      BY <1>6, <2>2 DEF Fail
    <3> QED
      BY <1>1, <1>2, <3>1 DEF CacheAgrees
  <2> QED
    BY <2>1, <2>2
<1>7. ASSUME NEW task \in Tasks, ForgetAnswer(task) PROVE CacheAgrees'
  BY <1>7 DEF ForgetAnswer, CacheAgrees
<1>8. ASSUME \/ \E c \in Callers : \/ Yield(c)
                                  \/ \E q \in Models \cup {Idle}, found \in Registries : Reprobed(c, q, found)
             \/ \E p \in Providers : SelectProvider(p) \/ Probe(p) \/ Expire(p)
             \/ \E ok \in BOOLEAN : Probed(ok)
             \/ UNCHANGED lmVars
      PROVE  CacheAgrees'
  <2>1. UNCHANGED <<cached, lastOutcome>>
    BY <1>8 DEF Yield, Reprobed, SelectProvider, Probe, Expire, Probed, lmVars
  <2> QED
    BY <1>3, <2>1
<1> QED
  BY <1>4, <1>5, <1>6, <1>7, <1>8 DEF LMNext

\* However calls, retried streams, failures and expiries interleave, an answer is
\* given from the cache only where the last settled call of that task succeeded.
THEOREM CacheFollowsTheLastCall == LMSpec => []CacheAgrees
<1>1. LMInit => CacheAgrees
  BY DEF LMInit, CacheAgrees
<1>2. IInv /\ CacheAgrees /\ [LMNext]_lmVars => CacheAgrees'
  BY CacheStep
<1> QED
  BY <1>1, <1>2, Invariance, PTL DEF LMSpec
=============================================================================

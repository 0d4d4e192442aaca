--------------------------- MODULE CircuitBreaker ---------------------------
(***************************************************************************)
(* nar/src/utils/circuit-breaker.ts: the breaker that gates every provider *)
(* and every model rule, as the operators its owners apply to one.  The    *)
(* counters are only ever compared with their thresholds, so they saturate *)
(* there; the clock is the one bit canRequest computes from it.            *)
(***************************************************************************)
EXTENDS Naturals

CONSTANTS FailureThreshold, \* failures in a row that open it
          SuccessThreshold  \* successes that close it when half-open

ASSUME ThresholdAssumption ==
  FailureThreshold \in Nat \ {0} /\ SuccessThreshold \in Nat \ {0}

Modes == {"closed", "open", "half-open"}

Breaker == [state : Modes, failures : 0..FailureThreshold,
            successes : 0..SuccessThreshold,
            expired : BOOLEAN]   \* resetTimeoutMs has passed since lastFailure

NewBreaker == [state |-> "closed", failures |-> 0, successes |-> 0, expired |-> FALSE]

UpTo(n, bound) == IF n < bound THEN n + 1 ELSE bound

\* #to.
To(b, mode) ==
  [b EXCEPT !.state = mode,
            !.failures = IF b.state = "half-open" /\ mode = "open" THEN 0 ELSE @]

\* Mutant of canRequest: the call is admitted and the circuit stays open.
AskedStayingOpen(b) == b

\* canRequest: its answer, and what asking does to the breaker.
CanRequest(b) == b.state # "open" \/ b.expired
Asked(b) == IF b.state = "open" /\ b.expired THEN To(b, "half-open") ELSE b

\* Mutant of record: a success is not the end of a run of failures.
RecordKeepingFailures(b, ok) ==
  IF ok THEN [b EXCEPT !.successes = UpTo(@, SuccessThreshold)]
  ELSE LET failed == [b EXCEPT !.failures = UpTo(@, FailureThreshold), !.successes = 0,
                               !.expired = FALSE]
       IN IF b.state = "half-open" \/ (b.state = "closed" /\ failed.failures = FailureThreshold)
          THEN To(failed, "open") ELSE failed

\* record.
Record(b, ok) ==
  IF ok
  THEN LET done == [b EXCEPT !.successes = UpTo(@, SuccessThreshold), !.failures = 0]
       IN IF b.state = "half-open" /\ done.successes = SuccessThreshold
          THEN [done EXCEPT !.state = "closed", !.successes = 0]
          ELSE done
  ELSE LET failed == [b EXCEPT !.failures = UpTo(@, FailureThreshold), !.successes = 0,
                               !.expired = FALSE]
       IN IF b.state = "half-open" \/ (b.state = "closed" /\ failed.failures = FailureThreshold)
          THEN To(failed, "open") ELSE failed

\* halfOpen.
HalfOpen(b) == To([b EXCEPT !.successes = 0], "half-open")
=============================================================================

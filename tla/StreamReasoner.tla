---------------------------- MODULE StreamReasoner ----------------------------
(***************************************************************************)
(* nar/src/stream/reasoner.ts and the producer that feeds it,              *)
(* nar/src/proposal/lm-rule-producer.ts: the cycle stages work for model   *)
(* rules and pumps; flushes follow one another, each awaits its batch up   *)
(* to a deadline, and a batch given up at its deadline works on.  What a   *)
(* work yields waits for the next boundary, with the premises it read in a *)
(* list beside it.                                                         *)
(***************************************************************************)
EXTENDS Naturals, Sequences, SequencesExt, Selection

CONSTANTS Works,       \* units of ModelRuleWork, each staged at most once
          Concepts,
          Premise,     \* the premise a work reads
          MaxQueued, MaxBatch, MaxDerived,
          MaxResults,  \* bound: results of one work
          MaxPumps     \* bound: pumps that wait

ASSUME WorksAssumption ==
  /\ Premise \in [Works -> Concepts]
  /\ MaxQueued \in Nat \ {0} /\ MaxBatch \in Nat \ {0} /\ MaxDerived \in Nat
  /\ MaxResults \in Nat /\ MaxPumps \in Nat

VARIABLES staged,       \* works the cycle has dispatched
          queue,        \* StreamReasoner.queue
          provisionals, \* provisionals, in order of insertion
          pumps,        \* pumps in the SerialQueue of flushes
          batch,        \* what the awaited flush still has to derive
          inFlush,      \* all it took; none when no flush is awaited
          late,         \* what batches given up at their deadlines still derive
          derived,      \* derivedTasks
          premises,     \* LMProposalProducer.premises
          trimmed       \* history: derivedTasks has overflowed

srVars == <<staged, queue, provisionals, pumps, batch, inFlush, late, derived, premises, trimmed>>

Derivations == Works \X (1 .. MaxResults)

\* trimCapped: the newest n.
Capped(s, n) == SubSeq(s, 1 + (IF Len(s) > n THEN Len(s) - n ELSE 0), Len(s))

SRInit ==
  /\ staged = {} /\ queue = <<>> /\ provisionals = <<>> /\ pumps = 0
  /\ batch = <<>> /\ inFlush = {} /\ late = {}
  /\ derived = <<>> /\ premises = <<>> /\ trimmed = FALSE

\* pressure() against highPressure, 0.85.
Pressured ==
  100 * (IF Len(queue) > Len(provisionals) THEN Len(queue) ELSE Len(provisionals))
    >= 85 * MaxQueued

-----------------------------------------------------------------------------

\* stage: dispatch refuses at a full queue; the map of provisionals evicts its
\* oldest.
Stage(w) ==
  /\ w \notin staged /\ staged' = staged \cup {w}
  /\ IF Len(queue) >= MaxQueued
     THEN UNCHANGED <<queue, provisionals>>
     ELSE /\ queue' = Append(queue, w)
          /\ provisionals' = Capped(Append(provisionals, w), MaxQueued)
  /\ UNCHANGED <<pumps, batch, inFlush, late, derived, premises, trimmed>>

\* pump, which the cycle does not await.
Pump ==
  /\ pumps < MaxPumps /\ pumps' = pumps + 1
  /\ UNCHANGED <<staged, queue, provisionals, batch, inFlush, late, derived, premises, trimmed>>

\* A flush that has no effect: under pressure, on an empty queue, or denied by
\* the budget gate, which puts the batch back where it was.
FlushNothing ==
  /\ pumps > 0 /\ inFlush = {} /\ pumps' = pumps - 1
  /\ UNCHANGED <<staged, queue, provisionals, batch, inFlush, late, derived, premises, trimmed>>

\* A flush that was granted takes a batch and awaits it.
Flush ==
  /\ pumps > 0 /\ inFlush = {} /\ ~Pressured /\ queue # <<>>
  /\ LET n == IF Len(queue) < MaxBatch THEN Len(queue) ELSE MaxBatch
     IN /\ batch' = SubSeq(queue, 1, n) /\ inFlush' = {queue[i] : i \in 1..n}
        /\ queue' = SubSeq(queue, n + 1, Len(queue))
  /\ UNCHANGED <<staged, provisionals, pumps, late, derived, premises, trimmed>>

\* applyWork and the push of what it returned: all results of a work are there
\* before the first is yielded, so that one drain of microtasks does it all.
Yielded(w, n) ==
  /\ premises' = premises \o [i \in 1..n |-> Premise[w]]
  /\ LET all == derived \o [i \in 1..n |-> <<w, i>>]
     IN derived' = Capped(all, MaxDerived) /\ trimmed' = (trimmed \/ Len(all) > MaxDerived)

\* The flush is over: its provisionals are settled or retired, the pump ends.
FlushEnds ==
  /\ inFlush' = {} /\ batch' = <<>> /\ pumps' = pumps - 1
  /\ provisionals' = Selected(provisionals, {i \in DOMAIN provisionals : provisionals[i] \notin inFlush})

\* The head of the awaited batch is derived.
Derive(n) ==
  /\ batch # <<>> /\ Yielded(Head(batch), n)
  /\ IF Len(batch) = 1 THEN FlushEnds
     ELSE batch' = Tail(batch) /\ UNCHANGED <<inFlush, pumps, provisionals>>
  /\ UNCHANGED <<staged, queue, late>>

\* The derivation of the head throws: the rest of the batch goes with it, the
\* flush rejects with its provisionals left, and the pump's caller logs it.
Throw ==
  /\ batch # <<>> /\ batch' = <<>> /\ inFlush' = {} /\ pumps' = pumps - 1
  /\ UNCHANGED <<staged, queue, provisionals, late, derived, premises, trimmed>>

\* Mutant: nobody waits for longer than a batch takes.
RetireNever ==
  /\ batch # <<>> /\ FALSE
  /\ UNCHANGED srVars

\* backendTimeoutMs passes: the batch is retired, and goes on.
Retire ==
  /\ batch # <<>> /\ FlushEnds /\ late' = late \cup {batch}
  /\ UNCHANGED <<staged, queue, derived, premises, trimmed>>

\* A retired batch derives.
DeriveLate(b, n) ==
  /\ b \in late /\ Yielded(Head(b), n)
  /\ late' = (late \ {b}) \cup (IF Len(b) = 1 THEN {} ELSE {Tail(b)})
  /\ UNCHANGED <<staged, queue, provisionals, pumps, batch, inFlush>>

ThrowLate(b) ==
  /\ b \in late /\ late' = late \ {b}
  /\ UNCHANGED <<staged, queue, provisionals, pumps, batch, inFlush, derived, premises, trimmed>>

\* Mutant: the premises of the last derivation stay.
DrainOneShort ==
  /\ derived' = <<>>
  /\ premises' = SubSeq(premises, Len(derived), Len(premises))
  /\ UNCHANGED <<staged, queue, provisionals, pumps, batch, inFlush, late, trimmed>>

\* takeDerived, as far as the two lists go.
Drain ==
  /\ derived' = <<>>
  /\ premises' = SubSeq(premises, Len(derived) + 1, Len(premises))
  /\ UNCHANGED <<staged, queue, provisionals, pumps, batch, inFlush, late, trimmed>>

Boundary == derived # <<>> /\ Drain

SRStep ==
  \/ \E w \in Works : Stage(w)
  \/ Pump \/ FlushNothing \/ Flush \/ Throw \/ Retire
  \/ \E b \in late : ThrowLate(b)
  \/ \E n \in 0 .. MaxResults : Derive(n) \/ \E b \in late : DeriveLate(b, n)

SRNext == SRStep \/ Boundary

\* Cycles go on pumping, the SerialQueue begins the next flush, and the deadline
\* of an awaited batch is a timer.  Nothing is assumed of providers.
SRFairness ==
  /\ WF_srVars(Pump) /\ WF_srVars(FlushNothing \/ Flush)
  /\ WF_srVars(Retire)

SRSpec == SRInit /\ [][SRNext]_srVars /\ SRFairness

-----------------------------------------------------------------------------

SRTypeOK ==
  /\ staged \subseteq Works /\ inFlush \subseteq Works
  /\ queue \in Seq(Works) /\ provisionals \in Seq(Works) /\ batch \in Seq(Works)
  /\ pumps \in Nat /\ late \subseteq Seq(Works)
  /\ derived \in Seq(Derivations) /\ premises \in Seq(Concepts) /\ trimmed \in BOOLEAN

\* "`StreamReasoner.takeDerived` drains in the same order, so this pairs
\* exactly": the n-th derivation that waits was made from the n-th premises.
PairsExactly ==
  /\ Len(premises) = Len(derived)
  /\ \A i \in 1 .. Len(derived) : premises[i] = Premise[derived[i][1]]

\* It does for as long as the derivations never overflowed, batches that were
\* retired and work on beside the next one included.  (PairsExactly itself is
\* violated: an overflow drops derivations and not their premises.)
PairsUntilTrimmed == ~trimmed => PairsExactly

Queued(w) == \E i \in 1 .. Len(queue) : queue[i] = w
Stuck(w) == Queued(w) /\ Pressured

\* A work that was admitted to the queue leaves it, provided that the gate grants
\* a flush again and again, or else the pressure came to where every flush is
\* inert: nothing but a flush relieves it.
ServedBelowPressure ==
  \A w \in Works : SF_srVars(Flush) => (Queued(w) ~> (~Queued(w) \/ Stuck(w)))
=============================================================================

--------------------------- MODULE ProposalProofs ---------------------------
(***************************************************************************)
(* The way of a model rule's result into memory: derived beside a list of  *)
(* premises (StreamReasoner), judged at a boundary and told to the log     *)
(* before anything takes it in (ProposalSeam); for any works, proposals    *)
(* and limits of the queues.                                               *)
(***************************************************************************)
EXTENDS ProposalSeam, SequenceLemmas

-----------------------------------------------------------------------------
(* StreamReasoner.                                                           *)

\* What is awaited has a pump behind it, and no retired batch is done.
FlushIsPumped ==
  /\ batch # <<>> => pumps > 0 /\ inFlush # {}
  /\ <<>> \notin late

\* The inductive invariant of the producer.
SRInv == SRTypeOK /\ FlushIsPumped /\ PairsUntilTrimmed

\* trimCapped: the newest, all of them while they fit.
LEMMA CappedIsNewest ==
  ASSUME NEW S, NEW s \in Seq(S), NEW n \in Nat
  PROVE  /\ Capped(s, n) \in Seq(S) /\ Len(Capped(s, n)) <= Len(s)
         /\ Len(s) <= n => Capped(s, n) = s
<1> DEFINE from == 1 + (IF Len(s) > n THEN Len(s) - n ELSE 0)
<1>1. Len(s) \in Nat /\ from \in Nat /\ from >= 1 /\ from <= Len(s) + 1 /\ (Len(s) <= n => from = 1)
  OBVIOUS
<1>2. Capped(s, n) = SubSeq(s, from, Len(s))
  BY DEF Capped
<1> HIDE DEF from
<1>3. \A i \in from .. Len(s) : s[i] \in S
  BY <1>1, ElementOfSeq
<1>4. SubSeq(s, from, Len(s)) \in Seq(S) /\ Len(SubSeq(s, from, Len(s))) <= Len(s)
  BY <1>1, <1>3, SubSeqProperties
<1>5. Len(s) <= n => SubSeq(s, from, Len(s)) = s
  BY <1>1, SubSeqFull
<1> QED
  BY <1>2, <1>4, <1>5

\* A work's results go behind what waits, with as many premises.
LEMMA YieldedKeepsPairs ==
  ASSUME SRTypeOK, PairsUntilTrimmed, NEW w \in Works, NEW n \in 0 .. MaxResults, Yielded(w, n)
  PROVE  /\ derived' \in Seq(Derivations) /\ premises' \in Seq(Concepts) /\ trimmed' \in BOOLEAN
         /\ PairsUntilTrimmed'
<1> DEFINE read == [i \in 1 .. n |-> Premise[w]]
           results == [i \in 1 .. n |-> <<w, i>>]
           all == derived \o results
<1>1. /\ derived \in Seq(Derivations) /\ premises \in Seq(Concepts) /\ trimmed \in BOOLEAN
      /\ Len(derived) \in Nat /\ Len(premises) \in Nat
      /\ n \in Nat /\ MaxResults \in Nat /\ MaxDerived \in Nat /\ Premise[w] \in Concepts
  BY WorksAssumption DEF WorksAssumption, SRTypeOK
<1>2. /\ read \in Seq(Concepts) /\ Len(read) = n /\ \A i \in 1 .. n : read[i] = Premise[w]
      /\ results \in Seq(Derivations) /\ Len(results) = n /\ \A i \in 1 .. n : results[i] = <<w, i>>
  <2>1. \A i \in 1 .. n : <<w, i>> \in Derivations
    BY <1>1 DEF Derivations
  <2> QED
    BY <1>1, <2>1
<1>3. premises' = premises \o read /\ derived' = Capped(all, MaxDerived)
      /\ trimmed' = (trimmed \/ Len(all) > MaxDerived)
  BY DEF Yielded
<1> HIDE DEF read, results
<1>4. /\ all \in Seq(Derivations) /\ Len(all) = Len(derived) + n
      /\ \A i \in 1 .. Len(derived) + n : all[i] = IF i <= Len(derived) THEN derived[i] ELSE results[i - Len(derived)]
  <2>1. \A a, b \in Seq(Derivations) :
          /\ a \o b \in Seq(Derivations) /\ Len(a \o b) = Len(a) + Len(b)
          /\ \A i \in 1 .. Len(a) + Len(b) : (a \o b)[i] = IF i <= Len(a) THEN a[i] ELSE b[i - Len(a)]
    BY ConcatProperties
  <2>2. derived \in Seq(Derivations) /\ results \in Seq(Derivations) /\ Len(results) = n
    BY <1>1, <1>2
  <2> QED
    BY <2>1, <2>2
<1>5. /\ premises' \in Seq(Concepts) /\ Len(premises') = Len(premises) + n
      /\ \A i \in 1 .. Len(premises) + n :
           premises'[i] = IF i <= Len(premises) THEN premises[i] ELSE read[i - Len(premises)]
  <2>1. \A a, b \in Seq(Concepts) :
          /\ a \o b \in Seq(Concepts) /\ Len(a \o b) = Len(a) + Len(b)
          /\ \A i \in 1 .. Len(a) + Len(b) : (a \o b)[i] = IF i <= Len(a) THEN a[i] ELSE b[i - Len(a)]
    BY ConcatProperties
  <2>2. premises \in Seq(Concepts) /\ read \in Seq(Concepts) /\ Len(read) = n
    BY <1>1, <1>2
  <2> QED
    BY <1>3, <2>1, <2>2
<1> HIDE DEF all
<1>6. derived' \in Seq(Derivations) /\ (Len(all) <= MaxDerived => derived' = all)
  BY <1>1, <1>3, <1>4, CappedIsNewest
<1>7. ASSUME ~trimmed' PROVE PairsExactly'
  <2>1. ~trimmed /\ derived' = all
    <3>1. ~(Len(all) > MaxDerived) /\ ~trimmed
      BY <1>3, <1>7
    <3>2. Len(all) <= MaxDerived
      BY <1>1, <1>4, <3>1
    <3> QED
      BY <1>6, <3>1, <3>2
  <2>2. Len(premises) = Len(derived) /\ \A i \in 1 .. Len(derived) : premises[i] = Premise[derived[i][1]]
    BY <2>1 DEF PairsUntilTrimmed, PairsExactly
  <2>3. Len(premises') = Len(derived')
    BY <1>4, <1>5, <2>1, <2>2
  <2>4. ASSUME NEW i \in 1 .. Len(derived') PROVE premises'[i] = Premise[derived'[i][1]]
    <3>1. i \in 1 .. Len(derived) + n
      BY <1>4, <2>1
    <3>2. CASE i <= Len(derived)
      <4>1. i \in 1 .. Len(derived)
        BY <1>1, <3>1, <3>2
      <4> QED
        BY <1>4, <1>5, <2>1, <2>2, <3>1, <3>2, <4>1
    <3>3. CASE ~(i <= Len(derived))
      <4>1. i - Len(derived) \in 1 .. n
        BY <1>1, <3>1, <3>3
      <4>2. premises'[i] = Premise[w] /\ derived'[i] = <<w, i - Len(derived)>>
        BY <1>2, <1>4, <1>5, <2>1, <2>2, <3>1, <3>3, <4>1
      <4> QED
        BY <4>2
    <3> QED
      BY <3>2, <3>3
  <2> QED
    BY <2>3, <2>4 DEF PairsExactly
<1> QED
  BY <1>1, <1>3, <1>5, <1>6, <1>7 DEF PairsUntilTrimmed

\* A flush that is over leaves its pump, and forgets its provisionals.
LEMMA FlushEndsKeeps ==
  ASSUME SRTypeOK, FlushIsPumped, batch # <<>>, FlushEnds
  PROVE  /\ inFlush' = {} /\ batch' = <<>> /\ batch' \in Seq(Works) /\ pumps' \in Nat
         /\ provisionals' \in Seq(Works)
<1>1. provisionals \in Seq(Works) /\ pumps \in Nat /\ pumps > 0
  BY DEF SRTypeOK, FlushIsPumped
<1>2. provisionals' \in Seq(Works)
  BY <1>1, SelectedIsASubsequence DEF FlushEnds
<1> QED
  BY <1>1, <1>2, EmptySeq DEF FlushEnds

LEMMA SRInvInit == SRInit => SRInv
<1> SUFFICES ASSUME SRInit PROVE SRInv
  OBVIOUS
<1>1. <<>> \in Seq(Works) /\ <<>> \in Seq(Derivations) /\ <<>> \in Seq(Concepts)
  BY EmptySeq
<1>2. SRTypeOK
  BY <1>1 DEF SRInit, SRTypeOK
<1>3. FlushIsPumped
  BY DEF SRInit, FlushIsPumped
<1>4. PairsUntilTrimmed
  BY DEF SRInit, PairsUntilTrimmed, PairsExactly
<1> QED
  BY <1>2, <1>3, <1>4 DEF SRInv

LEMMA SRStepKeeps == SRInv /\ SRStep => SRInv'
<1> SUFFICES ASSUME SRInv, SRStep PROVE SRInv'
  OBVIOUS
<1>0. SRTypeOK /\ FlushIsPumped /\ PairsUntilTrimmed
  BY DEF SRInv
<1>1. /\ staged \subseteq Works /\ inFlush \subseteq Works
      /\ queue \in Seq(Works) /\ provisionals \in Seq(Works) /\ batch \in Seq(Works)
      /\ pumps \in Nat /\ late \subseteq Seq(Works)
      /\ derived \in Seq(Derivations) /\ premises \in Seq(Concepts) /\ trimmed \in BOOLEAN
      /\ MaxQueued \in Nat /\ MaxBatch \in Nat \ {0}
  BY <1>0, WorksAssumption DEF SRTypeOK, WorksAssumption
<1>2. ASSUME NEW w \in Works, Stage(w) PROVE SRInv'
  <2>1. queue' \in Seq(Works) /\ provisionals' \in Seq(Works)
    <3>1. Append(queue, w) \in Seq(Works) /\ Append(provisionals, w) \in Seq(Works)
      BY <1>1, AppendProperties
    <3>2. Capped(Append(provisionals, w), MaxQueued) \in Seq(Works)
      BY <1>1, <3>1, CappedIsNewest
    <3> QED
      BY <1>1, <1>2, <3>1, <3>2 DEF Stage
  <2>2. staged' \subseteq Works /\ UNCHANGED <<pumps, batch, inFlush, late, derived, premises, trimmed>>
    BY <1>1, <1>2 DEF Stage
  <2> QED
    BY <1>0, <1>1, <2>1, <2>2 DEF SRInv, SRTypeOK, FlushIsPumped, PairsUntilTrimmed, PairsExactly
<1>3. CASE Pump
  BY <1>0, <1>1, <1>3 DEF Pump, SRInv, SRTypeOK, FlushIsPumped, PairsUntilTrimmed, PairsExactly
<1>4. CASE FlushNothing
  BY <1>0, <1>1, <1>4 DEF FlushNothing, SRInv, SRTypeOK, FlushIsPumped, PairsUntilTrimmed, PairsExactly
<1>5. CASE Flush
  <2> DEFINE n == IF Len(queue) < MaxBatch THEN Len(queue) ELSE MaxBatch
  <2>1. /\ pumps > 0 /\ queue # <<>> /\ batch' = SubSeq(queue, 1, n) /\ inFlush' = {queue[i] : i \in 1 .. n}
        /\ queue' = SubSeq(queue, n + 1, Len(queue))
        /\ UNCHANGED <<staged, provisionals, pumps, late, derived, premises, trimmed>>
    BY <1>5 DEF Flush
  <2>2. Len(queue) \in Nat /\ Len(queue) > 0 /\ n \in Nat /\ n <= Len(queue) /\ n >= 1
    BY <1>1, <2>1
  <2> HIDE DEF n
  <2>3. \A i \in 1 .. Len(queue) : queue[i] \in Works
    BY <1>1, ElementOfSeq
  <2>4. SubSeq(queue, 1, n) \in Seq(Works) /\ SubSeq(queue, n + 1, Len(queue)) \in Seq(Works)
    <3>1. (\A i \in 1 .. n : queue[i] \in Works) /\ (\A i \in n + 1 .. Len(queue) : queue[i] \in Works)
      BY <2>2, <2>3
    <3> QED
      BY <1>1, <2>2, <3>1, SubSeqProperties
  <2>5. inFlush' \subseteq Works /\ inFlush' # {}
    <3>1. 1 \in 1 .. n /\ \A i \in 1 .. n : queue[i] \in Works
      BY <2>2, <2>3
    <3> QED
      BY <2>1, <3>1
  <2>6. SRTypeOK'
    BY <1>1, <2>1, <2>4, <2>5 DEF SRTypeOK
  <2> QED
    BY <1>0, <2>1, <2>5, <2>6 DEF SRInv, FlushIsPumped, PairsUntilTrimmed, PairsExactly
<1>6. CASE Retire
  <2>1. /\ batch # <<>> /\ FlushEnds /\ late' = late \cup {batch}
        /\ UNCHANGED <<staged, queue, derived, premises, trimmed>>
    BY <1>6 DEF Retire
  <2>2. /\ inFlush' = {} /\ batch' = <<>> /\ batch' \in Seq(Works) /\ pumps' \in Nat
        /\ provisionals' \in Seq(Works)
    BY <1>0, <2>1, FlushEndsKeeps
  <2>3. SRTypeOK'
    BY <1>1, <2>1, <2>2 DEF SRTypeOK
  <2>4. FlushIsPumped'
    BY <1>0, <2>1, <2>2 DEF FlushIsPumped
  <2> QED
    BY <1>0, <2>1, <2>3, <2>4 DEF SRInv, PairsUntilTrimmed, PairsExactly
<1>7. ASSUME NEW n \in 0 .. MaxResults, Derive(n) PROVE SRInv'
  <2>1. /\ batch # <<>> /\ Yielded(Head(batch), n) /\ UNCHANGED <<staged, queue, late>>
    BY <1>7 DEF Derive
  <2>2. Head(batch) \in Works /\ Tail(batch) \in Seq(Works)
    BY <1>1, <2>1, HeadTailProperties
  <2>3. /\ derived' \in Seq(Derivations) /\ premises' \in Seq(Concepts) /\ trimmed' \in BOOLEAN
        /\ PairsUntilTrimmed'
    BY <1>0, <2>1, <2>2, YieldedKeepsPairs
  <2>4. CASE FlushEnds
    <3>1. /\ inFlush' = {} /\ batch' = <<>> /\ batch' \in Seq(Works) /\ pumps' \in Nat
          /\ provisionals' \in Seq(Works)
      BY <1>0, <2>1, <2>4, FlushEndsKeeps
    <3>2. SRTypeOK'
      BY <1>1, <2>1, <2>3, <3>1 DEF SRTypeOK
    <3> QED
      BY <1>0, <2>1, <2>3, <3>1, <3>2 DEF SRInv, FlushIsPumped
  <2>5. CASE batch' = Tail(batch) /\ UNCHANGED <<inFlush, pumps, provisionals>>
    <3>1. SRTypeOK'
      BY <1>1, <2>1, <2>2, <2>3, <2>5 DEF SRTypeOK
    <3>2. FlushIsPumped'
      BY <1>0, <2>1, <2>5 DEF FlushIsPumped
    <3> QED
      BY <2>3, <3>1, <3>2 DEF SRInv
  <2> QED
    BY <1>7, <2>4, <2>5 DEF Derive
<1>8. ASSUME NEW n \in 0 .. MaxResults, NEW b \in late, DeriveLate(b, n) PROVE SRInv'
  <2>1. /\ Yielded(Head(b), n) /\ UNCHANGED <<staged, queue, provisionals, pumps, batch, inFlush>>
        /\ late' = (late \ {b}) \cup (IF Len(b) = 1 THEN {} ELSE {Tail(b)})
        /\ b \in Seq(Works) /\ b # <<>>
    BY <1>0, <1>1, <1>8 DEF DeriveLate, FlushIsPumped
  <2>2. Head(b) \in Works /\ Tail(b) \in Seq(Works) /\ Len(Tail(b)) = Len(b) - 1 /\ Len(b) \in Nat
    BY <2>1, HeadTailProperties
  <2>3. /\ derived' \in Seq(Derivations) /\ premises' \in Seq(Concepts) /\ trimmed' \in BOOLEAN
        /\ PairsUntilTrimmed'
    BY <1>0, <2>1, <2>2, YieldedKeepsPairs
  <2>4. SRTypeOK'
    BY <1>1, <2>1, <2>2, <2>3 DEF SRTypeOK
  <2>5. FlushIsPumped'
    <3>1. Len(b) # 1 => Tail(b) # <<>>
      <4>1. Len(b) # 1 => Len(Tail(b)) # 0
        BY <2>2
      <4>2. Len(<<>>) = 0
        OBVIOUS
      <4> QED
        BY <4>1, <4>2
    <3> QED
      BY <1>0, <2>1, <3>1 DEF FlushIsPumped
  <2> QED
    BY <2>3, <2>4, <2>5 DEF SRInv
<1>9. CASE Throw
  <2>1. /\ batch' = <<>> /\ inFlush' = {} /\ pumps' = pumps - 1 /\ pumps > 0
        /\ UNCHANGED <<staged, queue, provisionals, late, derived, premises, trimmed>>
    BY <1>0, <1>9 DEF Throw, FlushIsPumped
  <2>2. batch' \in Seq(Works) /\ pumps' \in Nat
    BY <1>1, <2>1, EmptySeq
  <2>3. SRTypeOK' /\ FlushIsPumped'
    BY <1>0, <1>1, <2>1, <2>2 DEF SRTypeOK, FlushIsPumped
  <2> QED
    BY <1>0, <2>1, <2>3 DEF SRInv, PairsUntilTrimmed, PairsExactly
<1>10. ASSUME NEW b \in late, ThrowLate(b) PROVE SRInv'
  <2>1. /\ late' = late \ {b}
        /\ UNCHANGED <<staged, queue, provisionals, pumps, batch, inFlush, derived, premises, trimmed>>
    BY <1>10 DEF ThrowLate
  <2>2. SRTypeOK' /\ FlushIsPumped'
    BY <1>0, <1>1, <2>1 DEF SRTypeOK, FlushIsPumped
  <2> QED
    BY <1>0, <2>1, <2>2 DEF SRInv, PairsUntilTrimmed, PairsExactly
<1> QED
  BY <1>2, <1>3, <1>4, <1>5, <1>6, <1>7, <1>8, <1>9, <1>10 DEF SRStep

\* takeDerived drops as many premises as derivations.
LEMMA DrainKeeps == SRInv /\ Drain => SRInv'
<1> SUFFICES ASSUME SRInv, Drain PROVE SRInv'
  OBVIOUS
<1>1. /\ derived' = <<>> /\ premises' = SubSeq(premises, Len(derived) + 1, Len(premises))
      /\ UNCHANGED <<staged, queue, provisionals, pumps, batch, inFlush, late, trimmed>>
  BY DEF Drain
<1>2. /\ SRTypeOK /\ FlushIsPumped /\ PairsUntilTrimmed
      /\ derived \in Seq(Derivations) /\ premises \in Seq(Concepts)
      /\ Len(derived) \in Nat /\ Len(premises) \in Nat
  BY DEF SRInv, SRTypeOK
<1>3. premises' \in Seq(Concepts) /\ derived' \in Seq(Derivations)
  <2>1. \A i \in Len(derived) + 1 .. Len(premises) : premises[i] \in Concepts
    BY <1>2, ElementOfSeq
  <2> QED
    BY <1>1, <1>2, <2>1, SubSeqProperties, EmptySeq
<1>4. Len(premises) = Len(derived) => premises' = <<>>
  <2>1. Len(premises) = Len(derived) => Len(derived) + 1 > Len(premises)
    BY <1>2
  <2> QED
    BY <1>1, <1>2, <2>1, SubSeqEmpty
<1>5. PairsUntilTrimmed'
  BY <1>1, <1>2, <1>4 DEF PairsUntilTrimmed, PairsExactly
<1>6. SRTypeOK' /\ FlushIsPumped'
  BY <1>1, <1>2, <1>3 DEF SRTypeOK, FlushIsPumped
<1> QED
  BY <1>5, <1>6 DEF SRInv

LEMMA SRInvUntouched == SRInv /\ UNCHANGED srVars => SRInv'
BY DEF srVars, SRInv, SRTypeOK, FlushIsPumped, PairsUntilTrimmed, PairsExactly

LEMMA SRInvAlways == SRSpec => []SRInv
<1>1. SRInv /\ [SRNext]_srVars => SRInv'
  BY SRStepKeeps, DrainKeeps, SRInvUntouched DEF SRNext, Boundary
<1> QED
  BY <1>1, SRInvInit, PTL DEF SRSpec

\* The n-th derivation that waits for a boundary was made from the n-th premises
\* until derivedTasks overflows, although batches that were given up at their
\* deadlines derive beside the awaited one.
THEOREM PremisesStayPaired == SRSpec => []PairsUntilTrimmed
BY SRInvAlways, PTL DEF SRInv

\* The staged works, the flushes and the lists that wait keep their shape.
THEOREM ReasonerKeepsItsShape == SRSpec => []SRTypeOK
BY SRInvAlways, PTL DEF SRInv

-----------------------------------------------------------------------------
(* ProposalSeam.                                                             *)

\* The admissions among some events.
Told(s) == Selected(s, {k \in DOMAIN s : s[k].type = "admitted"})

LEMMA ToldConcat ==
  ASSUME NEW s \in Seq(SeamEvent), NEW t \in Seq(SeamEvent)
  PROVE  Told(s) \in Seq(SeamEvent) /\ Told(s \o t) = Told(s) \o Told(t)
<1> DEFINE In(r) == {k \in DOMAIN r : r[k].type = "admitted"}
           st == s \o t
<1>1. /\ Len(s) \in Nat /\ Len(t) \in Nat /\ Len(st) = Len(s) + Len(t) /\ st \in Seq(SeamEvent)
      /\ DOMAIN s = 1 .. Len(s) /\ DOMAIN t = 1 .. Len(t) /\ DOMAIN st = 1 .. Len(st)
      /\ \A k \in 1 .. Len(s) + Len(t) : st[k] = IF k <= Len(s) THEN s[k] ELSE t[k - Len(s)]
  BY ConcatProperties
<1> HIDE DEF st
<1>2. \A k \in 1 .. Len(s) : k \in In(s) <=> k \in In(st)
  <2>1. \A k \in 1 .. Len(s) : k \in 1 .. Len(st) /\ st[k] = s[k]
    BY <1>1
  <2> QED
    BY <1>1, <2>1
<1>3. \A k \in 1 .. Len(t) : k \in In(t) <=> Len(s) + k \in In(st)
  <2>1. \A k \in 1 .. Len(t) : Len(s) + k \in 1 .. Len(st) /\ ~(Len(s) + k <= Len(s)) /\ (Len(s) + k) - Len(s) = k
    BY <1>1
  <2>2. \A k \in 1 .. Len(t) : st[Len(s) + k] = t[k]
    BY <1>1, <2>1
  <2> QED
    BY <1>1, <2>1, <2>2
<1>4. Told(s) = Selected(s, In(s)) /\ Told(t) = Selected(t, In(t)) /\ Told(st) = Selected(st, In(st))
  BY DEF Told
<1> HIDE DEF In
<1>5. Selected(st, In(st)) = Selected(s, In(s)) \o Selected(t, In(t))
  <2>1. \A K, J, L :
          /\ \A n \in 1 .. Len(s) : n \in J <=> n \in K
          /\ \A n \in 1 .. Len(t) : n \in L <=> Len(s) + n \in K
          => Selected(s \o t, K) = Selected(s, J) \o Selected(t, L)
    BY SelectedConcat
  <2> QED
    BY <1>2, <1>3, <2>1 DEF st
<1>6. Selected(s, In(s)) \in Seq(SeamEvent)
  BY SelectedIsASubsequence
<1> QED
  BY <1>4, <1>5, <1>6 DEF st

LEMMA ToldAllOrNone ==
  ASSUME NEW s \in Seq(SeamEvent)
  PROVE  /\ (\A k \in 1 .. Len(s) : s[k].type = "admitted") => Told(s) = s
         /\ (\A k \in 1 .. Len(s) : s[k].type = "rejected") => Told(s) = <<>>
<1> DEFINE K == {k \in DOMAIN s : s[k].type = "admitted"}
<1>1. DOMAIN s = 1 .. Len(s)
  OBVIOUS
<1>2. (\A k \in 1 .. Len(s) : s[k].type = "admitted") => \A k \in 1 .. Len(s) : k \in K
  BY <1>1
<1>3. (\A k \in 1 .. Len(s) : s[k].type = "rejected") => \A k \in 1 .. Len(s) : k \notin K
  BY <1>1
<1>4. Told(s) = Selected(s, K)
  BY DEF Told
<1> HIDE DEF K
<1> QED
  BY <1>2, <1>3, <1>4, SelectedAllOrNone

\* What is recorded after the log: refusals tell nothing, admissions come last.
LEMMA AdmissionsAreTold ==
  ASSUME events \in Seq(SeamEvent), NEW a \in Seq(SeamEvent), NEW b \in Seq(SeamEvent),
         \A k \in 1 .. Len(a) : a[k].type = "rejected",
         \A k \in 1 .. Len(b) : b[k].type = "admitted",
         events' = (events \o a) \o b
  PROVE  /\ events' \in Seq(SeamEvent)
         /\ AdmissionsTold \in Seq(SeamEvent) /\ AdmissionsTold' = AdmissionsTold \o b
         /\ \A kind, id : IsTold(kind, id) => IsTold(kind, id)'
         /\ \A kind, id : (\E k \in 1 .. Len(b) : b[k].kind = kind /\ b[k].id = id) => IsTold(kind, id)'
<1> DEFINE ea == events \o a  eab == ea \o b
<1>1. /\ ea \in Seq(SeamEvent) /\ Len(ea) = Len(events) + Len(a)
      /\ Len(events) \in Nat /\ Len(a) \in Nat /\ Len(b) \in Nat
      /\ \A k \in 1 .. Len(events) + Len(a) : ea[k] = IF k <= Len(events) THEN events[k] ELSE a[k - Len(events)]
  BY ConcatProperties
<1> HIDE DEF ea
<1>2. /\ eab \in Seq(SeamEvent) /\ Len(eab) = Len(ea) + Len(b)
      /\ \A k \in 1 .. Len(ea) + Len(b) : eab[k] = IF k <= Len(ea) THEN ea[k] ELSE b[k - Len(ea)]
  <2>1. \A c, d \in Seq(SeamEvent) :
          /\ c \o d \in Seq(SeamEvent) /\ Len(c \o d) = Len(c) + Len(d)
          /\ \A i \in 1 .. Len(c) + Len(d) : (c \o d)[i] = IF i <= Len(c) THEN c[i] ELSE d[i - Len(c)]
    BY ConcatProperties
  <2> QED
    BY <1>1, <2>1
<1>3. events' = eab
  BY DEF ea
<1> HIDE DEF eab
<1>4. Told(eab) = Told(events) \o b /\ Told(events) \in Seq(SeamEvent)
  <2>1. Told(ea) = Told(events) \o Told(a) /\ Told(eab) = Told(ea) \o Told(b) /\ Told(events) \in Seq(SeamEvent)
    BY <1>1, ToldConcat DEF ea, eab
  <2>2. Told(a) = <<>> /\ Told(b) = b
    BY ToldAllOrNone
  <2>3. Told(events) \o <<>> = Told(events)
    BY <2>1, ConcatEmptySeq
  <2> QED
    BY <2>1, <2>2, <2>3
<1>5. AdmissionsTold = Told(events) /\ AdmissionsTold' = Told(events')
  BY DEF AdmissionsTold, Told
<1>6. \A kind, id : IsTold(kind, id) => IsTold(kind, id)'
  <2>1. \A k \in 1 .. Len(events) : k \in 1 .. Len(eab) /\ eab[k] = events[k]
    BY <1>1, <1>2
  <2> QED
    BY <1>3, <2>1 DEF IsTold
<1>7. ASSUME NEW kind, NEW id, NEW k \in 1 .. Len(b), b[k].kind = kind, b[k].id = id
      PROVE  IsTold(kind, id)'
  <2>1. Len(ea) + k \in 1 .. Len(eab) /\ ~(Len(ea) + k <= Len(ea)) /\ (Len(ea) + k) - Len(ea) = k
    BY <1>1, <1>2
  <2>2. eab[Len(ea) + k] = b[k] /\ b[k].type = "admitted"
    BY <1>1, <1>2, <2>1
  <2> QED
    BY <1>3, <1>7, <2>1, <2>2 DEF IsTold
<1> QED
  BY <1>2, <1>3, <1>4, <1>5, <1>6, <1>7

Positioned == 1 .. Len(derived)
Submission == [id : Proposals, base : Nat]
Entry == [id : Proposals, revision : Nat]

\* What a boundary finds in the queues.
LEMMA BoundaryFinds ==
  ASSUME SeamTypeOK
  PROVE  /\ ClearInOrder \in Seq(Positioned) /\ Unresolved \in Seq(Positioned)
         /\ Fresh \in Seq(Submission) /\ Unfit \in Seq(Submission)
         /\ Displaced \in Nat /\ Displaced <= Len(derived)
         /\ Committed \in Nat /\ Committed <= Len(Fresh) /\ (Throwing # {} => Committed >= 1)
         /\ \A i \in Positioned : /\ IdAt(i) \in Range(StampOf)
                                  /\ \E j \in Positioned : Landed(IdAt(i)) = derived[j] /\ IdAt(j) = IdAt(i)
<1>1. /\ derived \in Seq(Derivations) /\ Len(derived) \in Nat /\ rules \in Seq(Submission)
      /\ DOMAIN StampOf = Works /\ MaxContent \in Nat
  BY SeamAssumption DEF SeamAssumption, SeamTypeOK, SRTypeOK, Submission
<1>2. ClearInOrder \in Seq(Positioned) /\ Unresolved \in Seq(Positioned)
  <2>1. Positions \in Seq(Positioned)
    BY <1>1 DEF Positions, Positioned
  <2> QED
    BY <2>1, SelectedIsASubsequence DEF ClearInOrder, Unresolved
<1>3. Fresh \in Seq(Submission) /\ Unfit \in Seq(Submission)
  BY <1>1, SelectedIsASubsequence DEF Fresh, Unfit
<1>4. Displaced \in Nat /\ Displaced <= Len(derived)
  <2>1. Len(Capped(derived, MaxContent)) \in Nat /\ Len(Capped(derived, MaxContent)) <= Len(derived)
    BY <1>1, CappedIsNewest, LenProperties
  <2> QED
    BY <1>1, <2>1 DEF Displaced
<1>5. Committed \in Nat /\ Committed <= Len(Fresh) /\ (Throwing # {} => Committed >= 1)
  <2>1. Len(Fresh) \in Nat
    BY <1>3, LenProperties
  <2>2. CASE Throwing = {}
    BY <2>1, <2>2 DEF Committed
  <2>3. CASE Throwing # {}
    <3>1. Throwing \in SUBSET (0 .. Len(Fresh)) /\ \A k \in Throwing : k \in 1 .. Len(Fresh)
      BY <2>1 DEF Throwing
    <3>2. \E k \in Throwing : \A j \in Throwing : k <= j
      BY <2>1, <2>3, <3>1, FirstAndLast
    <3>3. Committed = CHOOSE k \in Throwing : \A j \in Throwing : k <= j
      BY <2>3 DEF Committed
    <3>4. Committed \in Throwing
      BY <3>2, <3>3, Zenon
    <3> QED
      BY <2>1, <3>1, <3>4
  <2> QED
    BY <2>2, <2>3
<1>6. ASSUME NEW i \in Positioned
      PROVE  /\ IdAt(i) \in Range(StampOf)
             /\ \E j \in Positioned : Landed(IdAt(i)) = derived[j] /\ IdAt(j) = IdAt(i)
  <2>1. \A j \in Positioned : derived[j] \in Derivations /\ derived[j][1] \in Works
    BY <1>1, ElementOfSeq DEF Positioned, Derivations
  <2>2. IdAt(i) \in Range(StampOf)
    BY <1>1, <2>1 DEF IdAt, Range
  <2> DEFINE id == IdAt(i)
             IsLast(j) == IdAt(j) = id /\ \A h \in j + 1 .. Len(derived) : IdAt(h) # id
             P == {j \in Positioned : IdAt(j) = id}
  <2>3. P \in SUBSET (0 .. Len(derived)) /\ P # {}
    BY <1>1 DEF Positioned
  <2>4. PICK j \in P : \A h \in P : h <= j
    <3> HIDE DEF P
    <3> QED
      BY <1>1, <2>3, FirstAndLast
  <2>5. j \in Positioned /\ IsLast(j)
    <3>1. \A h \in j + 1 .. Len(derived) : h \in Positioned /\ ~(h <= j)
      BY <1>1, <2>4 DEF Positioned
    <3> QED
      BY <2>4, <3>1
  <2>6. Landed(id) = derived[CHOOSE k \in 1 .. Len(derived) : IsLast(k)]
    BY DEF Landed
  <2> DEFINE k == CHOOSE k \in 1 .. Len(derived) : IsLast(k)
  <2>7. k \in 1 .. Len(derived) /\ IsLast(k)
    <3> HIDE DEF IsLast
    <3>1. \E h \in 1 .. Len(derived) : IsLast(h)
      BY <2>5 DEF Positioned
    <3> QED
      BY <3>1, Zenon
  <2>8. k \in Positioned /\ IdAt(k) = id /\ Landed(id) = derived[k]
    <3> HIDE DEF k, id
    <3>1. Landed(id) = derived[k]
      BY <2>6 DEF k
    <3> QED
      BY <2>7, <3>1 DEF Positioned
  <2> HIDE DEF k
  <2> QED
    BY <2>2, <2>8
<1> QED
  BY <1>2, <1>3, <1>4, <1>5, <1>6

\* A boundary's refusals are rejections, its admissions the next revisions: those
\* of the derivations that clear, then those of the rules up to the one the table
\* throws at; the table takes the latter at their revisions.
LEMMA BoundaryRecords ==
  ASSUME SeamTypeOK
  PROVE  /\ Refusals \in Seq(SeamEvent) /\ \A k \in 1 .. Len(Refusals) : Refusals[k].type = "rejected"
         /\ Admissions \in Seq(SeamEvent) /\ Len(Admissions) = Len(ClearInOrder) + Committed
         /\ \A k \in 1 .. Len(Admissions) :
              Admissions[k].type = "admitted" /\ Admissions[k].revision = revision + k
         /\ \A k \in 1 .. Len(ClearInOrder) :
              Admissions[k].kind = "content" /\ Admissions[k].id = IdAt(ClearInOrder[k])
         /\ \A k \in 1 .. Committed : /\ Admissions[Len(ClearInOrder) + k].kind = "rule"
                                      /\ Admissions[Len(ClearInOrder) + k].id = Fresh[k].id
         /\ Admitted \in Seq(Entry) /\ Len(Admitted) <= Committed
         /\ \A k \in 1 .. Len(Admitted) :
              Admitted[k].id = Fresh[k].id /\ Admitted[k].revision = revision + Len(ClearInOrder) + k
<1> DEFINE c == Len(ClearInOrder)  m == Committed
           content == [k \in 1 .. c |-> Admission(IdAt(ClearInOrder[k]), "content", k)]
           admits == [k \in 1 .. m |-> Admission(Fresh[k].id, "rule", c + k)]
           lost == [i \in 1 .. Displaced |-> Rejection(IdAt(i), "queue-overflow")]
           gone == [k \in 1 .. Len(Unresolved) |-> Rejection(IdAt(Unresolved[k]), "evicted-reference")]
           Reason(k) == IF IsStale(Unfit[k]) THEN "stale-revision"
                        ELSE IF Evicted(Unfit[k]) THEN "evicted-reference" ELSE "failed-schema"
           unfit == [k \in 1 .. Len(Unfit) |-> Rejection(Unfit[k].id, Reason(k))]
           Reasons == {"queue-overflow", "stale-revision", "evicted-reference", "failed-schema"}
           Ids == Proposals \cup Range(StampOf)
<1>1. /\ ClearInOrder \in Seq(Positioned) /\ Unresolved \in Seq(Positioned)
      /\ Fresh \in Seq(Submission) /\ Unfit \in Seq(Submission)
      /\ Displaced \in Nat /\ Displaced <= Len(derived)
      /\ m \in Nat /\ m <= Len(Fresh) /\ (Throwing # {} => m >= 1)
      /\ \A i \in Positioned : IdAt(i) \in Range(StampOf)
      /\ revision \in Nat /\ Len(derived) \in Nat
  BY BoundaryFinds DEF SeamTypeOK, SRTypeOK
<1>2. /\ \A k \in 1 .. c : ClearInOrder[k] \in Positioned
      /\ \A k \in 1 .. Len(Unresolved) : Unresolved[k] \in Positioned
      /\ \A k \in 1 .. Len(Fresh) : Fresh[k] \in Submission
      /\ \A k \in 1 .. Len(Unfit) : Unfit[k] \in Submission
      /\ c \in Nat /\ Len(Unresolved) \in Nat /\ Len(Fresh) \in Nat /\ Len(Unfit) \in Nat
  BY <1>1, ElementOfSeq, LenProperties
<1>3. \A id \in Ids : \A reason \in Reasons :
        Rejection(id, reason) \in SeamEvent /\ Rejection(id, reason).type = "rejected"
  BY <1>1 DEF Rejection, SeamEvent
<1>4. \A id \in Ids : \A kind \in {"content", "rule"} : \A n \in Nat :
        /\ Admission(id, kind, n) \in SeamEvent /\ Admission(id, kind, n).type = "admitted"
        /\ Admission(id, kind, n).id = id /\ Admission(id, kind, n).kind = kind
        /\ Admission(id, kind, n).revision = revision + n
  BY <1>1 DEF Admission, SeamEvent
<1>5. \A i \in Positioned : IdAt(i) \in Ids
  BY <1>1
<1>6. \A r \in Submission : r.id \in Ids /\ r.id \in Proposals
  BY DEF Submission
<1>7. \A k : Reason(k) \in Reasons
  OBVIOUS
<1> HIDE DEF Ids, Reasons, Reason
<1>8. lost \in Seq(SeamEvent) /\ Len(lost) = Displaced /\ \A k \in 1 .. Len(lost) : lost[k].type = "rejected"
  <2>1. \A k \in 1 .. Displaced : k \in Positioned
    BY <1>1 DEF Positioned
  <2>2. "queue-overflow" \in Reasons
    BY DEF Reasons
  <2>3. \A k \in 1 .. Displaced :
          Rejection(IdAt(k), "queue-overflow") \in SeamEvent /\ Rejection(IdAt(k), "queue-overflow").type = "rejected"
    BY <1>3, <1>5, <2>1, <2>2
  <2> QED
    BY <1>1, <2>3
<1>9. gone \in Seq(SeamEvent) /\ \A k \in 1 .. Len(gone) : gone[k].type = "rejected"
  <2>1. "evicted-reference" \in Reasons
    BY DEF Reasons
  <2>2. \A k \in 1 .. Len(Unresolved) :
          /\ Rejection(IdAt(Unresolved[k]), "evicted-reference") \in SeamEvent
          /\ Rejection(IdAt(Unresolved[k]), "evicted-reference").type = "rejected"
    BY <1>2, <1>3, <1>5, <2>1
  <2> QED
    BY <1>2, <2>2
<1>10. unfit \in Seq(SeamEvent) /\ \A k \in 1 .. Len(unfit) : unfit[k].type = "rejected"
  <2>1. \A k \in 1 .. Len(Unfit) :
          /\ Rejection(Unfit[k].id, Reason(k)) \in SeamEvent
          /\ Rejection(Unfit[k].id, Reason(k)).type = "rejected"
    BY <1>2, <1>3, <1>6, <1>7
  <2> QED
    BY <1>2, <2>1
<1>11. \A x, y \in Seq(SeamEvent) :
         /\ x \o y \in Seq(SeamEvent) /\ Len(x \o y) = Len(x) + Len(y)
         /\ Len(x) \in Nat /\ Len(y) \in Nat
         /\ \A i \in 1 .. Len(x) + Len(y) : (x \o y)[i] = IF i <= Len(x) THEN x[i] ELSE y[i - Len(x)]
  BY ConcatProperties, LenProperties
<1>12. \A x, y \in Seq(SeamEvent) :
         /\ \A k \in 1 .. Len(x) : x[k].type = "rejected"
         /\ \A k \in 1 .. Len(y) : y[k].type = "rejected"
         => \A k \in 1 .. Len(x \o y) : (x \o y)[k].type = "rejected"
  <2> TAKE x, y \in Seq(SeamEvent)
  <2> HAVE /\ \A k \in 1 .. Len(x) : x[k].type = "rejected"
           /\ \A k \in 1 .. Len(y) : y[k].type = "rejected"
  <2> TAKE k \in 1 .. Len(x \o y)
  <2>1. Len(x) \in Nat /\ Len(y) \in Nat /\ k \in 1 .. Len(x) + Len(y)
    BY <1>11
  <2>2. k <= Len(x) => k \in 1 .. Len(x)
    BY <2>1
  <2>3. ~(k <= Len(x)) => k - Len(x) \in 1 .. Len(y)
    BY <2>1
  <2>4. (x \o y)[k] = IF k <= Len(x) THEN x[k] ELSE y[k - Len(x)]
    BY <1>11, <2>1
  <2> QED
    BY <2>2, <2>3, <2>4
<1>13. /\ content \in Seq(SeamEvent) /\ Len(content) = c
       /\ \A k \in 1 .. c : /\ content[k].type = "admitted" /\ content[k].revision = revision + k
                            /\ content[k].kind = "content" /\ content[k].id = IdAt(ClearInOrder[k])
  <2>1. \A k \in 1 .. c : k \in Nat /\ IdAt(ClearInOrder[k]) \in Ids
    BY <1>2, <1>5
  <2> HIDE DEF c
  <2>2. \A k \in 1 .. c :
          /\ Admission(IdAt(ClearInOrder[k]), "content", k) \in SeamEvent
          /\ Admission(IdAt(ClearInOrder[k]), "content", k).type = "admitted"
          /\ Admission(IdAt(ClearInOrder[k]), "content", k).revision = revision + k
          /\ Admission(IdAt(ClearInOrder[k]), "content", k).kind = "content"
          /\ Admission(IdAt(ClearInOrder[k]), "content", k).id = IdAt(ClearInOrder[k])
    BY <1>4, <2>1
  <2> QED
    BY <1>2, <2>2
<1>14. /\ admits \in Seq(SeamEvent) /\ Len(admits) = m
       /\ \A k \in 1 .. m : /\ admits[k].type = "admitted" /\ admits[k].revision = revision + (c + k)
                            /\ admits[k].kind = "rule" /\ admits[k].id = Fresh[k].id
  <2> HIDE DEF c, m
  <2>1. \A k \in 1 .. m : c + k \in Nat /\ k \in 1 .. Len(Fresh)
    BY <1>1, <1>2
  <2>2. \A k \in 1 .. m : Fresh[k].id \in Ids
    BY <1>2, <1>6, <2>1
  <2>3. \A k \in 1 .. m :
          /\ Admission(Fresh[k].id, "rule", c + k) \in SeamEvent
          /\ Admission(Fresh[k].id, "rule", c + k).type = "admitted"
          /\ Admission(Fresh[k].id, "rule", c + k).revision = revision + (c + k)
          /\ Admission(Fresh[k].id, "rule", c + k).kind = "rule"
          /\ Admission(Fresh[k].id, "rule", c + k).id = Fresh[k].id
    BY <1>4, <2>1, <2>2
  <2> QED
    BY <1>1, <2>3
<1>15. Refusals = (lost \o gone) \o unfit /\ Admissions = content \o admits
  BY DEF Refusals, Admissions, Reason
<1> HIDE DEF lost, gone, unfit, content, admits
<1>16. Refusals \in Seq(SeamEvent) /\ \A k \in 1 .. Len(Refusals) : Refusals[k].type = "rejected"
  <2>1. lost \o gone \in Seq(SeamEvent) /\ \A k \in 1 .. Len(lost \o gone) : (lost \o gone)[k].type = "rejected"
    BY <1>8, <1>9, <1>11, <1>12
  <2>2. (lost \o gone) \o unfit \in Seq(SeamEvent)
    BY <1>10, <1>11, <2>1
  <2>3. \A k \in 1 .. Len((lost \o gone) \o unfit) : ((lost \o gone) \o unfit)[k].type = "rejected"
    BY <1>10, <1>12, <2>1
  <2> QED
    BY <1>15, <2>2, <2>3
<1> HIDE DEF c, m
<1>17. /\ Admissions \in Seq(SeamEvent) /\ Len(Admissions) = c + m
       /\ \A i \in 1 .. c + m : Admissions[i] = IF i <= c THEN content[i] ELSE admits[i - c]
  BY <1>11, <1>13, <1>14, <1>15
<1>18. \A k \in 1 .. c : k \in 1 .. c + m /\ Admissions[k] = content[k]
  BY <1>1, <1>2, <1>17 DEF c
<1>19. \A k \in 1 .. m : c + k \in 1 .. c + m /\ Admissions[c + k] = admits[k]
  <2>1. \A k \in 1 .. m : c + k \in 1 .. c + m /\ ~(c + k <= c) /\ (c + k) - c = k
    BY <1>1, <1>2 DEF c
  <2> QED
    BY <1>17, <2>1
<1>20. \A k \in 1 .. Len(Admissions) : Admissions[k].type = "admitted" /\ Admissions[k].revision = revision + k
  <2> TAKE k \in 1 .. Len(Admissions)
  <2>0. c \in Nat /\ m \in Nat /\ k \in 1 .. c + m
    BY <1>1, <1>2, <1>17 DEF c
  <2>1. CASE k \in 1 .. c
    BY <1>13, <1>18, <2>1
  <2>2. CASE k \notin 1 .. c
    <3>1. k - c \in 1 .. m /\ c + (k - c) = k
      BY <2>0, <2>2
    <3> QED
      BY <1>14, <1>19, <3>1
  <2> QED
    BY <2>1, <2>2
<1>21. /\ Admitted \in Seq(Entry) /\ Len(Admitted) <= m
       /\ \A k \in 1 .. Len(Admitted) : Admitted[k].id = Fresh[k].id /\ Admitted[k].revision = revision + c + k
  <2> DEFINE n == m - (IF Throwing = {} THEN 0 ELSE 1)
  <2>1. n \in Nat /\ n <= m /\ \A k \in 1 .. n : k \in 1 .. Len(Fresh) /\ revision + c + k \in Nat
    BY <1>1, <1>2 DEF c
  <2>2. Admitted = [k \in 1 .. n |-> [id |-> Fresh[k].id, revision |-> revision + c + k]]
    BY DEF Admitted, m, c
  <2>3. \A k \in 1 .. n : [id |-> Fresh[k].id, revision |-> revision + c + k] \in Entry
    BY <1>2, <1>6, <2>1 DEF Entry
  <2> HIDE DEF n
  <2> QED
    BY <2>1, <2>2, <2>3
<1>22. \A k \in 1 .. c : Admissions[k].kind = "content" /\ Admissions[k].id = IdAt(ClearInOrder[k])
  BY <1>13, <1>18
<1>23. \A k \in 1 .. m : Admissions[c + k].kind = "rule" /\ Admissions[c + k].id = Fresh[k].id
  BY <1>14, <1>19
<1>24. c = Len(ClearInOrder) /\ m = Committed
  BY DEF c, m
<1> QED
  BY <1>16, <1>17, <1>20, <1>21, <1>22, <1>23, <1>24

\* The inductive invariant: what a boundary returned is told, too, and a rule's
\* revision is one of the log's.
ReturnedAreTold == \A k \in 1 .. Len(returned) : IsTold("content", StampOf[returned[k][1]])
TableIsNumbered == \A k \in 1 .. Len(table) : table[k].revision >= 1
SeamInv == SRInv /\ SeamTypeOK /\ LogExplainsState /\ ReturnedAreTold /\ TableIsNumbered

LEMMA SeamInvInit == SeamInit => SeamInv
<1> SUFFICES ASSUME SeamInit PROVE SeamInv
  OBVIOUS
<1>1. SRInv
  BY SRInvInit DEF SeamInit
<1>2. /\ events = <<>> /\ table = <<>> /\ returned = <<>> /\ rules = <<>> /\ revision = 0
      /\ memory = {} /\ Len(<<>>) = 0 /\ resident = Concepts /\ submitted = {} /\ drained = {} /\ handed = {}
  BY DEF SeamInit
<1>3. SeamTypeOK
  BY <1>1, <1>2 DEF SeamTypeOK, SRInv
<1>4. Told(events) = <<>>
  <2>1. <<>> \in Seq(SeamEvent) /\ \A k \in 1 .. Len(<<>>) : <<>>[k].type = "rejected"
    OBVIOUS
  <2> QED
    BY <1>2, <2>1, ToldAllOrNone
<1>5. LogExplainsState
  BY <1>2, <1>4 DEF LogExplainsState, AdmissionsTold, Told
<1>6. ReturnedAreTold /\ TableIsNumbered
  BY <1>2 DEF ReturnedAreTold, TableIsNumbered
<1> QED
  BY <1>1, <1>3, <1>5, <1>6 DEF SeamInv

\* What the log explains, it goes on explaining when refusals and admissions at
\* the next revisions are recorded and the table takes what was admitted to it.
LEMMA LogGoesOn ==
  ASSUME SeamInv, NEW a \in Seq(SeamEvent), NEW b \in Seq(SeamEvent), NEW t \in Seq(Entry),
         \A k \in 1 .. Len(a) : a[k].type = "rejected",
         \A k \in 1 .. Len(b) : b[k].type = "admitted" /\ b[k].revision = revision + k,
         \A k \in 1 .. Len(t) : \E j \in 1 .. Len(b) :
           b[j].kind = "rule" /\ b[j].id = t[k].id /\ t[k].revision = revision + j,
         events' = (events \o a) \o b, revision' = revision + Len(b), table' = table \o t,
         \A d \in memory' \ memory : IsTold("content", StampOf[d[1]])
  PROVE  /\ LogExplainsState' /\ TableIsNumbered'
         /\ events' \in Seq(SeamEvent) /\ revision' \in Nat /\ table' \in Seq(Entry)
         /\ \A kind, id : IsTold(kind, id) => IsTold(kind, id)'
         /\ \A kind, id : (\E k \in 1 .. Len(b) : b[k].kind = kind /\ b[k].id = id) => IsTold(kind, id)'
<1>1. /\ events \in Seq(SeamEvent) /\ revision \in Nat /\ table \in Seq(Entry)
      /\ LogExplainsState /\ TableIsNumbered
  BY DEF SeamInv, SeamTypeOK, Entry
<1>2. /\ events' \in Seq(SeamEvent)
      /\ AdmissionsTold \in Seq(SeamEvent) /\ AdmissionsTold' = AdmissionsTold \o b
      /\ \A kind, id : IsTold(kind, id) => IsTold(kind, id)'
      /\ \A kind, id : (\E k \in 1 .. Len(b) : b[k].kind = kind /\ b[k].id = id) => IsTold(kind, id)'
  BY <1>1, AdmissionsAreTold
<1> DEFINE told == AdmissionsTold
<1>3. /\ revision = Len(told) /\ \A k \in 1 .. revision : told[k].revision = k
      /\ \A k \in 1 .. Len(table) : /\ table[k].revision <= revision
                                    /\ told[table[k].revision].kind = "rule"
                                    /\ told[table[k].revision].id = table[k].id
      /\ \A d \in memory : IsTold("content", StampOf[d[1]])
      /\ \A k \in 1 .. Len(table) : table[k].revision >= 1
  BY <1>1 DEF LogExplainsState, TableIsNumbered
<1> HIDE DEF told
<1> DEFINE tb == told \o b
<1>4. /\ Len(tb) = revision + Len(b) /\ Len(b) \in Nat
      /\ \A k \in 1 .. revision + Len(b) : tb[k] = IF k <= revision THEN told[k] ELSE b[k - revision]
  BY <1>2, <1>3, ConcatProperties DEF told
<1>5. AdmissionsTold' = tb
  BY <1>2 DEF told
<1> HIDE DEF tb
<1>6. /\ table' \in Seq(Entry) /\ Len(table') = Len(table) + Len(t) /\ Len(table) \in Nat /\ Len(t) \in Nat
      /\ \A k \in 1 .. Len(table) + Len(t) : table'[k] = IF k <= Len(table) THEN table[k] ELSE t[k - Len(table)]
  BY <1>1, ConcatProperties
<1>7. \A k \in 1 .. revision' : tb[k].revision = k
  <2> TAKE k \in 1 .. revision'
  <2>1. CASE k <= revision
    BY <1>1, <1>3, <1>4, <2>1
  <2>2. CASE ~(k <= revision)
    <3>1. k - revision \in 1 .. Len(b) /\ revision + (k - revision) = k /\ k \in 1 .. revision + Len(b)
      BY <1>1, <1>4, <2>2
    <3> QED
      BY <1>4, <2>2, <3>1
  <2> QED
    BY <2>1, <2>2
<1>8. \A k \in 1 .. Len(table') : /\ table'[k].revision >= 1 /\ table'[k].revision <= revision'
                                  /\ tb[table'[k].revision].kind = "rule"
                                  /\ tb[table'[k].revision].id = table'[k].id
  <2> TAKE k \in 1 .. Len(table')
  <2>1. CASE k <= Len(table)
    <3>1. k \in 1 .. Len(table) /\ table'[k] = table[k]
      BY <1>6, <2>1
    <3>2. table[k].revision \in Nat
      <4>1. table[k] \in Entry
        BY <1>1, <3>1, ElementOfSeq
      <4> QED
        BY <4>1 DEF Entry
    <3>3. table[k].revision \in 1 .. revision /\ table[k].revision \in 1 .. revision + Len(b)
      BY <1>1, <1>3, <1>4, <3>1, <3>2
    <3>4. tb[table[k].revision] = told[table[k].revision]
      BY <1>4, <3>3
    <3> QED
      BY <1>1, <1>3, <1>4, <3>1, <3>3, <3>4
  <2>2. CASE ~(k <= Len(table))
    <3>1. k - Len(table) \in 1 .. Len(t) /\ table'[k] = t[k - Len(table)]
      BY <1>6, <2>2
    <3>2. PICK j \in 1 .. Len(b) : /\ b[j].kind = "rule" /\ b[j].id = table'[k].id
                                   /\ table'[k].revision = revision + j
      <4> DEFINE i == k - Len(table)
      <4>1. i \in 1 .. Len(t) /\ table'[k] = t[i]
        BY <3>1
      <4> HIDE DEF i
      <4>2. \E j \in 1 .. Len(b) : b[j].kind = "rule" /\ b[j].id = t[i].id /\ t[i].revision = revision + j
        BY <4>1
      <4> QED
        BY <4>1, <4>2
    <3>3. revision + j \in 1 .. revision + Len(b) /\ ~(revision + j <= revision) /\ (revision + j) - revision = j
      BY <1>1, <1>4
    <3>4. tb[revision + j] = b[j]
      BY <1>4, <3>3
    <3> QED
      BY <1>1, <3>2, <3>3, <3>4
  <2> QED
    BY <2>1, <2>2
<1>9. \A d \in memory' : IsTold("content", StampOf[d[1]])'
  BY <1>2, <1>3
<1>10. LogExplainsState'
  BY <1>1, <1>4, <1>5, <1>7, <1>8, <1>9 DEF LogExplainsState
<1>11. TableIsNumbered'
  BY <1>8 DEF TableIsNumbered
<1>12. revision' \in Nat
  BY <1>1, <1>4
<1> QED
  BY <1>2, <1>6, <1>10, <1>11, <1>12, Zenon

\* A rule is queued, or refused and the log says so.
LEMMA SubmitRuleKeeps ==
  ASSUME SeamInv, NEW p \in Proposals, NEW base \in 0 .. revision, SubmitRule(p, base)
  PROVE  SeamInv'
<1>1. /\ SRInv /\ SeamTypeOK /\ LogExplainsState /\ ReturnedAreTold /\ TableIsNumbered
      /\ revision \in Nat /\ rules \in Seq(Submission) /\ events \in Seq(SeamEvent)
      /\ table \in Seq(Entry)
  BY DEF SeamInv, SeamTypeOK, Submission, Entry
<1>2. /\ UNCHANGED <<srVars, resident, revision, table, returned, memory, drained, handed>>
      /\ submitted' = submitted \cup {p}
  BY DEF SubmitRule
<1>3. SRInv' /\ SRTypeOK'
  BY <1>1, <1>2, SRInvUntouched DEF SRInv
<1>4. CASE Len(rules) >= MaxRules
  <2>1. rules' = rules /\ events' = Append(events, Rejection(p, "queue-overflow"))
    BY <1>4 DEF SubmitRule
  <2> DEFINE r == Rejection(p, "queue-overflow")
  <2>2. r \in SeamEvent /\ r.type = "rejected"
    BY <1>1 DEF Rejection, SeamEvent
  <2> HIDE DEF r
  <2>3. /\ <<r>> \in Seq(SeamEvent) /\ \A k \in 1 .. Len(<<r>>) : <<r>>[k].type = "rejected"
        /\ <<>> \in Seq(SeamEvent) /\ Len(<<>>) = 0 /\ <<>> \in Seq(Entry)
    BY <2>2
  <2>4. events' = (events \o <<r>>) \o <<>> /\ table' = table \o <<>> /\ revision' = revision + Len(<<>>)
    <3>1. events' = Append(events, r)
      BY <2>1 DEF r
    <3>2. Append(events, r) = events \o <<r>> /\ events \o <<r>> \in Seq(SeamEvent)
      BY <1>1, <2>2, <2>3, AppendIsConcat, ConcatProperties
    <3>3. (events \o <<r>>) \o <<>> = events \o <<r>> /\ table \o <<>> = table
      BY <1>1, <3>2, ConcatEmptySeq
    <3> QED
      BY <1>1, <1>2, <2>3, <3>1, <3>2, <3>3
  <2>5. /\ LogExplainsState' /\ TableIsNumbered' /\ events' \in Seq(SeamEvent)
        /\ \A kind, id : IsTold(kind, id) => IsTold(kind, id)'
    <3>1. \A d \in memory' \ memory : IsTold("content", StampOf[d[1]])
      BY <1>2
    <3>2. \A k \in 1 .. Len(<<>>) :
            /\ <<>>[k].type = "admitted" /\ <<>>[k].revision = revision + k
            /\ \E j \in 1 .. Len(<<>>) : <<>>[j].kind = "rule" /\ <<>>[j].id = <<>>[k].id
                                        /\ <<>>[k].revision = revision + j
      OBVIOUS
    <3> QED
      BY <2>3, <2>4, <3>1, <3>2, LogGoesOn
  <2>6. ReturnedAreTold'
    BY <1>1, <1>2, <2>5 DEF ReturnedAreTold
  <2>7. SeamTypeOK'
    BY <1>1, <1>2, <1>3, <2>1, <2>5 DEF SeamTypeOK
  <2> QED
    BY <1>3, <2>5, <2>6, <2>7 DEF SeamInv
<1>5. CASE ~(Len(rules) >= MaxRules)
  <2>1. rules' = Append(rules, [id |-> p, base |-> base]) /\ events' = events
    BY <1>5 DEF SubmitRule
  <2>2. rules' \in Seq([id : Proposals, base : Nat])
    <3>1. [id |-> p, base |-> base] \in Submission
      BY <1>1 DEF Submission
    <3> QED
      BY <1>1, <2>1, <3>1, AppendProperties DEF Submission
  <2>3. SeamTypeOK'
    BY <1>1, <1>2, <1>3, <2>1, <2>2 DEF SeamTypeOK
  <2>4. LogExplainsState' /\ ReturnedAreTold' /\ TableIsNumbered'
    BY <1>1, <1>2, <2>1 DEF LogExplainsState, AdmissionsTold, IsTold, ReturnedAreTold, TableIsNumbered
  <2> QED
    BY <1>3, <2>3, <2>4 DEF SeamInv
<1> QED
  BY <1>4, <1>5

\* A boundary: each thing it returns landed under a proposal it admits.
LEMMA TakeKeeps == SeamInv /\ Take => SeamInv'
<1> SUFFICES ASSUME SeamInv, Take PROVE SeamInv'
  OBVIOUS
<1>1. /\ SRInv /\ SeamTypeOK /\ LogExplainsState /\ ReturnedAreTold /\ TableIsNumbered
      /\ derived \in Seq(Derivations) /\ DOMAIN StampOf = Works
  BY SeamAssumption DEF SeamAssumption, SeamInv, SeamTypeOK, SRTypeOK
<1>2. /\ Drain /\ rules' = <<>> /\ events' = (events \o Refusals) \o Admissions
      /\ drained' = drained \cup {derived[i] : i \in 1 .. Len(derived)}
      /\ revision' = revision + Len(Admissions) /\ table' = table \o Admitted
      /\ returned' = IF Throwing = {}
                     THEN [k \in 1 .. Len(ClearInOrder) |-> Landed(IdAt(ClearInOrder[k]))] ELSE <<>>
      /\ handed' = handed \cup {returned'[k] : k \in 1 .. Len(returned')}
      /\ UNCHANGED <<resident, memory, submitted>>
  BY DEF Take
<1>3. SRInv' /\ SRTypeOK'
  BY <1>1, <1>2, DrainKeeps DEF SRInv
<1>4. /\ Refusals \in Seq(SeamEvent) /\ \A k \in 1 .. Len(Refusals) : Refusals[k].type = "rejected"
      /\ Admissions \in Seq(SeamEvent) /\ Len(Admissions) = Len(ClearInOrder) + Committed
      /\ \A k \in 1 .. Len(Admissions) :
           Admissions[k].type = "admitted" /\ Admissions[k].revision = revision + k
      /\ \A k \in 1 .. Len(ClearInOrder) :
           Admissions[k].kind = "content" /\ Admissions[k].id = IdAt(ClearInOrder[k])
      /\ \A k \in 1 .. Committed : /\ Admissions[Len(ClearInOrder) + k].kind = "rule"
                                   /\ Admissions[Len(ClearInOrder) + k].id = Fresh[k].id
      /\ Admitted \in Seq(Entry) /\ Len(Admitted) <= Committed
      /\ \A k \in 1 .. Len(Admitted) :
           Admitted[k].id = Fresh[k].id /\ Admitted[k].revision = revision + Len(ClearInOrder) + k
  BY <1>1, BoundaryRecords
<1>5. /\ ClearInOrder \in Seq(Positioned) /\ Len(ClearInOrder) \in Nat
      /\ \A k \in 1 .. Len(ClearInOrder) : ClearInOrder[k] \in Positioned
      /\ Committed \in Nat /\ Len(Admitted) \in Nat /\ revision \in Nat
      /\ \A i \in Positioned : \E j \in Positioned : Landed(IdAt(i)) = derived[j] /\ IdAt(j) = IdAt(i)
  <2>1. ClearInOrder \in Seq(Positioned) /\ Committed \in Nat
        /\ \A i \in Positioned : \E j \in Positioned : Landed(IdAt(i)) = derived[j] /\ IdAt(j) = IdAt(i)
    BY <1>1, BoundaryFinds
  <2> QED
    BY <1>1, <1>4, <2>1, ElementOfSeq, LenProperties DEF SeamTypeOK
<1>6. /\ LogExplainsState' /\ TableIsNumbered'
      /\ events' \in Seq(SeamEvent) /\ revision' \in Nat /\ table' \in Seq(Entry)
      /\ \A kind, id : (\E k \in 1 .. Len(Admissions) : Admissions[k].kind = kind /\ Admissions[k].id = id)
                       => IsTold(kind, id)'
  <2>1. \A d \in memory' \ memory : IsTold("content", StampOf[d[1]])
    BY <1>2
  <2>2. ASSUME NEW k \in 1 .. Len(Admitted)
        PROVE  \E j \in 1 .. Len(Admissions) :
                 /\ Admissions[j].kind = "rule" /\ Admissions[j].id = Admitted[k].id
                 /\ Admitted[k].revision = revision + j
    <3> DEFINE j == Len(ClearInOrder) + k
    <3>1. k \in 1 .. Committed /\ j \in 1 .. Len(Admissions)
          /\ revision + Len(ClearInOrder) + k = revision + j
      BY <1>4, <1>5
    <3> QED
      BY <1>4, <3>1
  <2> QED
    BY <1>2, <1>4, <2>1, <2>2, LogGoesOn
<1>7. /\ returned' \in Seq(Derivations)
      /\ \A k \in 1 .. Len(returned') : /\ returned'[k] \in {derived[i] : i \in 1 .. Len(derived)}
                                        /\ \A id : StampOf[returned'[k][1]] = id => IsTold("content", id)'
  <2>1. CASE Throwing # {}
    <3>1. returned' = <<>> /\ Len(<<>>) = 0
      BY <1>2, <2>1
    <3> QED
      BY <3>1
  <2>2. CASE Throwing = {}
    <3> DEFINE n == Len(ClearInOrder)
    <3>1. returned' = [k \in 1 .. n |-> Landed(IdAt(ClearInOrder[k]))]
      BY <1>2, <2>2
    <3>2. ASSUME NEW k \in 1 .. n
          PROVE  /\ Landed(IdAt(ClearInOrder[k])) \in {derived[i] : i \in 1 .. Len(derived)}
                 /\ Landed(IdAt(ClearInOrder[k])) \in Derivations
                 /\ \A id : StampOf[Landed(IdAt(ClearInOrder[k]))[1]] = id => IsTold("content", id)'
      <4>1. PICK j \in Positioned : /\ Landed(IdAt(ClearInOrder[k])) = derived[j]
                                    /\ IdAt(j) = IdAt(ClearInOrder[k])
        BY <1>5
      <4>2. k \in 1 .. Len(Admissions) /\ Admissions[k].kind = "content" /\ Admissions[k].id = IdAt(j)
        BY <1>4, <1>5, <4>1
      <4>3. \A id : Admissions[k].id = id => IsTold("content", id)'
        BY <1>6, <4>2
      <4>4. StampOf[derived[j][1]] = Admissions[k].id
        BY <4>2 DEF IdAt
      <4>5. derived[j] \in Derivations /\ derived[j] \in {derived[i] : i \in 1 .. Len(derived)}
        BY <1>1, ElementOfSeq DEF Positioned
      <4> QED
        BY <4>1, <4>2, <4>3, <4>4, <4>5
    <3>3. n \in Nat /\ returned' \in Seq(Derivations) /\ Len(returned') = n
      <4>1. n \in Nat
        BY <1>5
      <4> HIDE DEF n
      <4> QED
        BY <3>1, <3>2, <4>1
    <3> HIDE DEF n
    <3> QED
      BY <3>1, <3>2, <3>3
  <2> QED
    BY <2>1, <2>2
<1>8. ReturnedAreTold'
  BY <1>7 DEF ReturnedAreTold, IsTold
<1>9. SeamTypeOK'
  <2>1. \A i \in 1 .. Len(derived) : derived[i] \in Derivations
    BY <1>1, ElementOfSeq
  <2>2. drained \subseteq Derivations /\ handed \subseteq drained
    BY <1>1 DEF SeamTypeOK
  <2>3. drained' \subseteq Derivations
    BY <1>2, <2>1, <2>2
  <2>4. handed' \subseteq drained'
    <3>1. drained \subseteq drained' /\ {derived[i] : i \in 1 .. Len(derived)} \subseteq drained'
      BY <1>2, Zenon
    <3>2. {returned'[k] : k \in 1 .. Len(returned')} \subseteq {derived[i] : i \in 1 .. Len(derived)}
      BY <1>7
    <3>3. handed' = handed \cup {returned'[k] : k \in 1 .. Len(returned')}
      BY <1>2
    <3> QED
      BY <2>2, <3>1, <3>2, <3>3
  <2>5. rules' \in Seq([id : Proposals, base : Nat])
    BY <1>2
  <2>6. resident' \subseteq Concepts /\ memory' \subseteq Derivations /\ submitted' \subseteq Proposals
    BY <1>1, <1>2 DEF SeamTypeOK
  <2>7. table' \in Seq([id : Proposals, revision : Nat])
    BY <1>6 DEF Entry
  <2>8. returned' \in Seq(Derivations)
    BY <1>7
  <2> QED
    BY <1>3, <1>6, <2>3, <2>4, <2>5, <2>6, <2>7, <2>8 DEF SeamTypeOK
<1> QED
  BY <1>3, <1>6, <1>8, <1>9 DEF SeamInv

\* What memory takes in was returned, so that it is told.
LEMMA ApplyKeeps ==
  ASSUME SeamInv, NEW n \in 0 .. Len(returned), Apply(n)
  PROVE  SeamInv'
<1>1. /\ SRInv /\ SeamTypeOK /\ LogExplainsState /\ ReturnedAreTold /\ TableIsNumbered
      /\ returned \in Seq(Derivations) /\ Len(returned) \in Nat
  BY DEF SeamInv, SeamTypeOK
<1>2. /\ memory' = memory \cup {returned[i] : i \in 1 .. n} /\ returned' = <<>>
      /\ UNCHANGED <<srVars, resident, rules, revision, events, table, submitted, drained, handed>>
  BY DEF Apply
<1>3. SRInv' /\ SRTypeOK'
  BY <1>1, <1>2, SRInvUntouched DEF SRInv
<1>4. \A i \in 1 .. n : /\ i \in 1 .. Len(returned) /\ returned[i] \in Derivations
                        /\ IsTold("content", StampOf[returned[i][1]])
  BY <1>1, ElementOfSeq DEF ReturnedAreTold
<1>5. SeamTypeOK'
  BY <1>1, <1>2, <1>3, <1>4 DEF SeamTypeOK
<1>6. \A d \in memory' : IsTold("content", StampOf[d[1]])
  BY <1>1, <1>2, <1>4 DEF LogExplainsState
<1>7. LogExplainsState'
  BY <1>1, <1>2, <1>6 DEF LogExplainsState, AdmissionsTold, IsTold
<1>8. ReturnedAreTold' /\ TableIsNumbered'
  <2>1. Len(<<>>) = 0
    OBVIOUS
  <2> QED
    BY <1>1, <1>2, <2>1 DEF ReturnedAreTold, TableIsNumbered
<1> QED
  BY <1>3, <1>5, <1>7, <1>8 DEF SeamInv

LEMMA SeamInvAlways == SeamSpec => []SeamInv
<1>1. SeamInv /\ [SeamNext]_seamVars => SeamInv'
  <2> SUFFICES ASSUME SeamInv, [SeamNext]_seamVars PROVE SeamInv'
    OBVIOUS
  <2>1. /\ SRInv /\ SeamTypeOK /\ LogExplainsState /\ ReturnedAreTold /\ TableIsNumbered
    BY DEF SeamInv
  <2>2. ASSUME SRInv', resident' \subseteq Concepts, UNCHANGED lifecycleVars PROVE SeamInv'
    <3>1. SeamTypeOK'
      BY <2>1, <2>2 DEF SeamTypeOK, SRInv, lifecycleVars
    <3>2. LogExplainsState' /\ ReturnedAreTold' /\ TableIsNumbered'
      BY <2>1, <2>2 DEF lifecycleVars, LogExplainsState, AdmissionsTold, IsTold, ReturnedAreTold, TableIsNumbered
    <3> QED
      BY <2>2, <3>1, <3>2 DEF SeamInv
  <2>3. resident \subseteq Concepts
    BY <2>1 DEF SeamTypeOK
  <2>4. CASE SRStep /\ UNCHANGED <<resident, lifecycleVars>>
    BY <2>1, <2>2, <2>3, <2>4, SRStepKeeps
  <2>5. CASE \E p \in Proposals, base \in 0 .. revision : SubmitRule(p, base)
    BY <2>5, SubmitRuleKeeps
  <2>6. CASE Take
    BY <2>6, TakeKeeps
  <2>7. CASE \E n \in 0 .. Len(returned) : Apply(n)
    BY <2>7, ApplyKeeps
  <2>8. CASE \E c \in Concepts : Turnover(c)
    <3>1. resident' \subseteq Concepts /\ UNCHANGED <<srVars, lifecycleVars>>
      BY <2>3, <2>8 DEF Turnover
    <3> QED
      BY <2>1, <2>2, <3>1, SRInvUntouched
  <2>9. CASE UNCHANGED seamVars
    <3>1. UNCHANGED <<srVars, resident, lifecycleVars>>
      BY <2>9 DEF seamVars
    <3> QED
      BY <2>1, <2>2, <2>3, <3>1, SRInvUntouched
  <2> QED
    BY <2>4, <2>5, <2>6, <2>7, <2>8, <2>9 DEF SeamNext
<1> QED
  BY <1>1, SeamInvInit, PTL DEF SeamSpec

\* The log is the source of truth: its k-th admission states revision k, the
\* lifecycle stands at the last of them, and the table and memory hold nothing
\* that the log did not admit, the table at the revisions the log states.
THEOREM LogIsTheTruth == SeamSpec => []LogExplainsState
BY SeamInvAlways, PTL DEF SeamInv

\* The queues, the log and the table keep their shape.
THEOREM SeamKeepsItsShape == SeamSpec => []SeamTypeOK
BY SeamInvAlways, PTL DEF SeamInv
=============================================================================

----------------------------- MODULE WaitProofs -----------------------------
(***************************************************************************)
(* Who waits for what: the callers of an approval (Approval), the jobs of  *)
(* a lane (SerialLanes) and the consumers of the event log (EventLog), for *)
(* any requests, keys, jobs, consumers, event types and limit of the log.  *)
(***************************************************************************)
EXTENDS Approval, SerialLanes, EventLog, SequenceLemmas

-----------------------------------------------------------------------------
(* Approval.                                                                 *)

\* Who is where: an answered caller has an answer, a verdict is that of a caller
\* that returned, and nobody waits when headless.
CallersAgree ==
  \A r \in Requests :
    /\ caller[r] = "answered" => promise[r] # "open"
    /\ verdict[r] = "granted" => caller[r] = "returned"
    /\ caller[r] \in {"awaiting", "answered", "expired"} => ~headless

\* The inductive invariant.
ApprovalInv == TypeOK /\ PendingIsAwaited /\ GrantedByAnAnswer /\ CallersAgree

LEMMA ApprovalInvInit == Init => ApprovalInv
BY DEF Init, ApprovalInv, TypeOK, PendingIsAwaited, GrantedByAnAnswer, CallersAgree, Answers

\* Each call and each continuation keeps the invariant.
LEMMA ApprovalInvStep == ApprovalInv /\ [Next]_approvalVars => ApprovalInv'
<1> SUFFICES ASSUME ApprovalInv, [Next]_approvalVars
             PROVE  ApprovalInv'
  OBVIOUS
<1> USE DEF ApprovalInv, TypeOK, PendingIsAwaited, GrantedByAnAnswer, CallersAgree, Answers
<1>1. ASSUME NEW r \in Requests, Ask(r)
      PROVE  ApprovalInv'
  BY <1>1 DEF Ask
<1>2. ASSUME NEW r \in Requests, Expire(r)
      PROVE  ApprovalInv'
  BY <1>2 DEF Expire
<1>3. ASSUME NEW r \in Requests, Resume(r)
      PROVE  ApprovalInv'
  BY <1>3 DEF Resume, Return
<1>4. ASSUME NEW r \in Requests, GiveUp(r)
      PROVE  ApprovalInv'
  BY <1>4 DEF GiveUp, Return
<1>5. ASSUME NEW r \in Requests, NEW answer \in Answers, Answer(r, answer)
      PROVE  ApprovalInv'
  BY <1>5 DEF Answer
<1>6. ASSUME NEW r \in Requests, NEW first \in Answers, AskHeadless(r, first)
      PROVE  ApprovalInv'
  BY <1>6 DEF AskHeadless
<1>7. CASE UNCHANGED approvalVars
  BY <1>7 DEF approvalVars
<1>. QED
  BY <1>1, <1>2, <1>3, <1>4, <1>5, <1>6, <1>7 DEF Next

LEMMA ApprovalInvAlways == Spec => []ApprovalInv
BY ApprovalInvInit, ApprovalInvStep, PTL DEF Spec

\* No request is left in the pending map by a timeout, and none is taken out
\* while its promise is open, whoever answers when.
THEOREM PendingMapIsExact == Spec => []PendingIsAwaited
<1>1. ApprovalInv => PendingIsAwaited
  BY DEF ApprovalInv
<1>. QED
  BY <1>1, ApprovalInvAlways, PTL

\* No timeout, late answer or headless run makes a caller believe it was granted
\* what nobody granted.
THEOREM GatesOpenOnAnswers == Spec => []GrantedByAnAnswer
<1>1. ApprovalInv => GrantedByAnAnswer
  BY DEF ApprovalInv
<1>. QED
  BY <1>1, ApprovalInvAlways, PTL

-----------------------------------------------------------------------------
(* SerialLanes: the promise chains implement the abstract lanes.             *)

\* A job is in its lane's line exactly while it is queued, and once.
LineIsQueued ==
  /\ \A k \in Keys : \A i \in 1..Len(line[k]) :
       status[line[k][i]] = "queued" /\ LaneOf[line[k][i]] = k
  /\ \A k \in Keys : \A i, h \in 1..Len(line[k]) : line[k][i] = line[k][h] => i = h
  /\ \A j \in Jobs : status[j] = "queued" =>
       \E i \in 1..Len(line[LaneOf[j]]) : line[LaneOf[j]][i] = j

\* Everyone in a line but the first is chained behind the one before, and the
\* map remembers the last.
LineIsChained ==
  \A k \in Keys :
    /\ \A i \in 1..Len(line[k]) : i > 1 => behind[line[k][i]] = line[k][i - 1]
    /\ line[k] # <<>> => tails[k] = line[k][Len(line[k])]

\* Whoever runs is what the first in line is chained behind, or what the next
\* one to come will be.
RunnerIsAwaited ==
  \A j \in Jobs : status[j] = "running" =>
    /\ line[LaneOf[j]] = <<>> => tails[LaneOf[j]] = j
    /\ line[LaneOf[j]] # <<>> => behind[line[LaneOf[j]][1]] = j

LanesInv == LanesTypeOK /\ LineIsQueued /\ LineIsChained /\ RunnerIsAwaited

\* Sequences as the steps below use them.
LEMMA AppendFacts ==
  ASSUME NEW s \in Seq(Jobs), NEW j \in Jobs
  PROVE  /\ Append(s, j) \in Seq(Jobs) /\ Len(Append(s, j)) = Len(s) + 1
         /\ Len(s) \in Nat /\ Append(s, j) # <<>>
         /\ \A i \in 1..Len(s) : Append(s, j)[i] = s[i]
         /\ Append(s, j)[Len(s) + 1] = j
         /\ s = <<>> => Len(s) = 0
OBVIOUS

LEMMA TailFacts ==
  ASSUME NEW s \in Seq(Jobs), s # <<>>
  PROVE  /\ Tail(s) \in Seq(Jobs) /\ Len(Tail(s)) = Len(s) - 1 /\ Len(s) \in Nat \ {0}
         /\ \A i \in 1..Len(s) - 1 : Tail(s)[i] = s[i + 1]
         /\ Head(s) = s[1]
         /\ Tail(s) = <<>> => Len(s) = 1
         /\ Tail(s) # <<>> => Len(s) > 1
<1>1. Tail(s) \in Seq(Jobs) /\ Len(Tail(s)) = Len(s) - 1
      /\ \A i \in 1..Len(Tail(s)) : Tail(s)[i] = s[i + 1]
  BY HeadTailProperties
<1>2. Len(s) \in Nat \ {0} /\ Head(s) = s[1]
  BY EmptySeq
<1>3. Tail(s) = <<>> <=> Len(Tail(s)) = 0
  BY <1>1, EmptySeq
<1>4. QED
  BY <1>1, <1>2, <1>3

\* A job may begin only when it is the first of its line and nobody runs in
\* its lane.
LEMMA BeginIsNext ==
  ASSUME LanesInv, NEW j \in Jobs, Begin(j)
  PROVE  /\ line[LaneOf[j]] # <<>> /\ line[LaneOf[j]][1] = j
         /\ \A r \in Jobs : LaneOf[r] = LaneOf[j] => status[r] # "running"
<1> DEFINE s == line[LaneOf[j]]
<1>1. s \in Seq(Jobs) /\ LaneOf[j] \in Keys /\ Len(s) \in Nat
  BY LaneAssumption DEF LaneAssumption, LanesInv, LanesTypeOK
<1>2. PICK i \in 1..Len(s) : s[i] = j
  BY DEF LanesInv, LineIsQueued, Begin
<1>3. i = 1
  <2>1. SUFFICES ASSUME i > 1 PROVE FALSE
    BY <1>1, <1>2
  <2>2. behind[j] = s[i - 1] /\ i - 1 \in 1..Len(s)
    BY <1>1, <1>2, <2>1 DEF LanesInv, LineIsChained
  <2>3. s[i - 1] \in Jobs /\ status[s[i - 1]] = "queued"
    BY <1>1, <2>2 DEF LanesInv, LineIsQueued
  <2>4. QED
    BY <2>2, <2>3, LaneAssumption DEF LaneAssumption, Begin, Passed
<1>4. s # <<>>
  BY <1>1, <1>2
<1>5. ASSUME NEW r \in Jobs, LaneOf[r] = LaneOf[j], status[r] = "running" PROVE FALSE
  <2>1. behind[j] = r
    BY <1>2, <1>3, <1>4, <1>5 DEF LanesInv, RunnerIsAwaited
  <2>2. QED
    BY <1>5, <2>1, LaneAssumption DEF LaneAssumption, Begin, Passed
<1>6. QED
  BY <1>2, <1>3, <1>4, <1>5

-----------------------------------------------------------------------------

\* Every action keeps the invariant: run...
LEMMA RunKeeps ==
  ASSUME LanesInv, NEW j \in Jobs, RunJob(j)
  PROVE  LanesInv'
<1> DEFINE k == LaneOf[j]  s == line[k]
<1>1. k \in Keys /\ s \in Seq(Jobs) /\ status[j] = "new" /\ Len(s) \in Nat
  <2>1. k \in Keys /\ line \in [Keys -> Seq(Jobs)]
    BY LaneAssumption DEF LaneAssumption, LanesInv, LanesTypeOK
  <2>2. s \in Seq(Jobs)
    BY <2>1
  <2>3. QED
    BY <2>1, <2>2 DEF RunJob
<1>2. /\ line' = [line EXCEPT ![k] = Append(s, j)] /\ tails' = [tails EXCEPT ![k] = j]
      /\ behind' = [behind EXCEPT ![j] = tails[k]] /\ status' = [status EXCEPT ![j] = "queued"]
  BY DEF RunJob
<1>3. LanesTypeOK'
  <2>1. Append(s, j) \in Seq(Jobs) /\ tails[k] \in Jobs \cup {NoJob} /\ "queued" \in Stages
    BY <1>1, AppendFacts DEF LanesInv, LanesTypeOK, Stages
  <2> HIDE DEF k, s
  <2>2. QED
    BY <1>1, <1>2, <2>1 DEF LanesInv, LanesTypeOK
<1>4. \A q \in Keys : \A i \in 1..Len(line[q]) : line[q][i] \in Jobs /\ line[q][i] # j
  BY <1>1 DEF LanesInv, LanesTypeOK, LineIsQueued
<1>5. line'[k] = Append(s, j) /\ \A q \in Keys \ {k} : line'[q] = line[q]
  BY <1>1, <1>2 DEF LanesInv, LanesTypeOK
<1>6. status'[j] = "queued" /\ \A i \in Jobs \ {j} : status'[i] = status[i] /\ behind'[i] = behind[i]
  BY <1>2 DEF LanesInv, LanesTypeOK
<1>7. behind'[j] = tails[k] /\ tails'[k] = j /\ \A q \in Keys \ {k} : tails'[q] = tails[q]
  BY <1>1, <1>2 DEF LanesInv, LanesTypeOK
<1> HIDE DEF k, s
<1>a. ASSUME NEW i \in 1..Len(line'[k])
      PROVE  \/ i \in 1..Len(s) /\ line'[k][i] = s[i]
             \/ i = Len(s) + 1 /\ line'[k][i] = j
  BY <1>1, <1>5, AppendFacts
<1>b. LaneOf[j] = k /\ s = line[k]
  BY DEF k, s
<1>8. LineIsQueued'
  <2>1. ASSUME NEW q \in Keys, NEW i \in 1..Len(line'[q])
        PROVE  status'[line'[q][i]] = "queued" /\ LaneOf[line'[q][i]] = q
    <3>1. CASE q = k
      <4>1. CASE i \in 1..Len(s) /\ line'[k][i] = s[i]
        <5>1. s[i] \in Jobs \ {j} /\ status[s[i]] = "queued" /\ LaneOf[s[i]] = k
          BY <1>1, <1>4, <1>b, <4>1 DEF LanesInv, LineIsQueued
        <5> QED
          BY <1>6, <3>1, <4>1, <5>1
      <4>2. CASE line'[k][i] = j
        BY <1>6, <1>b, <3>1, <4>2
      <4> QED
        BY <1>a, <2>1, <3>1, <4>1, <4>2
    <3>2. CASE q # k
      BY <1>4, <1>5, <1>6, <2>1, <3>2 DEF LanesInv, LineIsQueued
    <3>3. QED
      BY <3>1, <3>2
  <2>2. ASSUME NEW q \in Keys, NEW i \in 1..Len(line'[q]), NEW h \in 1..Len(line'[q]),
               line'[q][i] = line'[q][h]
        PROVE  i = h
    <3>1. CASE q = k
      <4>1. \A x \in 1..Len(s) : s[x] # j
        BY <1>1, <1>4, <1>b
      <4>2. \A x, y \in 1..Len(s) : s[x] = s[y] => x = y
        BY <1>1, <1>b DEF LanesInv, LineIsQueued
      <4>3. QED
        BY <1>a, <2>2, <3>1, <4>1, <4>2
    <3>2. CASE q # k
      BY <1>5, <2>2, <3>2 DEF LanesInv, LineIsQueued
    <3>3. QED
      BY <3>1, <3>2
  <2>3. ASSUME NEW i \in Jobs, status'[i] = "queued"
        PROVE  \E h \in 1..Len(line'[LaneOf[i]]) : line'[LaneOf[i]][h] = i
    <3>1. CASE i = j
      <4>1. Len(s) + 1 \in 1..Len(line'[k]) /\ line'[k][Len(s) + 1] = j
        BY <1>1, <1>5, AppendFacts
      <4>2. QED
        BY <3>1, <4>1 DEF k
    <3>2. CASE i # j
      <4>1. PICK h \in 1..Len(line[LaneOf[i]]) : line[LaneOf[i]][h] = i
        BY <1>6, <2>3, <3>2 DEF LanesInv, LineIsQueued
      <4>2. LaneOf[i] \in Keys
        BY LaneAssumption DEF LaneAssumption
      <4>3. h \in 1..Len(line'[LaneOf[i]]) /\ line'[LaneOf[i]][h] = i
        BY <1>1, <1>5, <4>1, <4>2, AppendFacts DEF s
      <4>4. QED
        BY <4>3
    <3>3. QED
      BY <3>1, <3>2
  <2>4. QED
    BY <2>1, <2>2, <2>3 DEF LineIsQueued
<1>9. LineIsChained'
  <2>1. ASSUME NEW q \in Keys, NEW i \in 1..Len(line'[q]), i > 1
        PROVE  behind'[line'[q][i]] = line'[q][i - 1]
    <3>1. CASE q = k
      <4>1. CASE i = Len(s) + 1
        <5>1. s # <<>> /\ tails[k] = s[Len(s)]
          BY <1>1, <2>1, <4>1 DEF LanesInv, LineIsChained, s
        <5>2. line'[k][i] = j /\ line'[k][i - 1] = s[Len(s)]
          BY <1>1, <1>5, <2>1, <4>1, AppendFacts
        <5>3. QED
          BY <1>7, <3>1, <5>1, <5>2
      <4>2. CASE i # Len(s) + 1
        <5>1. i \in 1..Len(s) /\ i - 1 \in 1..Len(s)
          BY <1>1, <1>5, <2>1, <3>1, <4>2, AppendFacts
        <5>2. line'[k][i] = s[i] /\ line'[k][i - 1] = s[i - 1] /\ s[i] \in Jobs \ {j}
          BY <1>1, <1>4, <1>5, <5>1, AppendFacts DEF s
        <5>3. behind[s[i]] = s[i - 1]
          BY <1>1, <2>1, <5>1 DEF LanesInv, LineIsChained, s
        <5>4. QED
          BY <1>6, <3>1, <5>2, <5>3
      <4>3. QED
        BY <4>1, <4>2
    <3>2. CASE q # k
      <4>1. line'[q] = line[q]
        BY <1>5, <3>2
      <4>2. line[q][i] \in Jobs \ {j} /\ behind[line[q][i]] = line[q][i - 1]
        BY <1>4, <2>1, <4>1 DEF LanesInv, LineIsChained
      <4>3. QED
        BY <1>6, <4>1, <4>2
    <3>3. QED
      BY <3>1, <3>2
  <2>2. ASSUME NEW q \in Keys, line'[q] # <<>> PROVE tails'[q] = line'[q][Len(line'[q])]
    BY <1>1, <1>5, <1>7, <2>2, AppendFacts DEF LanesInv, LineIsChained
  <2>3. QED
    BY <2>1, <2>2 DEF LineIsChained
<1>10. RunnerIsAwaited'
  <2>1. ASSUME NEW r \in Jobs, status'[r] = "running"
        PROVE  /\ line'[LaneOf[r]] = <<>> => tails'[LaneOf[r]] = r
               /\ line'[LaneOf[r]] # <<>> => behind'[line'[LaneOf[r]][1]] = r
    <3>1. r # j /\ status[r] = "running" /\ LaneOf[r] \in Keys
      BY <1>6, <2>1, LaneAssumption DEF LaneAssumption
    <3>2. CASE LaneOf[r] # k
      <4>1. line'[LaneOf[r]] = line[LaneOf[r]] /\ tails'[LaneOf[r]] = tails[LaneOf[r]]
        BY <1>5, <1>7, <3>1, <3>2
      <4>2. line[LaneOf[r]] # <<>> => line[LaneOf[r]][1] \in Jobs \ {j}
        <5>1. line[LaneOf[r]] \in Seq(Jobs)
          BY <3>1 DEF LanesInv, LanesTypeOK
        <5>2. line[LaneOf[r]] # <<>> => 1 \in 1..Len(line[LaneOf[r]])
          BY <5>1
        <5>3. QED
          BY <1>4, <3>1, <5>2
      <4>3. QED
        BY <1>6, <3>1, <4>1, <4>2 DEF LanesInv, RunnerIsAwaited
    <3>3. CASE LaneOf[r] = k
      <4>1. line'[k] # <<>>
        BY <1>1, <1>5, AppendFacts
      <4>2. CASE s = <<>>
        <5>1. line'[k][1] = j /\ tails[k] = r
          BY <1>1, <1>5, <3>1, <3>3, <4>2, AppendFacts DEF LanesInv, RunnerIsAwaited, s
        <5>2. QED
          BY <1>7, <3>3, <4>1, <5>1
      <4>3. CASE s # <<>>
        <5>1. 1 \in 1..Len(s)
          BY <1>1, <4>3
        <5>2. line'[k][1] = s[1] /\ s[1] \in Jobs \ {j} /\ behind[s[1]] = r
          BY <1>1, <1>4, <1>5, <3>1, <3>3, <4>3, <5>1, AppendFacts DEF LanesInv, RunnerIsAwaited, s
        <5>3. QED
          BY <1>6, <3>3, <4>1, <5>2
      <4>4. QED
        BY <4>2, <4>3
    <3>4. QED
      BY <3>2, <3>3
  <2>2. QED
    BY <2>1 DEF RunnerIsAwaited
<1>11. QED
  BY <1>3, <1>8, <1>9, <1>10 DEF LanesInv

\* ... the beginning of the work...
LEMMA BeginKeeps ==
  ASSUME LanesInv, NEW j \in Jobs, Begin(j)
  PROVE  LanesInv'
<1> DEFINE k == LaneOf[j]  s == line[k]
<1>1. k \in Keys /\ line \in [Keys -> Seq(Jobs)]
  BY LaneAssumption DEF LaneAssumption, LanesInv, LanesTypeOK
<1>2. s \in Seq(Jobs) /\ s # <<>> /\ s[1] = j /\ \A r \in Jobs : LaneOf[r] = k => status[r] # "running"
  BY <1>1, BeginIsNext
<1>3. /\ line' = [line EXCEPT ![k] = Tail(s)] /\ status' = [status EXCEPT ![j] = "running"]
      /\ tails' = tails /\ behind' = behind
  BY DEF Begin
<1>b. LaneOf[j] = k /\ s = line[k]
  BY DEF k, s
<1> HIDE DEF k, s
<1>4. Tail(s) \in Seq(Jobs) /\ Len(Tail(s)) = Len(s) - 1 /\ Len(s) \in Nat \ {0}
      /\ (Tail(s) = <<>> => Len(s) = 1) /\ (Tail(s) # <<>> => Len(s) > 1)
      /\ \A i \in 1..Len(s) - 1 : Tail(s)[i] = s[i + 1]
  BY <1>2, TailFacts
<1>5. line'[k] = Tail(s) /\ \A q \in Keys \ {k} : line'[q] = line[q]
  BY <1>1, <1>3
<1>6. status'[j] = "running" /\ \A i \in Jobs \ {j} : status'[i] = status[i]
  BY <1>3 DEF LanesInv, LanesTypeOK
<1>7. \A x, y \in 1..Len(s) : s[x] = s[y] => x = y
  BY <1>1, <1>b DEF LanesInv, LineIsQueued
<1>8. ASSUME NEW i \in 1..Len(line'[k])
      PROVE  i + 1 \in 1..Len(s) /\ line'[k][i] = s[i + 1] /\ s[i + 1] \in Jobs \ {j} /\ i \in Nat \ {0}
  <2>1. i + 1 \in 1..Len(s) /\ line'[k][i] = s[i + 1] /\ 1 \in 1..Len(s) /\ i + 1 # 1 /\ i \in Nat \ {0}
    BY <1>4, <1>5
  <2>2. s[i + 1] # s[1] /\ s[i + 1] \in Jobs
    BY <1>2, <1>7, <2>1
  <2>3. QED
    BY <1>2, <2>1, <2>2
<1>9. LanesTypeOK'
  <2>1. "running" \in Stages
    BY DEF Stages
  <2>2. QED
    BY <1>1, <1>3, <1>4, <2>1 DEF LanesInv, LanesTypeOK
<1>10. LineIsQueued'
  <2>1. ASSUME NEW q \in Keys, NEW i \in 1..Len(line'[q])
        PROVE  status'[line'[q][i]] = "queued" /\ LaneOf[line'[q][i]] = q
    <3>1. CASE q = k
      <4>1. i + 1 \in 1..Len(s) /\ line'[k][i] = s[i + 1] /\ s[i + 1] \in Jobs \ {j}
        BY <1>8, <2>1, <3>1
      <4>2. status[s[i + 1]] = "queued" /\ LaneOf[s[i + 1]] = k
        BY <1>1, <1>b, <4>1 DEF LanesInv, LineIsQueued
      <4>3. QED
        BY <1>6, <3>1, <4>1, <4>2
    <3>2. CASE q # k
      <4>1. line'[q] = line[q] /\ status[line[q][i]] = "queued" /\ LaneOf[line[q][i]] = q
        BY <1>5, <2>1, <3>2 DEF LanesInv, LineIsQueued
      <4>2. line[q][i] \in Jobs
        BY <1>1, <1>5, <2>1, <3>2
      <4>3. line[q][i] # j
        BY <1>b, <3>2, <4>1
      <4>4. QED
        BY <1>6, <4>1, <4>2, <4>3
    <3>3. QED
      BY <3>1, <3>2
  <2>2. ASSUME NEW q \in Keys, NEW i \in 1..Len(line'[q]), NEW h \in 1..Len(line'[q]),
               line'[q][i] = line'[q][h]
        PROVE  i = h
    <3>1. CASE q = k
      <4>1. /\ i + 1 \in 1..Len(s) /\ line'[k][i] = s[i + 1] /\ i \in Nat
            /\ h + 1 \in 1..Len(s) /\ line'[k][h] = s[h + 1] /\ h \in Nat
        BY <1>8, <2>2, <3>1
      <4>2. i + 1 = h + 1
        BY <1>7, <2>2, <3>1, <4>1
      <4>3. QED
        BY <4>1, <4>2
    <3>2. CASE q # k
      BY <1>5, <2>2, <3>2 DEF LanesInv, LineIsQueued
    <3>3. QED
      BY <3>1, <3>2
  <2>3. ASSUME NEW i \in Jobs, status'[i] = "queued"
        PROVE  \E h \in 1..Len(line'[LaneOf[i]]) : line'[LaneOf[i]][h] = i
    <3>1. i # j /\ status[i] = "queued" /\ LaneOf[i] \in Keys
      BY <1>6, <2>3, LaneAssumption DEF LaneAssumption
    <3>2. PICK h \in 1..Len(line[LaneOf[i]]) : line[LaneOf[i]][h] = i
      BY <3>1 DEF LanesInv, LineIsQueued
    <3>3. CASE LaneOf[i] = k
      <4>1. h \in 1..Len(s) /\ h # 1 /\ s[h] = i
        BY <1>2, <1>b, <3>1, <3>2, <3>3
      <4>2. h - 1 \in 1..Len(line'[k]) /\ line'[k][h - 1] = i
        BY <1>4, <1>5, <4>1
      <4>3. QED
        BY <3>3, <4>2
    <3>4. CASE LaneOf[i] # k
      BY <1>5, <3>1, <3>2, <3>4
    <3>5. QED
      BY <3>3, <3>4
  <2>4. QED
    BY <2>1, <2>2, <2>3 DEF LineIsQueued
<1>11. LineIsChained'
  <2>1. ASSUME NEW q \in Keys, NEW i \in 1..Len(line'[q]), i > 1
        PROVE  behind'[line'[q][i]] = line'[q][i - 1]
    <3>1. CASE q = k
      <4>1. /\ i - 1 \in 1..Len(line'[k]) /\ i \in 1..Len(line'[k])
        BY <1>4, <1>5, <2>1, <3>1
      <4>2. i + 1 \in 1..Len(s) /\ line'[k][i] = s[i + 1] /\ i \in Nat \ {0}
        BY <1>8, <4>1
      <4>3. line'[k][i - 1] = s[(i - 1) + 1]
        BY <1>8, <4>1
      <4>4. behind[s[i + 1]] = s[(i + 1) - 1]
        BY <1>1, <1>b, <4>2 DEF LanesInv, LineIsChained
      <4>5. (i - 1) + 1 = (i + 1) - 1
        BY <4>2
      <4>6. QED
        BY <1>3, <3>1, <4>2, <4>3, <4>4, <4>5
    <3>2. CASE q # k
      <4>1. line'[q] = line[q] /\ behind' = behind
        BY <1>3, <1>5, <3>2
      <4>2. behind[line[q][i]] = line[q][i - 1]
        BY <2>1, <4>1 DEF LanesInv, LineIsChained
      <4>3. QED
        BY <4>1, <4>2
    <3>3. QED
      BY <3>1, <3>2
  <2>2. ASSUME NEW q \in Keys, line'[q] # <<>> PROVE tails'[q] = line'[q][Len(line'[q])]
    <3>1. CASE q = k
      <4>1. tails[k] = s[Len(s)]
        BY <1>1, <1>2, <1>b DEF LanesInv, LineIsChained
      <4>2. Len(line'[k]) \in 1..Len(line'[k]) /\ Len(line'[k]) + 1 = Len(s)
        BY <1>4, <1>5, <2>2, <3>1
      <4>3. line'[k][Len(line'[k])] = s[Len(s)]
        BY <1>8, <4>2
      <4>4. QED
        BY <1>3, <3>1, <4>1, <4>3
    <3>2. CASE q # k
      BY <1>3, <1>5, <2>2, <3>2 DEF LanesInv, LineIsChained
    <3>3. QED
      BY <3>1, <3>2
  <2>3. QED
    BY <2>1, <2>2 DEF LineIsChained
<1>12. RunnerIsAwaited'
  <2>1. ASSUME NEW r \in Jobs, status'[r] = "running"
        PROVE  /\ line'[LaneOf[r]] = <<>> => tails'[LaneOf[r]] = r
               /\ line'[LaneOf[r]] # <<>> => behind'[line'[LaneOf[r]][1]] = r
    <3>1. CASE r = j
      <4>1. CASE line'[k] = <<>>
        <5>1. Len(s) = 1
          BY <1>4, <1>5, <4>1
        <5>2. tails[k] = s[1]
          BY <1>1, <1>2, <1>b, <5>1 DEF LanesInv, LineIsChained
        <5>3. QED
          BY <1>2, <1>3, <1>b, <3>1, <4>1, <5>2
      <4>2. CASE line'[k] # <<>>
        <5>1. 1 \in 1..Len(line'[k]) /\ 2 \in 1..Len(s)
          BY <1>4, <1>5, <4>2
        <5>2. line'[k][1] = s[2]
          BY <1>8, <5>1
        <5>3. behind[s[2]] = s[2 - 1]
          BY <1>1, <1>b, <5>1 DEF LanesInv, LineIsChained
        <5>4. QED
          BY <1>2, <1>3, <1>b, <3>1, <4>2, <5>2, <5>3
      <4>3. QED
        BY <4>1, <4>2
    <3>2. CASE r # j
      <4>1. status[r] = "running" /\ LaneOf[r] # k /\ LaneOf[r] \in Keys
        BY <1>2, <1>6, <2>1, <3>2, LaneAssumption DEF LaneAssumption
      <4>2. line'[LaneOf[r]] = line[LaneOf[r]]
        BY <1>5, <4>1
      <4>3. /\ line[LaneOf[r]] = <<>> => tails[LaneOf[r]] = r
            /\ line[LaneOf[r]] # <<>> => behind[line[LaneOf[r]][1]] = r
        BY <4>1 DEF LanesInv, RunnerIsAwaited
      <4>4. QED
        BY <1>3, <4>2, <4>3
    <3>3. QED
      BY <3>1, <3>2
  <2>2. QED
    BY <2>1 DEF RunnerIsAwaited
<1>13. QED
  BY <1>9, <1>10, <1>11, <1>12 DEF LanesInv

\* ... and the steps that come after it, which leave the lines alone.
LEMMA SettleKeeps ==
  ASSUME LanesInv, NEW j \in Jobs, Settle(j) \/ Pass(j) \/ Release(j)
  PROVE  /\ LanesInv' /\ line' = line
         /\ \A i \in Jobs : status'[i] = "running" => status[i] = "running"
         /\ status[j] # "queued" /\ status[j] # "new"
<1>1. /\ line' = line /\ behind' = behind /\ status[j] \in {"running", "settled", "passed"}
      /\ \E after \in {"settled", "passed", "released"} : status' = [status EXCEPT ![j] = after]
  BY DEF Settle, Pass, Release
<1>2. status'[j] \in {"settled", "passed", "released"} /\ \A i \in Jobs \ {j} : status'[i] = status[i]
  BY <1>1 DEF LanesInv, LanesTypeOK
<1>3. \/ tails' = tails
      \/ status[j] = "passed" /\ tails[LaneOf[j]] = j
         /\ tails' = [tails EXCEPT ![LaneOf[j]] = NoJob]
  <2>1. CASE Release(j)
    <3>1. LaneOf[j] \in Keys
      BY LaneAssumption DEF LaneAssumption
    <3>2. CASE tails[LaneOf[j]] = j
      BY <2>1, <3>2 DEF Release
    <3>3. CASE tails[LaneOf[j]] # j
      <4>1. tails' = [tails EXCEPT ![LaneOf[j]] = tails[LaneOf[j]]]
        BY <2>1, <3>3 DEF Release
      <4>2. QED
        BY <3>1, <4>1 DEF LanesInv, LanesTypeOK
    <3>4. QED
      BY <3>2, <3>3
  <2>2. QED
    BY <2>1 DEF Settle, Pass
<1>4. LanesTypeOK'
  <2>1. status' \in [Jobs -> Stages]
    BY <1>1 DEF LanesInv, LanesTypeOK, Stages
  <2>2. tails' \in [Keys -> Jobs \cup {NoJob}]
    BY <1>3 DEF LanesInv, LanesTypeOK
  <2> QED
    BY <1>1, <2>1, <2>2 DEF LanesInv, LanesTypeOK
<1>5. \A q \in Keys : \A i \in 1..Len(line[q]) :
        line[q][i] \in Jobs \ {j} /\ status[line[q][i]] = "queued" /\ LaneOf[line[q][i]] = q
  BY <1>1 DEF LanesInv, LanesTypeOK, LineIsQueued
<1>6. LineIsQueued'
  <2>1. \A i \in Jobs : status'[i] = "queued" => status[i] = "queued"
    BY <1>1, <1>2
  <2>2. \A q \in Keys : \A i \in 1..Len(line[q]) : status'[line[q][i]] = "queued"
    BY <1>2, <1>5
  <2>3. \A i \in Jobs : status'[i] = "queued"
          => \E h \in 1..Len(line'[LaneOf[i]]) : line'[LaneOf[i]][h] = i
    BY <1>1, <2>1 DEF LanesInv, LineIsQueued
  <2>4. \A q \in Keys :
          /\ \A i \in 1..Len(line'[q]) : LaneOf[line'[q][i]] = q /\ status'[line'[q][i]] = "queued"
          /\ \A i, h \in 1..Len(line'[q]) : line'[q][i] = line'[q][h] => i = h
    BY <1>1, <1>5, <2>2 DEF LanesInv, LineIsQueued
  <2>5. QED
    BY <2>3, <2>4 DEF LineIsQueued
<1>7. \A q \in Keys : line[q] # <<>> => Len(line[q]) \in 1..Len(line[q]) /\ 1 \in 1..Len(line[q])
  <2>1. \A q \in Keys : line[q] \in Seq(Jobs)
    BY DEF LanesInv, LanesTypeOK
  <2>2. QED
    BY <2>1, EmptySeq
<1>8. \A q \in Keys : tails'[q] # tails[q] => q = LaneOf[j] /\ status[j] = "passed" /\ tails[q] = j
  BY <1>3, LaneAssumption DEF LaneAssumption, LanesInv, LanesTypeOK
<1>9. LineIsChained'
  <2>1. ASSUME NEW q \in Keys, line[q] # <<>> PROVE tails'[q] = line[q][Len(line[q])]
    <3>1. tails[q] = line[q][Len(line[q])] /\ tails[q] # j
      BY <1>5, <1>7, <2>1 DEF LanesInv, LineIsChained
    <3>2. QED
      BY <1>8, <3>1
  <2>2. QED
    BY <1>1, <2>1 DEF LanesInv, LineIsChained
<1>10. RunnerIsAwaited'
  <2>1. ASSUME NEW r \in Jobs, status'[r] = "running"
        PROVE  /\ line'[LaneOf[r]] = <<>> => tails'[LaneOf[r]] = r
               /\ line'[LaneOf[r]] # <<>> => behind'[line'[LaneOf[r]][1]] = r
    <3>1. r # j /\ status[r] = "running" /\ LaneOf[r] \in Keys
      BY <1>2, <2>1, LaneAssumption DEF LaneAssumption
    <3>2. /\ line[LaneOf[r]] = <<>> => tails[LaneOf[r]] = r
          /\ line[LaneOf[r]] # <<>> => behind[line[LaneOf[r]][1]] = r
      BY <3>1 DEF LanesInv, RunnerIsAwaited
    <3>3. QED
      BY <1>1, <1>8, <3>1, <3>2
  <2>2. QED
    BY <2>1 DEF RunnerIsAwaited
<1>11. QED
  BY <1>1, <1>2, <1>4, <1>6, <1>9, <1>10 DEF LanesInv

-----------------------------------------------------------------------------

\* The invariant holds from the start and is kept.
LEMMA LanesInvAlways == LanesSpec => []LanesInv
<1>1. LanesInit => LanesInv
  <2> SUFFICES ASSUME LanesInit PROVE LanesInv
    OBVIOUS
  <2>1. <<>> \in Seq(Jobs) /\ "new" \in Stages /\ Len(<<>>) = 0
    BY DEF Stages
  <2>2. LanesTypeOK
    BY <2>1 DEF LanesInit, LanesTypeOK
  <2>3. \A j \in Jobs : status[j] = "new"
    BY DEF LanesInit
  <2>4. \A k \in Keys : line[k] = <<>> /\ Len(line[k]) = 0
    BY DEF LanesInit
  <2>5. QED
    BY <2>2, <2>3, <2>4 DEF LanesInv, LineIsQueued, LineIsChained, RunnerIsAwaited
<1>2. LanesInv /\ [LanesNext]_laneVars => LanesInv'
  <2> SUFFICES ASSUME LanesInv, [LanesNext]_laneVars PROVE LanesInv'
    OBVIOUS
  <2>1. CASE LanesNext
    BY <2>1, RunKeeps, BeginKeeps, SettleKeeps DEF LanesNext, Microtask
  <2>2. CASE UNCHANGED laneVars
    BY <2>2 DEF laneVars, LanesInv, LanesTypeOK, LineIsQueued, LineIsChained, RunnerIsAwaited
  <2>3. QED
    BY <2>1, <2>2
<1>3. QED
  BY <1>1, <1>2, PTL DEF LanesSpec

\* The jobs running in each lane.
Running == [k \in Keys |-> {j \in Jobs : LaneOf[j] = k /\ status[j] = "running"}]

\* Two jobs of one lane never run together.
THEOREM LanesAreExclusive == LanesSpec => []Exclusive
<1>1. LanesInv => Exclusive
  <2> SUFFICES ASSUME LanesInv, NEW i \in Jobs, NEW j \in Jobs, LaneOf[i] = LaneOf[j],
                      status[i] = "running", status[j] = "running"
               PROVE  i = j
    BY DEF Exclusive
  <2>1. QED
    BY DEF LanesInv, RunnerIsAwaited
<1>2. QED
  BY <1>1, LanesInvAlways, PTL

\* A promise chain forgotten and begun anew while jobs come and go serves them
\* as the abstract lanes do: the detailed specification implements them.
THEOREM ChainsImplementLanes == LanesSpec => LanesAreSerial
<1>1. LanesInit => Abstract!Quiet
  BY DEF LanesInit, Abstract!Quiet
<1>2. LanesInv /\ [LanesNext]_laneVars => [Abstract!Serve]_Abstract!lanes
  <2> SUFFICES ASSUME LanesInv, [LanesNext]_laneVars PROVE [Abstract!Serve]_Abstract!lanes
    OBVIOUS
  <2>0. \A j \in Jobs : LaneOf[j] \in Keys
    BY LaneAssumption DEF LaneAssumption
  <2>1. ASSUME NEW j \in Jobs, RunJob(j) PROVE Abstract!HandOver(LaneOf[j], j)
    <3>1. \A i \in Jobs : status'[i] = "running" <=> status[i] = "running"
      BY <2>1 DEF RunJob, LanesInv, LanesTypeOK
    <3>2. Running' = Running
      BY <3>1 DEF Running
    <3>3. QED
      BY <2>1, <3>2 DEF RunJob, Running, Abstract!HandOver
  <2>2. ASSUME NEW j \in Jobs, Begin(j) PROVE Abstract!BeginNext(LaneOf[j])
    <3> DEFINE k == LaneOf[j]
    <3>1. /\ line[k] # <<>> /\ line[k][1] = j
          /\ \A r \in Jobs : LaneOf[r] = k => status[r] # "running"
      BY <2>2, BeginIsNext
    <3>2. Head(line[k]) = j
      BY <2>0, <3>1, TailFacts DEF LanesInv, LanesTypeOK
    <3>3. Running[k] = {}
      BY <2>0, <3>1 DEF Running
    <3>4. \A i \in Jobs : status'[i] = "running" <=> status[i] = "running" \/ i = j
      BY <2>2 DEF Begin, LanesInv, LanesTypeOK
    <3>5. Running' = [Running EXCEPT ![k] = {j}]
      <4>1. Running'[k] = {j}
        BY <2>0, <3>1, <3>4 DEF Running
      <4>2. \A q \in Keys \ {k} : Running'[q] = Running[q]
        BY <3>4 DEF Running
      <4>3. QED
        BY <2>0, <4>1, <4>2 DEF Running
    <3>6. QED
      BY <2>2, <3>1, <3>2, <3>3, <3>5 DEF Begin, Running, Abstract!BeginNext
  <2>3. ASSUME NEW j \in Jobs, Settle(j) PROVE Abstract!EndOne(LaneOf[j])
    <3> DEFINE k == LaneOf[j]
    <3>1. status[j] = "running"
      BY <2>3 DEF Settle
    <3>2. \A i \in Jobs : status'[i] = "running" <=> status[i] = "running" /\ i # j
      BY <2>3 DEF Settle, LanesInv, LanesTypeOK
    <3>3. \A r \in Jobs : LaneOf[r] = k /\ status[r] = "running" => r = j
      BY <3>1 DEF LanesInv, RunnerIsAwaited
    <3>4. Running' = [Running EXCEPT ![k] = {}]
      <4>1. Running'[k] = {}
        BY <2>0, <3>2, <3>3 DEF Running
      <4>2. \A q \in Keys \ {k} : Running'[q] = Running[q]
        BY <3>2 DEF Running
      <4>3. QED
        BY <2>0, <4>1, <4>2 DEF Running
    <3>5. QED
      BY <2>3, <3>4 DEF Settle, Running, Abstract!EndOne
  <2>4. ASSUME NEW j \in Jobs, Pass(j) \/ Release(j) PROVE UNCHANGED Abstract!lanes
    <3>1. \A i \in Jobs : status'[i] = "running" <=> status[i] = "running"
      BY <2>4 DEF Pass, Release, LanesInv, LanesTypeOK
    <3>2. Running' = Running
      BY <3>1 DEF Running
    <3>3. QED
      BY <2>4, <3>2 DEF Pass, Release, Running, Abstract!lanes
  <2>5. CASE UNCHANGED laneVars
    BY <2>5 DEF laneVars, Abstract!lanes
  <2>6. QED
    BY <2>0, <2>1, <2>2, <2>3, <2>4, <2>5 DEF LanesNext, Microtask, Abstract!Serve
<1>3. QED
  BY <1>1, <1>2, LanesInvAlways, PTL DEF LanesSpec, LanesAreSerial, Abstract!LanesPromise

-----------------------------------------------------------------------------
(* EventLog: what was given to a consumer, or is on its way to it.           *)

\* What is still to be done: an event announced, or replayed to one consumer.
Microtasks == [kind : {"notify"}, id : EventIds] \cup [kind : {"replay"}, to : Consumers, ids : Seq(EventIds)]
Announced(id) == \E k \in 1 .. Len(micro) : micro[k].kind = "notify" /\ micro[k].id = id
ToReplay(s, id) ==
  \E k \in 1 .. Len(micro) : /\ micro[k].kind = "replay" /\ micro[k].to = s
                             /\ \E i \in 1 .. Len(micro[k].ids) : micro[k].ids[i] = id

\* Announcements are of stored events, in their order; replays are for those who
\* asked for one, of stored events after their start.
WorkIsInOrder ==
  /\ micro \in Seq(Microtasks)
  /\ \A i, j \in 1 .. Len(micro) :
       i < j /\ micro[i].kind = "notify" /\ micro[j].kind = "notify" => micro[i].id < micro[j].id
  /\ \A id \in EventIds : Announced(id) => id <= Len(log)
  /\ \A s \in Consumers, id \in EventIds :
       ToReplay(s, id) => subs[s].from # NoId /\ id > subs[s].from /\ id <= Len(log)

Held(s, id) == \E k \in 1 .. Len(Delivered(s)) : Delivered(s)[k] = id

\* A consumer has stored events only, none from before its start; one that only
\* listens has them in order, ahead of what is yet to be announced.
HasInOrder(s) ==
  /\ \A k \in 1 .. Len(Delivered(s)) :
       Delivered(s)[k] <= Len(log) /\ (subs[s].from # NoId => Delivered(s)[k] > subs[s].from)
  /\ subs[s].from = NoId =>
       /\ \A i, j \in 1 .. Len(Delivered(s)) : i < j => Delivered(s)[i] < Delivered(s)[j]
       /\ \A k \in 1 .. Len(Delivered(s)), id \in EventIds : Announced(id) => Delivered(s)[k] < id

\* What an open subscription should have and has not is on its way.
HasOrWill(s) ==
  Open(s) /\ (closed => ~Durable) =>
    \A id \in since[s] + 1 .. Len(log) :
      Admits(subs[s], id) => Held(s, id) \/ Announced(id) \/ ToReplay(s, id)

ConsumerOK(s) ==
  /\ subs[s].state = "none" => subs[s] = NotSubscribed
  /\ subs[s].from # NoId => since[s] = subs[s].from
  /\ s \in waiting => Open(s) /\ subs[s].queue = <<>>
  /\ HasInOrder(s) /\ HasOrWill(s)

\* The inductive invariant.
LogInv == LogTypeOK /\ WorkIsInOrder /\ \A s \in Consumers : ConsumerOK(s)

Subscription == [state : {"none", "open", "closed"}, from : 0 .. MaxEvents,
                 types : SUBSET Types, queue : Seq(EventIds), taken : Seq(EventIds)]

\* PushQueue.push: what is given goes behind what is there, whether the first of
\* it wakes a parked consumer or not.
LEMMA PushedIsBehind ==
  ASSUME NEW s \in Consumers, NEW ids \in Seq(EventIds), subs[s] \in Subscription, Open(s),
         s \in waiting => subs[s].queue = <<>>, subs'[s] = Pushed(subs[s], ids, s \in waiting)
  PROVE  /\ subs'[s] \in Subscription /\ subs'[s].state = "open"
         /\ subs'[s].from = subs[s].from /\ subs'[s].types = subs[s].types
         /\ subs'[s].taken \o subs'[s].queue = (subs[s].taken \o subs[s].queue) \o ids
         /\ ids = <<>> => subs'[s] = subs[s]
<1> DEFINE sub == subs[s]
           direct == IF s \in waiting /\ ids # <<>> THEN 1 ELSE 0
           first == SubSeq(ids, 1, direct)
           rest == SubSeq(ids, direct + 1, Len(ids))
           given == subs'[s]
<1>1. sub.taken \in Seq(EventIds) /\ sub.queue \in Seq(EventIds) /\ Len(ids) \in Nat
  BY DEF Subscription
<1>2. direct \in 0 .. Len(ids) /\ direct \in Nat
  BY <1>1
<1>3. first \in Seq(EventIds) /\ rest \in Seq(EventIds) /\ first \o rest = ids
  <2>1. 1 \in 1 .. Len(ids) + 1 /\ direct \in 1 - 1 .. Len(ids) /\ Len(ids) \in direct .. Len(ids)
    BY <1>1, <1>2
  <2>2. first \o rest = SubSeq(ids, 1, Len(ids))
    <3> HIDE DEF direct
    <3> QED
      BY <2>1, ConcatAdjacentSubSeq
  <2>3. \A i \in 1 .. Len(ids) : ids[i] \in EventIds
    BY ElementOfSeq
  <2>4. first \in Seq(EventIds) /\ rest \in Seq(EventIds)
    <3> HIDE DEF direct
    <3>1. \A i \in 1 .. direct : ids[i] \in EventIds
      BY <1>2, <2>3
    <3>2. \A i \in direct + 1 .. Len(ids) : ids[i] \in EventIds
      BY <1>2, <2>3
    <3> QED
      BY <1>1, <1>2, <3>1, <3>2, SubSeqProperties
  <2> QED
    BY <2>2, <2>4, SubSeqFull
<1>4. given = [sub EXCEPT !.taken = @ \o first, !.queue = @ \o rest]
  BY DEF Pushed, Open
<1>5. direct = 0 => first = <<>>
  BY SubSeqEmpty
<1>6. ids = <<>> => direct = 0 /\ rest = <<>>
  <2>1. ids = <<>> => direct = 0 /\ direct + 1 > Len(ids)
    OBVIOUS
  <2> HIDE DEF direct
  <2> QED
    BY <1>1, <1>2, <2>1, SubSeqEmpty
<1>7. direct = 0 \/ sub.queue = <<>>
  OBVIOUS
<1>11. \A a, b, c \in Seq(EventIds) : (a \o b) \o c = a \o (b \o c)
  OBVIOUS
<1> HIDE DEF direct, first, rest
<1>8. /\ given.taken = sub.taken \o first /\ given.queue = sub.queue \o rest
      /\ given \in Subscription /\ given.state = "open"
      /\ given.from = sub.from /\ given.types = sub.types
  <2>1. sub.taken \o first \in Seq(EventIds) /\ sub.queue \o rest \in Seq(EventIds)
    BY <1>1, <1>3, ConcatProperties
  <2>3. sub.state = "open"
    BY DEF Open
  <2> HIDE DEF Subscription
  <2>2. sub \in [state : {"none", "open", "closed"}, from : 0 .. MaxEvents, types : SUBSET Types,
                 queue : Seq(EventIds), taken : Seq(EventIds)]
    BY DEF Subscription
  <2> QED
    BY <1>4, <2>1, <2>2, <2>3 DEF Subscription
<1>9. given.taken \o given.queue = (sub.taken \o sub.queue) \o ids
  <2>1. CASE direct = 0
    <3>1. first = <<>> /\ rest = ids
      BY <1>3, <1>5, <2>1, ConcatEmptySeq
    <3>2. given.taken = sub.taken /\ given.queue = sub.queue \o ids
      BY <1>1, <1>8, <3>1, ConcatEmptySeq
    <3>3. sub.taken \o (sub.queue \o ids) = (sub.taken \o sub.queue) \o ids
      BY <1>1, <1>11
    <3> QED
      BY <3>2, <3>3
  <2>2. CASE sub.queue = <<>>
    <3>1. sub.taken \o sub.queue = sub.taken /\ sub.queue \o rest = rest
      BY <1>1, <1>3, <2>2, ConcatEmptySeq
    <3>2. (sub.taken \o first) \o rest = sub.taken \o (first \o rest)
      <4>1. sub.taken \in Seq(EventIds) /\ first \in Seq(EventIds) /\ rest \in Seq(EventIds)
        BY <1>1, <1>3
      <4> QED
        BY <1>11, <4>1, Zenon
    <3> QED
      BY <1>3, <1>8, <3>1, <3>2
  <2> QED
    BY <1>7, <2>1, <2>2
<1>10. ids = <<>> => given = sub
  <2> SUFFICES ASSUME ids = <<>> PROVE given = sub
    OBVIOUS
  <2>1. sub.taken \o first = sub.taken /\ sub.queue \o rest = sub.queue
    BY <1>1, <1>5, <1>6, ConcatEmptySeq
  <2> QED
    BY <1>4, <2>1 DEF Subscription
<1> QED
  BY <1>8, <1>9, <1>10

\* What is on its way when one more continuation is queued, or the oldest has run.
LEMMA WorkIsAdded ==
  ASSUME micro \in Seq(Microtasks), NEW m \in Microtasks, micro' = Append(micro, m)
  PROVE  /\ micro' \in Seq(Microtasks)
         /\ \A id : Announced(id)' <=> Announced(id) \/ (m.kind = "notify" /\ m.id = id)
         /\ \A s, id : ToReplay(s, id)' <=> \/ ToReplay(s, id)
                                           \/ /\ m.kind = "replay" /\ m.to = s
                                              /\ \E i \in 1 .. Len(m.ids) : m.ids[i] = id
<1>1. /\ micro' \in Seq(Microtasks) /\ Len(micro') = Len(micro) + 1 /\ Len(micro) \in Nat
      /\ \A k \in 1 .. Len(micro) : micro'[k] = micro[k]
      /\ micro'[Len(micro) + 1] = m
  BY AppendProperties
<1>2. \A k \in 1 .. Len(micro') : k \in 1 .. Len(micro) \/ k = Len(micro) + 1
  BY <1>1
<1>3. (1 .. Len(micro)) \cup {Len(micro) + 1} \subseteq 1 .. Len(micro')
  BY <1>1
<1> QED
  BY <1>1, <1>2, <1>3 DEF Announced, ToReplay

LEMMA WorkIsDone ==
  ASSUME micro \in Seq(Microtasks), micro # <<>>, micro' = Tail(micro)
  PROVE  /\ micro' \in Seq(Microtasks) /\ Head(micro) \in Microtasks
         /\ Head(micro) = micro[1] /\ 1 \in 1 .. Len(micro)
         /\ \A k \in 1 .. Len(micro') : k + 1 \in 1 .. Len(micro) /\ micro'[k] = micro[k + 1]
         /\ \A id : Announced(id) <=> Announced(id)' \/ (Head(micro).kind = "notify" /\ Head(micro).id = id)
         /\ \A s, id : ToReplay(s, id) <=>
              \/ ToReplay(s, id)'
              \/ /\ Head(micro).kind = "replay" /\ Head(micro).to = s
                 /\ \E i \in 1 .. Len(Head(micro).ids) : Head(micro).ids[i] = id
<1>1. /\ micro' \in Seq(Microtasks) /\ Head(micro) \in Microtasks /\ Len(micro') = Len(micro) - 1
      /\ Len(micro) \in Nat /\ Len(micro) > 0
      /\ \A k \in 1 .. Len(micro') : micro'[k] = micro[k + 1]
  BY HeadTailProperties
<1>2. Head(micro) = micro[1] /\ 1 \in 1 .. Len(micro)
  BY <1>1
<1>3. \A k \in 1 .. Len(micro') : k + 1 \in 1 .. Len(micro) /\ micro'[k] = micro[k + 1]
  BY <1>1
<1>4. \A k \in 1 .. Len(micro) : k = 1 \/ (k - 1 \in 1 .. Len(micro') /\ micro'[k - 1] = micro[k])
  BY <1>1
<1>5. \A id : Announced(id) <=> Announced(id)' \/ (Head(micro).kind = "notify" /\ Head(micro).id = id)
  BY <1>2, <1>3, <1>4 DEF Announced
<1>6. \A s, id : ToReplay(s, id) <=>
              \/ ToReplay(s, id)'
              \/ /\ Head(micro).kind = "replay" /\ Head(micro).to = s
                 /\ \E i \in 1 .. Len(Head(micro).ids) : Head(micro).ids[i] = id
  <2> TAKE s, id
  <2> DEFINE Of(m) == /\ m.kind = "replay" /\ m.to = s
                      /\ \E i \in 1 .. Len(m.ids) : m.ids[i] = id
  <2>1. ToReplay(s, id) <=> \E k \in 1 .. Len(micro) : Of(micro[k])
    BY DEF ToReplay
  <2>2. ToReplay(s, id)' <=> \E k \in 1 .. Len(micro') : Of(micro'[k])
    BY DEF ToReplay
  <2> HIDE DEF Of
  <2>3. (\E k \in 1 .. Len(micro) : Of(micro[k])) <=> Of(Head(micro)) \/ \E k \in 1 .. Len(micro') : Of(micro'[k])
    BY <1>2, <1>3, <1>4
  <2> QED
    BY <2>1, <2>2, <2>3 DEF Of
<1> QED
  BY <1>1, <1>2, <1>3, <1>5, <1>6

\* A consumer that is given some more, in order and nothing it should not have,
\* and is given what it was to have by the work that is done, is still all right.
LEMMA GivenConsumer ==
  ASSUME LogInv, NEW s \in Consumers, NEW more \in Seq(EventIds),
         Delivered(s)' = Delivered(s) \o more,
         UNCHANGED <<store, log, since[s]>>, closed => closed',
         subs[s].state = "none" => subs'[s] = subs[s],
         Open(s)' => Open(s),
         subs'[s].state = "none" => subs[s].state = "none",
         subs'[s].from = subs[s].from, subs'[s].types = subs[s].types,
         s \in waiting' => Open(s)' /\ subs'[s].queue = <<>>,
         \A id \in EventIds : Announced(id)' => Announced(id),
         \A i \in 1 .. Len(more) : /\ more[i] <= Len(log)
                                   /\ subs[s].from # NoId => more[i] > subs[s].from,
         subs[s].from = NoId =>
           /\ \A i, j \in 1 .. Len(more) : i < j => more[i] < more[j]
           /\ \A i \in 1 .. Len(more) : \A id \in EventIds : Announced(id)' => more[i] < id
           /\ \A i \in 1 .. Len(more) : \A k \in 1 .. Len(Delivered(s)) : Delivered(s)[k] < more[i],
         \A id \in EventIds :
           /\ Open(s)' /\ id > since[s] /\ id <= Len(log) /\ Admits(subs[s], id)
           /\ Announced(id) \/ ToReplay(s, id)
           => Announced(id)' \/ ToReplay(s, id)' \/ \E i \in 1 .. Len(more) : more[i] = id
  PROVE  ConsumerOK(s)'
<1>1. ConsumerOK(s) /\ subs[s] \in Subscription /\ since[s] \in 0 .. MaxEvents
      /\ log \in Seq(Types) /\ Len(log) <= MaxEvents /\ Len(log) \in Nat /\ MaxEvents \in Nat
  BY LogConstants DEF LogInv, LogTypeOK, Subscription, LogConstants
<1> DEFINE had == Delivered(s)  has == Delivered(s)'
<1>2. had \in Seq(EventIds) /\ Len(had) \in Nat /\ Len(more) \in Nat
  <2>1. subs[s].taken \in Seq(EventIds) /\ subs[s].queue \in Seq(EventIds)
    BY <1>1 DEF Subscription
  <2>2. had \in Seq(EventIds)
    BY <2>1, ConcatProperties DEF Delivered
  <2> HIDE DEF had
  <2> QED
    BY <2>2, LenProperties
<1>3. /\ has \in Seq(EventIds) /\ Len(has) = Len(had) + Len(more)
      /\ \A i \in 1 .. Len(had) : has[i] = had[i]
      /\ \A i \in 1 .. Len(more) : has[Len(had) + i] = more[i]
  <2>1. has = had \o more
    OBVIOUS
  <2> HIDE DEF has, had
  <2>2. /\ has \in Seq(EventIds) /\ Len(has) = Len(had) + Len(more)
        /\ \A i \in 1 .. Len(had) + Len(more) : has[i] = IF i <= Len(had) THEN had[i] ELSE more[i - Len(had)]
    BY <1>2, <2>1, ConcatProperties
  <2>3. \A i \in 1 .. Len(more) : Len(had) + i \in 1 .. Len(had) + Len(more) /\ ~(Len(had) + i <= Len(had))
                                  /\ (Len(had) + i) - Len(had) = i
    BY <1>2
  <2> QED
    BY <1>2, <2>2, <2>3
<1>4. \A k \in 1 .. Len(has) :
        k \notin 1 .. Len(had) => k - Len(had) \in 1 .. Len(more) /\ has[k] = more[k - Len(had)]
  <2> HIDE DEF has, had
  <2> TAKE k \in 1 .. Len(has)
  <2>1. CASE k > Len(had)
    <3>1. k - Len(had) \in 1 .. Len(more) /\ Len(had) + (k - Len(had)) = k
      BY <1>2, <1>3, <2>1
    <3> QED
      BY <1>3, <3>1
  <2> QED
    BY <1>2, <2>1
<1>5. HasInOrder(s) /\ HasOrWill(s)
  BY <1>1 DEF ConsumerOK
<1>6. HasInOrder(s)'
  <2>1. \A k \in 1 .. Len(has) : has[k] <= Len(log') /\ (subs'[s].from # NoId => has[k] > subs'[s].from)
    <3>1. \A k \in 1 .. Len(had) : had[k] <= Len(log) /\ (subs[s].from # NoId => had[k] > subs[s].from)
      BY <1>5 DEF HasInOrder
    <3> HIDE DEF has, had
    <3> QED
      BY <1>3, <1>4, <3>1
  <2>2. ASSUME subs'[s].from = NoId
        PROVE  /\ \A i, j \in 1 .. Len(has) : i < j => has[i] < has[j]
               /\ \A k \in 1 .. Len(has), id \in EventIds : Announced(id)' => has[k] < id
    <3>1. /\ \A i, j \in 1 .. Len(had) : i < j => had[i] < had[j]
          /\ \A k \in 1 .. Len(had), id \in EventIds : Announced(id) => had[k] < id
      BY <1>5, <2>2 DEF HasInOrder
    <3>2. \A i \in 1 .. Len(more) : \A k \in 1 .. Len(had) : had[k] < more[i]
      BY <2>2
    <3>3. \A i, j \in 1 .. Len(more) : i < j => more[i] < more[j]
      BY <2>2
    <3> HIDE DEF has, had
    <3>4. ASSUME NEW i \in 1 .. Len(has), NEW j \in 1 .. Len(has), i < j PROVE has[i] < has[j]
      <4>1. CASE j \in 1 .. Len(had)
        <5>1. i \in 1 .. Len(had)
          BY <1>2, <1>3, <3>4, <4>1
        <5> QED
          BY <1>3, <3>1, <3>4, <4>1, <5>1
      <4>2. CASE i \in 1 .. Len(had) /\ j \notin 1 .. Len(had)
        BY <1>3, <1>4, <3>2, <4>2
      <4>3. CASE i \notin 1 .. Len(had)
        <5>1. j \notin 1 .. Len(had)
          BY <1>2, <1>3, <3>4, <4>3
        <5>2. i - Len(had) < j - Len(had)
          BY <1>2, <3>4
        <5>3. i - Len(had) \in 1 .. Len(more) /\ has[i] = more[i - Len(had)]
          BY <1>4, <4>3
        <5>4. j - Len(had) \in 1 .. Len(more) /\ has[j] = more[j - Len(had)]
          BY <1>4, <5>1
        <5> QED
          BY <3>3, <5>2, <5>3, <5>4
      <4> QED
        BY <4>1, <4>2, <4>3
    <3>5. ASSUME NEW k \in 1 .. Len(has), NEW id \in EventIds, Announced(id)' PROVE has[k] < id
      <4>1. Announced(id) /\ \A i \in 1 .. Len(more) : more[i] < id
        BY <2>2, <3>5
      <4> QED
        BY <1>3, <1>4, <3>1, <4>1
    <3> QED
      BY <3>4, <3>5
  <2> QED
    BY <2>1, <2>2 DEF HasInOrder
<1>7. HasOrWill(s)'
  <2> SUFFICES ASSUME Open(s)', (closed => ~Durable)', NEW id \in since[s] + 1 .. Len(log), Admits(subs[s], id)
               PROVE  Held(s, id)' \/ Announced(id)' \/ ToReplay(s, id)'
    BY DEF HasOrWill, Admits
  <2>1. Open(s) /\ (closed => ~Durable)
    BY DEF Durable
  <2>2. Held(s, id) \/ Announced(id) \/ ToReplay(s, id)
    BY <1>5, <2>1 DEF HasOrWill
  <2>3. id \in EventIds /\ id > since[s] /\ id <= Len(log)
    BY <1>1 DEF EventIds
  <2>4. Held(s, id) => Held(s, id)'
    <3> SUFFICES ASSUME NEW k \in 1 .. Len(had), had[k] = id PROVE \E h \in 1 .. Len(has) : has[h] = id
      BY DEF Held
    <3> HIDE DEF has, had
    <3>1. k \in 1 .. Len(has) /\ has[k] = had[k]
      BY <1>2, <1>3
    <3> QED
      BY <3>1
  <2>5. (\E i \in 1 .. Len(more) : more[i] = id) => Held(s, id)'
    <3> SUFFICES ASSUME NEW i \in 1 .. Len(more), more[i] = id PROVE \E h \in 1 .. Len(has) : has[h] = id
      BY DEF Held
    <3> HIDE DEF has, had
    <3>1. Len(had) + i \in 1 .. Len(has) /\ has[Len(had) + i] = more[i]
      BY <1>2, <1>3
    <3> QED
      BY <3>1
  <2> QED
    BY <2>2, <2>3, <2>4, <2>5
<1>8. /\ subs'[s].state = "none" => subs'[s] = NotSubscribed
      /\ subs'[s].from # NoId => since'[s] = subs'[s].from
  BY <1>1 DEF ConsumerOK
<1> QED
  BY <1>6, <1>7, <1>8 DEF ConsumerOK

\* So is one that is given nothing.
LEMMA UntouchedConsumer ==
  ASSUME LogInv, NEW s \in Consumers, Delivered(s)' = Delivered(s),
         UNCHANGED <<store, log, since[s]>>, closed => closed',
         subs[s].state = "none" => subs'[s] = subs[s],
         Open(s)' => Open(s),
         subs'[s].state = "none" => subs[s].state = "none",
         subs'[s].from = subs[s].from, subs'[s].types = subs[s].types,
         s \in waiting' => Open(s)' /\ subs'[s].queue = <<>>,
         \A id \in EventIds : Announced(id)' => Announced(id),
         \A id \in EventIds :
           /\ Open(s)' /\ id > since[s] /\ id <= Len(log) /\ Admits(subs[s], id)
           /\ Announced(id) \/ ToReplay(s, id)
           => Announced(id)' \/ ToReplay(s, id)'
  PROVE  ConsumerOK(s)'
<1>1. Delivered(s) \in Seq(EventIds)
  <2>1. subs[s].taken \in Seq(EventIds) /\ subs[s].queue \in Seq(EventIds)
    BY DEF LogInv, LogTypeOK
  <2> QED
    BY <2>1, ConcatProperties DEF Delivered
<1>2. <<>> \in Seq(EventIds)
  BY EmptySeq
<1>6. PICK more \in Seq(EventIds) : more = <<>>
  BY <1>2
<1>3. Delivered(s)' = Delivered(s) \o more /\ Len(more) = 0
  <2>1. \A d \in Seq(EventIds) : d \o <<>> = d
    BY ConcatEmptySeq
  <2>2. Delivered(s) \o <<>> = Delivered(s)
    BY <1>1, <2>1
  <2> QED
    BY <1>6, <2>2
<1>4. ~\E i \in 1 .. Len(more) : TRUE
  BY <1>3
<1>5. /\ \A i \in 1 .. Len(more) : more[i] <= Len(log) /\ (subs[s].from # NoId => more[i] > subs[s].from)
      /\ \A i, j \in 1 .. Len(more) : i < j => more[i] < more[j]
      /\ \A i \in 1 .. Len(more) : \A id \in EventIds : Announced(id)' => more[i] < id
      /\ \A i \in 1 .. Len(more) : \A k \in 1 .. Len(Delivered(s)) : Delivered(s)[k] < more[i]
  BY <1>4
<1>7. Delivered(s)' = Delivered(s) \o more
  BY <1>3
<1> QED
  BY <1>5, <1>7, GivenConsumer

LEMMA LogInvInit == LogInit => LogInv
<1> SUFFICES ASSUME LogInit PROVE LogInv
  OBVIOUS
<1>1. MaxEvents \in Nat /\ 0 \in 0 .. MaxEvents
  BY LogConstants DEF LogConstants
<1>2. NotSubscribed \in Subscription
  BY <1>1 DEF NotSubscribed, Subscription, NoId
<1>3. LogTypeOK
  <2>1. subs \in [Consumers -> Subscription] /\ since \in [Consumers -> 0 .. MaxEvents]
    BY <1>1, <1>2 DEF LogInit
  <2>2. log \in Seq(Types) /\ Len(log) <= MaxEvents
    BY <1>1, EmptySeq DEF LogInit
  <2>3. \A k \in DOMAIN micro : FALSE
    BY DEF LogInit
  <2> QED
    BY <2>1, <2>2, <2>3 DEF LogInit, LogTypeOK, Subscription
<1>4. WorkIsInOrder
  BY DEF LogInit, WorkIsInOrder, Announced, ToReplay
<1>5. ASSUME NEW s \in Consumers PROVE ConsumerOK(s)
  <2>1. subs[s] = NotSubscribed /\ waiting = {}
    BY DEF LogInit
  <2>2. Delivered(s) = <<>>
    BY <2>1 DEF Delivered, NotSubscribed
  <2>3. HasInOrder(s)
    BY <2>2 DEF HasInOrder
  <2> QED
    BY <2>1, <2>3 DEF ConsumerOK, HasOrWill, Open, NotSubscribed, NoId
<1> QED
  BY <1>3, <1>4, <1>5 DEF LogInv

LEMMA AppendEventKeeps ==
  ASSUME LogInv, NEW t \in Types, AppendEvent(t)
  PROVE  LogInv'
<1> DEFINE n == Len(log) + 1  m == [kind |-> "notify", id |-> n]
<1>1. /\ log \in Seq(Types) /\ Len(log) < MaxEvents /\ MaxEvents \in Nat /\ Len(log) \in Nat
      /\ log' = Append(log, t) /\ micro' = Append(micro, m) /\ micro \in Seq(Microtasks)
      /\ UNCHANGED <<store, closed, subs, waiting, since>>
  BY LogConstants DEF LogConstants, LogInv, LogTypeOK, WorkIsInOrder, AppendEvent
<1>2. /\ log' \in Seq(Types) /\ Len(log') = n /\ \A id \in 1 .. Len(log) : log'[id] = log[id]
      /\ n \in EventIds
  BY <1>1 DEF EventIds
<1>3. m \in Microtasks /\ m.kind = "notify" /\ m.id = n
  BY <1>2 DEF Microtasks
<1> HIDE DEF m
<1>4. /\ micro' \in Seq(Microtasks)
      /\ \A id : Announced(id)' <=> Announced(id) \/ n = id
      /\ \A s, id : ToReplay(s, id)' <=> ToReplay(s, id)
  BY <1>1, <1>3, WorkIsAdded
<1>5. /\ Len(micro') = Len(micro) + 1 /\ Len(micro) \in Nat
      /\ \A k \in 1 .. Len(micro) : micro'[k] = micro[k]
      /\ micro'[Len(micro) + 1] = m
  BY <1>1, <1>3, AppendProperties
<1>6. LogTypeOK'
  <2>1. \A k \in DOMAIN micro' : \/ micro'[k] \in [kind : {"notify"}, id : EventIds]
                                \/ micro'[k] \in [kind : {"replay"}, to : Consumers, ids : Seq(EventIds)]
    BY <1>4, ElementOfSeq DEF Microtasks
  <2> QED
    BY <1>1, <1>2, <2>1 DEF LogInv, LogTypeOK
<1>7. WorkIsInOrder'
  <2>1. ASSUME NEW i \in 1 .. Len(micro'), NEW j \in 1 .. Len(micro'), i < j,
               micro'[i].kind = "notify", micro'[j].kind = "notify"
        PROVE  micro'[i].id < micro'[j].id
    <3>1. i \in 1 .. Len(micro) /\ micro'[i] = micro[i]
      BY <1>5, <2>1
    <3>2. CASE j \in 1 .. Len(micro)
      BY <1>5, <2>1, <3>1, <3>2 DEF LogInv, WorkIsInOrder
    <3>3. CASE j = Len(micro) + 1
      <4>1. Announced(micro[i].id) /\ micro[i].id \in EventIds
        <5>1. micro[i] \in Microtasks
          BY <1>1, <3>1, ElementOfSeq
        <5> QED
          BY <2>1, <3>1, <5>1 DEF Announced, Microtasks
      <4>2. micro[i].id <= Len(log) /\ micro[i].id \in Nat
        BY <4>1 DEF LogInv, WorkIsInOrder, EventIds
      <4> QED
        BY <1>1, <1>3, <1>5, <3>1, <3>3, <4>2
    <3> QED
      BY <1>5, <3>2, <3>3
  <2>2. \A id \in EventIds : Announced(id)' => id <= Len(log')
    <3>1. \A id \in EventIds : Announced(id) => id <= Len(log)
      BY DEF LogInv, WorkIsInOrder
    <3>2. \A id \in EventIds : id \in Nat
      BY DEF EventIds
    <3> QED
      BY <1>1, <1>2, <1>4, <3>1, <3>2
  <2>3. \A s \in Consumers, id \in EventIds :
          ToReplay(s, id)' => subs'[s].from # NoId /\ id > subs'[s].from /\ id <= Len(log')
    <3>1. \A s \in Consumers, id \in EventIds :
            ToReplay(s, id) => subs[s].from # NoId /\ id > subs[s].from /\ id <= Len(log)
      BY DEF LogInv, WorkIsInOrder
    <3> QED
      BY <1>1, <1>2, <1>4, <3>1 DEF EventIds
  <2> QED
    BY <1>4, <2>1, <2>2, <2>3 DEF WorkIsInOrder
<1>8. ASSUME NEW s \in Consumers PROVE ConsumerOK(s)'
  <2>1. Delivered(s)' = Delivered(s) /\ ConsumerOK(s) /\ since[s] \in Nat
    BY <1>1 DEF Delivered, LogInv, LogTypeOK
  <2>2. HasInOrder(s)'
    <3> DEFINE had == Delivered(s)
    <3>1. \A k \in 1 .. Len(had) : had[k] \in Nat
      <4>1. subs[s].taken \in Seq(EventIds) /\ subs[s].queue \in Seq(EventIds)
        BY DEF LogInv, LogTypeOK
      <4>2. had \in Seq(EventIds)
        BY <4>1, ConcatProperties DEF Delivered
      <4>3. \A x \in EventIds : x \in Nat
        BY DEF EventIds
      <4> HIDE DEF had
      <4> QED
        BY <4>2, <4>3, ElementOfSeq
    <3>2. /\ \A k \in 1 .. Len(had) : had[k] <= Len(log) /\ (subs[s].from # NoId => had[k] > subs[s].from)
          /\ subs[s].from = NoId =>
               /\ \A i, j \in 1 .. Len(had) : i < j => had[i] < had[j]
               /\ \A k \in 1 .. Len(had), id \in EventIds : Announced(id) => had[k] < id
      BY <2>1 DEF ConsumerOK, HasInOrder
    <3>3. had' = had /\ subs' = subs
      BY <1>1, <2>1
    <3>4. \A k \in 1 .. Len(had) : had[k] <= Len(log') /\ had[k] < n
      BY <1>1, <1>2, <3>1, <3>2
    <3>5. subs[s].from = NoId => \A k \in 1 .. Len(had), id \in EventIds : Announced(id)' => had[k] < id
      BY <1>4, <3>2, <3>4
    <3> HIDE DEF had
    <3>6. /\ \A k \in 1 .. Len(had') : had'[k] <= Len(log') /\ (subs'[s].from # NoId => had'[k] > subs'[s].from)
          /\ subs'[s].from = NoId =>
               /\ \A i, j \in 1 .. Len(had') : i < j => had'[i] < had'[j]
               /\ \A k \in 1 .. Len(had'), id \in EventIds : Announced(id)' => had'[k] < id
      BY <3>2, <3>3, <3>4, <3>5
    <3> QED
      BY <3>6 DEF HasInOrder, had
  <2>3. HasOrWill(s)'
    <3> SUFFICES ASSUME Open(s), closed => ~Durable, NEW id \in since[s] + 1 .. Len(log'), Admits(subs[s], id)'
                 PROVE  Held(s, id)' \/ Announced(id)' \/ ToReplay(s, id)'
      BY <1>1 DEF HasOrWill, Open, Durable
    <3>1. CASE id = n
      BY <1>4, <3>1
    <3>2. CASE id # n
      <4>1. id \in since[s] + 1 .. Len(log) /\ id \in 1 .. Len(log)
        BY <1>1, <1>2, <2>1, <3>2
      <4>2. Admits(subs[s], id)
        BY <1>1, <1>2, <4>1 DEF Admits
      <4>3. Held(s, id) \/ Announced(id) \/ ToReplay(s, id)
        BY <2>1, <4>1, <4>2 DEF ConsumerOK, HasOrWill
      <4>4. Held(s, id)' <=> Held(s, id)
        BY <2>1 DEF Held
      <4> QED
        BY <1>4, <4>3, <4>4
    <3> QED
      BY <3>1, <3>2
  <2> QED
    BY <1>1, <2>1, <2>2, <2>3 DEF ConsumerOK, Open
<1> QED
  BY <1>6, <1>7, <1>8 DEF LogInv

\* What is pending stays in order while nothing is added to it.
LEMMA WorkStays ==
  ASSUME LogInv, UNCHANGED log, \A s \in Consumers : subs'[s].from = subs[s].from,
         micro' = micro \/ (micro # <<>> /\ micro' = Tail(micro))
  PROVE  WorkIsInOrder'
<1>1. /\ micro \in Seq(Microtasks)
      /\ \A i, j \in 1 .. Len(micro) :
           i < j /\ micro[i].kind = "notify" /\ micro[j].kind = "notify" => micro[i].id < micro[j].id
      /\ \A id \in EventIds : Announced(id) => id <= Len(log)
      /\ \A s \in Consumers, id \in EventIds :
           ToReplay(s, id) => subs[s].from # NoId /\ id > subs[s].from /\ id <= Len(log)
  BY DEF LogInv, WorkIsInOrder
<1>2. /\ micro' \in Seq(Microtasks)
      /\ \A i, j \in 1 .. Len(micro') :
           i < j /\ micro'[i].kind = "notify" /\ micro'[j].kind = "notify" => micro'[i].id < micro'[j].id
      /\ \A id : Announced(id)' => Announced(id)
      /\ \A s, id : ToReplay(s, id)' => ToReplay(s, id)
  <2>1. CASE micro' = micro
    BY <1>1, <2>1 DEF Announced, ToReplay
  <2>2. CASE micro # <<>> /\ micro' = Tail(micro)
    <3>1. /\ micro' \in Seq(Microtasks)
          /\ \A k \in 1 .. Len(micro') : k + 1 \in 1 .. Len(micro) /\ micro'[k] = micro[k + 1]
          /\ \A id : Announced(id)' => Announced(id)
          /\ \A s, id : ToReplay(s, id)' => ToReplay(s, id)
      BY <1>1, <2>2, WorkIsDone
    <3>2. ASSUME NEW i \in 1 .. Len(micro'), NEW j \in 1 .. Len(micro'), i < j,
                 micro'[i].kind = "notify", micro'[j].kind = "notify"
          PROVE  micro'[i].id < micro'[j].id
      <4>1. /\ i + 1 \in 1 .. Len(micro) /\ micro'[i] = micro[i + 1]
            /\ j + 1 \in 1 .. Len(micro) /\ micro'[j] = micro[j + 1]
            /\ i + 1 < j + 1
        BY <3>1, <3>2
      <4> QED
        BY <1>1, <3>2, <4>1
    <3> QED
      BY <3>1, <3>2
  <2> QED
    BY <2>1, <2>2
<1> QED
  BY <1>1, <1>2 DEF WorkIsInOrder

LEMMA LogTyped ==
  ASSUME LogTypeOK, UNCHANGED <<store, log>>, closed' \in BOOLEAN,
         subs' \in [Consumers -> Subscription], waiting' \subseteq Consumers,
         since' \in [Consumers -> 0 .. MaxEvents], micro' \in Seq(Microtasks)
  PROVE  LogTypeOK'
<1>1. \A k \in DOMAIN micro' : \/ micro'[k] \in [kind : {"notify"}, id : EventIds]
                               \/ micro'[k] \in [kind : {"replay"}, to : Consumers, ids : Seq(EventIds)]
  BY ElementOfSeq DEF Microtasks
<1> QED
  BY <1>1 DEF LogTypeOK, Subscription

LEMMA SubscribeKeeps ==
  ASSUME LogInv, NEW s \in Consumers, NEW from \in 0 .. Len(log), NEW types \in SUBSET Types,
         Subscribe(s, from, types)
  PROVE  LogInv'
<1> DEFINE m == [kind |-> "replay", to |-> s, ids |-> RangeAfter(from)]
           fresh == [NotSubscribed EXCEPT !.state = "open", !.from = from, !.types = types]
<1>1. /\ log \in Seq(Types) /\ Len(log) <= MaxEvents /\ MaxEvents \in Nat /\ Len(log) \in Nat
      /\ micro \in Seq(Microtasks) /\ from \in Nat /\ from <= Len(log)
      /\ UNCHANGED <<store, log, closed, waiting>>
      /\ subs \in [Consumers -> Subscription] /\ since \in [Consumers -> 0 .. MaxEvents]
      /\ \A c \in Consumers : ConsumerOK(c)
      /\ LogTypeOK
  BY LogConstants DEF LogConstants, LogInv, LogTypeOK, WorkIsInOrder, Subscribe, Subscription
<1>2. /\ subs[s] = NotSubscribed /\ subs' = [subs EXCEPT ![s] = fresh]
      /\ since' = [since EXCEPT ![s] = IF from = NoId THEN Len(log) ELSE from]
  BY <1>1 DEF ConsumerOK, Subscribe
<1>3. /\ fresh \in Subscription /\ fresh.state = "open" /\ fresh.from = from
      /\ fresh.queue = <<>> /\ fresh.taken = <<>>
  <2>1. from \in 0 .. MaxEvents /\ NotSubscribed \in Subscription
    BY <1>1, EmptySeq DEF NotSubscribed, Subscription, NoId
  <2>2. NotSubscribed.queue = <<>> /\ NotSubscribed.taken = <<>>
    BY DEF NotSubscribed
  <2> QED
    BY <2>1, <2>2 DEF Subscription
<1>4. /\ RangeAfter(from) \in Seq(EventIds) /\ Len(RangeAfter(from)) = Len(log) - from
      /\ \A i \in 1 .. Len(log) - from : RangeAfter(from)[i] = from + i
  <2>1. Len(log) - from \in Nat /\ \A i \in 1 .. Len(log) - from : from + i \in EventIds
    BY <1>1 DEF EventIds
  <2> QED
    BY <2>1 DEF RangeAfter
<1>5. m \in Microtasks /\ m.kind = "replay" /\ m.to = s /\ m.ids = RangeAfter(from)
  BY <1>4 DEF Microtasks
<1> HIDE DEF m, fresh
<1>6. \/ from # NoId /\ ~(Durable /\ closed) /\ micro' = Append(micro, m)
      \/ (from = NoId \/ (Durable /\ closed)) /\ micro' = micro
  BY DEF Subscribe, m
<1>7. /\ micro' \in Seq(Microtasks)
      /\ \A id : Announced(id)' <=> Announced(id)
      /\ \A c, id : ToReplay(c, id)' <=>
           \/ ToReplay(c, id)
           \/ /\ from # NoId /\ ~(Durable /\ closed) /\ c = s
              /\ \E i \in 1 .. Len(RangeAfter(from)) : RangeAfter(from)[i] = id
  <2>1. CASE from # NoId /\ ~(Durable /\ closed) /\ micro' = Append(micro, m)
    <3>1. /\ micro' \in Seq(Microtasks)
          /\ \A id : Announced(id)' <=> Announced(id) \/ (m.kind = "notify" /\ m.id = id)
          /\ \A c, id : ToReplay(c, id)' <=> \/ ToReplay(c, id)
                                            \/ /\ m.kind = "replay" /\ m.to = c
                                               /\ \E i \in 1 .. Len(m.ids) : m.ids[i] = id
      BY <1>1, <1>5, <2>1, WorkIsAdded, Zenon
    <3> QED
      BY <1>5, <2>1, <3>1
  <2>2. CASE (from = NoId \/ (Durable /\ closed)) /\ micro' = micro
    BY <1>1, <2>2 DEF Announced, ToReplay
  <2> QED
    BY <1>6, <2>1, <2>2
<1>8. \A c \in Consumers : c # s => subs'[c] = subs[c] /\ since'[c] = since[c]
  BY <1>1, <1>2
<1>9. subs'[s] = fresh /\ since'[s] = IF from = NoId THEN Len(log) ELSE from
  BY <1>1, <1>2
<1>10. LogTypeOK'
  <2>1. subs' \in [Consumers -> Subscription] /\ since' \in [Consumers -> 0 .. MaxEvents]
    BY <1>1, <1>2, <1>3
  <2> QED
    BY <1>1, <1>7, <2>1, LogTyped DEF LogTypeOK
<1>11. WorkIsInOrder'
  <2>1. /\ \A i, j \in 1 .. Len(micro) :
             i < j /\ micro[i].kind = "notify" /\ micro[j].kind = "notify" => micro[i].id < micro[j].id
        /\ \A id \in EventIds : Announced(id) => id <= Len(log)
        /\ \A c \in Consumers, id \in EventIds :
             ToReplay(c, id) => subs[c].from # NoId /\ id > subs[c].from /\ id <= Len(log)
    BY DEF LogInv, WorkIsInOrder
  <2>2. \A i, j \in 1 .. Len(micro') :
          i < j /\ micro'[i].kind = "notify" /\ micro'[j].kind = "notify" => micro'[i].id < micro'[j].id
    <3>1. CASE micro' = Append(micro, m)
      <4>1. /\ Len(micro') = Len(micro) + 1 /\ Len(micro) \in Nat
            /\ \A k \in 1 .. Len(micro) : micro'[k] = micro[k]
            /\ micro'[Len(micro) + 1] = m
        BY <1>1, <1>5, <3>1, AppendProperties
      <4>2. \A k \in 1 .. Len(micro') : micro'[k].kind = "notify" => k \in 1 .. Len(micro)
        BY <1>5, <4>1
      <4> QED
        BY <2>1, <4>1, <4>2
    <3> QED
      BY <1>6, <2>1, <3>1
  <2>3. ASSUME NEW c \in Consumers, NEW id \in EventIds, ToReplay(c, id)'
        PROVE  subs'[c].from # NoId /\ id > subs'[c].from /\ id <= Len(log')
    <3>1. CASE ToReplay(c, id)
      <4>1. c # s
        BY <1>2, <2>1, <3>1 DEF NotSubscribed
      <4> QED
        BY <1>1, <1>8, <2>1, <3>1, <4>1
    <3>2. CASE from # NoId /\ c = s /\ \E i \in 1 .. Len(RangeAfter(from)) : RangeAfter(from)[i] = id
      <4>1. PICK i \in 1 .. Len(log) - from : from + i = id
        BY <1>4, <3>2
      <4> QED
        BY <1>1, <1>3, <1>9, <3>2, <4>1
    <3> QED
      BY <1>7, <2>3, <3>1, <3>2
  <2> QED
    BY <1>1, <1>7, <2>1, <2>2, <2>3 DEF WorkIsInOrder
<1>12. ASSUME NEW c \in Consumers PROVE ConsumerOK(c)'
  <2>1. CASE c = s
    <3>1. Delivered(s)' = <<>>
      BY <1>3, <1>9 DEF Delivered
    <3>2. HasInOrder(s)'
      BY <3>1 DEF HasInOrder
    <3>3. HasOrWill(s)'
      <4> SUFFICES ASSUME closed => ~Durable, NEW id \in since'[s] + 1 .. Len(log) PROVE ToReplay(s, id)'
        BY <1>1 DEF HasOrWill, Durable
      <4>1. from # NoId /\ id - from \in 1 .. Len(log) - from /\ RangeAfter(from)[id - from] = id
        BY <1>1, <1>4, <1>9
      <4> QED
        BY <1>4, <1>7, <4>1
    <3>4. s \notin waiting
      BY <1>1, <1>2 DEF ConsumerOK, Open, NotSubscribed
    <3> QED
      BY <1>1, <1>3, <1>9, <2>1, <3>2, <3>3, <3>4 DEF ConsumerOK
  <2>2. CASE c # s
    <3>1. subs'[c] = subs[c] /\ since'[c] = since[c]
      BY <1>8, <2>2
    <3>2. Delivered(c)' = Delivered(c) /\ (Open(c)' <=> Open(c))
      BY <3>1 DEF Delivered, Open
    <3>3. c \in waiting' => Open(c)' /\ subs'[c].queue = <<>>
      BY <1>1, <3>1, <3>2 DEF ConsumerOK
    <3> QED
      BY <1>1, <1>7, <3>1, <3>2, <3>3, UntouchedConsumer
  <2> QED
    BY <2>1, <2>2
<1> QED
  BY <1>10, <1>11, <1>12 DEF LogInv

\* Reading one moves it; what was given is the same.
LEMMA TakenIsStillDelivered ==
  ASSUME NEW a \in Seq(EventIds), NEW b \in Seq(EventIds), b # <<>>
  PROVE  /\ Append(a, Head(b)) \in Seq(EventIds) /\ Tail(b) \in Seq(EventIds)
         /\ Append(a, Head(b)) \o Tail(b) = a \o b
<1>1. /\ Head(b) \in EventIds /\ Tail(b) \in Seq(EventIds) /\ Len(Tail(b)) = Len(b) - 1
      /\ Len(b) \in Nat /\ Len(b) > 0 /\ Head(b) = b[1]
      /\ \A k \in 1 .. Len(Tail(b)) : Tail(b)[k] = b[k + 1]
  BY HeadTailProperties
<1> DEFINE c == Append(a, Head(b))  d == c \o Tail(b)  e == a \o b
<1>2. /\ c \in Seq(EventIds) /\ Len(c) = Len(a) + 1 /\ Len(a) \in Nat
      /\ \A k \in 1 .. Len(a) : c[k] = a[k]
      /\ c[Len(a) + 1] = Head(b)
  BY <1>1, AppendProperties
<1>3. /\ e \in Seq(EventIds) /\ Len(e) = Len(a) + Len(b)
      /\ \A k \in 1 .. Len(a) + Len(b) : e[k] = IF k <= Len(a) THEN a[k] ELSE b[k - Len(a)]
  BY ConcatProperties
<1> HIDE DEF c, e
<1>4. /\ d \in Seq(EventIds) /\ Len(d) = Len(c) + Len(Tail(b))
      /\ \A k \in 1 .. Len(c) + Len(Tail(b)) : d[k] = IF k <= Len(c) THEN c[k] ELSE Tail(b)[k - Len(c)]
  BY <1>1, <1>2, ConcatProperties
<1> HIDE DEF d
<1>5. \A k \in 1 .. Len(e) : d[k] = e[k]
  <2> TAKE k \in 1 .. Len(e)
  <2>1. k \in 1 .. Len(a) + Len(b) /\ k \in 1 .. Len(c) + Len(Tail(b))
    BY <1>1, <1>2, <1>3
  <2>2. CASE k <= Len(a)
    BY <1>2, <1>3, <1>4, <2>1, <2>2
  <2>3. CASE k = Len(a) + 1
    <3>1. k - Len(a) = 1 /\ ~(k <= Len(a)) /\ k <= Len(c)
      BY <1>2, <2>3
    <3> QED
      BY <1>1, <1>2, <1>3, <1>4, <2>1, <2>3, <3>1
  <2>4. CASE k > Len(a) + 1
    <3>1. ~(k <= Len(c)) /\ k - Len(c) \in 1 .. Len(Tail(b)) /\ (k - Len(c)) + 1 = k - Len(a) /\ ~(k <= Len(a))
      BY <1>1, <1>2, <2>1, <2>4
    <3>2. d[k] = Tail(b)[k - Len(c)] /\ e[k] = b[k - Len(a)]
      BY <1>3, <1>4, <2>1, <3>1
    <3>3. Tail(b)[k - Len(c)] = b[(k - Len(c)) + 1]
      BY <1>1, <3>1
    <3> QED
      BY <3>1, <3>2, <3>3
  <2> QED
    BY <1>2, <2>1, <2>2, <2>3, <2>4
<1>6. d = e
  <2>1. Len(d) = Len(e)
    BY <1>1, <1>2, <1>3, <1>4
  <2> QED
    BY <1>3, <1>4, <1>5, <2>1, SeqEqual
<1> QED
  BY <1>1, <1>2, <1>6 DEF c, d, e

LEMMA TakeNextKeeps ==
  ASSUME LogInv, NEW s \in Consumers, TakeNext(s)
  PROVE  LogInv'
<1>1. /\ LogTypeOK /\ subs \in [Consumers -> Subscription] /\ micro \in Seq(Microtasks)
      /\ waiting \subseteq Consumers /\ since \in [Consumers -> 0 .. MaxEvents] /\ closed \in BOOLEAN
      /\ UNCHANGED <<store, log, closed, micro, since>>
      /\ \A c \in Consumers : ConsumerOK(c)
  BY DEF LogInv, LogTypeOK, WorkIsInOrder, TakeNext, Subscription
<1>2. \A id : (Announced(id)' <=> Announced(id)) /\ \A c : ToReplay(c, id)' <=> ToReplay(c, id)
  BY <1>1 DEF Announced, ToReplay
<1> DEFINE taken == subs[s].taken  queue == subs[s].queue
<1>3. subs[s] \in Subscription /\ taken \in Seq(EventIds) /\ queue \in Seq(EventIds)
  BY <1>1 DEF Subscription
<1>4. /\ subs' \in [Consumers -> Subscription] /\ waiting' \subseteq Consumers
      /\ \A c \in Consumers : c # s => subs'[c] = subs[c] /\ (c \in waiting' <=> c \in waiting)
      /\ subs'[s].state = subs[s].state /\ subs[s].state # "none"
      /\ subs'[s].from = subs[s].from /\ subs'[s].types = subs[s].types
      /\ subs'[s].taken \o subs'[s].queue = taken \o queue
      /\ s \in waiting' => Open(s)' /\ subs'[s].queue = <<>>
  <2>1. CASE queue # <<>>
    <3>1. subs' = [subs EXCEPT ![s].taken = Append(taken, Head(queue)), ![s].queue = Tail(queue)]
          /\ waiting' = waiting /\ s \notin waiting /\ subs[s].state # "none"
      BY <2>1 DEF TakeNext
    <3>2. /\ Append(taken, Head(queue)) \in Seq(EventIds) /\ Tail(queue) \in Seq(EventIds)
          /\ Append(taken, Head(queue)) \o Tail(queue) = taken \o queue
      BY <1>3, <2>1, TakenIsStillDelivered
    <3> DEFINE now == [subs[s] EXCEPT !.taken = Append(taken, Head(queue)), !.queue = Tail(queue)]
    <3>3. /\ now \in Subscription /\ now.state = subs[s].state /\ now.from = subs[s].from
          /\ now.types = subs[s].types /\ now.taken = Append(taken, Head(queue)) /\ now.queue = Tail(queue)
      BY <1>3, <3>2 DEF Subscription
    <3>4. subs' = [subs EXCEPT ![s] = now]
      BY <3>1
    <3> HIDE DEF now
    <3> QED
      BY <1>1, <3>1, <3>2, <3>3, <3>4
  <2>2. CASE queue = <<>>
    <3>1. Open(s) /\ waiting' = waiting \cup {s} /\ subs' = subs /\ subs[s].state # "none"
      BY <2>2 DEF TakeNext
    <3> QED
      BY <1>1, <2>2, <3>1 DEF Open
  <2> QED
    BY <2>1, <2>2
<1>5. LogTypeOK'
  BY <1>1, <1>4, LogTyped
<1>6. WorkIsInOrder'
  <2>1. \A c \in Consumers : subs'[c].from = subs[c].from
    BY <1>4
  <2> QED
    BY <1>1, <2>1, WorkStays
<1>7. ASSUME NEW c \in Consumers PROVE ConsumerOK(c)'
  <2>1. Delivered(c)' = Delivered(c) /\ (Open(c)' <=> Open(c))
    BY <1>4 DEF Delivered, Open
  <2>2. /\ subs'[c].state = subs[c].state /\ subs'[c].from = subs[c].from /\ subs'[c].types = subs[c].types
        /\ subs[c].state = "none" => subs'[c] = subs[c]
    BY <1>4
  <2>3. c \in waiting' => Open(c)' /\ subs'[c].queue = <<>>
    BY <1>1, <1>4, <2>1 DEF ConsumerOK
  <2> QED
    BY <1>1, <1>2, <2>1, <2>2, <2>3, UntouchedConsumer
<1> QED
  BY <1>5, <1>6, <1>7 DEF LogInv

\* A consumer whose queue is closed has what it had, and is owed nothing.
LEMMA ClosedConsumer ==
  ASSUME LogInv, NEW s \in Consumers, Open(s), subs'[s] = [subs[s] EXCEPT !.state = "closed"],
         UNCHANGED <<store, log, micro, since>>, closed => closed', s \notin waiting'
  PROVE  ConsumerOK(s)' /\ subs'[s] \in Subscription /\ subs'[s].from = subs[s].from
<1>1. subs[s] \in Subscription
  BY DEF LogInv, LogTypeOK, Subscription
<1>2. /\ subs'[s] \in Subscription /\ subs'[s].state = "closed" /\ subs'[s].from = subs[s].from
      /\ subs'[s].types = subs[s].types /\ subs'[s].taken = subs[s].taken /\ subs'[s].queue = subs[s].queue
  BY <1>1 DEF Subscription
<1>3. Delivered(s)' = Delivered(s) /\ ~Open(s)' /\ subs[s].state # "none"
  BY <1>2 DEF Delivered, Open
<1>4. \A id : Announced(id)' <=> Announced(id)
  BY DEF Announced
<1>5. ConsumerOK(s)'
  BY <1>2, <1>3, <1>4, UntouchedConsumer
<1> QED
  BY <1>2, <1>5

\* Nor does one nothing happens to change.
LEMMA SameConsumer ==
  ASSUME LogInv, NEW s \in Consumers, UNCHANGED <<store, log, micro, subs[s], since[s]>>,
         closed => closed', s \in waiting' => s \in waiting
  PROVE  ConsumerOK(s)'
<1>1. /\ Delivered(s)' = Delivered(s) /\ (Open(s)' <=> Open(s))
      /\ \A id : (Announced(id)' <=> Announced(id)) /\ (ToReplay(s, id)' <=> ToReplay(s, id))
  BY DEF Delivered, Open, Announced, ToReplay
<1>2. s \in waiting' => Open(s)' /\ subs'[s].queue = <<>>
  BY <1>1 DEF LogInv, ConsumerOK
<1> QED
  BY <1>1, <1>2, UntouchedConsumer

LEMMA EndIterationKeeps ==
  ASSUME LogInv, NEW s \in Consumers, EndIteration(s)
  PROVE  LogInv'
<1>1. /\ LogTypeOK /\ subs \in [Consumers -> Subscription] /\ micro \in Seq(Microtasks)
      /\ waiting \subseteq Consumers /\ since \in [Consumers -> 0 .. MaxEvents] /\ closed \in BOOLEAN
      /\ UNCHANGED <<store, log, closed, micro, since>> /\ waiting' = waiting \ {s}
      /\ Open(s) /\ subs' = [subs EXCEPT ![s].state = "closed"]
  BY DEF LogInv, LogTypeOK, WorkIsInOrder, EndIteration, Subscription
<1>2. /\ subs'[s] = [subs[s] EXCEPT !.state = "closed"]
      /\ \A c \in Consumers : c # s => subs'[c] = subs[c]
  BY <1>1
<1>3. ConsumerOK(s)' /\ subs'[s] \in Subscription /\ subs'[s].from = subs[s].from
  BY <1>1, <1>2, ClosedConsumer
<1>4. \A c \in Consumers : c # s => ConsumerOK(c)'
  BY <1>1, <1>2, SameConsumer
<1>5. LogTypeOK'
  <2>1. subs' \in [Consumers -> Subscription]
    BY <1>1, <1>2, <1>3
  <2> QED
    BY <1>1, <2>1, LogTyped
<1>6. WorkIsInOrder'
  <2>1. \A c \in Consumers : subs'[c].from = subs[c].from
    BY <1>2, <1>3
  <2> QED
    BY <1>1, <2>1, WorkStays
<1> QED
  BY <1>3, <1>4, <1>5, <1>6 DEF LogInv

LEMMA CloseKeeps ==
  ASSUME LogInv, Close
  PROVE  LogInv'
<1>1. /\ LogTypeOK /\ subs \in [Consumers -> Subscription] /\ micro \in Seq(Microtasks)
      /\ waiting \subseteq Consumers /\ since \in [Consumers -> 0 .. MaxEvents]
      /\ UNCHANGED <<store, log, micro, since>> /\ closed' = TRUE
  BY DEF LogInv, LogTypeOK, WorkIsInOrder, Close, Subscription
<1>2. \A c \in Consumers :
        \/ subs'[c] = subs[c] /\ (c \in waiting' => c \in waiting)
        \/ Open(c) /\ subs'[c] = [subs[c] EXCEPT !.state = "closed"] /\ c \notin waiting'
  BY <1>1 DEF Close
<1>3. \A c \in Consumers : ConsumerOK(c)' /\ subs'[c] \in Subscription /\ subs'[c].from = subs[c].from
  <2> TAKE c \in Consumers
  <2>1. CASE subs'[c] = subs[c] /\ (c \in waiting' => c \in waiting)
    BY <1>1, <2>1, SameConsumer
  <2>2. CASE Open(c) /\ subs'[c] = [subs[c] EXCEPT !.state = "closed"] /\ c \notin waiting'
    BY <1>1, <2>2, ClosedConsumer
  <2> QED
    BY <1>2, <2>1, <2>2
<1>4. subs' \in [Consumers -> Subscription] /\ waiting' \subseteq Consumers
  <2>1. DOMAIN subs' = Consumers /\ subs' = [c \in DOMAIN subs' |-> subs'[c]] /\ waiting' \subseteq Consumers
    BY <1>1 DEF Close
  <2> QED
    BY <1>3, <2>1
<1>5. LogTypeOK' /\ WorkIsInOrder'
  BY <1>1, <1>3, <1>4, LogTyped, WorkStays
<1> QED
  BY <1>3, <1>5 DEF LogInv

LEMMA RestartKeeps ==
  ASSUME LogInv, Restart
  PROVE  LogInv'
<1>1. /\ UNCHANGED <<store, log>> /\ closed' = FALSE /\ micro' = <<>>
      /\ subs' = [s \in Consumers |-> NotSubscribed] /\ waiting' = {}
      /\ since' = [s \in Consumers |-> 0] /\ LogTypeOK
  BY DEF LogInv, Restart
<1>2. /\ NotSubscribed \in Subscription /\ 0 \in 0 .. MaxEvents
      /\ <<>> \in Seq(Microtasks) /\ <<>> \in Seq(EventIds)
  BY LogConstants, EmptySeq DEF LogConstants, NotSubscribed, Subscription, NoId
<1>3. LogTypeOK'
  BY <1>1, <1>2, LogTyped
<1>4. WorkIsInOrder'
  BY <1>1, <1>2 DEF WorkIsInOrder, Announced, ToReplay
<1>5. ASSUME NEW s \in Consumers PROVE ConsumerOK(s)'
  <2>1. subs'[s] = NotSubscribed
    BY <1>1
  <2>2. Delivered(s)' = <<>>
    BY <2>1 DEF Delivered, NotSubscribed
  <2>3. HasInOrder(s)'
    BY <2>2 DEF HasInOrder
  <2> QED
    BY <1>1, <2>1, <2>3 DEF ConsumerOK, HasOrWill, Open, NotSubscribed, NoId
<1> QED
  BY <1>3, <1>4, <1>5 DEF LogInv

\* A subscription that hears the event has it behind what it had, before what is
\* still to be announced.
LEMMA HearerKeeps ==
  ASSUME LogInv, NEW s \in Consumers, Notify, Hears(s, Head(micro).id)
  PROVE  ConsumerOK(s)' /\ subs'[s] \in Subscription /\ subs'[s].from = subs[s].from
<1> DEFINE id == Head(micro).id
<1>1. /\ micro \in Seq(Microtasks) /\ micro # <<>> /\ micro' = Tail(micro) /\ Head(micro).kind = "notify"
      /\ UNCHANGED <<store, log, closed, since>> /\ ConsumerOK(s)
      /\ subs'[s] = Pushed(subs[s], <<id>>, s \in waiting)
      /\ s \notin waiting' /\ subs[s] \in Subscription
  BY DEF LogInv, LogTypeOK, WorkIsInOrder, Notify, Subscription
<1>2. /\ Head(micro) \in Microtasks /\ Head(micro) = micro[1] /\ 1 \in 1 .. Len(micro)
      /\ \A k \in 1 .. Len(micro') : k + 1 \in 1 .. Len(micro) /\ micro'[k] = micro[k + 1]
      /\ \A x : Announced(x) <=> Announced(x)' \/ id = x
      /\ \A x : ToReplay(s, x) <=> ToReplay(s, x)'
  BY <1>1, WorkIsDone
<1>3. id \in EventIds /\ id \in Nat /\ Announced(id)
  BY <1>1, <1>2 DEF Microtasks, EventIds
<1>4. <<id>> \in Seq(EventIds) /\ Len(<<id>>) = 1 /\ <<id>>[1] = id
  BY <1>3
<1>5. Open(s) /\ (subs[s].from = NoId \/ subs[s].from < id)
  BY DEF Hears
<1>6. s \in waiting => subs[s].queue = <<>>
  BY <1>1 DEF ConsumerOK
<1> HIDE DEF id
<1>7. /\ subs'[s] \in Subscription /\ subs'[s].state = "open"
      /\ subs'[s].from = subs[s].from /\ subs'[s].types = subs[s].types
      /\ subs'[s].taken \o subs'[s].queue = (subs[s].taken \o subs[s].queue) \o <<id>>
  BY <1>1, <1>4, <1>5, <1>6, PushedIsBehind
<1>8. PICK more \in Seq(EventIds) : more = <<id>>
  BY <1>4
<1>9. Len(more) = 1 /\ more[1] = id
  BY <1>4, <1>8
<1>10. Delivered(s)' = Delivered(s) \o more
  BY <1>7, <1>8 DEF Delivered
<1>11. \A x \in EventIds : Announced(x)' => id < x
  <2> SUFFICES ASSUME NEW x \in EventIds, NEW k \in 1 .. Len(micro'), micro'[k].kind = "notify", micro'[k].id = x
               PROVE  id < x
    BY DEF Announced
  <2>1. k + 1 \in 1 .. Len(micro) /\ micro'[k] = micro[k + 1] /\ 1 < k + 1
    BY <1>2
  <2>2. micro[1].id < micro[k + 1].id
    BY <1>1, <1>2, <2>1 DEF LogInv, WorkIsInOrder
  <2> QED
    BY <1>2, <2>1, <2>2 DEF id
<1>12. subs[s].from = NoId => \A k \in 1 .. Len(Delivered(s)) : Delivered(s)[k] < id
  BY <1>1, <1>3 DEF ConsumerOK, HasInOrder
<1>13. id <= Len(log)
  BY <1>3 DEF LogInv, WorkIsInOrder
<1>14. \A i \in 1 .. Len(more) : i = 1 /\ more[i] = id
  BY <1>9
<1>15. \E i \in 1 .. Len(more) : more[i] = id
  BY <1>9
<1>16. /\ \A i \in 1 .. Len(more) : more[i] <= Len(log) /\ (subs[s].from # NoId => more[i] > subs[s].from)
       /\ \A i, j \in 1 .. Len(more) : i < j => more[i] < more[j]
       /\ \A i \in 1 .. Len(more) : \A x \in EventIds : Announced(x)' => more[i] < x
       /\ subs[s].from = NoId =>
            \A i \in 1 .. Len(more) : \A k \in 1 .. Len(Delivered(s)) : Delivered(s)[k] < more[i]
  <2>1. subs[s].from \in Nat
    BY <1>1 DEF Subscription
  <2>2. \A i, j \in 1 .. Len(more) : ~(i < j)
    BY <1>9
  <2> QED
    BY <1>3, <1>5, <1>11, <1>12, <1>13, <1>14, <2>1, <2>2
<1>17. /\ Open(s)' /\ subs[s].state = "open" /\ (\A x \in EventIds : Announced(x)' => Announced(x))
       /\ \A x \in EventIds : Announced(x) \/ ToReplay(s, x) =>
            Announced(x)' \/ ToReplay(s, x)' \/ \E i \in 1 .. Len(more) : more[i] = x
  BY <1>2, <1>5, <1>7, <1>15 DEF Open
<1>18. ConsumerOK(s)'
  BY <1>1, <1>5, <1>7, <1>10, <1>16, <1>17, GivenConsumer
<1> QED
  BY <1>7, <1>18

LEMMA NotifyKeeps ==
  ASSUME LogInv, Notify
  PROVE  LogInv'
<1> DEFINE id == Head(micro).id
<1>1. /\ LogTypeOK /\ subs \in [Consumers -> Subscription] /\ micro \in Seq(Microtasks)
      /\ waiting \subseteq Consumers /\ since \in [Consumers -> 0 .. MaxEvents] /\ closed \in BOOLEAN
      /\ micro # <<>> /\ micro' = Tail(micro) /\ Head(micro).kind = "notify"
      /\ UNCHANGED <<store, log, closed, since>>
      /\ waiting' \subseteq waiting
  BY DEF LogInv, LogTypeOK, WorkIsInOrder, Notify, Subscription
<1>2. /\ Head(micro) \in Microtasks
      /\ micro' \in Seq(Microtasks)
      /\ \A x : Announced(x) <=> Announced(x)' \/ id = x
      /\ \A c, x : ToReplay(c, x) <=> ToReplay(c, x)'
  BY <1>1, WorkIsDone
<1>3. id \in Nat
  BY <1>1, <1>2 DEF Microtasks, EventIds
<1>4. ASSUME NEW c \in Consumers
      PROVE  ConsumerOK(c)' /\ subs'[c] \in Subscription /\ subs'[c].from = subs[c].from
  <2>1. CASE Hears(c, id)
    BY <2>1, HearerKeeps
  <2>2. CASE ~Hears(c, id)
    <3>1. subs'[c] = subs[c] /\ (c \in waiting' => c \in waiting) /\ subs[c] \in Subscription /\ ConsumerOK(c)
          /\ since[c] \in Nat /\ since'[c] = since[c]
      BY <1>1, <2>2 DEF LogInv, Notify
    <3>2. Delivered(c)' = Delivered(c) /\ (Open(c)' <=> Open(c))
      BY <3>1 DEF Delivered, Open
    <3>3. c \in waiting' => Open(c)' /\ subs'[c].queue = <<>>
      BY <3>1, <3>2 DEF ConsumerOK
    <3>4. ASSUME NEW x \in EventIds, Open(c)', x > since[c], Admits(subs[c], x), Announced(x) \/ ToReplay(c, x)
          PROVE  Announced(x)' \/ ToReplay(c, x)'
      <4>1. x # id
        <5> SUFFICES ASSUME x = id PROVE FALSE
          OBVIOUS
        <5>1. subs[c].from # NoId /\ ~(subs[c].from < id)
          BY <2>2, <3>2, <3>4 DEF Hears
        <5>2. since[c] = subs[c].from
          BY <3>1, <5>1 DEF ConsumerOK
        <5> QED
          BY <1>3, <3>1, <3>4, <5>1, <5>2
      <4> QED
        BY <1>2, <3>4, <4>1
    <3>5. \A x \in EventIds : Announced(x)' => Announced(x)
      BY <1>2
    <3>6. ConsumerOK(c)'
      BY <1>1, <3>1, <3>2, <3>3, <3>4, <3>5, UntouchedConsumer
    <3> QED
      BY <3>1, <3>6
  <2> QED
    BY <2>1, <2>2
<1>5. subs' \in [Consumers -> Subscription]
  <2>1. DOMAIN subs' = Consumers /\ subs' = [c \in DOMAIN subs' |-> subs'[c]]
    BY DEF Notify
  <2> QED
    BY <1>4, <2>1
<1>6. LogTypeOK' /\ WorkIsInOrder'
  BY <1>1, <1>2, <1>4, <1>5, LogTyped, WorkStays
<1> QED
  BY <1>4, <1>6 DEF LogInv

LEMMA ReplayKeeps ==
  ASSUME LogInv, Replay
  PROVE  LogInv'
<1>0. SUFFICES ASSUME NEW s, s = Head(micro).to, NEW all, all = Head(micro).ids,
                      NEW K, K = {k \in DOMAIN all : Admits(subs[s], all[k])},
                      NEW more, more = Selected(all, K)
               PROVE  LogInv'
  OBVIOUS
<1>1. /\ LogTypeOK /\ subs \in [Consumers -> Subscription] /\ micro \in Seq(Microtasks)
      /\ waiting \subseteq Consumers /\ since \in [Consumers -> 0 .. MaxEvents] /\ closed \in BOOLEAN
      /\ micro # <<>> /\ micro' = Tail(micro) /\ Head(micro).kind = "replay"
      /\ UNCHANGED <<store, log, closed, since>>
      /\ waiting' = IF Open(s) /\ more # <<>> THEN waiting \ {s} ELSE waiting
      /\ \A c \in Consumers : ConsumerOK(c)
  BY <1>0 DEF LogInv, LogTypeOK, WorkIsInOrder, Replay, Subscription
<1>2. Head(micro) \in Microtasks /\ Head(micro) = micro[1] /\ 1 \in 1 .. Len(micro) /\ micro' \in Seq(Microtasks)
  BY <1>1, WorkIsDone
<1>3. s \in Consumers /\ all \in Seq(EventIds)
  BY <1>0, <1>1, <1>2 DEF Microtasks
<1>4. /\ \A x : Announced(x) <=> Announced(x)'
      /\ \A c, x : ToReplay(c, x) <=> ToReplay(c, x)' \/ (s = c /\ \E i \in 1 .. Len(all) : all[i] = x)
  BY <1>0, <1>1, WorkIsDone
<1>5. more \in Seq(EventIds) /\ \E at : Embeds(at, more, all, K, Len(all))
  BY <1>0, <1>3, SelectedIsASubsequence
<1>6. /\ \A i \in 1 .. Len(more) : \E k \in 1 .. Len(all) : more[i] = all[k]
      /\ \A k \in 1 .. Len(all) : Admits(subs[s], all[k]) => \E i \in 1 .. Len(more) : more[i] = all[k]
  <2>1. K = {k \in 1 .. Len(all) : Admits(subs[s], all[k])}
    <3>1. DOMAIN all = 1 .. Len(all)
      BY <1>3
    <3> QED
      BY <1>0, <3>1
  <2>2. PICK at : Embeds(at, more, all, K, Len(all))
    BY <1>5
  <2>3. /\ \A i \in 1 .. Len(more) : at[i] \in 1 .. Len(all) /\ more[i] = all[at[i]]
        /\ \A k \in 1 .. Len(all) : k \in K => \E i \in 1 .. Len(more) : at[i] = k
    BY <2>2 DEF Embeds
  <2>4. \A k \in 1 .. Len(all) : Admits(subs[s], all[k]) => k \in K
    BY <2>1
  <2>5. \A i \in 1 .. Len(more) : \E k \in 1 .. Len(all) : more[i] = all[k]
    BY <2>3
  <2>6. \A k \in 1 .. Len(all) : Admits(subs[s], all[k]) => \E i \in 1 .. Len(more) : more[i] = all[k]
    <3> TAKE k \in 1 .. Len(all)
    <3> HAVE Admits(subs[s], all[k])
    <3>1. PICK i \in 1 .. Len(more) : at[i] = k
      BY <2>3, <2>4
    <3> QED
      BY <2>3, <3>1
  <2> QED
    BY <2>5, <2>6
<1>13. UNCHANGED <<store, log, closed, since>> /\ since'[s] = since[s]
  BY <1>1
<1>7. \A i \in 1 .. Len(more) : /\ more[i] \in EventIds
                                /\ subs[s].from # NoId /\ more[i] > subs[s].from /\ more[i] <= Len(log)
  <2> TAKE i \in 1 .. Len(more)
  <2>1. more[i] \in EventIds
    BY <1>5, ElementOfSeq
  <2>2. ToReplay(s, more[i])
    BY <1>4, <1>6
  <2> QED
    BY <1>3, <2>1, <2>2 DEF LogInv, WorkIsInOrder
<1>8. /\ \A c \in Consumers : c # s => /\ subs'[c] = subs[c] /\ (c \in waiting' <=> c \in waiting)
      /\ subs'[s] = Pushed(subs[s], more, s \in waiting)
      /\ DOMAIN subs' = Consumers /\ subs' = [c \in DOMAIN subs' |-> subs'[c]]
  <2>1. subs' = [subs EXCEPT ![s] = Pushed(subs[s], more, s \in waiting)]
    BY <1>0 DEF Replay
  <2> QED
    BY <1>1, <1>3, <2>1
<1>9. subs[s] \in Subscription /\ ConsumerOK(s)
  BY <1>1, <1>3
<1>10. ConsumerOK(s)' /\ subs'[s] \in Subscription /\ subs'[s].from = subs[s].from
  <2>1. CASE Open(s)
    <3>1. s \in waiting => subs[s].queue = <<>>
      BY <1>9 DEF ConsumerOK
    <3>2. /\ subs'[s] \in Subscription /\ subs'[s].state = "open"
          /\ subs'[s].from = subs[s].from /\ subs'[s].types = subs[s].types
          /\ subs'[s].taken \o subs'[s].queue = (subs[s].taken \o subs[s].queue) \o more
          /\ more = <<>> => subs'[s] = subs[s]
      BY <1>3, <1>5, <1>8, <1>9, <2>1, <3>1, PushedIsBehind
    <3>3. Delivered(s)' = Delivered(s) \o more
      BY <3>2 DEF Delivered
    <3>4. s \in waiting' => Open(s)' /\ subs'[s].queue = <<>>
      <4>1. s \in waiting' => more = <<>> /\ s \in waiting
        BY <1>1, <2>1
      <4> QED
        BY <2>1, <3>1, <3>2, <4>1 DEF Open
    <3>5. ASSUME NEW x \in EventIds, Admits(subs[s], x), Announced(x) \/ ToReplay(s, x)
          PROVE  Announced(x)' \/ ToReplay(s, x)' \/ \E i \in 1 .. Len(more) : more[i] = x
      <4>1. Announced(x)' \/ ToReplay(s, x)' \/ \E k \in 1 .. Len(all) : all[k] = x
        BY <1>4, <3>5
      <4>2. ASSUME NEW k \in 1 .. Len(all), all[k] = x PROVE \E i \in 1 .. Len(more) : more[i] = x
        <5>1. Admits(subs[s], all[k])
          BY <3>5, <4>2 DEF Admits
        <5> QED
          BY <1>6, <4>2, <5>1
      <4> QED
        BY <4>1, <4>2
    <3>6. /\ \A i \in 1 .. Len(more) : more[i] <= Len(log) /\ (subs[s].from # NoId => more[i] > subs[s].from)
          /\ subs[s].from = NoId =>
               /\ \A i, j \in 1 .. Len(more) : i < j => more[i] < more[j]
               /\ \A i \in 1 .. Len(more) : \A x \in EventIds : Announced(x)' => more[i] < x
               /\ \A i \in 1 .. Len(more) : \A k \in 1 .. Len(Delivered(s)) : Delivered(s)[k] < more[i]
      BY <1>7
    <3>7. /\ Open(s)' /\ subs[s].state = "open" /\ (\A x \in EventIds : Announced(x)' => Announced(x))
          /\ since'[s] = since[s]
      BY <1>1, <1>4, <2>1, <3>2 DEF Open
    <3>9. \A x \in EventIds :
            /\ Open(s)' /\ x > since[s] /\ x <= Len(log) /\ Admits(subs[s], x)
            /\ Announced(x) \/ ToReplay(s, x)
            => Announced(x)' \/ ToReplay(s, x)' \/ \E i \in 1 .. Len(more) : more[i] = x
      BY <3>5
    <3>10. /\ closed => closed'
           /\ subs[s].state = "none" => subs'[s] = subs[s]
           /\ Open(s)' => Open(s)
           /\ subs'[s].state = "none" => subs[s].state = "none"
           /\ subs'[s].from = subs[s].from /\ subs'[s].types = subs[s].types
      BY <1>13, <2>1, <3>2, <3>7
    <3>11. UNCHANGED <<store, log, since[s]>>
      BY <1>13
    <3>8. ConsumerOK(s)'
      BY <1>3, <1>5, <3>3, <3>4, <3>6, <3>7, <3>9, <3>10, <3>11, GivenConsumer
    <3> QED
      BY <3>2, <3>8
  <2>2. CASE ~Open(s)
    <3>1. subs'[s] = subs[s] /\ since'[s] = since[s] /\ waiting' = waiting
      BY <1>1, <1>8, <2>2 DEF Open, Pushed
    <3>2. Delivered(s)' = Delivered(s) /\ ~Open(s)' /\ ~Open(s)
      BY <2>2, <3>1 DEF Delivered, Open
    <3>3. s \notin waiting'
      BY <1>9, <2>2, <3>1 DEF ConsumerOK
    <3>4. ConsumerOK(s)'
      BY <1>3, <1>4, <1>13, <3>1, <3>2, <3>3, UntouchedConsumer
    <3> QED
      BY <1>9, <3>1, <3>4
  <2> QED
    BY <2>1, <2>2
<1>11. ASSUME NEW c \in Consumers, c # s PROVE ConsumerOK(c)'
  <2>1. subs'[c] = subs[c] /\ since'[c] = since[c] /\ (c \in waiting' <=> c \in waiting) /\ ConsumerOK(c)
    BY <1>1, <1>8, <1>11
  <2>2. Delivered(c)' = Delivered(c) /\ (Open(c)' <=> Open(c))
    BY <2>1 DEF Delivered, Open
  <2>3. c \in waiting' => Open(c)' /\ subs'[c].queue = <<>>
    BY <2>1, <2>2 DEF ConsumerOK
  <2>4. \A x \in EventIds : (Announced(x)' => Announced(x)) /\ (Announced(x) \/ ToReplay(c, x) => Announced(x)' \/ ToReplay(c, x)')
    BY <1>4, <1>11
  <2> QED
    BY <1>1, <2>1, <2>2, <2>3, <2>4, UntouchedConsumer
<1>12. LogTypeOK' /\ WorkIsInOrder'
  <2>1. \A c \in Consumers : subs'[c].from = subs[c].from
    BY <1>8, <1>10
  <2>2. subs' \in [Consumers -> Subscription] /\ waiting' \subseteq Consumers
    BY <1>1, <1>8, <1>10
  <2> QED
    BY <1>1, <1>2, <2>1, <2>2, LogTyped, WorkStays
<1> QED
  BY <1>10, <1>11, <1>12 DEF LogInv

LEMMA LogInvStep == LogInv /\ [LogNext]_logVars => LogInv'
<1> SUFFICES ASSUME LogInv, [LogNext]_logVars PROVE LogInv'
  OBVIOUS
<1>1. ASSUME NEW t \in Types, AppendEvent(t) PROVE LogInv'
  BY <1>1, AppendEventKeeps
<1>2. ASSUME NEW s \in Consumers, NEW from \in StartIds, NEW types \in SUBSET Types, Subscribe(s, from, types)
      PROVE  LogInv'
  <2>1. from \in 0 .. Len(log)
    <3>1. log \in Seq(Types)
      BY DEF LogInv, LogTypeOK
    <3> QED
      BY <3>1 DEF StartIds, NoId
  <2> QED
    BY <1>2, <2>1, SubscribeKeeps
<1>3. ASSUME NEW s \in Consumers, TakeNext(s) \/ EndIteration(s) PROVE LogInv'
  BY <1>3, TakeNextKeeps, EndIterationKeeps
<1>4. CASE Close \/ Notify \/ Replay \/ Restart
  BY <1>4, CloseKeeps, NotifyKeeps, ReplayKeeps, RestartKeeps
<1>5. CASE UNCHANGED logVars
  <2>1. LogTypeOK' /\ WorkIsInOrder'
    BY <1>5, WorkStays DEF logVars, LogInv, LogTypeOK
  <2>2. \A s \in Consumers : ConsumerOK(s)'
    BY <1>5, SameConsumer DEF logVars
  <2> QED
    BY <2>1, <2>2 DEF LogInv
<1> QED
  BY <1>1, <1>2, <1>3, <1>4, <1>5 DEF LogNext

LEMMA LogInvAlways == LogSpec => []LogInv
<1> QED
  BY LogInvInit, LogInvStep, PTL DEF LogSpec

LEMMA LogInvMeans == LogInv => LogTypeOK /\ LiveInOrder /\ NothingMissed /\ NoLostWakeup /\ NothingBeforeStart
<1> SUFFICES ASSUME LogInv PROVE LiveInOrder /\ NothingMissed /\ NoLostWakeup /\ NothingBeforeStart
  BY DEF LogInv
<1>1. \A s \in Consumers : ConsumerOK(s) /\ DOMAIN Delivered(s) = 1 .. Len(Delivered(s))
  <2> TAKE s \in Consumers
  <2>1. subs[s].taken \in Seq(EventIds) /\ subs[s].queue \in Seq(EventIds)
    BY DEF LogInv, LogTypeOK
  <2>2. Delivered(s) \in Seq(EventIds)
    BY <2>1, ConcatProperties DEF Delivered
  <2>3. \A d \in Seq(EventIds) : DOMAIN d = 1 .. Len(d)
    OBVIOUS
  <2> QED
    BY <2>2, <2>3 DEF LogInv
<1>2. LiveInOrder /\ NothingBeforeStart
  BY <1>1 DEF LiveInOrder, NothingBeforeStart, ConsumerOK, HasInOrder
<1>3. NothingMissed
  <2> SUFFICES ASSUME micro = <<>>, NEW s \in Consumers, Open(s), closed => ~Durable,
                      NEW id \in since[s] + 1 .. Len(log), Admits(subs[s], id)
               PROVE  Held(s, id)
    BY <1>1 DEF NothingMissed, Held
  <2>1. ~Announced(id) /\ ~ToReplay(s, id)
    BY DEF Announced, ToReplay
  <2> QED
    BY <1>1, <2>1 DEF ConsumerOK, HasOrWill
<1>4. NoLostWakeup
  <2>1. waiting \subseteq Consumers
    BY DEF LogInv, LogTypeOK
  <2> QED
    BY <1>1, <2>1 DEF NoLostWakeup, ConsumerOK
<1> QED
  BY <1>2, <1>3, <1>4

\* The log never holds more than maxEvents, and what it keeps has its shape.
THEOREM LogKeepsItsBound == LogSpec => []LogTypeOK
  BY LogInvAlways, LogInvMeans, PTL

\* A subscription that only listens gets each event at most once and in log order,
\* although notify runs as a microtask of its own after the event is stored.
THEOREM ListenersHearInOrder == LogSpec => []LiveInOrder
  BY LogInvAlways, LogInvMeans, PTL

\* Nothing an open subscription admits is lost between storage, notification,
\* replay and the queue, however append, subscribe and next interleave.
THEOREM NothingIsMissed == LogSpec => []NothingMissed
  BY LogInvAlways, LogInvMeans, PTL

\* A parked PushQueue.next is parked on an empty, open queue.
THEOREM ParkedHaveNothingToRead == LogSpec => []NoLostWakeup
  BY LogInvAlways, LogInvMeans, PTL

\* A consumer that resumes from an id sees later events only.
THEOREM ResumedStartLater == LogSpec => []NothingBeforeStart
  BY LogInvAlways, LogInvMeans, PTL

-----------------------------------------------------------------------------
(* EventLog: the feed it is.                                                 *)

IsReplay(m, s) == m.kind = "replay" /\ m.to = s
Replaying(s, m) == IsReplay(m, s) /\ \E k \in 1 .. Len(micro) : micro[k] = m
Reach(s, m) == subs[s].from + Len(m.ids)

\* The events after n, and no others, are yet to be announced.
AnnouncedUpTo(n) ==
  n \in 0 .. Len(log) /\ \A id \in EventIds : Announced(id) <=> n < id /\ id <= Len(log)

OneReplayEach ==
  \A s \in Consumers : \A i, j \in 1 .. Len(micro) :
    IsReplay(micro[i], s) /\ IsReplay(micro[j], s) => i = j

\* A replay is of all that was stored after its start when it was asked for.
ReplaysAreRanges ==
  \A s \in Consumers : \A k \in 1 .. Len(micro) :
    IsReplay(micro[k], s) =>
      /\ subs[s].state # "none" /\ subs[s].from # NoId
      /\ micro[k].ids = [i \in 1 .. Len(micro[k].ids) |-> subs[s].from + i]
      /\ Reach(s, micro[k]) <= Len(log)

\* What it holds is announced before it, and what is stored later after it.
ReplaysAreInPlace ==
  \A s \in Consumers : \A i, k \in 1 .. Len(micro) :
    IsReplay(micro[k], s) /\ micro[i].kind = "notify" =>
      /\ i < k => micro[i].id <= Reach(s, micro[k])
      /\ k < i => micro[i].id > Reach(s, micro[k])

\* The inductive invariant, beside LogInv.
FeedInv == (\E n \in Nat : AnnouncedUpTo(n)) /\ OneReplayEach /\ ReplaysAreRanges /\ ReplaysAreInPlace

\* What the onlooker sees, in terms of the continuations.
Seen ==
  /\ \A n \in Nat : AnnouncedUpTo(n) => Told = n
  /\ \A s \in Consumers : /\ \A m \in Microtasks : Replaying(s, m) => Upto(s) = Reach(s, m)
                          /\ (\A m \in Microtasks : ~Replaying(s, m)) => Upto(s) = 0

LEMMA SeenIs == LogInv /\ FeedInv => Seen
<1> SUFFICES ASSUME LogInv, FeedInv PROVE Seen
  OBVIOUS
<1>1. /\ micro \in Seq(Microtasks) /\ DOMAIN micro = 1 .. Len(micro) /\ Len(log) \in Nat
      /\ Len(log) <= MaxEvents /\ MaxEvents \in Nat
  BY LogConstants DEF LogConstants, LogInv, LogTypeOK, WorkIsInOrder
<1>2. ASSUME NEW n \in Nat, AnnouncedUpTo(n) PROVE Told = n
  <2>1. n \in 0 .. Len(log)
    BY <1>2 DEF AnnouncedUpTo
  <2>2. Untold = n + 1 .. Len(log)
    <3>1. Untold = {id \in EventIds : Announced(id)}
      BY <1>1 DEF Untold, Announced
    <3>2. \A id \in n + 1 .. Len(log) : id \in EventIds
      BY <1>1, <2>1 DEF EventIds
    <3>3. \A id \in EventIds : id \in Int
      BY DEF EventIds
    <3> QED
      BY <1>1, <1>2, <2>1, <3>1, <3>2, <3>3 DEF AnnouncedUpTo
  <2>3. Cardinality(n + 1 .. Len(log)) = IF n + 1 > Len(log) THEN 0 ELSE (Len(log) - (n + 1)) + 1
    <3>1. n + 1 \in Int /\ Len(log) \in Int
      BY <1>1, <2>1
    <3> QED
      BY <3>1, FS_Interval
  <2>4. Cardinality(n + 1 .. Len(log)) = Len(log) - n
    BY <1>1, <2>1, <2>3
  <2> QED
    BY <1>1, <2>1, <2>2, <2>4 DEF Told
<1>3. ASSUME NEW s \in Consumers, NEW m \in Microtasks, Replaying(s, m) PROVE Upto(s) = Reach(s, m)
  <2>1. PICK k \in 1 .. Len(micro) : micro[k] = m
    BY <1>3 DEF Replaying
  <2>2. k \in Due(s)
    BY <1>1, <1>3, <2>1 DEF Due, Replaying, IsReplay
  <2>3. \A i \in Due(s) : i = k
    <3>1. \A i \in Due(s) : i \in 1 .. Len(micro) /\ IsReplay(micro[i], s)
      BY <1>1 DEF Due, IsReplay
    <3> QED
      BY <2>2, <3>1 DEF FeedInv, OneReplayEach
  <2>4. Due(s) # {} /\ (CHOOSE i \in Due(s) : TRUE) = k
    BY <2>2, <2>3
  <2> QED
    BY <2>1, <2>4 DEF Upto, Reach
<1>4. ASSUME NEW s \in Consumers, \A m \in Microtasks : ~Replaying(s, m) PROVE Upto(s) = 0
  <2>1. Due(s) = {}
    <3> SUFFICES ASSUME NEW k \in Due(s) PROVE FALSE
      OBVIOUS
    <3>1. k \in 1 .. Len(micro) /\ IsReplay(micro[k], s)
      BY <1>1 DEF Due, IsReplay
    <3>2. micro[k] \in Microtasks
      BY <1>1, <3>1, ElementOfSeq
    <3> QED
      BY <1>4, <3>1, <3>2 DEF Replaying
  <2> QED
    BY <2>1 DEF Upto
<1> QED
  BY <1>2, <1>3, <1>4 DEF Seen

LEMMA SeenNext == LogInv' /\ FeedInv' => Seen'
  BY SeenIs, PTL

LEMMA UptoStays ==
  ASSUME Seen, Seen', NEW s \in Consumers, subs'[s].from = subs[s].from,
         \A m \in Microtasks : Replaying(s, m)' <=> Replaying(s, m)
  PROVE  Upto(s)' = Upto(s)
<1>1. CASE \A m \in Microtasks : ~Replaying(s, m)
  BY <1>1 DEF Seen
<1>2. ASSUME NEW m \in Microtasks, Replaying(s, m) PROVE Upto(s)' = Upto(s)
  <2>1. Reach(s, m)' = Reach(s, m)
    BY DEF Reach
  <2> QED
    BY <1>2, <2>1 DEF Seen
<1> QED
  BY <1>1, <1>2

\* Replays stay where they are while others run before them, and nothing else does.
LEMMA ReplaysStay ==
  ASSUME LogInv, FeedInv, Len(log) <= Len(log'), Len(log') \in Nat,
         \A s \in Consumers :
           subs[s].state # "none" => subs'[s].from = subs[s].from /\ subs'[s].state # "none",
         micro' = micro \/ (micro # <<>> /\ micro' = Tail(micro))
  PROVE  OneReplayEach' /\ ReplaysAreRanges' /\ ReplaysAreInPlace'
<1>1. micro \in Seq(Microtasks) /\ Len(log) \in Nat
  BY DEF LogInv, LogTypeOK, WorkIsInOrder
<1>2. PICK d \in {0, 1} : \A k \in 1 .. Len(micro') : k + d \in 1 .. Len(micro) /\ micro'[k] = micro[k + d]
  <2>1. CASE micro' = micro
    <3>1. \A k \in 1 .. Len(micro') : k + 0 \in 1 .. Len(micro) /\ micro'[k] = micro[k + 0]
      BY <2>1
    <3> QED
      BY <3>1
  <2>2. CASE micro # <<>> /\ micro' = Tail(micro)
    <3>1. \A k \in 1 .. Len(micro') : k + 1 \in 1 .. Len(micro) /\ micro'[k] = micro[k + 1]
      BY <1>1, <2>2, WorkIsDone
    <3> QED
      BY <3>1
  <2> QED
    BY <2>1, <2>2
<1>3. \A k \in 1 .. Len(micro') : micro[k + d] \in Microtasks
  BY <1>1, <1>2, ElementOfSeq
<1>4. \A s \in Consumers : \A k \in 1 .. Len(micro') :
        IsReplay(micro'[k], s) => /\ IsReplay(micro[k + d], s) /\ Reach(s, micro[k])' = Reach(s, micro[k + d])
                                  /\ Reach(s, micro[k + d]) \in Nat
  <2> TAKE s \in Consumers
  <2> TAKE k \in 1 .. Len(micro')
  <2> HAVE IsReplay(micro'[k], s)
  <2>1. micro[k + d] \in Microtasks /\ micro'[k] = micro[k + d] /\ subs[s].from \in Nat
    BY <1>2, <1>3 DEF LogInv, LogTypeOK
  <2>3. subs[s].state # "none"
    <3>1. k + d \in 1 .. Len(micro) /\ IsReplay(micro[k + d], s)
      BY <1>2, <2>1
    <3> QED
      BY <3>1 DEF FeedInv, ReplaysAreRanges
  <2>2. Len(micro[k + d].ids) \in Nat
    <3>1. micro[k + d].ids \in Seq(EventIds)
      BY <2>1 DEF IsReplay, Microtasks
    <3> QED
      BY <3>1, LenProperties
  <2> QED
    BY <2>1, <2>2, <2>3 DEF IsReplay, Reach
<1>5. OneReplayEach'
  <2> SUFFICES ASSUME NEW s \in Consumers, NEW i \in 1 .. Len(micro'), NEW j \in 1 .. Len(micro'),
                      IsReplay(micro'[i], s), IsReplay(micro'[j], s)
               PROVE  i = j
    BY DEF OneReplayEach, IsReplay
  <2>1. i + d = j + d
    BY <1>2, <1>4 DEF FeedInv, OneReplayEach
  <2> QED
    BY <2>1
<1>6. ReplaysAreRanges'
  <2> SUFFICES ASSUME NEW s \in Consumers, NEW k \in 1 .. Len(micro'), IsReplay(micro'[k], s)
               PROVE  /\ subs'[s].state # "none" /\ subs'[s].from # NoId
                      /\ micro'[k].ids = [i \in 1 .. Len(micro'[k].ids) |-> subs'[s].from + i]
                      /\ Reach(s, micro[k])' <= Len(log')
    BY DEF ReplaysAreRanges, IsReplay
  <2>1. k + d \in 1 .. Len(micro) /\ micro'[k] = micro[k + d] /\ IsReplay(micro[k + d], s)
        /\ Reach(s, micro[k])' = Reach(s, micro[k + d]) /\ Reach(s, micro[k + d]) \in Nat
    BY <1>2, <1>4
  <2>2. /\ subs[s].state # "none" /\ subs[s].from # NoId
        /\ micro[k + d].ids = [i \in 1 .. Len(micro[k + d].ids) |-> subs[s].from + i]
        /\ Reach(s, micro[k + d]) <= Len(log)
    BY <2>1 DEF FeedInv, ReplaysAreRanges
  <2>3. subs'[s].from = subs[s].from /\ subs'[s].state # "none"
    BY <2>2
  <2>4. micro'[k].ids = [i \in 1 .. Len(micro'[k].ids) |-> subs'[s].from + i]
    BY <2>1, <2>2, <2>3, Zenon
  <2>5. Reach(s, micro[k])' <= Len(log')
    BY <1>1, <2>1, <2>2
  <2> QED
    BY <2>2, <2>3, <2>4, <2>5
<1>7. ReplaysAreInPlace'
  <2> SUFFICES ASSUME NEW s \in Consumers, NEW i \in 1 .. Len(micro'), NEW k \in 1 .. Len(micro'),
                      IsReplay(micro'[k], s), micro'[i].kind = "notify"
               PROVE  /\ i < k => micro'[i].id <= Reach(s, micro[k])'
                      /\ k < i => micro'[i].id > Reach(s, micro[k])'
    BY DEF ReplaysAreInPlace, IsReplay
  <2>1. /\ k + d \in 1 .. Len(micro) /\ micro'[k] = micro[k + d] /\ IsReplay(micro[k + d], s)
        /\ i + d \in 1 .. Len(micro) /\ micro'[i] = micro[i + d]
        /\ Reach(s, micro[k])' = Reach(s, micro[k + d])
    BY <1>2, <1>4
  <2>2. /\ i + d < k + d => micro[i + d].id <= Reach(s, micro[k + d])
        /\ k + d < i + d => micro[i + d].id > Reach(s, micro[k + d])
    BY <2>1 DEF FeedInv, ReplaysAreInPlace
  <2> QED
    BY <2>1, <2>2
<1> QED
  BY <1>5, <1>6, <1>7

LEMMA FeedInvInit == LogInit => FeedInv /\ Promise!FeedInit
<1> SUFFICES ASSUME LogInit PROVE FeedInv /\ Promise!FeedInit
  OBVIOUS
<1>1. log = <<>> /\ micro = <<>> /\ subs = [s \in Consumers |-> NotSubscribed] /\ closed = FALSE
  BY DEF LogInit
<1>2. AnnouncedUpTo(0)
  BY <1>1 DEF AnnouncedUpTo, Announced, EventIds
<1>3. FeedInv
  BY <1>1, <1>2 DEF FeedInv, OneReplayEach, ReplaysAreRanges, ReplaysAreInPlace
<1>4. Seen
  BY <1>3, LogInvInit, SeenIs
<1>5. Told = 0
  BY <1>2, <1>4 DEF Seen
<1>6. ASSUME NEW s \in Consumers PROVE Upto(s) = 0 /\ Delivered(s) = <<>>
  <2>1. Upto(s) = 0
    BY <1>1, <1>4 DEF Seen, Replaying
  <2> QED
    BY <1>1, <2>1 DEF Delivered, NotSubscribed
<1>7. Readers = Promise!Away
  BY <1>1, <1>6 DEF Readers, Reader, NotSubscribed, NoId, Promise!Away, Promise!Nobody
<1> QED
  BY <1>1, <1>3, <1>5, <1>7 DEF Promise!FeedInit

\* One more replay stands behind all that was stored, one more announcement behind
\* all replays.
LEMMA ReplaysGrow ==
  ASSUME LogInv, FeedInv, NEW m \in Microtasks, micro' = Append(micro, m),
         Len(log) <= Len(log'), Len(log') \in Nat,
         \A s \in Consumers :
           subs[s].state # "none" => subs'[s].from = subs[s].from /\ subs'[s].state # "none",
         m.kind = "notify" => m.id > Len(log),
         \A s \in Consumers : IsReplay(m, s) =>
           /\ subs[s].state = "none" /\ subs'[s].state # "none" /\ subs'[s].from # NoId
           /\ m.ids = [i \in 1 .. Len(m.ids) |-> subs'[s].from + i]
           /\ Reach(s, m)' = Len(log) /\ Len(log') = Len(log)
  PROVE  OneReplayEach' /\ ReplaysAreRanges' /\ ReplaysAreInPlace'
<1> DEFINE last == Len(micro) + 1
<1>1. /\ micro \in Seq(Microtasks) /\ Len(log) \in Nat
      /\ \A id \in EventIds : Announced(id) => id <= Len(log)
      /\ \A id \in EventIds : id \in Nat
  BY DEF LogInv, LogTypeOK, WorkIsInOrder, EventIds
<1>2. /\ Len(micro') = last /\ Len(micro) \in Nat /\ micro'[last] = m
      /\ \A k \in 1 .. Len(micro) : micro'[k] = micro[k]
      /\ \A k \in 1 .. Len(micro') : k \in 1 .. Len(micro) \/ k = last
  BY <1>1, AppendProperties
<1>3. \A s \in Consumers : \A k \in 1 .. Len(micro) :
        IsReplay(micro[k], s) =>
          /\ subs[s].state # "none" /\ subs'[s].from = subs[s].from /\ subs'[s].state # "none"
          /\ Reach(s, micro[k])' = Reach(s, micro[k]) /\ Reach(s, micro[k]) \in Nat
          /\ Reach(s, micro[k]) <= Len(log) /\ subs[s].from # NoId
          /\ micro[k].ids = [i \in 1 .. Len(micro[k].ids) |-> subs'[s].from + i]
  <2> TAKE s \in Consumers
  <2> TAKE k \in 1 .. Len(micro)
  <2> HAVE IsReplay(micro[k], s)
  <2>1. micro[k] \in Microtasks /\ subs[s].from \in Nat
    BY <1>1, ElementOfSeq DEF LogInv, LogTypeOK
  <2>2. Len(micro[k].ids) \in Nat
    <3>1. micro[k].ids \in Seq(EventIds)
      BY <2>1 DEF IsReplay, Microtasks
    <3> QED
      BY <3>1, LenProperties
  <2>3. /\ subs[s].state # "none" /\ Reach(s, micro[k]) <= Len(log) /\ subs[s].from # NoId
        /\ micro[k].ids = [i \in 1 .. Len(micro[k].ids) |-> subs[s].from + i]
    BY DEF FeedInv, ReplaysAreRanges
  <2>4. subs'[s].from = subs[s].from /\ subs'[s].state # "none"
    BY <2>3
  <2>5. micro[k].ids = [i \in 1 .. Len(micro[k].ids) |-> subs'[s].from + i]
    BY <2>3, <2>4, Zenon
  <2>6. Reach(s, micro[k])' = Reach(s, micro[k]) /\ Reach(s, micro[k]) \in Nat
    BY <1>2, <2>1, <2>2, <2>4 DEF Reach
  <2> QED
    BY <2>3, <2>4, <2>5, <2>6
<1> HIDE DEF last
<1>4. OneReplayEach'
  <2> SUFFICES ASSUME NEW s \in Consumers, NEW i \in 1 .. Len(micro'), NEW j \in 1 .. Len(micro'),
                      IsReplay(micro'[i], s), IsReplay(micro'[j], s)
               PROVE  i = j
    BY DEF OneReplayEach, IsReplay
  <2>0. \A k \in 1 .. Len(micro) : IsReplay(micro[k], s) => ~IsReplay(m, s)
    BY <1>3
  <2>1. i = last <=> j = last
    BY <1>2, <2>0
  <2>2. CASE i # last
    BY <1>2, <2>1, <2>2 DEF FeedInv, OneReplayEach
  <2> QED
    BY <2>1, <2>2
<1>5. ReplaysAreRanges'
  <2> SUFFICES ASSUME NEW s \in Consumers, NEW k \in 1 .. Len(micro'), IsReplay(micro'[k], s)
               PROVE  /\ subs'[s].state # "none" /\ subs'[s].from # NoId
                      /\ micro'[k].ids = [i \in 1 .. Len(micro'[k].ids) |-> subs'[s].from + i]
                      /\ Reach(s, micro[k])' <= Len(log')
    BY DEF ReplaysAreRanges, IsReplay
  <2>1. CASE k \in 1 .. Len(micro)
    <3>1. micro'[k] = micro[k] /\ IsReplay(micro[k], s)
      BY <1>2, <2>1
    <3>2. /\ subs'[s].from = subs[s].from /\ subs'[s].state # "none"
          /\ Reach(s, micro[k])' = Reach(s, micro[k]) /\ Reach(s, micro[k]) \in Nat
          /\ Reach(s, micro[k]) <= Len(log) /\ subs[s].from # NoId
          /\ micro[k].ids = [i \in 1 .. Len(micro[k].ids) |-> subs'[s].from + i]
      BY <1>3, <2>1, <3>1
    <3>3. Reach(s, micro[k])' <= Len(log')
      BY <1>1, <3>2
    <3> QED
      BY <3>1, <3>2, <3>3, Zenon
  <2>2. CASE k = last
    <3>1. micro'[k] = m /\ IsReplay(m, s) /\ Reach(s, micro[k])' = Reach(s, m)'
      BY <1>2, <2>2 DEF Reach
    <3>2. Reach(s, micro[k])' <= Len(log')
      BY <1>1, <3>1
    <3> QED
      BY <3>1, <3>2, Zenon
  <2> QED
    BY <1>2, <2>1, <2>2
<1>6. ReplaysAreInPlace'
  <2> SUFFICES ASSUME NEW s \in Consumers, NEW i \in 1 .. Len(micro'), NEW k \in 1 .. Len(micro'),
                      IsReplay(micro'[k], s), micro'[i].kind = "notify"
               PROVE  /\ i < k => micro'[i].id <= Reach(s, micro[k])'
                      /\ k < i => micro'[i].id > Reach(s, micro[k])'
    BY DEF ReplaysAreInPlace, IsReplay
  <2>0. i # k
    BY DEF IsReplay
  <2>1. CASE i \in 1 .. Len(micro) /\ k \in 1 .. Len(micro)
    <3>1. micro'[i] = micro[i] /\ micro'[k] = micro[k]
      BY <1>2, <2>1
    <3>2. Reach(s, micro[k])' = Reach(s, micro[k])
      BY <1>3, <2>1, <3>1
    <3>3. /\ i < k => micro[i].id <= Reach(s, micro[k])
          /\ k < i => micro[i].id > Reach(s, micro[k])
      BY <2>1, <3>1 DEF FeedInv, ReplaysAreInPlace
    <3> QED
      BY <3>1, <3>2, <3>3
  <2>2. CASE i = last /\ k \in 1 .. Len(micro)
    <3>1. IsReplay(micro[k], s) /\ micro'[i].id = m.id /\ m.id > Len(log) /\ k < i
      BY <1>2, <2>2 DEF last
    <3>2. m.id \in Nat
      BY <1>1, <1>2, <2>2 DEF Microtasks
    <3>3. Reach(s, micro[k])' \in Nat /\ Reach(s, micro[k])' <= Len(log)
      BY <1>3, <2>2, <3>1
    <3>4. ~(i < k) /\ m.id > Reach(s, micro[k])'
      BY <1>1, <1>2, <2>2, <3>1, <3>2, <3>3
    <3> QED
      BY <3>1, <3>4
  <2>3. CASE k = last /\ i \in 1 .. Len(micro)
    <3>5. i < k
      BY <1>2, <2>3 DEF last
    <3>6. IsReplay(m, s) /\ Reach(s, micro[k])' = Reach(s, m)'
      BY <1>2, <2>3 DEF Reach
    <3>1. i < k /\ Reach(s, micro[k])' = Len(log)
      BY <3>5, <3>6
    <3>2. micro[i] \in Microtasks /\ micro'[i] = micro[i]
      BY <1>1, <1>2, <2>3, ElementOfSeq
    <3>3. micro[i].id \in EventIds /\ Announced(micro[i].id)
      BY <2>3, <3>2 DEF Microtasks, Announced
    <3> QED
      BY <1>1, <3>1, <3>2, <3>3
  <2> QED
    BY <1>2, <2>0, <2>1, <2>2, <2>3
<1> QED
  BY <1>4, <1>5, <1>6

\* A call that leaves the continuations alone changes no progress.
LEMMA FeedInvStays ==
  ASSUME LogInv, FeedInv, LogInv', UNCHANGED <<log, micro>>,
         \A s \in Consumers : subs'[s].from = subs[s].from /\ (subs[s].state # "none" => subs'[s].state # "none")
  PROVE  FeedInv' /\ Told' = Told /\ \A s \in Consumers : Upto(s)' = Upto(s)
<1>1. PICK n \in Nat : AnnouncedUpTo(n)
  BY DEF FeedInv
<1>2. AnnouncedUpTo(n)'
  BY <1>1 DEF AnnouncedUpTo, Announced
<1>3. OneReplayEach' /\ ReplaysAreRanges' /\ ReplaysAreInPlace'
  <2>1. Len(log) <= Len(log') /\ Len(log') \in Nat
    BY DEF LogInv, LogTypeOK
  <2> QED
    BY <2>1, ReplaysStay
<1>4. FeedInv'
  BY <1>2, <1>3 DEF FeedInv
<1>5. Seen /\ Seen'
  BY <1>4, SeenIs, SeenNext
<1>6. Told' = Told
  <2>1. Told = n
    BY <1>1, <1>5 DEF Seen
  <2>2. Told' = n
    BY <1>2, <1>5 DEF Seen
  <2> QED
    BY <2>1, <2>2
<1>7. ASSUME NEW s \in Consumers PROVE Upto(s)' = Upto(s)
  <2>1. \A m \in Microtasks : Replaying(s, m)' <=> Replaying(s, m)
    BY DEF Replaying, IsReplay
  <2> QED
    BY <1>5, <2>1, UptoStays
<1> QED
  BY <1>4, <1>6, <1>7

\* append publishes.
LEMMA AppendPublishes ==
  ASSUME LogInv, FeedInv, NEW t \in Types, AppendEvent(t)
  PROVE  FeedInv' /\ Promise!Publish(t)
<1> DEFINE next == Len(log) + 1  m == [kind |-> "notify", id |-> next]
<1>1. /\ log \in Seq(Types) /\ Len(log) < MaxEvents /\ MaxEvents \in Nat /\ Len(log) \in Nat
      /\ log' = Append(log, t) /\ micro' = Append(micro, m) /\ micro \in Seq(Microtasks)
      /\ ~closed /\ UNCHANGED <<store, closed, subs, waiting, since>>
  BY LogConstants DEF LogConstants, LogInv, LogTypeOK, WorkIsInOrder, AppendEvent
<1>2. Len(log') = next /\ next \in EventIds /\ next \in Nat
  BY <1>1 DEF EventIds
<1>3. m \in Microtasks /\ m.kind = "notify" /\ m.id = next
  BY <1>2 DEF Microtasks
<1> HIDE DEF m
<1>4. \A id : Announced(id)' <=> Announced(id) \/ next = id
  BY <1>1, <1>3, WorkIsAdded
<1>5. PICK n \in Nat : AnnouncedUpTo(n)
  BY DEF FeedInv
<1>6. AnnouncedUpTo(n)'
  <2>1. n \in 0 .. Len(log) /\ \A id \in EventIds : Announced(id) <=> n < id /\ id <= Len(log)
    BY <1>5 DEF AnnouncedUpTo
  <2>2. n \in 0 .. Len(log')
    BY <1>1, <1>2, <2>1
  <2>3. ASSUME NEW id \in EventIds PROVE Announced(id)' <=> n < id /\ id <= Len(log')
    <3>1. id \in Nat
      BY DEF EventIds
    <3>2. n < id /\ id <= Len(log') <=> (n < id /\ id <= Len(log)) \/ id = next
      BY <1>1, <1>2, <2>1, <3>1
    <3> QED
      BY <1>4, <2>1, <3>2
  <2> QED
    BY <2>2, <2>3 DEF AnnouncedUpTo
<1>7. OneReplayEach' /\ ReplaysAreRanges' /\ ReplaysAreInPlace'
  <2>1. Len(log) <= Len(log') /\ Len(log') \in Nat /\ m.id > Len(log)
    BY <1>1, <1>2, <1>3
  <2>2. \A s \in Consumers : ~IsReplay(m, s)
    BY <1>3 DEF IsReplay
  <2> QED
    BY <1>1, <1>3, <2>1, <2>2, ReplaysGrow
<1>8. FeedInv'
  BY <1>6, <1>7 DEF FeedInv
<1>9. Seen /\ Seen'
  BY <1>8, AppendEventKeeps, SeenIs, SeenNext
<1>10. Told' = Told
  <2>1. Told = n
    BY <1>5, <1>9 DEF Seen
  <2>2. Told' = n
    BY <1>6, <1>9 DEF Seen
  <2> QED
    BY <2>1, <2>2
<1>11. ASSUME NEW s \in Consumers PROVE Reader(s)' = Reader(s)
  <2>1. ASSUME NEW w \in Microtasks PROVE Replaying(s, w)' <=> Replaying(s, w)
    <3>1. /\ Len(micro') = Len(micro) + 1 /\ Len(micro) \in Nat
          /\ \A k \in 1 .. Len(micro) : micro'[k] = micro[k]
          /\ micro'[Len(micro) + 1] = m
      BY <1>1, <1>3, AppendProperties
    <3>2. \A k \in 1 .. Len(micro') : k \in 1 .. Len(micro) \/ k = Len(micro) + 1
      BY <3>1
    <3>3. 1 .. Len(micro) \subseteq 1 .. Len(micro')
      BY <3>1
    <3>4. ~IsReplay(m, s)
      BY <1>3 DEF IsReplay
    <3>5. IsReplay(w, s)' <=> IsReplay(w, s)
      BY DEF IsReplay
    <3> QED
      BY <3>1, <3>2, <3>3, <3>4, <3>5 DEF Replaying
  <2>2. Upto(s)' = Upto(s)
    BY <1>1, <1>9, <2>1, UptoStays
  <2> QED
    BY <1>1, <2>2 DEF Reader, Delivered
<1>12. Readers' = Readers
  BY <1>11 DEF Readers
<1> QED
  BY <1>1, <1>8, <1>10, <1>12 DEF Promise!Publish

\* next reads what was given already.
LEMMA TakeNextShowsNothing ==
  ASSUME LogInv, FeedInv, NEW s \in Consumers, TakeNext(s)
  PROVE  FeedInv' /\ UNCHANGED Promise!feedVars
<1>1. subs \in [Consumers -> Subscription] /\ UNCHANGED <<store, log, closed, micro, since>>
  BY DEF LogInv, LogTypeOK, TakeNext, Subscription
<1> DEFINE taken == subs[s].taken  queue == subs[s].queue
<1>2. taken \in Seq(EventIds) /\ queue \in Seq(EventIds)
  BY <1>1 DEF Subscription
<1>3. \A c \in Consumers : /\ subs'[c].state = subs[c].state /\ subs'[c].from = subs[c].from
                            /\ subs'[c].types = subs[c].types
                            /\ subs'[c].taken \o subs'[c].queue = subs[c].taken \o subs[c].queue
  <2>1. CASE queue # <<>>
    <3>1. subs' = [subs EXCEPT ![s].taken = Append(taken, Head(queue)), ![s].queue = Tail(queue)]
      BY <2>1 DEF TakeNext
    <3>2. Append(taken, Head(queue)) \o Tail(queue) = taken \o queue
      BY <1>2, <2>1, TakenIsStillDelivered
    <3> DEFINE now == [subs[s] EXCEPT !.taken = Append(taken, Head(queue)), !.queue = Tail(queue)]
    <3>3. /\ now.state = subs[s].state /\ now.from = subs[s].from /\ now.types = subs[s].types
          /\ now.taken = Append(taken, Head(queue)) /\ now.queue = Tail(queue)
      BY <1>1 DEF Subscription
    <3>4. subs' = [subs EXCEPT ![s] = now]
      BY <1>1, <3>1
    <3> HIDE DEF now
    <3> QED
      BY <1>1, <3>2, <3>3, <3>4
  <2>2. CASE queue = <<>>
    <3>1. subs' = subs
      BY <2>2 DEF TakeNext
    <3> QED
      BY <3>1
  <2> QED
    BY <2>1, <2>2
<1>4. FeedInv' /\ Told' = Told /\ \A c \in Consumers : Upto(c)' = Upto(c)
  BY <1>1, <1>3, TakeNextKeeps, FeedInvStays
<1>5. Readers' = Readers
  <2>1. \A c \in Consumers : Reader(c)' = Reader(c)
    BY <1>3, <1>4 DEF Reader, Delivered
  <2> QED
    BY <2>1 DEF Readers
<1> QED
  BY <1>1, <1>4, <1>5 DEF Promise!feedVars

\* A consumer that is closed, if it is open, has left.
LEMMA ClosedHasLeft ==
  ASSUME LogInv, NEW s \in Consumers, Upto(s)' = Upto(s),
         subs'[s] = IF Open(s) THEN [subs[s] EXCEPT !.state = "closed"] ELSE subs[s]
  PROVE  Reader(s)' = Promise!Left(Reader(s))
<1>1. subs[s] \in Subscription
  BY DEF LogInv, LogTypeOK, Subscription
<1>2. CASE Open(s)
  <2>1. /\ subs'[s].state = "closed" /\ subs'[s].from = subs[s].from /\ subs'[s].types = subs[s].types
        /\ subs'[s].taken = subs[s].taken /\ subs'[s].queue = subs[s].queue
    BY <1>1, <1>2 DEF Subscription
  <2> QED
    BY <1>2, <2>1 DEF Reader, Delivered, Open, Promise!Left
<1>3. CASE ~Open(s)
  BY <1>3 DEF Reader, Delivered, Open, Promise!Left
<1> QED
  BY <1>2, <1>3

LEMMA EndIterationLeaves ==
  ASSUME LogInv, FeedInv, NEW s \in Consumers, EndIteration(s)
  PROVE  FeedInv' /\ Promise!Leave(s)
<1>1. /\ subs \in [Consumers -> Subscription] /\ UNCHANGED <<store, log, closed, micro, since>>
      /\ Open(s) /\ subs' = [subs EXCEPT ![s].state = "closed"]
  BY DEF LogInv, LogTypeOK, EndIteration, Subscription
<1>2. /\ subs'[s] = [subs[s] EXCEPT !.state = "closed"]
      /\ \A c \in Consumers : c # s => subs'[c] = subs[c]
  BY <1>1
<1>3. subs'[s].from = subs[s].from /\ subs'[s].state = "closed"
  BY <1>1, <1>2 DEF Subscription
<1>4. FeedInv' /\ Told' = Told /\ \A c \in Consumers : Upto(c)' = Upto(c)
  <2>1. \A c \in Consumers :
          subs'[c].from = subs[c].from /\ (subs[c].state # "none" => subs'[c].state # "none")
    BY <1>2, <1>3
  <2> QED
    BY <1>1, <2>1, EndIterationKeeps, FeedInvStays
<1>5. Reader(s)' = Promise!Left(Reader(s))
  BY <1>1, <1>2, <1>4, ClosedHasLeft
<1>6. \A c \in Consumers : c # s => Reader(c)' = Reader(c)
  BY <1>2, <1>4 DEF Reader, Delivered
<1>7. Readers' = [Readers EXCEPT ![s] = Promise!Left(Readers[s])]
  BY <1>5, <1>6 DEF Readers
<1> QED
  BY <1>1, <1>4, <1>7 DEF Promise!Leave

LEMMA CloseShuts ==
  ASSUME LogInv, FeedInv, Close
  PROVE  FeedInv' /\ Promise!Shut
<1>1. subs \in [Consumers -> Subscription] /\ UNCHANGED <<store, log, micro, since>> /\ ~closed /\ closed'
  BY DEF LogInv, LogTypeOK, Close, Subscription
<1>2. \/ subs' = subs
      \/ \A c \in Consumers : subs'[c] = IF Open(c) THEN [subs[c] EXCEPT !.state = "closed"] ELSE subs[c]
  BY DEF Close
<1>3. \A c \in Consumers :
        subs'[c].from = subs[c].from /\ (subs[c].state # "none" => subs'[c].state # "none")
  <2> TAKE c \in Consumers
  <2>1. subs[c] \in Subscription
    BY <1>1
  <2> QED
    BY <1>2, <2>1 DEF Subscription
<1>4. FeedInv' /\ Told' = Told /\ \A c \in Consumers : Upto(c)' = Upto(c)
  BY <1>1, <1>3, CloseKeeps, FeedInvStays
<1>5. Readers' = Readers \/ Readers' = [c \in Consumers |-> Promise!Left(Readers[c])]
  <2>1. CASE subs' = subs
    <3>1. \A c \in Consumers : Reader(c)' = Reader(c)
      BY <1>4, <2>1 DEF Reader, Delivered
    <3> QED
      BY <3>1 DEF Readers
  <2>2. CASE \A c \in Consumers : subs'[c] = IF Open(c) THEN [subs[c] EXCEPT !.state = "closed"] ELSE subs[c]
    <3>1. \A c \in Consumers : Reader(c)' = Promise!Left(Reader(c))
      BY <1>4, <2>2, ClosedHasLeft
    <3> QED
      BY <3>1 DEF Readers
  <2> QED
    BY <1>2, <2>1, <2>2
<1> QED
  BY <1>1, <1>4, <1>5 DEF Close, Promise!Shut

LEMMA RestartBeginsAgain ==
  ASSUME LogInv, FeedInv, Restart
  PROVE  FeedInv' /\ Promise!BeginAgain
<1>1. /\ UNCHANGED log /\ closed' = FALSE /\ micro' = <<>>
      /\ subs' = [s \in Consumers |-> NotSubscribed] /\ Len(log) \in Nat
  BY DEF Restart, LogInv, LogTypeOK
<1>2. AnnouncedUpTo(Len(log))'
  BY <1>1 DEF AnnouncedUpTo, Announced, EventIds
<1>3. FeedInv'
  BY <1>1, <1>2 DEF FeedInv, OneReplayEach, ReplaysAreRanges, ReplaysAreInPlace
<1>4. Seen'
  BY <1>3, RestartKeeps, SeenNext
<1>5. Told' = Len(log)
  BY <1>1, <1>2, <1>4 DEF Seen
<1>6. ASSUME NEW s \in Consumers PROVE Upto(s)' = 0 /\ Delivered(s)' = <<>>
  <2>1. \A m \in Microtasks : ~Replaying(s, m)'
    BY <1>1 DEF Replaying
  <2>2. Upto(s)' = 0
    BY <1>4, <2>1 DEF Seen
  <2> QED
    BY <1>1, <2>2 DEF Delivered, NotSubscribed
<1>7. Readers' = Promise!Away
  BY <1>1, <1>6 DEF Readers, Reader, NotSubscribed, NoId, Promise!Away, Promise!Nobody
<1> QED
  BY <1>1, <1>3, <1>5, <1>7 DEF Promise!BeginAgain

\* subscribe joins: a replay is up to all that is stored.
LEMMA SubscribeJoins ==
  ASSUME LogInv, FeedInv, NEW s \in Consumers, NEW from \in 0 .. Len(log), NEW types \in SUBSET Types,
         Subscribe(s, from, types)
  PROVE  FeedInv' /\ Promise!Join(s, from, types)
<1> DEFINE asked == [kind |-> "replay", to |-> s, ids |-> RangeAfter(from)]
           fresh == [NotSubscribed EXCEPT !.state = "open", !.from = from, !.types = types]
           queued == from # NoId /\ ~(Durable /\ closed)
<1>1. /\ Len(log) <= MaxEvents /\ MaxEvents \in Nat /\ Len(log) \in Nat
      /\ micro \in Seq(Microtasks) /\ from \in Nat /\ from <= Len(log)
      /\ UNCHANGED <<store, log, closed, waiting>> /\ subs \in [Consumers -> Subscription]
      /\ subs[s].state = "none" /\ subs' = [subs EXCEPT ![s] = fresh]
  BY LogConstants DEF LogConstants, LogInv, LogTypeOK, WorkIsInOrder, Subscribe, Subscription
<1>2. /\ subs'[s].state = "open" /\ subs'[s].from = from /\ subs'[s].types = types
      /\ subs'[s].queue = <<>> /\ subs'[s].taken = <<>>
      /\ \A c \in Consumers : c # s => subs'[c] = subs[c]
  BY <1>1 DEF NotSubscribed
<1>4. /\ RangeAfter(from) \in Seq(EventIds) /\ Len(RangeAfter(from)) = Len(log) - from
      /\ RangeAfter(from) = [i \in 1 .. Len(RangeAfter(from)) |-> from + i]
  <2>1. Len(log) - from \in Nat /\ \A i \in 1 .. Len(log) - from : from + i \in EventIds
    BY <1>1 DEF EventIds
  <2> QED
    BY <2>1 DEF RangeAfter
<1>21. asked \in Microtasks
  BY <1>4 DEF Microtasks
<1>22. PICK m \in Microtasks : m = asked
  BY <1>21
<1>5. m.kind = "replay" /\ m.to = s /\ m.ids = RangeAfter(from)
  BY <1>22
<1>3. IF queued THEN micro' = Append(micro, m) ELSE micro' = micro
  BY <1>22 DEF Subscribe
<1> HIDE DEF fresh, queued
<1>6. \A c \in Consumers : subs[c].state # "none" => subs'[c].from = subs[c].from /\ subs'[c].state # "none"
  BY <1>1, <1>2
<1>7. Reach(s, m)' = Len(log)
  BY <1>1, <1>2, <1>4, <1>5 DEF Reach
<1>8. OneReplayEach' /\ ReplaysAreRanges' /\ ReplaysAreInPlace'
  <2>1. CASE queued
    <3>1. micro' = Append(micro, m) /\ from # NoId
      BY <1>3, <2>1 DEF queued
    <3>2. m.ids = [i \in 1 .. Len(m.ids) |-> subs'[s].from + i]
      BY <1>2, <1>4, <1>5, Zenon
    <3>3. \A c \in Consumers : IsReplay(m, c) => c = s
      BY <1>5 DEF IsReplay
    <3>4. /\ m.kind = "notify" => m.id > Len(log)
          /\ Len(log') = Len(log) /\ Len(log) <= Len(log') /\ Len(log') \in Nat
      BY <1>1, <1>5
    <3>5. \A c \in Consumers : IsReplay(m, c) =>
            /\ subs[c].state = "none" /\ subs'[c].state # "none" /\ subs'[c].from # NoId
            /\ m.ids = [i \in 1 .. Len(m.ids) |-> subs'[c].from + i]
            /\ Reach(c, m)' = Len(log) /\ Len(log') = Len(log)
      <4>1. /\ subs[s].state = "none" /\ subs'[s].state # "none" /\ subs'[s].from # NoId
            /\ Len(log') = Len(log)
        BY <1>1, <1>2, <3>1
      <4> QED
        BY <1>7, <3>2, <3>3, <4>1, Zenon
    <3> QED
      BY <1>6, <3>1, <3>4, <3>5, ReplaysGrow
  <2>2. CASE ~queued
    <3>1. micro' = micro /\ Len(log) <= Len(log') /\ Len(log') \in Nat
      BY <1>1, <1>3, <2>2
    <3> QED
      BY <1>6, <3>1, ReplaysStay
  <2> QED
    BY <2>1, <2>2
<1>9. \A id : Announced(id)' <=> Announced(id)
  <2>1. CASE queued
    BY <1>1, <1>3, <1>5, <2>1, WorkIsAdded
  <2>2. CASE ~queued
    BY <1>3, <2>2 DEF Announced
  <2> QED
    BY <2>1, <2>2
<1>10. PICK n \in Nat : AnnouncedUpTo(n)
  BY DEF FeedInv
<1>11. AnnouncedUpTo(n)'
  BY <1>1, <1>9, <1>10 DEF AnnouncedUpTo
<1>12. FeedInv'
  BY <1>8, <1>11 DEF FeedInv
<1>13. Seen /\ Seen'
  BY <1>12, SubscribeKeeps, SeenIs, SeenNext
<1>14. Told' = Told
  <2>1. Told = n
    BY <1>10, <1>13 DEF Seen
  <2>2. Told' = n
    BY <1>11, <1>13 DEF Seen
  <2> QED
    BY <2>1, <2>2
<1>15. \A c \in Consumers, w \in Microtasks : Replaying(c, w)' <=> Replaying(c, w) \/ (queued /\ c = s /\ w = m)
  <2> TAKE c \in Consumers, w \in Microtasks
  <2>0. (IsReplay(w, c)' <=> IsReplay(w, c)) /\ (IsReplay(m, c) <=> c = s)
    BY <1>5 DEF IsReplay
  <2>1. CASE queued
    <3>1. /\ Len(micro') = Len(micro) + 1 /\ Len(micro) \in Nat
          /\ \A k \in 1 .. Len(micro) : micro'[k] = micro[k]
          /\ micro'[Len(micro) + 1] = m
      BY <1>1, <1>3, <1>5, <2>1, AppendProperties
    <3>2. \A k \in 1 .. Len(micro') : k \in 1 .. Len(micro) \/ k = Len(micro) + 1
      BY <3>1
    <3>3. (1 .. Len(micro)) \cup {Len(micro) + 1} \subseteq 1 .. Len(micro')
      BY <3>1
    <3>4. (\E k \in 1 .. Len(micro') : micro'[k] = w) <=> (\E k \in 1 .. Len(micro) : micro[k] = w) \/ w = m
      BY <3>1, <3>2, <3>3
    <3> QED
      BY <2>0, <2>1, <3>4 DEF Replaying
  <2>2. CASE ~queued
    BY <1>3, <2>0, <2>2 DEF Replaying
  <2> QED
    BY <2>1, <2>2
<1>16. ASSUME NEW c \in Consumers, c # s PROVE Reader(c)' = Reader(c)
  <2>1. subs'[c] = subs[c]
    BY <1>2, <1>16
  <2>2. Upto(c)' = Upto(c)
    BY <1>13, <1>15, <1>16, <2>1, UptoStays
  <2> QED
    BY <2>1, <2>2 DEF Reader, Delivered
<1>17. Upto(s)' = IF queued THEN Len(log) ELSE 0
  <2>1. CASE queued
    <3>1. Replaying(s, m)'
      BY <1>5, <1>15, <2>1
    <3> QED
      BY <1>5, <1>7, <1>13, <2>1, <3>1 DEF Seen
  <2>2. CASE ~queued
    <3>1. \A w \in Microtasks : ~Replaying(s, w)'
      <4>1. \A k \in 1 .. Len(micro) : ~IsReplay(micro[k], s)
        BY <1>1 DEF FeedInv, ReplaysAreRanges
      <4>2. \A w \in Microtasks : ~Replaying(s, w)
        BY <4>1 DEF Replaying
      <4> QED
        BY <1>15, <2>2, <4>2
    <3> QED
      BY <1>13, <2>2, <3>1 DEF Seen
  <2> QED
    BY <2>1, <2>2
<1>18. Reader(s)' = [state |-> "open", from |-> from, types |-> types, upto |-> Upto(s)', heard |-> <<>>]
  <2>1. Delivered(s)' = <<>>
    BY <1>2 DEF Delivered
  <2> QED
    BY <1>2, <2>1 DEF Reader
<1>19. Readers' = [Readers EXCEPT ![s] = [state |-> "open", from |-> from, types |-> types,
                                          upto |-> Upto(s)', heard |-> <<>>]]
  BY <1>16, <1>18 DEF Readers
<1>20. /\ Upto(s)' \in {0, Len(log)} /\ (from = 0 => Upto(s)' = 0)
       /\ from # 0 /\ ~closed => Upto(s)' = Len(log)
  BY <1>17 DEF queued, NoId
<1>23. Readers[s].state = "none"
  BY <1>1 DEF Readers, Reader
<1> QED
  BY <1>1, <1>12, <1>14, <1>19, <1>20, <1>23 DEF Promise!Join

\* What a consumer is pushed while it is open is heard behind what it had.
LEMMA PushedIsGiven ==
  ASSUME LogInv, NEW s \in Consumers, NEW ids \in Seq(EventIds),
         subs'[s] = Pushed(subs[s], ids, s \in waiting)
  PROVE  Reader(s)' = [Promise!Given(Reader(s), ids) EXCEPT !.upto = Upto(s)']
<1>1. subs[s] \in Subscription /\ (s \in waiting => subs[s].queue = <<>>)
  BY DEF LogInv, LogTypeOK, Subscription, ConsumerOK
<1>2. CASE Open(s)
  <2>1. /\ subs'[s].state = "open" /\ subs'[s].from = subs[s].from /\ subs'[s].types = subs[s].types
        /\ subs'[s].taken \o subs'[s].queue = (subs[s].taken \o subs[s].queue) \o ids
    BY <1>1, <1>2, PushedIsBehind
  <2>2. Delivered(s)' = Delivered(s) \o ids /\ subs[s].state = "open"
    BY <1>2, <2>1 DEF Delivered, Open
  <2> DEFINE Hearing(h, u) == [state |-> subs[s].state, from |-> subs[s].from, types |-> subs[s].types,
                              upto |-> u, heard |-> h]
  <2>3. Promise!Given(Reader(s), ids) = Hearing(Delivered(s) \o ids, Upto(s))
    BY <2>2 DEF Reader, Promise!Given
  <2>4. Reader(s)' = Hearing(Delivered(s) \o ids, Upto(s)')
    BY <2>1, <2>2 DEF Reader
  <2>5. \A h, u, v : [Hearing(h, u) EXCEPT !.upto = v] = Hearing(h, v)
    OBVIOUS
  <2> HIDE DEF Hearing
  <2> QED
    BY <2>3, <2>4, <2>5
<1>3. CASE ~Open(s)
  <2>1. subs'[s] = subs[s]
    BY <1>3 DEF Open, Pushed
  <2>2. Delivered(s)' = Delivered(s)
    BY <2>1 DEF Delivered
  <2> QED
    BY <1>3, <2>1, <2>2 DEF Reader, Open, Promise!Given
<1> QED
  BY <1>2, <1>3

\* notify tells the next event.
LEMMA NotifyTells ==
  ASSUME LogInv, FeedInv, Notify
  PROVE  FeedInv' /\ Promise!Tell
<1>0. PICK n \in Nat : AnnouncedUpTo(n)
  BY DEF FeedInv
<1>18. PICK id \in EventIds : id = Head(micro).id
  <2>1. Head(micro) \in Microtasks /\ Head(micro).kind = "notify"
    BY WorkIsDone DEF Notify, LogInv, WorkIsInOrder
  <2> QED
    BY <2>1 DEF Microtasks
<1>1. /\ micro \in Seq(Microtasks) /\ micro # <<>> /\ micro' = Tail(micro) /\ Head(micro).kind = "notify"
      /\ UNCHANGED <<store, log, closed, since>> /\ Len(log) \in Nat /\ Len(log) <= MaxEvents
      /\ MaxEvents \in Nat /\ subs \in [Consumers -> Subscription]
      /\ \A c \in Consumers :
           subs'[c] = IF Hears(c, id) THEN Pushed(subs[c], <<id>>, c \in waiting) ELSE subs[c]
  BY <1>18, LogConstants DEF LogConstants, LogInv, LogTypeOK, WorkIsInOrder, Notify, Subscription
<1>2. /\ Head(micro) \in Microtasks /\ Head(micro) = micro[1] /\ 1 \in 1 .. Len(micro)
      /\ micro' \in Seq(Microtasks)
      /\ \A k \in 1 .. Len(micro') : k + 1 \in 1 .. Len(micro) /\ micro'[k] = micro[k + 1]
      /\ \A x : Announced(x) <=> Announced(x)' \/ id = x
  BY <1>1, <1>18, WorkIsDone
<1>3. id \in EventIds /\ id \in Nat /\ Announced(id) /\ micro[1].kind = "notify" /\ micro[1].id = id
  BY <1>1, <1>2, <1>18 DEF Microtasks, EventIds
<1>4. n \in 0 .. Len(log) /\ \A x \in EventIds : Announced(x) <=> n < x /\ x <= Len(log)
  BY <1>0 DEF AnnouncedUpTo
<1>5. \A k \in 1 .. Len(micro) : k # 1 /\ micro[k].kind = "notify" => id < micro[k].id
  BY <1>2, <1>3 DEF LogInv, WorkIsInOrder
<1>6. id = n + 1 /\ n < Len(log)
  <2>1. n < id /\ id <= Len(log)
    BY <1>3, <1>4
  <2>2. n + 1 \in EventIds /\ n + 1 \in Nat /\ Announced(n + 1)
    <3>1. n + 1 \in EventIds
      BY <1>1, <1>3, <2>1 DEF EventIds
    <3> QED
      BY <1>3, <1>4, <2>1, <3>1
  <2>3. id <= n + 1
    <3>1. PICK k \in 1 .. Len(micro) : micro[k].kind = "notify" /\ micro[k].id = n + 1
      BY <2>2 DEF Announced
    <3> QED
      BY <1>3, <1>5, <2>2, <3>1
  <2> QED
    BY <1>3, <2>1, <2>3
<1>7. ~Announced(id)'
  <2> SUFFICES ASSUME NEW k \in 1 .. Len(micro'), micro'[k].kind = "notify", micro'[k].id = id PROVE FALSE
    BY <1>1, <1>2 DEF Announced
  <2>1. k + 1 \in 1 .. Len(micro) /\ micro'[k] = micro[k + 1] /\ k + 1 # 1
    BY <1>2
  <2>2. id < micro[k + 1].id
    BY <1>5, <2>1
  <2> QED
    BY <1>3, <2>1, <2>2
<1>8. AnnouncedUpTo(n + 1)'
  <2>1. n + 1 \in 0 .. Len(log')
    BY <1>1, <1>4, <1>6
  <2>2. ASSUME NEW x \in EventIds PROVE Announced(x)' <=> n + 1 < x /\ x <= Len(log')
    <3>1. x \in Nat
      BY DEF EventIds
    <3>2. CASE x = id
      BY <1>6, <1>7, <3>1, <3>2
    <3>3. CASE x # id
      <4>1. Announced(x)' <=> Announced(x)
        BY <1>2, <3>3
      <4>2. n + 1 < x <=> n < x
        BY <1>6, <3>1, <3>3
      <4> QED
        BY <1>1, <1>4, <4>1, <4>2
    <3> QED
      BY <3>2, <3>3
  <2> QED
    BY <2>1, <2>2 DEF AnnouncedUpTo
<1>9. ASSUME NEW c \in Consumers
      PROVE  subs'[c].from = subs[c].from /\ subs'[c].types = subs[c].types /\ subs'[c].state = subs[c].state
  <2>1. CASE Hears(c, id)
    <3>1. <<id>> \in Seq(EventIds) /\ Open(c) /\ subs[c] \in Subscription /\ (c \in waiting => subs[c].queue = <<>>)
      BY <1>1, <1>3, <2>1 DEF Hears, LogInv, ConsumerOK
    <3>2. subs'[c].from = subs[c].from /\ subs'[c].types = subs[c].types /\ subs'[c].state = "open"
      BY <1>1, <2>1, <3>1, PushedIsBehind
    <3> QED
      BY <3>1, <3>2 DEF Open
  <2>2. CASE ~Hears(c, id)
    BY <1>1, <2>2
  <2> QED
    BY <2>1, <2>2
<1>10. FeedInv'
  <2>1. Len(log) <= Len(log') /\ Len(log') \in Nat
    BY <1>1
  <2>2. OneReplayEach' /\ ReplaysAreRanges' /\ ReplaysAreInPlace'
    BY <1>1, <1>9, <2>1, ReplaysStay
  <2> QED
    BY <1>8, <2>2 DEF FeedInv
<1>11. Seen /\ Seen'
  BY <1>10, NotifyKeeps, SeenIs, SeenNext
<1>12. Told = n /\ Told' = n + 1
  <2>1. Told = n
    BY <1>0, <1>11 DEF Seen
  <2>2. Told' = n + 1
    BY <1>8, <1>11 DEF Seen
  <2> QED
    BY <2>1, <2>2
<1>13. ASSUME NEW c \in Consumers PROVE Upto(c)' = Upto(c)
  <2>1. ASSUME NEW m \in Microtasks PROVE Replaying(c, m)' <=> Replaying(c, m)
    <3>1. IsReplay(m, c)' <=> IsReplay(m, c)
      BY DEF IsReplay
    <3>2. IsReplay(m, c) => m # micro[1]
      BY <1>3 DEF IsReplay
    <3>3. \A k \in 1 .. Len(micro) : k = 1 \/ (k - 1 \in 1 .. Len(micro') /\ micro'[k - 1] = micro[k])
      BY <1>1, HeadTailProperties
    <3>4. (\E k \in 1 .. Len(micro') : micro'[k] = m) => \E k \in 1 .. Len(micro) : micro[k] = m
      BY <1>2
    <3>5. m # micro[1] /\ (\E k \in 1 .. Len(micro) : micro[k] = m) => \E k \in 1 .. Len(micro') : micro'[k] = m
      BY <3>3
    <3> QED
      BY <3>1, <3>2, <3>4, <3>5 DEF Replaying
  <2> QED
    BY <1>9, <1>11, <2>1, UptoStays
<1>14. \A c \in Consumers : Upto(c) = 0 \/ n < Upto(c)
  <2> TAKE c \in Consumers
  <2>1. ASSUME NEW m \in Microtasks, Replaying(c, m) PROVE n < Upto(c)
    <3>1. PICK k \in 1 .. Len(micro) : micro[k] = m
      BY <2>1 DEF Replaying
    <3>2. IsReplay(micro[k], c) /\ k # 1 /\ 1 < k
      BY <1>3, <2>1, <3>1 DEF Replaying, IsReplay
    <3>3. id <= Reach(c, m)
      BY <1>2, <1>3, <3>1, <3>2 DEF FeedInv, ReplaysAreInPlace
    <3>4. Reach(c, m) \in Nat
      <4>1. m.ids \in Seq(EventIds) /\ subs[c].from \in Nat
        BY <1>1, <2>1 DEF Replaying, IsReplay, Microtasks, Subscription
      <4>2. Len(m.ids) \in Nat
        BY <4>1, LenProperties
      <4> QED
        BY <4>1, <4>2 DEF Reach
    <3>5. Upto(c) = Reach(c, m)
      BY <1>11, <2>1 DEF Seen
    <3> QED
      BY <1>6, <3>3, <3>4, <3>5
  <2> QED
    BY <1>11, <2>1 DEF Seen
<1>15. ASSUME NEW c \in Consumers
       PROVE  Reader(c)' = IF Promise!Likes(Reader(c), n + 1) /\ (subs[c].from = 0 \/ subs[c].from < n + 1)
                           THEN Promise!Given(Reader(c), <<n + 1>>) ELSE Reader(c)
  <2>1. Promise!Likes(Reader(c), n + 1) <=> Admits(subs[c], id)
    BY <1>6 DEF Promise!Likes, Reader, Admits
  <2>2. CASE Hears(c, id)
    <3>1. <<id>> \in Seq(EventIds)
      BY <1>3
    <3>2. Reader(c)' = [Promise!Given(Reader(c), <<id>>) EXCEPT !.upto = Upto(c)']
      BY <1>1, <2>2, <3>1, PushedIsGiven
    <3>3. Promise!Given(Reader(c), <<id>>).upto = Upto(c)
      BY DEF Promise!Given, Reader
    <3>4. Reader(c)' = Promise!Given(Reader(c), <<id>>)
      BY <1>13, <3>2, <3>3 DEF Promise!Given, Reader
    <3> QED
      BY <1>6, <2>1, <2>2, <3>4 DEF Hears, NoId
  <2>3. CASE ~Hears(c, id)
    <3>1. Reader(c)' = Reader(c)
      <4>1. subs'[c] = subs[c]
        BY <1>1, <2>3
      <4> QED
        BY <1>13, <4>1 DEF Reader, Delivered
    <3>2. Open(c) \/ Promise!Given(Reader(c), <<n + 1>>) = Reader(c)
      BY DEF Promise!Given, Reader, Open
    <3> QED
      BY <1>6, <2>1, <2>3, <3>1, <3>2 DEF Hears, NoId
  <2> QED
    BY <2>2, <2>3
<1>16. Readers' = [c \in Consumers |->
                     IF Promise!Likes(Readers[c], n + 1) /\ (Readers[c].from = 0 \/ Readers[c].from < n + 1)
                     THEN Promise!Given(Readers[c], <<n + 1>>) ELSE Readers[c]]
  <2>1. \A c \in Consumers : Readers[c] = Reader(c) /\ Readers[c].from = subs[c].from
    BY DEF Readers, Reader
  <2>2. Readers' = [c \in Consumers |-> Reader(c)']
    BY DEF Readers
  <2> QED
    BY <1>15, <2>1, <2>2, Zenon
<1>17. \A c \in Consumers : Readers[c].upto = 0 \/ n < Readers[c].upto
  BY <1>14 DEF Readers, Reader
<1> QED
  BY <1>1, <1>6, <1>10, <1>12, <1>16, <1>17 DEF Promise!Tell

\* A replay lets its consumer catch up.
LEMMA ReplayCatchesUp ==
  ASSUME LogInv, FeedInv, Replay
  PROVE  FeedInv' /\ \E s \in Consumers : Promise!CatchUp(s)
<1>1. PICK n \in Nat : AnnouncedUpTo(n)
  BY DEF FeedInv
<1>2. /\ micro \in Seq(Microtasks) /\ micro # <<>> /\ micro' = Tail(micro) /\ Head(micro).kind = "replay"
      /\ UNCHANGED <<store, log, closed, since>> /\ Len(log) \in Nat /\ Len(log) <= MaxEvents
      /\ MaxEvents \in Nat /\ subs \in [Consumers -> Subscription]
  BY LogConstants DEF LogConstants, LogInv, LogTypeOK, WorkIsInOrder, Replay, Subscription
<1>3. PICK m \in Microtasks : m = Head(micro)
  BY <1>2, WorkIsDone
<1>4. PICK s \in Consumers : s = m.to
  BY <1>2, <1>3 DEF Microtasks
<1>5. IsReplay(m, s) /\ m.ids \in Seq(EventIds) /\ Len(m.ids) \in Nat /\ DOMAIN m.ids = 1 .. Len(m.ids)
  <2>1. IsReplay(m, s) /\ m.ids \in Seq(EventIds)
    BY <1>2, <1>3, <1>4 DEF IsReplay, Microtasks
  <2> QED
    BY <2>1
<1>6. /\ m = micro[1] /\ 1 \in 1 .. Len(micro) /\ micro' \in Seq(Microtasks)
      /\ \A k \in 1 .. Len(micro') : k + 1 \in 1 .. Len(micro) /\ micro'[k] = micro[k + 1]
      /\ \A k \in 1 .. Len(micro) : k = 1 \/ (k - 1 \in 1 .. Len(micro') /\ micro'[k - 1] = micro[k])
      /\ \A x : Announced(x) <=> Announced(x)'
  <2>1. \A k \in 1 .. Len(micro) : k = 1 \/ (k - 1 \in 1 .. Len(micro') /\ micro'[k - 1] = micro[k])
    BY <1>2, HeadTailProperties
  <2> QED
    BY <1>2, <1>3, <2>1, WorkIsDone
<1>7. PICK more : more = Selected(m.ids, {k \in DOMAIN m.ids : Admits(subs[s], m.ids[k])})
  OBVIOUS
<1>8. more \in Seq(EventIds)
  BY <1>5, <1>7, SelectedIsASubsequence
<1>9. /\ subs'[s] = Pushed(subs[s], more, s \in waiting)
      /\ \A c \in Consumers : c # s => subs'[c] = subs[c]
  <2>1. subs' = [subs EXCEPT ![s] = Pushed(subs[s], more, s \in waiting)]
    BY <1>3, <1>4, <1>7 DEF Replay
  <2> QED
    BY <1>2, <2>1
<1>10. \A c \in Consumers :
         subs'[c].from = subs[c].from /\ subs'[c].types = subs[c].types /\ subs'[c].state = subs[c].state
  <2>1. CASE Open(s)
    <3>1. subs[s] \in Subscription /\ (s \in waiting => subs[s].queue = <<>>)
      BY <1>2 DEF LogInv, ConsumerOK
    <3>2. subs'[s].from = subs[s].from /\ subs'[s].types = subs[s].types /\ subs'[s].state = "open"
      BY <1>8, <1>9, <2>1, <3>1, PushedIsBehind
    <3> QED
      BY <1>9, <2>1, <3>2 DEF Open
  <2>2. CASE ~Open(s)
    BY <1>9, <2>2 DEF Open, Pushed
  <2> QED
    BY <2>1, <2>2
<1>11. AnnouncedUpTo(n)'
  BY <1>1, <1>2, <1>6 DEF AnnouncedUpTo
<1>12. FeedInv'
  <2>1. Len(log) <= Len(log') /\ Len(log') \in Nat
    BY <1>2
  <2>2. OneReplayEach' /\ ReplaysAreRanges' /\ ReplaysAreInPlace'
    BY <1>2, <1>10, <2>1, ReplaysStay
  <2> QED
    BY <1>11, <2>2 DEF FeedInv
<1>13. Seen /\ Seen'
  BY <1>12, ReplayKeeps, SeenIs, SeenNext
<1>14. Told = n /\ Told' = n
  <2>1. Told = n
    BY <1>1, <1>13 DEF Seen
  <2>2. Told' = n
    BY <1>11, <1>13 DEF Seen
  <2> QED
    BY <2>1, <2>2
<1>15. /\ subs[s].from # NoId /\ m.ids = [i \in 1 .. Len(m.ids) |-> subs[s].from + i]
       /\ Reach(s, m) <= Len(log)
  BY <1>5, <1>6 DEF FeedInv, ReplaysAreRanges
<1>16. Upto(s) = Reach(s, m)
  BY <1>5, <1>6, <1>13 DEF Seen, Replaying
<1>17. /\ Upto(s) \in Nat /\ Upto(s) # 0 /\ Upto(s) - subs[s].from = Len(m.ids) /\ Upto(s) <= Len(log)
       /\ subs[s].from \in Nat
  <2>1. subs[s].from \in Nat
    BY <1>2 DEF Subscription
  <2> QED
    BY <1>5, <1>15, <1>16, <2>1 DEF Reach, NoId
<1>18. n >= Upto(s)
  <2> SUFFICES ASSUME n < Upto(s) PROVE FALSE
    BY <1>17
  <2>1. n + 1 \in EventIds /\ n + 1 <= Len(log) /\ n + 1 <= Upto(s)
    BY <1>2, <1>17 DEF EventIds
  <2>2. Announced(n + 1)
    BY <1>1, <2>1 DEF AnnouncedUpTo
  <2>3. PICK k \in 1 .. Len(micro) : micro[k].kind = "notify" /\ micro[k].id = n + 1
    BY <2>2 DEF Announced
  <2>4. k # 1 /\ 1 < k
    BY <1>5, <1>6, <2>3 DEF IsReplay
  <2>5. n + 1 > Upto(s)
    BY <1>5, <1>6, <1>16, <2>3, <2>4 DEF FeedInv, ReplaysAreInPlace
  <2> QED
    BY <1>17, <2>1, <2>5
<1>19. ASSUME NEW c \in Consumers, NEW w \in Microtasks
       PROVE  Replaying(c, w)' <=> Replaying(c, w) /\ c # s
  <2>1. (IsReplay(w, c)' <=> IsReplay(w, c)) /\ (IsReplay(m, c) <=> c = s)
    BY <1>5 DEF IsReplay
  <2>2. CASE c = s
    <3> SUFFICES ASSUME NEW k \in 1 .. Len(micro'), micro'[k] = w, IsReplay(w, s) PROVE FALSE
      BY <2>1, <2>2 DEF Replaying
    <3>1. k + 1 \in 1 .. Len(micro) /\ IsReplay(micro[k + 1], s) /\ k + 1 # 1
      BY <1>6
    <3>2. k + 1 = 1
      BY <1>5, <1>6, <3>1 DEF FeedInv, OneReplayEach
    <3> QED
      BY <3>1, <3>2
  <2>3. CASE c # s
    <3>1. IsReplay(w, c) => w # m
      BY <2>1, <2>3
    <3>2. (\E k \in 1 .. Len(micro') : micro'[k] = w) => \E k \in 1 .. Len(micro) : micro[k] = w
      BY <1>6
    <3>3. w # m /\ (\E k \in 1 .. Len(micro) : micro[k] = w) => \E k \in 1 .. Len(micro') : micro'[k] = w
      BY <1>6
    <3> QED
      BY <2>1, <2>3, <3>1, <3>2, <3>3 DEF Replaying
  <2> QED
    BY <2>2, <2>3
<1>20. Upto(s)' = 0 /\ \A c \in Consumers : c # s => Upto(c)' = Upto(c)
  <2>1. Upto(s)' = 0
    BY <1>13, <1>19 DEF Seen
  <2>2. ASSUME NEW c \in Consumers, c # s PROVE Upto(c)' = Upto(c)
    BY <1>10, <1>13, <1>19, <2>2, UptoStays
  <2> QED
    BY <2>1, <2>2
<1> DEFINE all == [k \in 1 .. Upto(s) - subs[s].from |-> subs[s].from + k]
<1>21. more = Promise!Selected(all, {k \in DOMAIN all : Promise!Likes(Reader(s), all[k])})
  <2>1. all = m.ids
    BY <1>15, <1>17
  <2>2. \A x : Promise!Likes(Reader(s), x) <=> Admits(subs[s], x)
    BY DEF Promise!Likes, Reader, Admits
  <2> HIDE DEF all
  <2>3. {k \in DOMAIN all : Promise!Likes(Reader(s), all[k])} = {k \in DOMAIN m.ids : Admits(subs[s], m.ids[k])}
    BY <2>1, <2>2
  <2>4. \A K : Promise!Selected(all, K) = Selected(all, K)
    BY DEF Selected, Promise!Selected
  <2> QED
    BY <1>7, <2>1, <2>3, <2>4
<1>22. Reader(s)' = [Promise!Given(Reader(s), more) EXCEPT !.upto = 0]
  BY <1>8, <1>9, <1>20, PushedIsGiven
<1>23. ASSUME NEW c \in Consumers, c # s PROVE Reader(c)' = Reader(c)
  <2>1. subs'[c] = subs[c] /\ Upto(c)' = Upto(c)
    BY <1>9, <1>20, <1>23
  <2> QED
    BY <2>1 DEF Reader, Delivered
<1>24. Readers' = [Readers EXCEPT ![s] = [Promise!Given(Readers[s], more) EXCEPT !.upto = 0]]
  <2>1. Readers[s] = Reader(s)
    BY DEF Readers
  <2> QED
    BY <1>22, <1>23, <2>1 DEF Readers
<1>25. Readers[s] = Reader(s) /\ Reader(s).upto = Upto(s) /\ Reader(s).from = subs[s].from
  BY DEF Readers, Reader
<1> HIDE DEF all
<1>26. Promise!CatchUp(s)
  BY <1>2, <1>14, <1>17, <1>18, <1>21, <1>24, <1>25 DEF Promise!CatchUp, all
<1> QED
  BY <1>12, <1>26

LEMMA LogIsAFeedStep ==
  ASSUME LogInv, FeedInv, [LogNext]_logVars
  PROVE  FeedInv' /\ [Promise!FeedNext]_Promise!feedVars
<1>1. CASE \E t \in Types : AppendEvent(t)
  BY <1>1, AppendPublishes DEF Promise!FeedNext
<1>2. CASE \E s \in Consumers, from \in StartIds, types \in SUBSET Types : Subscribe(s, from, types)
  <2>1. PICK s \in Consumers, from \in StartIds, types \in SUBSET Types : Subscribe(s, from, types)
    BY <1>2
  <2>2. from \in 0 .. Len(log)
    BY DEF StartIds, NoId, LogInv, LogTypeOK
  <2> QED
    BY <2>1, <2>2, SubscribeJoins DEF Promise!FeedNext
<1>3. CASE \E s \in Consumers : TakeNext(s) \/ EndIteration(s)
  BY <1>3, TakeNextShowsNothing, EndIterationLeaves DEF Promise!FeedNext
<1>4. CASE Close \/ Notify \/ Replay \/ Restart
  BY <1>4, CloseShuts, NotifyTells, ReplayCatchesUp, RestartBeginsAgain DEF Promise!FeedNext
<1>5. CASE UNCHANGED logVars
  <2>1. UNCHANGED <<log, closed, micro, subs>> /\ LogInv'
    BY <1>5, LogInvStep DEF logVars
  <2>2. FeedInv' /\ Told' = Told /\ \A s \in Consumers : Upto(s)' = Upto(s)
    BY <2>1, FeedInvStays
  <2>3. Readers' = Readers
    BY <2>1, <2>2 DEF Readers, Reader, Delivered
  <2> QED
    BY <2>1, <2>2, <2>3 DEF Promise!feedVars
<1> QED
  BY <1>1, <1>2, <1>3, <1>4, <1>5 DEF LogNext

\* The event log is a feed, whatever storage, notification and replay come between:
\* append publishes, notify tells the next event, a replay catches up before anything
\* stored after it was asked for is told.
THEOREM LogImplementsFeed == LogSpec => LogIsAFeed
<1>1. LogInv /\ FeedInv /\ [LogNext]_logVars => LogInv' /\ FeedInv' /\ [Promise!FeedNext]_Promise!feedVars
  BY LogInvStep, LogIsAFeedStep
<1> QED
  BY <1>1, LogInvInit, FeedInvInit, PTL DEF LogSpec, LogIsAFeed, Promise!FeedPromise
=============================================================================

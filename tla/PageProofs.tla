----------------------------- MODULE PageProofs -----------------------------
(***************************************************************************)
(* The user interface: the requests of pages and their answers             *)
(* (ControlChannel), the copies pages keep of the server's graph           *)
(* (GraphSync), and a page's socket (WsClient).                            *)
(***************************************************************************)
EXTENDS ControlChannel, GraphSync, WsClient, SequenceLemmas

-----------------------------------------------------------------------------
(* ControlChannel.                                                           *)

\* A page's requests are numbered upwards: what the server has yet to read of it
\* is newer than all its runs, and what it will ask is newer still.
RequestsAreNew ==
  \A p \in Pages :
    /\ nextSeqId[p] >= 1
    /\ \A i \in 1 .. Len(up[p]) : up[p][i].page = p /\ up[p][i].seqId < nextSeqId[p]
    /\ \A i, j \in 1 .. Len(up[p]) : i < j => up[p][i].seqId < up[p][j].seqId
RunsAreOlder ==
  \A r \in runs :
    /\ r.request.seqId < nextSeqId[r.request.page]
    /\ \A i \in 1 .. Len(up[r.request.page]) : r.request.seqId < up[r.request.page][i].seqId

\* So that no two runs are of one request, and each keeps its asker's socket.
RunsAreDistinct == \A r, q \in runs : r.request = q.request => r = q
RunsKnowTheirAsker == \A r \in runs : r.request.kind = "run" /\ r.ws[1] = r.request.page

\* Only other requests are answered on the context's socket, and an answer to a
\* run travels to the page that asked for it.
OthersAwait == \A w \in work : w.kind = "submit"
AnswersOfRunsAreHome ==
  \A p \in Pages : \A i \in 1 .. Len(down[p]) : down[p][i].kind = "run" => down[p][i].page = p

\* A page that has lost its socket may have another (a bound of the model).
SocketIsLeft == \A p \in Pages : ~isOpen[p] => sockets[p] < MaxSockets

RunsInv == RunsAreOlder /\ RunsAreDistinct /\ RunsKnowTheirAsker /\ OneLiveRun
AnswersInv == OthersAwait /\ AnswersOfRunsAreHome /\ RunsAnswerTheirAsker

\* The inductive invariant.
ControlInv == ControlTypeOK /\ RequestsAreNew /\ SocketIsLeft /\ RunsInv /\ AnswersInv

Run == [request : RequestsOf, ws : Pages \X (1 .. MaxSockets), aborted : BOOLEAN]

\* What the server reads of a page: its oldest request, and what is left of it.
LEMMA HandleReads ==
  ASSUME ControlInv, NEW p \in Pages, NEW kind, Handle(p, kind)
  PROVE  /\ Head(up[p]) \in RequestsOf /\ Head(up[p]).page = p /\ Head(up[p]).kind = kind
         /\ Head(up[p]) = up[p][1] /\ 1 \in 1 .. Len(up[p])
         /\ up' \in [Pages -> Seq(RequestsOf)] /\ ctxWs' = <<p, sockets[p]>>
         /\ ctxWs' \in Pages \X (1 .. MaxSockets)
         /\ RequestsAreNew'
         /\ \A i \in 1 .. Len(up'[p]) : i + 1 \in 1 .. Len(up[p]) /\ up'[p][i] = up[p][i + 1]
         /\ \A q \in Pages \ {p} : up'[q] = up[q]
<1>1. up \in [Pages -> Seq(RequestsOf)] /\ sockets \in [Pages -> 1 .. MaxSockets] /\ RequestsAreNew
  BY DEF ControlInv, ControlTypeOK
<1>2. up[p] # <<>> /\ Head(up[p]).kind = kind /\ up' = [up EXCEPT ![p] = Tail(@)]
      /\ ctxWs' = <<p, sockets[p]>> /\ nextSeqId' = nextSeqId
  BY DEF Handle, pageVars
<1>3. /\ Head(up[p]) \in RequestsOf /\ Head(up[p]) = up[p][1] /\ 1 \in 1 .. Len(up[p])
      /\ Tail(up[p]) \in Seq(RequestsOf) /\ Len(Tail(up[p])) = Len(up[p]) - 1 /\ Len(up[p]) \in Nat
      /\ \A i \in 1 .. Len(up[p]) - 1 : Tail(up[p])[i] = up[p][i + 1]
  <2>1. up[p] \in Seq(RequestsOf)
    BY <1>1
  <2> QED
    BY <1>2, <2>1, HeadTailProperties
<1>4. up'[p] = Tail(up[p]) /\ \A q \in Pages \ {p} : up'[q] = up[q]
  BY <1>1, <1>2
<1>5. \A i \in 1 .. Len(up'[p]) : i + 1 \in 1 .. Len(up[p]) /\ up'[p][i] = up[p][i + 1]
  BY <1>3, <1>4
<1>6. RequestsAreNew'
  <2> SUFFICES ASSUME NEW q \in Pages
               PROVE  /\ nextSeqId[q] >= 1
                      /\ \A i \in 1 .. Len(up'[q]) : up'[q][i].page = q /\ up'[q][i].seqId < nextSeqId[q]
                      /\ \A i, j \in 1 .. Len(up'[q]) : i < j => up'[q][i].seqId < up'[q][j].seqId
    BY <1>2 DEF RequestsAreNew
  <2>1. CASE q # p
    BY <1>1, <1>4, <2>1 DEF RequestsAreNew
  <2>2. CASE q = p
    <3>1. \A i, j \in 1 .. Len(up[p]) : i < j => up[p][i].seqId < up[p][j].seqId
      BY <1>1 DEF RequestsAreNew
    <3>2. \A i, j \in 1 .. Len(up'[p]) : i < j => up'[p][i].seqId < up'[p][j].seqId
      <4> TAKE i, j \in 1 .. Len(up'[p])
      <4> HAVE i < j
      <4>1. i + 1 < j + 1 /\ i + 1 \in 1 .. Len(up[p]) /\ j + 1 \in 1 .. Len(up[p])
        BY <1>5
      <4> QED
        BY <1>5, <3>1, <4>1
    <3>3. nextSeqId[p] >= 1 /\ \A i \in 1 .. Len(up'[p]) : up'[p][i].page = p /\ up'[p][i].seqId < nextSeqId[p]
      <4>1. nextSeqId[p] >= 1 /\ \A i \in 1 .. Len(up[p]) : up[p][i].page = p /\ up[p][i].seqId < nextSeqId[p]
        BY <1>1 DEF RequestsAreNew
      <4> QED
        BY <1>5, <4>1
    <3> QED
      BY <2>2, <3>2, <3>3
  <2> QED
    BY <2>1, <2>2
<1>7. Head(up[p]).page = p
  BY <1>1, <1>3 DEF RequestsAreNew
<1>8. up' \in [Pages -> Seq(RequestsOf)]
  BY <1>1, <1>2, <1>3
<1>9. ctxWs' \in Pages \X (1 .. MaxSockets)
  BY <1>1, <1>2
<1> QED
  BY <1>2, <1>3, <1>4, <1>5, <1>6, <1>7, <1>8, <1>9

\* What is said on a socket is an answer of its page, if an answer to a run.
LEMMA RespondReaches ==
  ASSUME ControlInv, NEW ws \in Pages \X (1 .. MaxSockets), NEW request \in RequestsOf,
         request.kind = "run" => ws[1] = request.page, Respond(ws, request)
  PROVE  down' \in [Pages -> Seq(RequestsOf)] /\ AnswersOfRunsAreHome'
<1>1. down \in [Pages -> Seq(RequestsOf)] /\ AnswersOfRunsAreHome
  BY DEF ControlInv, ControlTypeOK, AnswersInv
<1>2. CASE down' = down
  BY <1>1, <1>2 DEF AnswersOfRunsAreHome
<1>3. CASE down' = [down EXCEPT ![ws[1]] = Append(@, request)]
  <2>1. PICK p \in Pages : p = ws[1]
    OBVIOUS
  <2>2. down'[p] = Append(down[p], request) /\ \A q \in Pages \ {p} : down'[q] = down[q]
    BY <1>1, <1>3, <2>1
  <2>3. down[p] \in Seq(RequestsOf)
    BY <1>1
  <2>4. /\ down'[p] \in Seq(RequestsOf) /\ Len(down'[p]) = Len(down[p]) + 1 /\ Len(down[p]) \in Nat
        /\ \A i \in 1 .. Len(down[p]) : down'[p][i] = down[p][i]
        /\ down'[p][Len(down[p]) + 1] = request
    BY <2>2, <2>3
  <2>5. down' \in [Pages -> Seq(RequestsOf)]
    BY <1>1, <1>3, <2>1, <2>2, <2>4
  <2>6. ASSUME NEW q \in Pages, NEW i \in 1 .. Len(down'[q]), down'[q][i].kind = "run"
        PROVE  down'[q][i].page = q
    <3>1. CASE q # p
      BY <1>1, <2>2, <2>6, <3>1 DEF AnswersOfRunsAreHome
    <3>2. CASE q = p /\ i = Len(down[p]) + 1
      BY <2>1, <2>4, <2>6, <3>2
    <3>3. CASE q = p /\ i # Len(down[p]) + 1
      <4>1. i \in 1 .. Len(down[p]) /\ down'[p][i] = down[p][i]
        BY <2>4, <2>6, <3>3
      <4> QED
        BY <1>1, <2>6, <3>3, <4>1 DEF AnswersOfRunsAreHome
    <3> QED
      BY <3>1, <3>2, <3>3
  <2> QED
    BY <2>5, <2>6 DEF AnswersOfRunsAreHome
<1> QED
  BY <1>2, <1>3 DEF Respond

\* To abort the active run changes what it answers, and when, not whose it is.
LEMMA AbortActiveSpares ==
  ASSUME ControlInv
  PROVE  /\ AbortActive \subseteq Run
         /\ \A r \in AbortActive : \E q \in runs : q.request = r.request /\ q.ws = r.ws
         /\ \A r, q \in AbortActive : r.request = q.request => r = q
         /\ \A r \in AbortActive : r.aborted
<1>1. runs \subseteq Run /\ RunsAreDistinct /\ OneLiveRun
  BY DEF ControlInv, ControlTypeOK, RunsInv, Run
<1>2. \A r \in runs : Aborted(r) \in Run /\ Aborted(r).request = r.request
                      /\ Aborted(r).ws = r.ws /\ Aborted(r).aborted
  BY <1>1 DEF Aborted, Run
<1>3. \A r \in AbortActive : \E q \in runs : r = IF q.request = activeRun THEN Aborted(q) ELSE q
  BY DEF AbortActive
<1>4. \A q \in runs : q.request # activeRun => q.aborted
  BY <1>1 DEF OneLiveRun
<1>5. \A r \in AbortActive : r \in Run /\ r.aborted /\ \E q \in runs :
        q.request = r.request /\ q.ws = r.ws /\ r = IF q.request = activeRun THEN Aborted(q) ELSE q
  BY <1>1, <1>2, <1>3, <1>4
<1> QED
  BY <1>1, <1>5 DEF RunsAreDistinct

LEMMA ControlInvInit == ControlInit => ControlInv
<1> SUFFICES ASSUME ControlInit PROVE ControlInv
  OBVIOUS
<1>1. 1 \in 1 .. MaxSockets
  BY ControlAssumption DEF ControlAssumption
<1>2. \A p \in Pages : up[p] = <<>> /\ down[p] = <<>> /\ isOpen[p] /\ nextSeqId[p] = 1
  BY DEF ControlInit
<1>3. ControlTypeOK
  BY <1>1 DEF ControlInit, ControlTypeOK
<1>4. RequestsAreNew /\ SocketIsLeft /\ AnswersOfRunsAreHome
  BY <1>2 DEF RequestsAreNew, SocketIsLeft, AnswersOfRunsAreHome
<1>5. RunsInv /\ OthersAwait /\ RunsAnswerTheirAsker
  BY DEF ControlInit, RunsInv, RunsAreOlder, RunsAreDistinct, RunsKnowTheirAsker, OneLiveRun,
         OthersAwait, RunsAnswerTheirAsker
<1> QED
  BY <1>3, <1>4, <1>5 DEF ControlInv, AnswersInv

\* The runs that go on are the runs there were, and their pages' requests are
\* no older than before.
LEMMA RunsGoOn ==
  ASSUME ControlInv, runs' = runs, activeRun' = activeRun,
         \A p \in Pages : nextSeqId'[p] >= nextSeqId[p] /\ nextSeqId'[p] \in Nat,
         \A p \in Pages : \A i \in 1 .. Len(up'[p]) :
           \/ \E j \in 1 .. Len(up[p]) : up'[p][i] = up[p][j]
           \/ up'[p][i].seqId = nextSeqId[p]
  PROVE  RunsInv'
<1>1. RunsInv /\ runs \subseteq Run /\ nextSeqId \in [Pages -> Nat]
  BY DEF ControlInv, ControlTypeOK, Run
<1>2. \A r \in runs : r.request.page \in Pages /\ r.request.seqId \in Nat
  BY <1>1, ControlAssumption DEF Run, RequestsOf, SeqIds, ControlAssumption
<1>3. RunsAreOlder'
  <2> SUFFICES ASSUME NEW r \in runs, NEW p \in Pages, p = r.request.page
               PROVE  /\ r.request.seqId < nextSeqId'[p]
                      /\ \A i \in 1 .. Len(up'[p]) : r.request.seqId < up'[p][i].seqId
    BY <1>2 DEF RunsAreOlder
  <2>1. r.request.seqId < nextSeqId[p] /\ \A i \in 1 .. Len(up[p]) : r.request.seqId < up[p][i].seqId
    BY <1>1 DEF RunsInv, RunsAreOlder
  <2>2. nextSeqId[p] \in Nat /\ nextSeqId'[p] \in Nat /\ nextSeqId'[p] >= nextSeqId[p]
    BY <1>1
  <2> QED
    BY <1>2, <2>1, <2>2
<1> QED
  BY <1>1, <1>3 DEF RunsInv, RunsAreDistinct, RunsKnowTheirAsker, OneLiveRun

\* A request that is settled with an answer of the page's socket keeps the answers at home.
LEMMA SettledAtHome ==
  ASSUME ControlInv, NEW p \in Pages, NEW s \in SeqIds, NEW result, Settled(p, s, result),
         result \in RequestsOf \cup {NoAnswer, TimedOut},
         result \in {NoAnswer, TimedOut} \/ (result.kind = "run" => result.page = p)
  PROVE  /\ RunsAnswerTheirAsker'
         /\ pending' \in [Pages -> SUBSET SeqIds]
         /\ outcome' \in [Pages -> [SeqIds -> RequestsOf \cup {NoAnswer, TimedOut}]]
<1>1. /\ pending \in [Pages -> SUBSET SeqIds] /\ RunsAnswerTheirAsker
      /\ outcome \in [Pages -> [SeqIds -> RequestsOf \cup {NoAnswer, TimedOut}]]
  BY DEF ControlInv, ControlTypeOK, AnswersInv
<1>2. /\ pending' = [pending EXCEPT ![p] = @ \ {s}]
      /\ outcome' = [outcome EXCEPT ![p][s] = result]
  BY DEF Settled
<1>3. outcome'[p][s] = result /\ \A q \in Pages, t \in SeqIds : q # p \/ t # s => outcome'[q][t] = outcome[q][t]
  BY <1>1, <1>2
<1>4. RunsAnswerTheirAsker'
  BY <1>1, <1>3 DEF RunsAnswerTheirAsker
<1> QED
  BY <1>1, <1>2, <1>4

\* Every request, answer, loss and reconnection keeps the invariant.
LEMMA ControlInvStep == ControlInv /\ [ControlNext]_controlVars => ControlInv'
<1> SUFFICES ASSUME ControlInv, [ControlNext]_controlVars
             PROVE  ControlInv'
  OBVIOUS
<1>a. ControlTypeOK /\ RequestsAreNew /\ SocketIsLeft /\ RunsInv /\ AnswersInv
  BY DEF ControlInv
<1>b. MaxSockets \in Nat /\ MaxSockets >= 1 /\ Quota \in [Pages -> Nat] /\ SeqIds \subseteq Nat
  BY ControlAssumption DEF ControlAssumption, SeqIds
<1>1. ASSUME NEW p \in Pages, NEW kind \in Kinds, Request(p, kind) PROVE ControlInv'
  <2> DEFINE n == nextSeqId[p]  new == [page |-> p, seqId |-> n, kind |-> kind]
  <2>1. n \in Nat /\ n \in SeqIds /\ new \in RequestsOf
    <3>1. n \in Nat /\ n >= 1 /\ n <= Quota[p] /\ Quota[p] \in Nat
      BY <1>a, <1>b, <1>1 DEF ControlTypeOK, RequestsAreNew, Request
    <3>2. n \in 1 .. Quota[p]
      BY <3>1
    <3>3. n \in SeqIds
      BY <3>2 DEF SeqIds
    <3> QED
      BY <3>1, <3>3 DEF RequestsOf
  <2> HIDE DEF new
  <2>2. /\ up' = [up EXCEPT ![p] = Append(@, new)] /\ nextSeqId' = [nextSeqId EXCEPT ![p] = n + 1]
        /\ pending' = [pending EXCEPT ![p] = @ \cup {n}]
        /\ UNCHANGED <<sockets, isOpen, down, outcome, ctxWs, work, runs, activeRun>>
    BY <1>1 DEF Request, new
  <2>3. up[p] \in Seq(RequestsOf) /\ up'[p] = Append(up[p], new) /\ \A q \in Pages \ {p} : up'[q] = up[q]
    BY <1>a, <2>2 DEF ControlTypeOK
  <2>4. /\ up'[p] \in Seq(RequestsOf) /\ Len(up'[p]) = Len(up[p]) + 1 /\ Len(up[p]) \in Nat
        /\ \A i \in 1 .. Len(up[p]) : up'[p][i] = up[p][i]
        /\ up'[p][Len(up[p]) + 1] = new
    BY <2>1, <2>3
  <2>5. nextSeqId'[p] = n + 1 /\ \A q \in Pages \ {p} : nextSeqId'[q] = nextSeqId[q]
    BY <1>a, <2>2 DEF ControlTypeOK
  <2>6. ControlTypeOK'
    <3>1. up' \in [Pages -> Seq(RequestsOf)]
      BY <1>a, <2>2, <2>3, <2>4 DEF ControlTypeOK
    <3>2. nextSeqId' \in [Pages -> Nat] /\ pending' \in [Pages -> SUBSET SeqIds]
      BY <1>a, <2>1, <2>2 DEF ControlTypeOK
    <3> QED
      BY <1>a, <2>2, <3>1, <3>2 DEF ControlTypeOK
  <2>7. \A q \in Pages : \A i \in 1 .. Len(up'[q]) :
          IF q = p /\ i = Len(up[p]) + 1 THEN up'[q][i] = new
          ELSE i \in 1 .. Len(up[q]) /\ up'[q][i] = up[q][i]
    BY <2>3, <2>4
  <2>8. RequestsAreNew'
    <3> SUFFICES ASSUME NEW q \in Pages
                 PROVE  /\ nextSeqId'[q] >= 1
                        /\ \A i \in 1 .. Len(up'[q]) : up'[q][i].page = q /\ up'[q][i].seqId < nextSeqId'[q]
                        /\ \A i, j \in 1 .. Len(up'[q]) : i < j => up'[q][i].seqId < up'[q][j].seqId
      BY DEF RequestsAreNew
    <3>1. CASE q # p
      BY <1>a, <2>3, <2>5, <3>1 DEF RequestsAreNew
    <3>2. CASE q = p
      <4>1. \A i \in 1 .. Len(up[p]) : up[p][i].page = p /\ up[p][i].seqId < n /\ up[p][i].seqId \in Nat
        <5>1. \A i \in 1 .. Len(up[p]) : up[p][i] \in RequestsOf
          BY <2>3, ElementOfSeq
        <5> QED
          BY <1>a, <1>b, <5>1 DEF RequestsAreNew, RequestsOf
      <4>2. new.page = p /\ new.seqId = n
        BY DEF new
      <4>3. nextSeqId'[q] >= 1 /\ \A i \in 1 .. Len(up'[p]) : up'[p][i].page = p /\ up'[p][i].seqId < n + 1
        <5>1. n \in Nat
          BY <2>1
        <5>2. nextSeqId'[q] >= 1
          BY <2>1, <2>5, <3>2
        <5>3. ASSUME NEW i \in 1 .. Len(up'[p]) PROVE up'[p][i].page = p /\ up'[p][i].seqId < n + 1
          <6>1. CASE i = Len(up[p]) + 1
            BY <2>4, <4>2, <5>1, <6>1
          <6>2. CASE i # Len(up[p]) + 1
            <7>1. i \in 1 .. Len(up[p]) /\ up'[p][i] = up[p][i]
              BY <2>4, <6>2
            <7>2. up[p][i].page = p /\ up[p][i].seqId < n /\ up[p][i].seqId \in Nat
              BY <4>1, <7>1
            <7> QED
              BY <5>1, <7>1, <7>2
          <6> QED
            BY <6>1, <6>2
        <5> QED
          BY <5>2, <5>3
      <4>4. ASSUME NEW i \in 1 .. Len(up'[p]), NEW j \in 1 .. Len(up'[p]), i < j
            PROVE  up'[p][i].seqId < up'[p][j].seqId
        <5>1. i \in 1 .. Len(up[p]) /\ up'[p][i] = up[p][i]
          BY <2>4, <4>4
        <5>2. CASE j = Len(up[p]) + 1
          BY <2>4, <4>1, <4>2, <5>1, <5>2
        <5>3. CASE j # Len(up[p]) + 1
          <6>1. j \in 1 .. Len(up[p]) /\ up'[p][j] = up[p][j]
            BY <2>4, <5>3
          <6> QED
            BY <1>a, <4>4, <5>1, <6>1 DEF RequestsAreNew
        <5> QED
          BY <5>2, <5>3
      <4> QED
        BY <2>5, <3>2, <4>3, <4>4
    <3> QED
      BY <3>1, <3>2
  <2>9. RunsInv'
    <3>1. \A q \in Pages : nextSeqId'[q] >= nextSeqId[q] /\ nextSeqId'[q] \in Nat
      <4>1. nextSeqId \in [Pages -> Nat]
        BY <1>a DEF ControlTypeOK
      <4> TAKE q \in Pages
      <4>2. CASE q = p
        BY <2>1, <2>5, <4>2
      <4>3. CASE q # p
        BY <2>5, <4>1, <4>3
      <4> QED
        BY <4>2, <4>3
    <3>2. \A q \in Pages : \A i \in 1 .. Len(up'[q]) :
            \/ \E j \in 1 .. Len(up[q]) : up'[q][i] = up[q][j]
            \/ up'[q][i].seqId = nextSeqId[q]
      BY <2>7 DEF new
    <3> QED
      BY <2>2, <3>1, <3>2, RunsGoOn
  <2> QED
    BY <1>a, <2>2, <2>6, <2>8, <2>9
    DEF ControlInv, SocketIsLeft, AnswersInv, OthersAwait, AnswersOfRunsAreHome, RunsAnswerTheirAsker
<1>2. ASSUME NEW p \in Pages, NEW s \in SeqIds, Timeout(p, s) PROVE ControlInv'
  <2>1. /\ Settled(p, s, TimedOut)
        /\ UNCHANGED <<sockets, isOpen, nextSeqId, up, down, ctxWs, work, runs, activeRun>>
    BY <1>2 DEF Timeout
  <2>2. /\ RunsAnswerTheirAsker' /\ pending' \in [Pages -> SUBSET SeqIds]
        /\ outcome' \in [Pages -> [SeqIds -> RequestsOf \cup {NoAnswer, TimedOut}]]
    BY <2>1, SettledAtHome
  <2>3. ControlTypeOK'
    BY <1>a, <2>1, <2>2 DEF ControlTypeOK
  <2>4. RequestsAreNew' /\ SocketIsLeft'
    BY <1>a, <2>1 DEF RequestsAreNew, SocketIsLeft
  <2>5. RunsInv'
    BY <1>a, <2>1 DEF RunsInv, RunsAreOlder, RunsAreDistinct, RunsKnowTheirAsker, OneLiveRun
  <2>6. AnswersInv'
    BY <1>a, <2>1, <2>2 DEF AnswersInv, OthersAwait, AnswersOfRunsAreHome
  <2> QED
    BY <2>3, <2>4, <2>5, <2>6 DEF ControlInv
<1>3. ASSUME NEW p \in Pages, Hear(p) PROVE ControlInv'
  <2> DEFINE answered == Head(down[p])
  <2>1. /\ down[p] # <<>> /\ down' = [down EXCEPT ![p] = Tail(@)]
        /\ \/ answered.seqId \in pending[p] /\ Settled(p, answered.seqId, answered)
           \/ UNCHANGED <<pending, outcome>>
        /\ UNCHANGED <<sockets, isOpen, nextSeqId, up, ctxWs, work, runs, activeRun>>
    BY <1>3 DEF Hear
  <2>2. /\ answered \in RequestsOf /\ answered = down[p][1] /\ 1 \in 1 .. Len(down[p])
        /\ Tail(down[p]) \in Seq(RequestsOf) /\ Len(Tail(down[p])) = Len(down[p]) - 1 /\ Len(down[p]) \in Nat
        /\ \A i \in 1 .. Len(down[p]) - 1 : Tail(down[p])[i] = down[p][i + 1]
    <3>1. down[p] \in Seq(RequestsOf)
      BY <1>a DEF ControlTypeOK
    <3> QED
      BY <2>1, <3>1, HeadTailProperties
  <2>3. answered.kind = "run" => answered.page = p
    BY <1>a, <2>2 DEF AnswersInv, AnswersOfRunsAreHome
  <2>4. /\ RunsAnswerTheirAsker' /\ pending' \in [Pages -> SUBSET SeqIds]
        /\ outcome' \in [Pages -> [SeqIds -> RequestsOf \cup {NoAnswer, TimedOut}]]
    <3>1. CASE UNCHANGED <<pending, outcome>>
      BY <1>a, <3>1 DEF ControlTypeOK, AnswersInv, RunsAnswerTheirAsker
    <3>2. CASE answered.seqId \in pending[p] /\ Settled(p, answered.seqId, answered)
      <4>1. answered.seqId \in SeqIds
        BY <2>2 DEF RequestsOf
      <4> HIDE DEF answered
      <4> QED
        BY <2>2, <2>3, <3>2, <4>1, SettledAtHome
    <3> QED
      BY <2>1, <3>1, <3>2
  <2>5. down' \in [Pages -> Seq(RequestsOf)]
    BY <1>a, <2>1, <2>2 DEF ControlTypeOK
  <2>6. AnswersOfRunsAreHome'
    <3>1. down'[p] = Tail(down[p]) /\ \A q \in Pages \ {p} : down'[q] = down[q]
      BY <1>a, <2>1 DEF ControlTypeOK
    <3>2. \A i \in 1 .. Len(down'[p]) : i + 1 \in 1 .. Len(down[p]) /\ down'[p][i] = down[p][i + 1]
      BY <2>2, <3>1
    <3>3. \A q \in Pages : \A i \in 1 .. Len(down[q]) : down[q][i].kind = "run" => down[q][i].page = q
      BY <1>a DEF AnswersInv, AnswersOfRunsAreHome
    <3>4. \A q \in Pages : \A i \in 1 .. Len(down'[q]) : \E j \in 1 .. Len(down[q]) : down'[q][i] = down[q][j]
      <4> TAKE q \in Pages
      <4>1. CASE q = p
        BY <3>2, <4>1
      <4>2. CASE q # p
        BY <3>1, <4>2
      <4> QED
        BY <4>1, <4>2
    <3> QED
      BY <3>3, <3>4 DEF AnswersOfRunsAreHome
  <2>7. ControlTypeOK'
    BY <1>a, <2>1, <2>4, <2>5 DEF ControlTypeOK
  <2>8. RequestsAreNew' /\ SocketIsLeft'
    BY <1>a, <2>1 DEF RequestsAreNew, SocketIsLeft
  <2>9. RunsInv'
    BY <1>a, <2>1 DEF RunsInv, RunsAreOlder, RunsAreDistinct, RunsKnowTheirAsker, OneLiveRun
  <2> QED
    BY <1>a, <2>1, <2>4, <2>6, <2>7, <2>8, <2>9 DEF ControlInv, AnswersInv, OthersAwait
<1>4. ASSUME NEW p \in Pages, LosePage(p) PROVE ControlInv'
  <2>1. /\ sockets[p] < MaxSockets /\ isOpen' = [isOpen EXCEPT ![p] = FALSE]
        /\ up' = [up EXCEPT ![p] = <<>>] /\ down' = [down EXCEPT ![p] = <<>>]
        /\ UNCHANGED <<sockets, nextSeqId, pending, outcome, ctxWs, work, runs, activeRun>>
    BY <1>4 DEF LosePage
  <2>2. /\ up'[p] = <<>> /\ down'[p] = <<>> /\ Len(up'[p]) = 0 /\ Len(down'[p]) = 0
        /\ \A q \in Pages \ {p} : up'[q] = up[q] /\ down'[q] = down[q] /\ isOpen'[q] = isOpen[q]
    BY <1>a, <2>1 DEF ControlTypeOK
  <2>3. ControlTypeOK'
    <3>1. isOpen' \in [Pages -> BOOLEAN]
      BY <1>a, <2>1 DEF ControlTypeOK
    <3>2. up' \in [Pages -> Seq(RequestsOf)] /\ down' \in [Pages -> Seq(RequestsOf)]
      BY <1>a, <2>1, EmptySeq DEF ControlTypeOK
    <3> QED
      BY <1>a, <2>1, <3>1, <3>2 DEF ControlTypeOK
  <2>4. RequestsAreNew' /\ SocketIsLeft' /\ AnswersInv'
    BY <1>a, <2>1, <2>2 DEF RequestsAreNew, SocketIsLeft, AnswersInv, OthersAwait, AnswersOfRunsAreHome,
      RunsAnswerTheirAsker
  <2>5. RunsInv'
    <3>1. \A q \in Pages : nextSeqId'[q] >= nextSeqId[q] /\ nextSeqId'[q] \in Nat
      BY <1>a, <2>1 DEF ControlTypeOK
    <3>2. \A q \in Pages : \A i \in 1 .. Len(up'[q]) : \E j \in 1 .. Len(up[q]) : up'[q][i] = up[q][j]
      BY <2>2
    <3> QED
      BY <2>1, <3>1, <3>2, RunsGoOn
  <2> QED
    BY <2>3, <2>4, <2>5 DEF ControlInv
<1>5. ASSUME NEW p \in Pages, Reopen(p) PROVE ControlInv'
  <2>1. /\ isOpen' = [isOpen EXCEPT ![p] = TRUE] /\ sockets' = [sockets EXCEPT ![p] = @ + 1]
        /\ UNCHANGED <<nextSeqId, pending, up, down, outcome, ctxWs, work, runs, activeRun>>
    BY <1>5 DEF Reopen
  <2>2. sockets[p] + 1 \in 1 .. MaxSockets
    BY <1>a, <1>b, <1>5 DEF Reopen, SocketIsLeft, ControlTypeOK
  <2>3. ControlTypeOK'
    BY <1>a, <2>1, <2>2 DEF ControlTypeOK
  <2>4. SocketIsLeft'
    BY <1>a, <2>1 DEF SocketIsLeft, ControlTypeOK
  <2> QED
    BY <1>a, <2>1, <2>3, <2>4 DEF ControlInv, RequestsAreNew, RunsInv, RunsAreOlder, RunsAreDistinct,
      RunsKnowTheirAsker, OneLiveRun, AnswersInv, OthersAwait, AnswersOfRunsAreHome, RunsAnswerTheirAsker
<1>6. ASSUME NEW p \in Pages, NEW kind, Handle(p, kind)
      PROVE  /\ RequestsAreNew' /\ SocketIsLeft' /\ RunsAnswerTheirAsker'
             /\ ControlTypeOK' <=> /\ down' \in [Pages -> Seq(RequestsOf)] /\ work' \subseteq RequestsOf
                                   /\ runs' \subseteq Run /\ activeRun' \in RequestsOf \cup {NoRun}
             /\ \A q \in Pages : nextSeqId'[q] >= nextSeqId[q] /\ nextSeqId'[q] \in Nat
             /\ \A q \in Pages : \A i \in 1 .. Len(up'[q]) : \E j \in 1 .. Len(up[q]) : up'[q][i] = up[q][j]
  <2>1. UNCHANGED pageVars
    BY <1>6 DEF Handle
  <2>2. RequestsAreNew' /\ up' \in [Pages -> Seq(RequestsOf)] /\ ctxWs' \in Pages \X (1 .. MaxSockets)
    BY <1>6, HandleReads
  <2>3. \A q \in Pages : \A i \in 1 .. Len(up'[q]) : \E j \in 1 .. Len(up[q]) : up'[q][i] = up[q][j]
    BY <1>6, HandleReads
  <2>4. \A q \in Pages : nextSeqId'[q] >= nextSeqId[q] /\ nextSeqId'[q] \in Nat
    BY <1>a, <2>1 DEF pageVars, ControlTypeOK
  <2>5. SocketIsLeft' /\ RunsAnswerTheirAsker'
    BY <1>a, <2>1 DEF pageVars, SocketIsLeft, AnswersInv, RunsAnswerTheirAsker
  <2>6. ControlTypeOK' <=> /\ down' \in [Pages -> Seq(RequestsOf)] /\ work' \subseteq RequestsOf
                          /\ runs' \subseteq Run /\ activeRun' \in RequestsOf \cup {NoRun}
    BY <1>a, <2>1, <2>2 DEF pageVars, ControlTypeOK, Run
  <2> QED
    BY <2>2, <2>3, <2>4, <2>5, <2>6
<1>7. ASSUME NEW p \in Pages, HandleSubmit(p) PROVE ControlInv'
  <2>1. Handle(p, "submit") /\ work' = work \cup {Head(up[p])} /\ UNCHANGED <<down, runs, activeRun>>
    BY <1>7 DEF HandleSubmit
  <2>2. Head(up[p]) \in RequestsOf /\ Head(up[p]).kind = "submit"
    BY <2>1, HandleReads
  <2>3. ControlTypeOK'
    <3>1. /\ down' \in [Pages -> Seq(RequestsOf)] /\ work' \subseteq RequestsOf
          /\ runs' \subseteq Run /\ activeRun' \in RequestsOf \cup {NoRun}
      BY <1>a, <2>1, <2>2 DEF ControlTypeOK, Run
    <3> QED
      BY <1>6, <2>1, <3>1
  <2>4. RunsInv'
    BY <1>6, <2>1, RunsGoOn
  <2>5. AnswersInv'
    BY <1>a, <1>6, <2>1, <2>2 DEF AnswersInv, OthersAwait, AnswersOfRunsAreHome
  <2> QED
    BY <1>6, <2>1, <2>3, <2>4, <2>5 DEF ControlInv
<1>8. ASSUME NEW p \in Pages, HandleRun(p) PROVE ControlInv'
  <2> DEFINE new == [request |-> Head(up[p]), ws |-> <<p, sockets[p]>>, aborted |-> FALSE]
  <2>1. /\ Handle(p, "run") /\ runs' = AbortActive \cup {new} /\ activeRun' = Head(up[p])
        /\ UNCHANGED <<down, work>>
    BY <1>8 DEF HandleRun
  <2>2. /\ Head(up[p]) \in RequestsOf /\ Head(up[p]).kind = "run" /\ Head(up[p]).page = p
        /\ Head(up[p]) = up[p][1] /\ 1 \in 1 .. Len(up[p])
        /\ \A i \in 1 .. Len(up'[p]) : i + 1 \in 1 .. Len(up[p]) /\ up'[p][i] = up[p][i + 1]
        /\ \A q \in Pages \ {p} : up'[q] = up[q]
    BY <2>1, HandleReads
  <2>3. new \in Run /\ new.ws[1] = p /\ new.request = Head(up[p])
    BY <1>a, <2>2 DEF Run, ControlTypeOK
  <2> HIDE DEF new
  <2>4. ControlTypeOK'
    <3>1. /\ down' \in [Pages -> Seq(RequestsOf)] /\ work' \subseteq RequestsOf
          /\ runs' \subseteq Run /\ activeRun' \in RequestsOf \cup {NoRun}
      BY <1>a, <2>1, <2>2, <2>3, AbortActiveSpares DEF ControlTypeOK
    <3> QED
      BY <1>6, <2>1, <3>1
  <2>5. \A r \in AbortActive : /\ r.request # new.request /\ r.request.kind = "run" /\ r.ws[1] = r.request.page
                               /\ r.request.seqId < nextSeqId[r.request.page]
                               /\ r.request.page \in Pages
                               /\ \A i \in 1 .. Len(up[r.request.page]) : r.request.seqId < up[r.request.page][i].seqId
    <3> TAKE r \in AbortActive
    <3>1. PICK q \in runs : q.request = r.request /\ q.ws = r.ws
      BY AbortActiveSpares
    <3>2. /\ q.request.seqId < nextSeqId[q.request.page] /\ q.request.kind = "run" /\ q.ws[1] = q.request.page
          /\ \A i \in 1 .. Len(up[q.request.page]) : q.request.seqId < up[q.request.page][i].seqId
      BY <1>a DEF RunsInv, RunsAreOlder, RunsKnowTheirAsker
    <3>3. q.request \in RequestsOf
      BY <1>a DEF ControlTypeOK
    <3>4. q.request.page \in Pages /\ q.request.seqId \in Nat
      BY <1>b, <3>3 DEF RequestsOf
    <3>5. q.request.page = p => q.request.seqId < new.request.seqId
      BY <2>2, <2>3, <3>2
    <3>6. q.request # new.request
      BY <2>2, <2>3, <3>4, <3>5
    <3> QED
      BY <3>1, <3>2, <3>4, <3>6
  <2>6. RunsAreOlder'
    <3> SUFFICES ASSUME NEW r \in runs', NEW q \in Pages, q = r.request.page
                 PROVE  /\ r.request.seqId < nextSeqId[q]
                        /\ \A i \in 1 .. Len(up'[q]) : r.request.seqId < up'[q][i].seqId
      <4>1. nextSeqId' = nextSeqId
        BY <2>1 DEF Handle, pageVars
      <4>2. \A r \in runs' : r.request.page \in Pages
        BY <2>1, <2>2, <2>3, <2>5
      <4> QED
        BY <4>1, <4>2 DEF RunsAreOlder
    <3>1. CASE r \in AbortActive
      <4>1. r.request.seqId < nextSeqId[q] /\ \A i \in 1 .. Len(up[q]) : r.request.seqId < up[q][i].seqId
        BY <2>5, <3>1
      <4>2. \A i \in 1 .. Len(up'[q]) : \E j \in 1 .. Len(up[q]) : up'[q][i] = up[q][j]
        BY <1>6, <2>1
      <4> QED
        BY <4>1, <4>2
    <3>2. CASE r = new
      <4>1. q = p /\ r.request = up[p][1]
        BY <2>2, <2>3, <3>2
      <4>2. \A i \in 1 .. Len(up'[p]) : 1 < i + 1
        OBVIOUS
      <4> QED
        BY <1>a, <2>2, <4>1, <4>2 DEF RequestsAreNew
    <3> QED
      BY <2>1, <3>1, <3>2
  <2>7. RunsAreDistinct' /\ RunsKnowTheirAsker' /\ OneLiveRun'
    <3>1. \A r, q \in runs' : r.request = q.request => r = q
      BY <2>1, <2>5, AbortActiveSpares
    <3>2. \A r \in runs' : r.request.kind = "run" /\ r.ws[1] = r.request.page
      BY <2>1, <2>2, <2>3, <2>5
    <3>3. \A r \in runs' : ~r.aborted => r.request = activeRun'
      BY <2>1, <2>3, AbortActiveSpares
    <3> QED
      BY <3>1, <3>2, <3>3 DEF RunsAreDistinct, RunsKnowTheirAsker, OneLiveRun
  <2>8. AnswersInv'
    BY <1>a, <1>6, <2>1 DEF AnswersInv, OthersAwait, AnswersOfRunsAreHome
  <2> QED
    BY <1>6, <2>1, <2>4, <2>6, <2>7, <2>8 DEF ControlInv, RunsInv
<1>9. ASSUME NEW p \in Pages, HandleAbort(p) PROVE ControlInv'
  <2>1. /\ Handle(p, "abort") /\ Respond(ctxWs', Head(up[p])) /\ runs' = AbortActive
        /\ activeRun' = NoRun /\ work' = work
    BY <1>9 DEF HandleAbort
  <2>2. Head(up[p]) \in RequestsOf /\ Head(up[p]).kind = "abort" /\ ctxWs' \in Pages \X (1 .. MaxSockets)
    BY <2>1, HandleReads
  <2>3. down' \in [Pages -> Seq(RequestsOf)] /\ AnswersOfRunsAreHome'
    <3>1. PICK ws \in Pages \X (1 .. MaxSockets) : Respond(ws, Head(up[p]))
      BY <2>1, <2>2
    <3> QED
      BY <2>2, <3>1, RespondReaches
  <2>4. ControlTypeOK'
    <3>1. /\ down' \in [Pages -> Seq(RequestsOf)] /\ work' \subseteq RequestsOf
          /\ runs' \subseteq Run /\ activeRun' \in RequestsOf \cup {NoRun}
      BY <1>a, <2>1, <2>3, AbortActiveSpares DEF ControlTypeOK
    <3> QED
      BY <1>6, <2>1, <3>1
  <2>5. RunsAreOlder'
    <3> SUFFICES ASSUME NEW r \in runs', NEW q \in Pages, q = r.request.page
                 PROVE  /\ r.request.seqId < nextSeqId[q]
                        /\ \A i \in 1 .. Len(up'[q]) : r.request.seqId < up'[q][i].seqId
      <4>1. nextSeqId' = nextSeqId
        BY <2>1 DEF Handle, pageVars
      <4>2. \A r \in runs' : r.request.page \in Pages
        BY <2>4 DEF ControlTypeOK, RequestsOf
      <4> QED
        BY <4>1, <4>2 DEF RunsAreOlder
    <3>1. PICK s \in runs : s.request = r.request
      BY <2>1, AbortActiveSpares
    <3>2. s.request.seqId < nextSeqId[q] /\ \A i \in 1 .. Len(up[q]) : s.request.seqId < up[q][i].seqId
      BY <1>a, <3>1 DEF RunsInv, RunsAreOlder
    <3>3. \A i \in 1 .. Len(up'[q]) : \E j \in 1 .. Len(up[q]) : up'[q][i] = up[q][j]
      BY <1>6, <2>1
    <3> QED
      BY <3>1, <3>2, <3>3
  <2>6. RunsAreDistinct' /\ RunsKnowTheirAsker' /\ OneLiveRun'
    <3>1. \A r \in runs' : \E q \in runs : q.request = r.request /\ q.ws = r.ws
      BY <2>1, AbortActiveSpares
    <3>2. RunsKnowTheirAsker'
      BY <1>a, <3>1 DEF RunsInv, RunsKnowTheirAsker
    <3>3. RunsAreDistinct' /\ OneLiveRun'
      BY <2>1, AbortActiveSpares DEF RunsAreDistinct, OneLiveRun
    <3> QED
      BY <3>2, <3>3
  <2>7. AnswersInv'
    BY <1>a, <1>6, <2>1, <2>3 DEF AnswersInv, OthersAwait
  <2> QED
    BY <1>6, <2>1, <2>4, <2>5, <2>6, <2>7 DEF ControlInv, RunsInv
<1>10. ASSUME NEW p \in Pages, HandleRetract(p) PROVE ControlInv'
  <2>1. /\ Handle(p, "retract") /\ Respond(ctxWs', Head(up[p]))
        /\ UNCHANGED <<work, runs, activeRun>>
    BY <1>10 DEF HandleRetract
  <2>2. Head(up[p]) \in RequestsOf /\ Head(up[p]).kind = "retract" /\ ctxWs' \in Pages \X (1 .. MaxSockets)
    BY <2>1, HandleReads
  <2>3. down' \in [Pages -> Seq(RequestsOf)] /\ AnswersOfRunsAreHome'
    <3>1. PICK ws \in Pages \X (1 .. MaxSockets) : Respond(ws, Head(up[p]))
      BY <2>1, <2>2
    <3> QED
      BY <2>2, <3>1, RespondReaches
  <2>4. ControlTypeOK'
    <3>1. /\ down' \in [Pages -> Seq(RequestsOf)] /\ work' \subseteq RequestsOf
          /\ runs' \subseteq Run /\ activeRun' \in RequestsOf \cup {NoRun}
      BY <1>a, <2>1, <2>3 DEF ControlTypeOK, Run
    <3> QED
      BY <1>6, <2>1, <3>1
  <2>5. RunsInv'
    BY <1>6, <2>1, RunsGoOn
  <2>6. AnswersInv'
    BY <1>a, <1>6, <2>1, <2>3 DEF AnswersInv, OthersAwait
  <2> QED
    BY <1>6, <2>1, <2>4, <2>5, <2>6 DEF ControlInv
<1>11. ASSUME NEW w \in work, Answer(w) PROVE ControlInv'
  <2>1. work' = work \ {w} /\ Respond(ctxWs, w) /\ UNCHANGED <<pageVars, up, ctxWs, runs, activeRun>>
    BY <1>11 DEF Answer
  <2>2. w \in RequestsOf /\ w.kind = "submit" /\ ctxWs \in Pages \X (1 .. MaxSockets)
    BY <1>a DEF ControlTypeOK, AnswersInv, OthersAwait
  <2>3. down' \in [Pages -> Seq(RequestsOf)] /\ AnswersOfRunsAreHome'
    BY <2>1, <2>2, RespondReaches
  <2>4. ControlTypeOK'
    BY <1>a, <2>1, <2>3 DEF ControlTypeOK, pageVars
  <2> QED
    BY <1>a, <2>1, <2>3, <2>4 DEF pageVars, ControlInv, RequestsAreNew, SocketIsLeft, RunsInv, RunsAreOlder,
      RunsAreDistinct, RunsKnowTheirAsker, OneLiveRun, AnswersInv, OthersAwait, RunsAnswerTheirAsker
<1>12. ASSUME NEW r \in runs, RunEnds(r) PROVE ControlInv'
  <2>1. /\ runs' = runs \ {r} /\ Respond(r.ws, r.request)
        /\ activeRun' = (IF activeRun = r.request THEN NoRun ELSE activeRun)
        /\ UNCHANGED <<pageVars, up, ctxWs, work>>
    BY <1>12 DEF RunEnds
  <2>2. r.request \in RequestsOf /\ r.ws \in Pages \X (1 .. MaxSockets) /\ r.ws[1] = r.request.page
    BY <1>a DEF ControlTypeOK, RunsInv, RunsKnowTheirAsker
  <2>3. down' \in [Pages -> Seq(RequestsOf)] /\ AnswersOfRunsAreHome'
    <3>1. PICK ws \in Pages \X (1 .. MaxSockets), request \in RequestsOf : ws = r.ws /\ request = r.request
      BY <2>2
    <3> QED
      BY <2>1, <2>2, <3>1, RespondReaches
  <2>4. ControlTypeOK'
    <3>1. activeRun' \in RequestsOf \cup {NoRun}
      BY <1>a, <2>1 DEF ControlTypeOK
    <3> QED
      BY <1>a, <2>1, <2>3, <3>1 DEF ControlTypeOK, pageVars
  <2>5. OneLiveRun'
    BY <1>a, <2>1 DEF RunsInv, OneLiveRun, RunsAreDistinct
  <2> QED
    BY <1>a, <2>1, <2>3, <2>4, <2>5 DEF pageVars, ControlInv, RequestsAreNew, SocketIsLeft, RunsInv,
      RunsAreOlder, RunsAreDistinct, RunsKnowTheirAsker, AnswersInv, OthersAwait, RunsAnswerTheirAsker
<1>13. CASE UNCHANGED controlVars
  BY <1>a, <1>13 DEF controlVars, pageVars, ControlInv, ControlTypeOK, RequestsAreNew, SocketIsLeft, RunsInv,
    RunsAreOlder, RunsAreDistinct, RunsKnowTheirAsker, OneLiveRun, AnswersInv, OthersAwait,
    AnswersOfRunsAreHome, RunsAnswerTheirAsker
<1> QED
  BY <1>1, <1>2, <1>3, <1>4, <1>5, <1>7, <1>8, <1>9, <1>10, <1>11, <1>12, <1>13 DEF ControlNext

LEMMA ControlInvAlways == ControlSpec => []ControlInv
BY ControlInvInit, ControlInvStep, PTL DEF ControlSpec

\* Of the runs that have not ended one at most is not cancelled, whoever asked
\* and however late a cancelled one ends.
THEOREM OneRunIsLive == ControlSpec => []OneLiveRun
<1>1. ControlInv => OneLiveRun
  BY DEF ControlInv, RunsInv
<1> QED
  BY <1>1, ControlInvAlways, PTL

\* What a run says settles a request of the page that started it, although every
\* page numbers its requests from one and may have another socket by then.
THEOREM RunsReachTheirAsker == ControlSpec => []RunsAnswerTheirAsker
<1>1. ControlInv => RunsAnswerTheirAsker
  BY DEF ControlInv, AnswersInv
<1> QED
  BY <1>1, ControlInvAlways, PTL

-----------------------------------------------------------------------------
(* GraphSync.                                                                *)

\* The views a page passes through while it applies frames.
Trail(v, fs) == \A i \in 1 .. Len(fs) : v[i] = ApplyFrame(v[i - 1], fs[i])

\* They are what is applied from the first to the last.
LEMMA AppliedIsATrail ==
  ASSUME NEW S, NEW fs \in Seq(S), NEW v, Trail(v, fs)
  PROVE  Applied(v[0], fs) = v[Len(fs)]
<1> DEFINE Next(g, s) == IF s = {} THEN v[0] ELSE ApplyFrame(g[s \ {Max(s)}], fs[Max(s)])
           IsFold(g, m) == g = [s \in SUBSET (1 .. m) |-> Next(g, s)]
           T == {m \in Nat : \E g : IsFold(g, m)}
           F == CHOOSE g : IsFold(g, Len(fs))
<1>1. 0 \in T
  <2>1. 1 .. 0 = {}
    OBVIOUS
  <2>2. IsFold([s \in SUBSET (1 .. 0) |-> v[0]], 0)
    BY <2>1
  <2> QED
    BY <2>2
<1>2. ASSUME NEW m \in Nat, m \in T PROVE m + 1 \in T
  <2>1. PICK g : IsFold(g, m)
    BY <1>2
  <2> DEFINE h == [s \in SUBSET (1 .. m + 1) |-> IF s \subseteq 1 .. m THEN g[s] ELSE Next(g, s)]
  <2>2. \A s \in SUBSET (1 .. m + 1) : h[s] = Next(h, s)
    <3> TAKE s \in SUBSET (1 .. m + 1)
    <3>1. CASE s \subseteq 1 .. m
      <4>1. h[s] = g[s] /\ g[s] = Next(g, s)
        BY <2>1, <3>1
      <4>2. \A x : h[s \ {x}] = g[s \ {x}]
        BY <3>1
      <4> HIDE DEF h
      <4> QED
        BY <4>1, <4>2
    <3>2. CASE ~(s \subseteq 1 .. m)
      <4>1. h[s] = Next(g, s) /\ s # {}
        BY <3>2
      <4>2. Max(s) = m + 1
        <5>1. m + 1 \in s /\ \A y \in s : y \in Int /\ m + 1 >= y
          BY <3>2
        <5>2. Max(s) \in s /\ \A y \in s : Max(s) >= y
          BY <5>1, Zenon DEF Max
        <5> HIDE DEF h, Next
        <5>3. Max(s) >= m + 1 /\ m + 1 >= Max(s) /\ Max(s) \in Int
          BY <5>1, <5>2
        <5> QED
          BY <5>3
      <4>3. s \ {m + 1} \in SUBSET (1 .. m) /\ s \ {m + 1} \in SUBSET (1 .. m + 1)
        BY <3>2
      <4>4. h[s \ {m + 1}] = g[s \ {m + 1}]
        BY <4>3
      <4> HIDE DEF h
      <4> QED
        BY <4>1, <4>2, <4>4
    <3> QED
      BY <3>1, <3>2
  <2>3. h = [s \in SUBSET (1 .. m + 1) |-> h[s]]
    OBVIOUS
  <2> HIDE DEF h, Next
  <2>4. IsFold(h, m + 1)
    BY <2>2, <2>3
  <2> QED
    BY <2>4
<1>3. Len(fs) \in Nat /\ DOMAIN fs = 1 .. Len(fs)
  OBVIOUS
<1>4. Len(fs) \in T
  <2> HIDE DEF T
  <2> QED
    BY <1>1, <1>2, <1>3, NatInSets
<1>5. IsFold(F, Len(fs))
  <2> HIDE DEF IsFold
  <2> QED
    BY <1>4
<1>6. Applied(v[0], fs) = F[1 .. Len(fs)]
  BY <1>3 DEF Applied, FoldLeft, MapThenFoldSet
<1> HIDE DEF F
<1>7. \A s \in SUBSET (1 .. Len(fs)) : F[s] = Next(F, s)
  <2> HIDE DEF Next
  <2> QED
    BY <1>5, Zenon
<1> HIDE DEF IsFold
<1> DEFINE U == {m \in Nat : m <= Len(fs) => F[1 .. m] = v[m]}
<1>8. 0 \in U
  <2>1. 1 .. 0 = {} /\ {} \in SUBSET (1 .. Len(fs))
    OBVIOUS
  <2> QED
    BY <1>7, <2>1
<1>9. ASSUME NEW m \in Nat, m \in U PROVE m + 1 \in U
  <2> SUFFICES ASSUME m + 1 <= Len(fs) PROVE F[1 .. m + 1] = v[m + 1]
    OBVIOUS
  <2>1. /\ (1 .. (m + 1)) \in SUBSET (1 .. Len(fs)) /\ (1 .. (m + 1)) \ {m + 1} = 1 .. m
        /\ m + 1 \in 1 .. Len(fs) /\ (m + 1) - 1 = m /\ m + 1 \in 1 .. (m + 1)
    BY <1>3
  <2>2. Max(1 .. m + 1) = m + 1
    BY DEF Max
  <2>3. F[1 .. m] = v[m]
    BY <1>3, <1>9
  <2>4. v[m + 1] = ApplyFrame(v[m], fs[m + 1])
    BY <2>1 DEF Trail
  <2> QED
    BY <1>7, <2>1, <2>2, <2>3, <2>4
<1> HIDE DEF U
<1>10. Len(fs) \in U
  BY <1>3, <1>8, <1>9, NatInSets
<1> QED
  BY <1>6, <1>10 DEF U

\* From any view there is one.
LEMMA TrailExists ==
  ASSUME NEW S, NEW fs \in Seq(S), NEW view
  PROVE  \E v : v[0] = view /\ Trail(v, fs)
<1> DEFINE Good(v, m) == /\ v[0] = view
                         /\ \A i \in 1 .. m : v[i] = ApplyFrame(v[i - 1], fs[i])
           T == {m \in Nat : \E v : Good(v, m)}
<1>1. 0 \in T
  <2>1. Good([i \in 0 .. 0 |-> view], 0)
    OBVIOUS
  <2> QED
    BY <2>1
<1>2. ASSUME NEW m \in Nat, m \in T PROVE m + 1 \in T
  <2>1. PICK v : Good(v, m)
    BY <1>2
  <2> DEFINE u == [i \in 0 .. m + 1 |-> IF i = m + 1 THEN ApplyFrame(v[m], fs[i]) ELSE v[i]]
  <2>2. u[0] = view /\ \A i \in 1 .. m + 1 : u[i] = ApplyFrame(u[i - 1], fs[i])
    <3>1. u[0] = view /\ \A i \in 0 .. m : u[i] = v[i]
      BY <2>1
    <3>2. u[m + 1] = ApplyFrame(v[m], fs[m + 1]) /\ (m + 1) - 1 = m
      OBVIOUS
    <3>3. \A i \in 1 .. m : u[i] = v[i] /\ i - 1 \in 0 .. m
      BY <3>1
    <3> HIDE DEF u
    <3>4. ASSUME NEW i \in 1 .. m + 1 PROVE u[i] = ApplyFrame(u[i - 1], fs[i])
      <4>1. CASE i = m + 1
        BY <3>1, <3>2, <4>1
      <4>2. CASE i # m + 1
        <5>1. i \in 1 .. m
          BY <4>2
        <5> QED
          BY <2>1, <3>1, <3>3, <5>1
      <4> QED
        BY <4>1, <4>2
    <3> QED
      BY <3>1, <3>4
  <2> HIDE DEF u
  <2> QED
    BY <2>2
<1> HIDE DEF T
<1>3. Len(fs) \in T
  BY <1>1, <1>2, NatInSets
<1> QED
  BY <1>3 DEF T, Trail

\* What is added to the wire is applied last.
LEMMA UpcomingGrows ==
  ASSUME NEW S, NEW fs \in Seq(S), NEW f \in S, NEW view
  PROVE  Applied(view, Append(fs, f)) = ApplyFrame(Applied(view, fs), f)
<1> DEFINE gs == Append(fs, f)
<1>1. gs \in Seq(S) /\ Len(gs) = Len(fs) + 1 /\ Len(fs) \in Nat /\ gs[Len(fs) + 1] = f
      /\ \A i \in 1 .. Len(fs) : gs[i] = fs[i]
  OBVIOUS
<1> HIDE DEF gs
<1>2. PICK v : v[0] = view /\ Trail(v, gs)
  BY <1>1, TrailExists
<1>3. Trail(v, fs)
  BY <1>1, <1>2 DEF Trail
<1>4. v[Len(fs) + 1] = ApplyFrame(v[Len(fs)], f)
  <2>1. Len(fs) + 1 \in 1 .. Len(gs) /\ (Len(fs) + 1) - 1 = Len(fs)
    BY <1>1
  <2> QED
    BY <1>1, <1>2, <2>1 DEF Trail
<1>5. Applied(view, gs) = v[Len(fs) + 1]
  BY <1>1, <1>2, AppliedIsATrail
<1>6. Applied(view, fs) = v[Len(fs)]
  BY <1>2, <1>3, AppliedIsATrail
<1> QED
  BY <1>4, <1>5, <1>6 DEF gs

\* To apply the oldest frame changes nothing of what is to come.
LEMMA UpcomingStays ==
  ASSUME NEW S, NEW fs \in Seq(S), fs # <<>>, NEW view
  PROVE  Applied(ApplyFrame(view, Head(fs)), Tail(fs)) = Applied(view, fs)
<1> DEFINE gs == Tail(fs)
<1>1. gs \in Seq(S) /\ Len(gs) = Len(fs) - 1 /\ Len(fs) \in Nat /\ Len(fs) >= 1 /\ fs[1] = Head(fs)
      /\ \A i \in 1 .. Len(gs) : gs[i] = fs[i + 1]
  BY HeadTailProperties
<1> HIDE DEF gs
<1>2. PICK v : v[0] = view /\ Trail(v, fs)
  BY TrailExists
<1> DEFINE u == [i \in 0 .. Len(gs) |-> v[i + 1]]
<1>3. u[0] = ApplyFrame(view, Head(fs)) /\ u[Len(gs)] = v[Len(fs)]
  BY <1>1, <1>2 DEF Trail
<1>4. Trail(u, gs)
  <2> SUFFICES ASSUME NEW i \in 1 .. Len(gs) PROVE u[i] = ApplyFrame(u[i - 1], gs[i])
    BY DEF Trail
  <2>1. i + 1 \in 1 .. Len(fs) /\ (i + 1) - 1 = i /\ (i - 1) + 1 = i /\ gs[i] = fs[i + 1]
        /\ i \in 0 .. Len(gs) /\ i - 1 \in 0 .. Len(gs)
    BY <1>1
  <2>2. u[i] = v[i + 1] /\ u[i - 1] = v[i]
    BY <2>1
  <2>3. v[i + 1] = ApplyFrame(v[i], fs[i + 1])
    BY <1>2, <2>1 DEF Trail
  <2> HIDE DEF u
  <2> QED
    BY <2>1, <2>2, <2>3
<1> HIDE DEF u
<1>5. Applied(u[0], gs) = u[Len(gs)]
  BY <1>1, <1>4, AppliedIsATrail
<1>6. Applied(v[0], fs) = v[Len(fs)]
  BY <1>2, AppliedIsATrail
<1> QED
  BY <1>2, <1>3, <1>5, <1>6 DEF gs

\* What a socket carries.
NodeSets == UNION {[ts -> SUBSET Fields] : ts \in SUBSET Terms}
Deltas == [kind : {"delta"}, gone : SUBSET Terms, merged : NodeSets, added : NodeSets,
           cut : SUBSET Pairs, joined : SUBSET Pairs]
Frames == Deltas \cup [kind : {"snapshot"}, nodes : NodeSets, edges : SUBSET Pairs]

\* The edges of the server are between nodes of its own: what an edge's patch
\* takes away the page can always put back.
EdgesHaveEnds == edges \subseteq Known(nodes)

\* The inductive invariant.
SyncInv == SyncTypeOK /\ wire \in [Viewers -> Seq(Frames)] /\ EdgesHaveEnds /\ MembersFollow

LEMMA NodeSetShape ==
  /\ \A ts \in SUBSET Terms : \A f \in [ts -> SUBSET Fields] : f \in NodeSets
  /\ \A f \in NodeSets : DOMAIN f \in SUBSET Terms /\ f \in [DOMAIN f -> SUBSET Fields]
  /\ Graphs(Fields) = [nodes : NodeSets, edges : SUBSET Pairs]
  /\ Empty \in NodeSets /\ DOMAIN Empty = {}
<1>1. \A ts \in SUBSET Terms : \A f \in [ts -> SUBSET Fields] : f \in NodeSets
  BY DEF NodeSets
<1>2. Empty \in [{} -> SUBSET Fields] /\ DOMAIN Empty = {}
  BY DEF Empty
<1>3. \A f \in NodeSets : DOMAIN f \in SUBSET Terms /\ f \in [DOMAIN f -> SUBSET Fields]
  BY DEF NodeSets
<1>4. Empty \in NodeSets
  BY <1>1, <1>2
<1> QED
  BY <1>1, <1>2, <1>3, <1>4 DEF Graphs, NodeSets

LEMMA OverlayShape ==
  ASSUME NEW f \in NodeSets, NEW g \in NodeSets
  PROVE  Overlay(f, g) \in NodeSets /\ DOMAIN Overlay(f, g) = DOMAIN f \cup DOMAIN g
<1> DEFINE h == Overlay(f, g)  ts == DOMAIN f \cup DOMAIN g
<1>1. /\ DOMAIN f \in SUBSET Terms /\ f \in [DOMAIN f -> SUBSET Fields]
      /\ DOMAIN g \in SUBSET Terms /\ g \in [DOMAIN g -> SUBSET Fields]
  BY NodeSetShape
<1>2. h \in [ts -> SUBSET Fields] /\ ts \in SUBSET Terms
  BY <1>1 DEF Overlay
<1> HIDE DEF h
<1> QED
  BY <1>2, NodeSetShape DEF h

\* A delta adds and removes on the page what it says, whatever the page shows.
LEMMA DeltaIsApplied ==
  ASSUME NEW view, NEW d \in Deltas
  PROVE  LET after == ApplyFrame(view, d)
         IN  /\ DOMAIN after.nodes = (DOMAIN view.nodes \ d.gone) \cup DOMAIN d.added
             /\ after.edges = (view.edges \ d.cut) \cup (d.joined \cap Known(after.nodes))
             /\ view \in Graphs(Fields) => after \in Graphs(Fields)
<1> DEFINE kept == [t \in DOMAIN view.nodes \ d.gone |->
                      view.nodes[t] \cup (IF t \in DOMAIN d.merged THEN d.merged[t] ELSE {})]
           ns == Overlay(kept, d.added)
           after == ApplyFrame(view, d)
<1>1. after = [nodes |-> ns, edges |-> (view.edges \ d.cut) \cup (d.joined \cap Known(ns))]
  BY DEF ApplyFrame, ApplyGraphOps, Deltas
<1>2. DOMAIN ns = (DOMAIN view.nodes \ d.gone) \cup DOMAIN d.added
  BY DEF Overlay
<1>3. ASSUME view \in Graphs(Fields) PROVE after \in Graphs(Fields)
  <2>1. view.nodes \in NodeSets /\ view.edges \subseteq Pairs
    BY <1>3, NodeSetShape
  <2>2. kept \in [DOMAIN view.nodes \ d.gone -> SUBSET Fields]
    <3>1. view.nodes \in [DOMAIN view.nodes -> SUBSET Fields]
      BY <2>1, NodeSetShape
    <3>2. d.merged \in [DOMAIN d.merged -> SUBSET Fields]
      BY NodeSetShape DEF Deltas
    <3> QED
      BY <3>1, <3>2
  <2>3. kept \in NodeSets
    <3>1. DOMAIN view.nodes \ d.gone \in SUBSET Terms
      BY <2>1, NodeSetShape
    <3> HIDE DEF kept
    <3> QED
      BY <2>2, <3>1, NodeSetShape
  <2>4. ns \in NodeSets
    <3> HIDE DEF kept
    <3> QED
      BY <2>3, OverlayShape DEF Deltas
  <2> HIDE DEF kept, ns, after
  <2> QED
    BY <1>1, <2>1, <2>4, NodeSetShape DEF Deltas, Graphs
<1> HIDE DEF kept, ns
<1> QED
  BY <1>1, <1>2, <1>3

\* A change that is emitted to every synced page as it is made is followed by
\* all of them.
LEMMA EmittedChangeIsFollowed ==
  ASSUME SyncInv, NEW d \in Deltas, NEW open,
         EmitAll(d, open), shown' = shown,
         \A p \in Viewers : link'[p] = "synced" => link[p] = "synced" /\ p \in open,
         DOMAIN nodes' = (DOMAIN nodes \ d.gone) \cup DOMAIN d.added,
         edges' = (edges \ d.cut) \cup (d.joined \cap Known(nodes'))
  PROVE  wire' \in [Viewers -> Seq(Frames)] /\ MembersFollow'
<1>1. wire \in [Viewers -> Seq(Frames)] /\ d \in Frames
  BY DEF SyncInv, Frames
<1>2. wire' = [p \in Viewers |-> IF p \in open THEN Append(wire[p], d) ELSE wire[p]]
  BY DEF EmitAll
<1>3. wire' \in [Viewers -> Seq(Frames)]
  <2>1. \A p \in Viewers : wire[p] \in Seq(Frames) /\ Append(wire[p], d) \in Seq(Frames)
    BY <1>1
  <2> QED
    BY <1>2, <2>1
<1>4. ASSUME NEW p \in Viewers, link'[p] = "synced"
      PROVE  DOMAIN Upcoming(p)'.nodes = DOMAIN nodes' /\ Upcoming(p)'.edges = edges'
  <2> DEFINE view == Upcoming(p)  after == ApplyFrame(view, d)
  <2>1. link[p] = "synced" /\ wire'[p] = Append(wire[p], d) /\ wire[p] \in Seq(Frames)
    BY <1>1, <1>2, <1>4
  <2>2. Upcoming(p)' = after
    BY <1>1, <2>1, UpcomingGrows DEF Upcoming
  <2>3. DOMAIN view.nodes = DOMAIN nodes /\ view.edges = edges
    BY <2>1 DEF SyncInv, MembersFollow
  <2>4. /\ DOMAIN after.nodes = (DOMAIN view.nodes \ d.gone) \cup DOMAIN d.added
        /\ after.edges = (view.edges \ d.cut) \cup (d.joined \cap Known(after.nodes))
    BY DeltaIsApplied
  <2>5. Known(after.nodes) = Known(nodes')
    BY <2>3, <2>4 DEF Known
  <2> HIDE DEF view, after
  <2> QED
    BY <2>2, <2>3, <2>4, <2>5
<1> QED
  BY <1>3, <1>4 DEF MembersFollow

LEMMA ChangeIsFollowed ==
  ASSUME SyncInv, NEW d \in Deltas, Change(d),
         nodes' \in NodeSets, focusTerm' \subseteq Terms, edges' \subseteq Known(nodes'),
         DOMAIN nodes' = (DOMAIN nodes \ d.gone) \cup DOMAIN d.added,
         edges' = (edges \ d.cut) \cup (d.joined \cap Known(nodes'))
  PROVE  SyncInv'
<1>1. EmitAll(d, OpenSocket) /\ shown' = shown /\ link' = link
  BY DEF Change
<1>2. \A p \in Viewers : link'[p] = "synced" => link[p] = "synced" /\ p \in OpenSocket
  BY <1>1 DEF OpenSocket
<1>3. wire' \in [Viewers -> Seq(Frames)] /\ MembersFollow'
  BY <1>1, <1>2, EmittedChangeIsFollowed
<1>4. SyncTypeOK'
  <2>1. [nodes |-> nodes', edges |-> edges'] \in Graphs(Fields)
    BY NodeSetShape DEF Known
  <2> QED
    BY <1>1, <2>1 DEF SyncInv, SyncTypeOK
<1> QED
  BY <1>3, <1>4 DEF SyncInv, EdgesHaveEnds

LEMMA SyncInvInit == SyncInit => SyncInv
<1> SUFFICES ASSUME SyncInit PROVE SyncInv
  OBVIOUS
<1>1. [nodes |-> Empty, edges |-> {}] \in Graphs(Fields)
  BY NodeSetShape
<1>2. SyncTypeOK
  BY <1>1 DEF SyncInit, SyncTypeOK
<1>3. wire \in [Viewers -> Seq(Frames)] /\ MembersFollow /\ EdgesHaveEnds
  BY DEF SyncInit, MembersFollow, EdgesHaveEnds
<1> QED
  BY <1>2, <1>3 DEF SyncInv

\* Every change, connection, answer, loss and frame keeps the invariant.
LEMMA SyncInvStep == SyncInv /\ [SyncNext]_syncVars => SyncInv'
<1> SUFFICES ASSUME SyncInv, [SyncNext]_syncVars
             PROVE  SyncInv'
  OBVIOUS
<1>a. SyncTypeOK /\ wire \in [Viewers -> Seq(Frames)] /\ EdgesHaveEnds /\ MembersFollow
  BY DEF SyncInv
<1>b. nodes \in NodeSets /\ edges \subseteq Pairs /\ focusTerm \subseteq Terms /\ edges \subseteq Known(nodes)
  BY <1>a, NodeSetShape DEF SyncTypeOK, EdgesHaveEnds
<1>c. DOMAIN nodes \in SUBSET Terms /\ nodes \in [DOMAIN nodes -> SUBSET Fields]
  BY <1>b, NodeSetShape
<1>d. \A focus : NodeOps(focus) \in NodeSets /\ DOMAIN NodeOps(focus) \subseteq DOMAIN nodes
  <2> TAKE focus
  <2> DEFINE ts == DOMAIN nodes \cap (IF focus = {} THEN Terms ELSE focus)
  <2>1. NodeOps(focus) \in [ts -> SUBSET Fields] /\ ts \in SUBSET Terms
    BY <1>c DEF NodeOps
  <2> HIDE DEF ts
  <2>2. DOMAIN NodeOps(focus) = ts /\ NodeOps(focus) \in NodeSets
    BY <2>1, NodeSetShape
  <2> QED
    BY <2>2 DEF ts
<1>1. ASSUME NEW p \in Viewers, ReceiveFrames(p) PROVE SyncInv'
  <2>1. /\ wire[p] # <<>> /\ shown' = [shown EXCEPT ![p] = ApplyFrame(@, Head(wire[p]))]
        /\ wire' = [wire EXCEPT ![p] = Tail(@)] /\ UNCHANGED <<nodes, edges, focusTerm, link, edits>>
    BY <1>1 DEF ReceiveFrames, graphVars
  <2>2. wire[p] \in Seq(Frames) /\ Head(wire[p]) \in Frames /\ Tail(wire[p]) \in Seq(Frames)
    <3>1. wire[p] \in Seq(Frames)
      BY <1>a
    <3> QED
      BY <2>1, <3>1, HeadTailProperties
  <2>3. shown[p] \in Graphs(Fields)
    BY <1>a DEF SyncTypeOK
  <2>4. ApplyFrame(shown[p], Head(wire[p])) \in Graphs(Fields)
    <3> DEFINE f == Head(wire[p])
    <3>1. CASE f \in Deltas
      <4> HIDE DEF f
      <4>1. ApplyFrame(shown[p], f) \in Graphs(Fields)
        BY <2>3, <3>1, DeltaIsApplied
      <4> QED
        BY <4>1 DEF f
    <3>2. CASE f \notin Deltas
      <4>1. f.kind = "snapshot" /\ f.nodes \in NodeSets /\ f.edges \subseteq Pairs
        BY <2>2, <3>2 DEF Frames
      <4> HIDE DEF f
      <4>2. ApplyFrame(shown[p], f) = [nodes |-> f.nodes, edges |-> f.edges]
        BY <4>1 DEF ApplyFrame
      <4>3. [nodes |-> f.nodes, edges |-> f.edges] \in Graphs(Fields)
        BY <4>1, NodeSetShape
      <4> QED
        BY <4>2, <4>3 DEF f
    <3> QED
      BY <3>1, <3>2
  <2>5. SyncTypeOK' /\ wire' \in [Viewers -> Seq(Frames)]
    BY <1>a, <2>1, <2>2, <2>4 DEF SyncTypeOK
  <2>6. ASSUME NEW q \in Viewers PROVE Upcoming(q)' = Upcoming(q)
    <3>1. CASE q = p
      <4>1. shown'[p] = ApplyFrame(shown[p], Head(wire[p])) /\ wire'[p] = Tail(wire[p])
        BY <1>a, <2>1 DEF SyncTypeOK
      <4> QED
        BY <2>1, <2>2, <3>1, <4>1, UpcomingStays DEF Upcoming
    <3>2. CASE q # p
      <4>1. shown'[q] = shown[q] /\ wire'[q] = wire[q]
        BY <1>a, <2>1, <3>2 DEF SyncTypeOK
      <4> QED
        BY <4>1 DEF Upcoming
    <3> QED
      BY <3>1, <3>2
  <2>7. MembersFollow'
    BY <1>a, <2>1, <2>6 DEF MembersFollow
  <2> QED
    BY <1>a, <2>1, <2>5, <2>7 DEF SyncInv, EdgesHaveEnds
<1>2. ASSUME NEW p \in Viewers, ConnectPage(p) PROVE SyncInv'
  <2> DEFINE d == Delta({}, Empty, NodeOps(focusTerm), {}, edges)
  <2>1. /\ link[p] = "closed" /\ link' = [link EXCEPT ![p] = "opening"]
        /\ EmitAll(d, OpenSocket \cup {p}) /\ UNCHANGED <<nodes, edges, focusTerm, shown, edits>>
    BY <1>2 DEF ConnectPage, graphVars
  <2>2. d \in Deltas /\ d.gone = {} /\ d.added = NodeOps(focusTerm) /\ d.cut = {} /\ d.joined = edges
    BY <1>b, <1>d, NodeSetShape DEF Delta, Deltas
  <2> HIDE DEF d
  <2>3. \A q \in Viewers : link'[q] = "synced" => link[q] = "synced" /\ q \in OpenSocket \cup {p}
    BY <1>a, <2>1 DEF OpenSocket, SyncTypeOK
  <2>4. /\ DOMAIN nodes' = (DOMAIN nodes \ d.gone) \cup DOMAIN d.added
        /\ edges' = (edges \ d.cut) \cup (d.joined \cap Known(nodes'))
    BY <1>b, <1>d, <2>1, <2>2
  <2>5. wire' \in [Viewers -> Seq(Frames)] /\ MembersFollow'
    BY <2>1, <2>2, <2>3, <2>4, EmittedChangeIsFollowed
  <2>6. SyncTypeOK'
    BY <1>a, <2>1 DEF SyncTypeOK
  <2> QED
    BY <1>a, <2>1, <2>5, <2>6 DEF SyncInv, EdgesHaveEnds
<1>3. ASSUME NEW p \in Viewers, Sync(p) PROVE SyncInv'
  <2>1. /\ link' = [link EXCEPT ![p] = "synced"] /\ wire' = [wire EXCEPT ![p] = Append(@, Snapshot)]
        /\ UNCHANGED <<nodes, edges, focusTerm, shown, edits>>
    BY <1>3 DEF Sync, graphVars
  <2>2. Snapshot \in Frames /\ \A view : /\ ApplyFrame(view, Snapshot).nodes = nodes
                                        /\ ApplyFrame(view, Snapshot).edges = edges
    BY <1>b DEF Snapshot, Frames, ApplyFrame
  <2>3. wire[p] \in Seq(Frames) /\ Append(wire[p], Snapshot) \in Seq(Frames)
    BY <1>a, <2>2
  <2>4. SyncTypeOK' /\ wire' \in [Viewers -> Seq(Frames)]
    BY <1>a, <2>1, <2>3 DEF SyncTypeOK
  <2>5. ASSUME NEW q \in Viewers, link'[q] = "synced"
        PROVE  DOMAIN Upcoming(q)'.nodes = DOMAIN nodes' /\ Upcoming(q)'.edges = edges'
    <3>1. CASE q = p
      <4>1. wire'[p] = Append(wire[p], Snapshot)
        BY <1>a, <2>1
      <4>2. Upcoming(p)' = ApplyFrame(Upcoming(p), Snapshot)
        BY <2>1, <2>2, <2>3, <4>1, UpcomingGrows DEF Upcoming
      <4> QED
        BY <2>1, <2>2, <3>1, <4>2
    <3>2. CASE q # p
      <4>1. link[q] = "synced" /\ wire'[q] = wire[q]
        BY <1>a, <2>1, <2>5, <3>2 DEF SyncTypeOK
      <4> QED
        BY <1>a, <2>1, <4>1 DEF Upcoming, MembersFollow
    <3> QED
      BY <3>1, <3>2
  <2>6. MembersFollow'
    BY <2>5 DEF MembersFollow
  <2> QED
    BY <1>a, <2>1, <2>4, <2>6 DEF SyncInv, EdgesHaveEnds
<1>4. ASSUME NEW p \in Viewers, LoseLink(p) PROVE SyncInv'
  <2>1. /\ link' = [link EXCEPT ![p] = "closed"] /\ wire' = [wire EXCEPT ![p] = <<>>]
        /\ UNCHANGED <<nodes, edges, focusTerm, shown, edits>>
    BY <1>4 DEF LoseLink, graphVars
  <2>2. SyncTypeOK' /\ wire' \in [Viewers -> Seq(Frames)]
    BY <1>a, <2>1 DEF SyncTypeOK
  <2>3. \A q \in Viewers : link'[q] = "synced" => link[q] = "synced" /\ wire'[q] = wire[q]
    BY <1>a, <2>1 DEF SyncTypeOK
  <2>4. MembersFollow'
    BY <1>a, <2>1, <2>3 DEF MembersFollow, Upcoming
  <2> QED
    BY <1>a, <2>1, <2>2, <2>4 DEF SyncInv, EdgesHaveEnds
<1>5. ASSUME NEW t \in Terms, NEW fields \in SUBSET Fields, NEW es \in SUBSET Pairs, ApplyDelta(t, fields, es)
      PROVE  SyncInv'
  <2> DEFINE fresh == [s \in {t} |-> fields]
             joined == es \cap Known(nodes')
  <2>1. fresh \in NodeSets /\ DOMAIN fresh = {t}
    <3>1. fresh \in [{t} -> SUBSET Fields] /\ DOMAIN fresh = {t}
      OBVIOUS
    <3> QED
      BY <3>1, NodeSetShape
  <2> HIDE DEF fresh
  <2>2. nodes' = Overlay(nodes, fresh) /\ edges' = edges \cup joined /\ focusTerm' = focusTerm
    BY <1>5 DEF ApplyDelta, fresh
  <2>3. nodes' \in NodeSets /\ DOMAIN nodes' = DOMAIN nodes \cup {t}
    BY <1>b, <2>1, <2>2, OverlayShape
  <2>4. Known(nodes) \subseteq Known(nodes') /\ joined \subseteq Known(nodes') /\ joined \subseteq Pairs
    BY <2>3 DEF Known
  <2> HIDE DEF joined
  <2>5. PICK d : d \in {Delta({}, fresh, Empty, {}, joined), Delta({}, Empty, fresh, {}, joined)}
                 /\ Change(d) /\ (t \notin DOMAIN nodes => DOMAIN d.added = {t})
    <3>1. Delta({}, Empty, fresh, {}, joined).added = fresh
      BY DEF Delta
    <3> QED
      BY <1>5, <2>1, <3>1 DEF ApplyDelta, fresh, joined
  <2>6. d \in Deltas /\ d.gone = {} /\ d.cut = {} /\ d.joined = joined /\ DOMAIN d.added \subseteq {t}
    BY <2>1, <2>4, <2>5, NodeSetShape DEF Delta, Deltas
  <2>7. DOMAIN nodes' = (DOMAIN nodes \ d.gone) \cup DOMAIN d.added
    BY <2>3, <2>5, <2>6
  <2>8. edges' \subseteq Known(nodes') /\ edges' = (edges \ d.cut) \cup (d.joined \cap Known(nodes'))
    BY <1>b, <2>2, <2>4, <2>6
  <2> QED
    BY <1>b, <2>2, <2>3, <2>5, <2>6, <2>7, <2>8, ChangeIsFollowed
<1>6. ASSUME NEW ts \in SUBSET Terms, NEW fields \in SUBSET Fields, Mark(ts, fields) PROVE SyncInv'
  <2> DEFINE marked == [t \in ts \cap DOMAIN nodes |-> nodes[t] \cup fields]
             d == Delta({}, marked, Empty, {}, {})
  <2>1. marked \in NodeSets /\ DOMAIN marked \subseteq DOMAIN nodes
    <3>1. marked \in [ts \cap DOMAIN nodes -> SUBSET Fields]
      BY <1>c
    <3> QED
      BY <1>c, <3>1, NodeSetShape
  <2>2. nodes' = Overlay(nodes, marked) /\ Change(d) /\ UNCHANGED <<edges, focusTerm>>
    BY <1>6 DEF Mark
  <2> HIDE DEF marked
  <2>3. nodes' \in NodeSets /\ DOMAIN nodes' = DOMAIN nodes
    BY <1>b, <2>1, <2>2, OverlayShape
  <2>4. d \in Deltas /\ d.gone = {} /\ d.cut = {} /\ d.joined = {} /\ DOMAIN d.added = {}
    BY <2>1, NodeSetShape DEF Delta, Deltas
  <2> HIDE DEF d
  <2>5. Known(nodes') = Known(nodes)
    BY <2>3 DEF Known
  <2> QED
    BY <1>b, <2>2, <2>3, <2>4, <2>5, ChangeIsFollowed
<1>7. ASSUME NEW t \in Terms, RemoveNode(t) PROVE SyncInv'
  <2> DEFINE d == Delta({t}, Empty, Empty, EdgesOf(t), {})
  <2>1. /\ nodes' = [s \in DOMAIN nodes \ {t} |-> nodes[s]] /\ edges' = edges \ EdgesOf(t)
        /\ Change(d) /\ focusTerm' = focusTerm
    BY <1>7 DEF RemoveNode
  <2>2. nodes' \in NodeSets /\ DOMAIN nodes' = DOMAIN nodes \ {t}
    <3>1. nodes' \in [DOMAIN nodes \ {t} -> SUBSET Fields]
      BY <1>c, <2>1
    <3> QED
      BY <1>c, <3>1, NodeSetShape
  <2>3. /\ d \in Deltas /\ d.gone = {t} /\ d.cut = EdgesOf(t) /\ d.joined = {}
        /\ d.added = Empty /\ DOMAIN d.added = {}
    <3>1. EdgesOf(t) \in SUBSET Pairs
      BY <1>b DEF EdgesOf
    <3> QED
      BY <3>1, NodeSetShape DEF Delta, Deltas
  <2> HIDE DEF d
  <2>4. edges' \subseteq Known(nodes')
    BY <1>b, <2>1, <2>2 DEF Known, EdgesOf
  <2> QED
    BY <1>b, <2>1, <2>2, <2>3, <2>4, ChangeIsFollowed
<1>8. ASSUME NEW focus \in SUBSET Terms, SetFocus(focus) PROVE SyncInv'
  <2> DEFINE d == Delta({}, Empty, NodeOps(focus), {}, {})
  <2>1. focusTerm' = focus /\ Change(d) /\ UNCHANGED <<nodes, edges>>
    BY <1>8 DEF SetFocus
  <2>2. d \in Deltas /\ d.gone = {} /\ d.cut = {} /\ d.joined = {} /\ d.added = NodeOps(focus)
    BY <1>d, NodeSetShape DEF Delta, Deltas
  <2> HIDE DEF d
  <2>3. DOMAIN nodes' = (DOMAIN nodes \ d.gone) \cup DOMAIN d.added
    BY <1>d, <2>1, <2>2
  <2> QED
    BY <1>b, <2>1, <2>2, <2>3, ChangeIsFollowed
<1>9. ASSUME NEW e \in Pairs, PatchEdge(e) PROVE SyncInv'
  <2> DEFINE d == Delta({}, Empty, Empty, {e}, {e})
  <2>1. e \in edges /\ Change(d) /\ UNCHANGED <<nodes, edges, focusTerm>>
    BY <1>9 DEF PatchEdge, graphVars
  <2>2. d \in Deltas /\ d.gone = {} /\ d.cut = {e} /\ d.joined = {e} /\ DOMAIN d.added = {}
    BY NodeSetShape DEF Delta, Deltas
  <2> HIDE DEF d
  <2> QED
    BY <1>b, <2>1, <2>2, ChangeIsFollowed
<1>10. CASE UNCHANGED syncVars
  BY <1>a, <1>10 DEF syncVars, graphVars, SyncInv, SyncTypeOK, EdgesHaveEnds, MembersFollow, Upcoming
<1> QED
  <2>1. \A p \in Viewers : ReceiveFrames(p) \/ ConnectPage(p) \/ Sync(p) \/ LoseLink(p) => SyncInv'
    BY <1>1, <1>2, <1>3, <1>4
  <2>2. \A t \in Terms : RemoveNode(t) \/ SetFocus({t}) => SyncInv'
    BY <1>7, <1>8
  <2>3. \A t \in Terms : \A fields \in SUBSET (Fields \ {"contradiction"}) :
          \A es \in SUBSET {e \in Pairs : e[2] = t} : ApplyDelta(t, fields, es) => SyncInv'
    BY <1>5
  <2>4. \A t \in Terms : \A fields \in {{f} : f \in Fields} : Mark({t}, fields) => SyncInv'
    BY <1>6
  <2>5. \A e \in Pairs : PatchEdge(e) \/ Mark({e[1], e[2]}, {"contradiction"}) => SyncInv'
    <3>1. \A e \in Pairs : {e[1], e[2]} \in SUBSET Terms
      BY DEF Pairs
    <3> QED
      BY <1>6, <1>9, <3>1, SyncAssumption DEF SyncAssumption
  <2>6. SetFocus({}) => SyncInv'
    BY <1>8
  <2> QED
    BY <1>10, <2>1, <2>2, <2>3, <2>4, <2>5, <2>6, Zenon DEF SyncNext

LEMMA SyncInvAlways == SyncSpec => []SyncInv
BY SyncInvInit, SyncInvStep, PTL DEF SyncSpec

\* A page that has been answered shows, or is about to, exactly the nodes and
\* edges of the server, over any changes, losses and reconnections, however many
\* frames are under way.
THEOREM PagesFollowTheGraph == SyncSpec => []MembersFollow
<1>1. SyncInv => MembersFollow
  BY DEF SyncInv
<1> QED
  BY <1>1, SyncInvAlways, PTL

\* The server never keeps an edge to a node it has removed, which a page would refuse.
THEOREM EdgesKeepTheirEnds == SyncSpec => [](SyncTypeOK /\ EdgesHaveEnds)
<1>1. SyncInv => SyncTypeOK /\ EdgesHaveEnds
  BY DEF SyncInv
<1> QED
  BY <1>1, SyncInvAlways, PTL

-----------------------------------------------------------------------------
(* WsClient.                                                                 *)

Held == [body : 1 .. MaxMessages, expired : BOOLEAN]

\* Every message went out, or is held, behind those that were sent before it,
\* and nothing is held beside an open socket: otherwise a message sent on it
\* would overtake.
OutboxInOrder ==
  /\ \A i, j \in 1 .. Len(sent) : i < j => sent[i] < sent[j]
  /\ \A i, j \in 1 .. Len(held) : i < j => held[i].body < held[j].body
  /\ \A i \in 1 .. Len(sent), j \in 1 .. Len(held) : sent[i] < held[j].body
  /\ \A i \in 1 .. Len(sent) : sent[i] <= sends
  /\ \A j \in 1 .. Len(held) : held[j].body <= sends
  /\ socket = "open" => held = <<>>

\* The inductive invariant.
ClientInv == ClientTypeOK /\ OutboxInOrder /\ DisconnectSticks

\* What flushPending and send keep are messages that were held, in their order.
LEMMA FreshIsHeld ==
  ASSUME NEW ms \in Seq(Held)
  PROVE  /\ Fresh(ms) \in Seq(Held) /\ Len(Fresh(ms)) <= Len(ms)
         /\ \E at \in [1 .. Len(Fresh(ms)) -> 1 .. Len(ms)] :
              /\ \A i \in 1 .. Len(Fresh(ms)) : Fresh(ms)[i] = ms[at[i]]
              /\ \A i, j \in 1 .. Len(Fresh(ms)) : i < j => at[i] < at[j]
<1> DEFINE K == {i \in DOMAIN ms : ~ms[i].expired}
<1>1. Fresh(ms) = Selected(ms, K)
  BY DEF Fresh
<1> HIDE DEF K
<1>2. Selected(ms, K) \in Seq(Held) /\ Len(Selected(ms, K)) <= Len(ms)
  BY SelectedIsASubsequence, SelectedNoLonger
<1>3. PICK at : Embeds(at, Selected(ms, K), ms, K, Len(ms))
  BY SelectedIsASubsequence
<1>4. QED
  BY <1>1, <1>2, <1>3 DEF Embeds

LEMMA ClientInvInit == ClientInit => ClientInv
<1> SUFFICES ASSUME ClientInit PROVE ClientInv
  OBVIOUS
<1>1. /\ 0 \in 0 .. MaxAttempts /\ 0 \in 0 .. MaxStale /\ 0 \in 0 .. MaxMessages /\ 0 \in 0 .. MaxCalls
      /\ 0 <= MaxPending
  BY ClientAssumption DEF ClientAssumption
<1>2. held = <<>> /\ sent = <<>> /\ Len(held) = 0 /\ Len(sent) = 0
  BY DEF ClientInit
<1>3. ClientTypeOK
  <2>1. held \in Seq([body : 1 .. MaxMessages, expired : BOOLEAN]) /\ sent \in Seq(1 .. MaxMessages)
    BY <1>2
  <2> QED
    BY <1>1, <1>2, <2>1 DEF ClientInit, ClientTypeOK
<1>4. OutboxInOrder /\ DisconnectSticks
  BY <1>2 DEF ClientInit, OutboxInOrder, DisconnectSticks
<1> QED
  BY <1>3, <1>4 DEF ClientInv

\* Every call, event and timer keeps the invariant.
LEMMA ClientInvStep == ClientInv /\ [ClientNext]_clientVars => ClientInv'
<1> SUFFICES ASSUME ClientInv, [ClientNext]_clientVars
             PROVE  ClientInv'
  OBVIOUS
<1>0. MaxAttempts \in Nat /\ MaxPending \in Nat /\ MaxMessages \in Nat /\ MaxCalls \in Nat
      /\ MaxStale \in Nat /\ MaxPending > 0
  BY ClientAssumption DEF ClientAssumption
<1>a. ClientTypeOK /\ OutboxInOrder /\ DisconnectSticks
  BY DEF ClientInv
<1>b. held \in Seq(Held) /\ sent \in Seq(1 .. MaxMessages) /\ sends \in 0 .. MaxMessages
      /\ Len(held) \in Nat /\ Len(sent) \in Nat
  BY <1>a DEF ClientTypeOK, Held
<1>e. \A i \in 1 .. Len(sent) : sent[i] \in Nat /\ sent[i] > 0 /\ sent[i] <= sends
  <2>1. \A i \in 1 .. Len(sent) : sent[i] \in 1 .. MaxMessages
    BY <1>b, ElementOfSeq
  <2> QED
    BY <1>0, <1>a, <2>1 DEF OutboxInOrder
<1>f. \A j \in 1 .. Len(held) : held[j].body \in Nat /\ held[j].body <= sends
  <2>1. \A j \in 1 .. Len(held) : held[j] \in Held
    BY <1>b, ElementOfSeq
  <2> QED
    BY <1>0, <1>a, <2>1 DEF OutboxInOrder, Held
<1>c. LetGo => stale' \in 0 .. MaxStale
  BY <1>0, <1>a DEF LetGo, ClientTypeOK
<1>d. Called => calls' \in 0 .. MaxCalls
  BY <1>0, <1>a DEF Called, ClientTypeOK
<1>1. CASE Connect
  BY <1>0, <1>a, <1>c, <1>1 DEF Connect, OpenNext, Called, outbox, ClientInv, ClientTypeOK, OutboxInOrder, DisconnectSticks
<1>2. CASE Reconnect
  <2>1. 0 \in 0 .. MaxAttempts /\ calls' \in 0 .. MaxCalls /\ stale' \in 0 .. MaxStale
    BY <1>0, <1>c, <1>d, <1>2 DEF Reconnect
  <2> QED
    BY <1>a, <1>2, <2>1 DEF Reconnect, outbox, ClientInv, ClientTypeOK, OutboxInOrder, DisconnectSticks
<1>3. CASE Disconnect
  <2>1. held' = <<>> /\ held' \in Seq(Held) /\ Len(held') = 0
    BY <1>3 DEF Disconnect
  <2>2. ClientTypeOK'
    <3>1. calls' \in 0 .. MaxCalls /\ stale' \in 0 .. MaxStale /\ 0 <= MaxPending
      BY <1>0, <1>c, <1>d, <1>3 DEF Disconnect
    <3> QED
      BY <1>a, <1>3, <2>1, <3>1 DEF Disconnect, ClientTypeOK, Held
  <2>3. OutboxInOrder'
    BY <1>a, <1>3, <2>1 DEF Disconnect, OutboxInOrder
  <2>4. DisconnectSticks'
    BY <1>3 DEF Disconnect, DisconnectSticks
  <2> QED
    BY <2>2, <2>3, <2>4 DEF ClientInv
<1>4. CASE OnOpen
  <2> DEFINE live == Fresh(held)  out == Bodies(live)
  <2>1. live \in Seq(Held)
    BY <1>b, FreshIsHeld
  <2>2. PICK at \in [1 .. Len(live) -> 1 .. Len(held)] :
          /\ \A i \in 1 .. Len(live) : live[i] = held[at[i]]
          /\ \A i, j \in 1 .. Len(live) : i < j => at[i] < at[j]
    BY <1>b, FreshIsHeld
  <2>3. out \in Seq(1 .. MaxMessages) /\ Len(out) = Len(live)
        /\ \A i \in 1 .. Len(live) : out[i] = held[at[i]].body
    <3>1. \A i \in 1 .. Len(live) : live[i].body \in 1 .. MaxMessages
      <4> HIDE DEF live
      <4>1. \A i \in 1 .. Len(live) : live[i] \in Held
        BY <2>1
      <4> QED
        BY <4>1 DEF Held
    <3>2. out = [i \in 1 .. Len(live) |-> live[i].body] /\ Len(live) \in Nat
      BY <2>1 DEF Bodies
    <3> HIDE DEF live, out
    <3> QED
      BY <2>2, <3>1, <3>2
  <2>4. sent' = sent \o out /\ held' = <<>> /\ Len(held') = 0
    BY <1>4 DEF OnOpen
  <2> HIDE DEF live, out
  <2>5. /\ sent' \in Seq(1 .. MaxMessages) /\ Len(sent') = Len(sent) + Len(live)
        /\ \A i \in 1 .. Len(sent) : sent'[i] = sent[i]
        /\ \A i \in 1 .. Len(live) : sent'[Len(sent) + i] = held[at[i]].body
    <3>1. sent \in Seq(1 .. MaxMessages) /\ out \in Seq(1 .. MaxMessages) /\ Len(out) = Len(live)
      BY <1>b, <2>3
    <3>2. /\ sent \o out \in Seq(1 .. MaxMessages) /\ Len(sent \o out) = Len(sent) + Len(out)
          /\ \A i \in 1 .. Len(sent) : (sent \o out)[i] = sent[i]
          /\ \A i \in 1 .. Len(out) : (sent \o out)[Len(sent) + i] = out[i]
      BY <3>1
    <3> QED
      BY <2>3, <2>4, <3>1, <3>2
  <2>6. \A i, j \in 1 .. Len(sent') : i < j => sent'[i] < sent'[j]
    <3> TAKE i, j \in 1 .. Len(sent')
    <3> HAVE i < j
    <3>1. CASE j <= Len(sent)
      <4>1. i \in 1 .. Len(sent) /\ j \in 1 .. Len(sent)
        BY <1>b, <2>5, <3>1
      <4> QED
        BY <1>a, <2>5, <4>1 DEF OutboxInOrder
    <3>2. CASE i <= Len(sent) /\ j > Len(sent)
      <4>1. j - Len(sent) \in 1 .. Len(live) /\ Len(sent) + (j - Len(sent)) = j
        BY <1>b, <2>1, <2>5, <3>2
      <4>2. sent'[j] = held[at[j - Len(sent)]].body /\ at[j - Len(sent)] \in 1 .. Len(held)
        BY <2>5, <4>1
      <4> QED
        BY <1>a, <1>b, <2>5, <3>2, <4>2 DEF OutboxInOrder
    <3>3. CASE i > Len(sent)
      <4> DEFINE a == i - Len(sent)  b == j - Len(sent)
      <4>1. a \in 1 .. Len(live) /\ b \in 1 .. Len(live) /\ a < b
            /\ Len(sent) + a = i /\ Len(sent) + b = j
        BY <1>b, <2>1, <2>5, <3>3
      <4> HIDE DEF a, b
      <4>2. sent'[i] = held[at[a]].body /\ sent'[j] = held[at[b]].body
            /\ at[a] \in 1 .. Len(held) /\ at[b] \in 1 .. Len(held) /\ at[a] < at[b]
        BY <2>2, <2>5, <4>1
      <4> QED
        BY <1>a, <4>2 DEF OutboxInOrder
    <3> QED
      BY <1>b, <2>1, <2>5, <3>1, <3>2, <3>3
  <2>7. \A i \in 1 .. Len(sent') : sent'[i] <= sends'
    <3> TAKE i \in 1 .. Len(sent')
    <3>1. CASE i <= Len(sent)
      BY <1>a, <1>b, <1>4, <2>5, <3>1 DEF OutboxInOrder, OnOpen
    <3>2. CASE i > Len(sent)
      <4>1. i - Len(sent) \in 1 .. Len(live) /\ Len(sent) + (i - Len(sent)) = i
        BY <1>b, <2>1, <2>5, <3>2
      <4>2. sent'[i] = held[at[i - Len(sent)]].body /\ at[i - Len(sent)] \in 1 .. Len(held)
        BY <2>5, <4>1
      <4> QED
        BY <1>a, <1>4, <4>2 DEF OutboxInOrder, OnOpen
    <3> QED
      BY <1>b, <2>5, <3>1, <3>2
  <2>8. ClientTypeOK'
    BY <1>0, <1>a, <1>4, <2>4, <2>5 DEF OnOpen, ClientTypeOK
  <2>9. OutboxInOrder' /\ DisconnectSticks'
    BY <1>4, <2>4, <2>6, <2>7 DEF OnOpen, OutboxInOrder, DisconnectSticks
  <2> QED
    BY <2>8, <2>9 DEF ClientInv
<1>5. CASE Closing
  BY <1>a, <1>5 DEF Closing, outbox, ClientInv, ClientTypeOK, OutboxInOrder, DisconnectSticks
<1>6. CASE OnClose
  <2>1. socket' = "closed" /\ UNCHANGED <<stale, held, sent, sends, calls>>
    BY <1>6 DEF OnClose, outbox
  <2>2. /\ reconnectAttempt' \in 0 .. MaxAttempts /\ reconnectTimer' \in BOOLEAN
        /\ connectionState' \in {"disconnected", "reconnecting"}
    <3>1. reconnectAttempt \in 0 .. MaxAttempts /\ reconnectTimer \in BOOLEAN
      BY <1>a DEF ClientTypeOK
    <3>2. ScheduleReconnect
      BY <1>6 DEF OnClose
    <3> QED
      <4>1. \/ UNCHANGED <<reconnectAttempt, reconnectTimer>>
            \/ /\ reconnectAttempt < MaxAttempts /\ reconnectAttempt' = reconnectAttempt + 1
               /\ reconnectTimer' = TRUE
        BY <3>2 DEF ScheduleReconnect
      <4>2. connectionState' \in {"disconnected", "reconnecting"}
        BY <3>2 DEF ScheduleReconnect
      <4>3. reconnectAttempt' \in 0 .. MaxAttempts
        BY <1>0, <3>1, <4>1
      <4>4. reconnectTimer' \in BOOLEAN
        BY <3>1, <4>1
      <4> QED
        BY <4>2, <4>3, <4>4
  <2> QED
    BY <1>a, <2>1, <2>2 DEF ClientInv, ClientTypeOK, OutboxInOrder, DisconnectSticks
<1>7. CASE StaleClose
  BY <1>0, <1>a, <1>7 DEF StaleClose, outbox, ClientInv, ClientTypeOK, OutboxInOrder, DisconnectSticks
<1>8. CASE TimerFires
  BY <1>0, <1>a, <1>c, <1>8 DEF TimerFires, OpenNext, outbox, ClientInv, ClientTypeOK, OutboxInOrder, DisconnectSticks
<1>9. CASE Send
  <2>1. sends' = sends + 1 /\ sends' \in 1 .. MaxMessages /\ UNCHANGED <<socket, stale, reconnectAttempt, reconnectTimer, connectionState, calls>>
    BY <1>0, <1>b, <1>9 DEF Send
  <2>2. DisconnectSticks'
    BY <1>a, <2>1 DEF DisconnectSticks
  <2>3. CASE socket = "open"
    <3>1. sent' = Append(sent, sends + 1) /\ held' = held /\ held = <<>> /\ Len(held') = 0
      BY <1>a, <1>9, <2>1, <2>3 DEF Send, OutboxInOrder
    <3>2. /\ sent' \in Seq(1 .. MaxMessages) /\ Len(sent') = Len(sent) + 1
          /\ \A i \in 1 .. Len(sent) : sent'[i] = sent[i]
          /\ sent'[Len(sent) + 1] = sends + 1
      BY <1>b, <2>1, <3>1
    <3>3. ClientTypeOK'
      BY <1>a, <2>1, <3>1, <3>2 DEF ClientTypeOK
    <3>4. \A i \in 1 .. Len(sent) : sent[i] \in 1 .. sends
      BY <1>b, <1>e
    <3>5. \A i, j \in 1 .. Len(sent') : i < j => sent'[i] < sent'[j]
      <4>1. \A i, j \in 1 .. Len(sent) : i < j => sent[i] < sent[j]
        BY <1>a DEF OutboxInOrder
      <4> TAKE i, j \in 1 .. Len(sent')
      <4> HAVE i < j
      <4>2. i \in 1 .. Len(sent) /\ sent'[i] = sent[i]
        BY <1>b, <3>2
      <4>3. CASE j = Len(sent) + 1
        <5>1. sent'[j] = sends + 1 /\ sent[i] \in 1 .. sends
          BY <3>2, <3>4, <4>2, <4>3
        <5> QED
          BY <1>b, <4>2, <5>1
      <4>4. CASE j # Len(sent) + 1
        <5>1. j \in 1 .. Len(sent) + 1 /\ Len(sent) \in Nat
          BY <1>b, <3>2
        <5>2. j \in 1 .. Len(sent)
          BY <4>4, <5>1
        <5>3. sent'[j] = sent[j]
          BY <3>2, <5>2
        <5> QED
          BY <4>1, <4>2, <5>2, <5>3
      <4> QED
        BY <4>3, <4>4
    <3>6. \A i \in 1 .. Len(sent') : sent'[i] <= sends'
      BY <1>b, <2>1, <3>2, <3>4
    <3> QED
      BY <2>2, <3>1, <3>3, <3>5, <3>6 DEF ClientInv, OutboxInOrder
  <2>4. CASE socket # "open"
    <3> DEFINE live == Fresh(held)
               kept == IF Len(live) >= MaxPending THEN Tail(live) ELSE live
               new == [body |-> sends + 1, expired |-> FALSE]
               drop == IF Len(live) >= MaxPending THEN 1 ELSE 0
    <3>1. held' = Append(kept, new) /\ sent' = sent
      BY <1>9, <2>1, <2>4 DEF Send
    <3>2. live \in Seq(Held) /\ Len(live) <= Len(held) /\ Len(held) <= MaxPending
      BY <1>a, <1>b, FreshIsHeld DEF ClientTypeOK
    <3>3. PICK at \in [1 .. Len(live) -> 1 .. Len(held)] :
            /\ \A i \in 1 .. Len(live) : live[i] = held[at[i]]
            /\ \A i, j \in 1 .. Len(live) : i < j => at[i] < at[j]
      BY <1>b, FreshIsHeld
    <3>4. new \in Held
      BY <2>1 DEF Held
    <3> HIDE DEF live, new
    <3>5. /\ kept \in Seq(Held) /\ Len(kept) = Len(live) - drop /\ Len(kept) < MaxPending
          /\ Len(kept) \in Nat /\ drop \in {0, 1}
          /\ \A i \in 1 .. Len(kept) : kept[i] = live[i + drop] /\ i + drop \in 1 .. Len(live)
      <4>1. CASE Len(live) >= MaxPending
        <5>1. Len(live) > 0 /\ live # <<>> /\ Len(live) \in Nat
          BY <1>0, <3>2, <4>1
        <5>2. Tail(live) \in Seq(Held) /\ Len(Tail(live)) = Len(live) - 1
              /\ \A i \in 1 .. Len(live) - 1 : Tail(live)[i] = live[i + 1]
          BY <3>2, <5>1, HeadTailProperties
        <5> QED
          BY <1>0, <1>b, <3>2, <4>1, <5>1, <5>2
      <4>2. CASE ~(Len(live) >= MaxPending)
        BY <1>0, <3>2, <4>2
      <4> QED
        BY <4>1, <4>2
    <3> HIDE DEF kept, drop
    <3>6. /\ held' \in Seq(Held) /\ Len(held') = Len(kept) + 1
          /\ \A i \in 1 .. Len(kept) : held'[i] = kept[i]
          /\ held'[Len(kept) + 1] = new
      BY <3>1, <3>4, <3>5
    <3>7. /\ \A i \in 1 .. Len(kept) : held'[i] = held[at[i + drop]] /\ at[i + drop] \in 1 .. Len(held)
          /\ \A i, j \in 1 .. Len(kept) : i < j => at[i + drop] < at[j + drop]
      <4>1. \A i \in 1 .. Len(kept) : held'[i] = live[i + drop] /\ i + drop \in 1 .. Len(live)
        BY <3>5, <3>6
      <4>2. \A i, j \in 1 .. Len(kept) : i < j => i + drop < j + drop
        BY <3>5
      <4> QED
        BY <3>3, <4>1, <4>2
    <3>8. new.body = sends + 1
      BY DEF new
    <3>9. ClientTypeOK'
      BY <1>0, <1>a, <2>1, <3>1, <3>5, <3>6 DEF ClientTypeOK, Held
    <3>10. \A i \in 1 .. Len(kept) : held'[i].body <= sends /\ held'[i].body \in Nat
      BY <1>f, <3>7
    <3>11. \A i, j \in 1 .. Len(held') : i < j => held'[i].body < held'[j].body
      <4> TAKE i, j \in 1 .. Len(held')
      <4> HAVE i < j
      <4>1. CASE j <= Len(kept)
        <5>1. i \in 1 .. Len(kept) /\ j \in 1 .. Len(kept)
          BY <3>5, <3>6, <4>1
        <5> QED
          BY <1>a, <3>7, <5>1 DEF OutboxInOrder
      <4>2. CASE j > Len(kept)
        <5>1. j = Len(kept) + 1 /\ i \in 1 .. Len(kept)
          BY <3>5, <3>6, <4>2
        <5> QED
          BY <1>b, <3>6, <3>8, <3>10, <5>1
      <4> QED
        BY <3>5, <4>1, <4>2
    <3>12. \A i \in 1 .. Len(sent'), j \in 1 .. Len(held') : sent'[i] < held'[j].body
      <4> TAKE i \in 1 .. Len(sent'), j \in 1 .. Len(held')
      <4>1. CASE j <= Len(kept)
        <5>1. j \in 1 .. Len(kept)
          BY <3>5, <4>1
        <5>2. held'[j] = held[at[j + drop]] /\ at[j + drop] \in 1 .. Len(held)
          BY <3>7, <5>1
        <5>3. sent' = sent /\ i \in 1 .. Len(sent)
          BY <3>1
        <5> QED
          BY <1>a, <5>2, <5>3 DEF OutboxInOrder
      <4>2. CASE j > Len(kept)
        <5>1. j = Len(kept) + 1 /\ sent'[i] <= sends /\ sent'[i] \in Nat
          BY <1>e, <3>1, <3>5, <3>6, <4>2
        <5> QED
          BY <1>b, <3>6, <3>8, <5>1
      <4> QED
        BY <3>5, <4>1, <4>2
    <3>13. \A j \in 1 .. Len(held') : held'[j].body <= sends'
      <4> TAKE j \in 1 .. Len(held')
      <4>1. CASE j <= Len(kept)
        BY <1>b, <2>1, <3>5, <3>10, <4>1
      <4>2. CASE j > Len(kept)
        BY <1>b, <2>1, <3>5, <3>6, <3>8, <4>2
      <4> QED
        BY <3>5, <4>1, <4>2
    <3>14. \A i \in 1 .. Len(sent') : sent'[i] <= sends'
      BY <1>b, <1>e, <2>1, <3>1
    <3>15. (\A i, j \in 1 .. Len(sent') : i < j => sent'[i] < sent'[j]) /\ socket' # "open"
      BY <1>a, <2>1, <2>4, <3>1 DEF OutboxInOrder
    <3> QED
      BY <2>2, <3>9, <3>11, <3>12, <3>13, <3>14, <3>15 DEF ClientInv, OutboxInOrder
  <2> QED
    BY <2>3, <2>4
<1>10. CASE Age
  <2>1. PICK i \in DOMAIN held : held' = [held EXCEPT ![i].expired = TRUE]
    BY <1>10 DEF Age
  <2>2. UNCHANGED <<socket, stale, reconnectAttempt, reconnectTimer, connectionState, sent, sends, calls>>
    BY <1>10 DEF Age
  <2>3. /\ held' \in Seq(Held) /\ Len(held') = Len(held) /\ held # <<>>
        /\ \A j \in 1 .. Len(held) : held'[j].body = held[j].body
    <3>1. i \in 1 .. Len(held) /\ held[i] \in Held
      BY <1>b, <2>1
    <3>2. [held[i] EXCEPT !.expired = TRUE] \in Held /\ [held[i] EXCEPT !.expired = TRUE].body = held[i].body
      BY <3>1 DEF Held
    <3>3. held' = [held EXCEPT ![i] = [held[i] EXCEPT !.expired = TRUE]]
      BY <2>1
    <3> QED
      BY <1>b, <3>1, <3>2, <3>3
  <2>4. ClientTypeOK'
    BY <1>a, <2>2, <2>3 DEF ClientTypeOK, Held
  <2>5. OutboxInOrder'
    BY <1>a, <2>2, <2>3 DEF OutboxInOrder
  <2> QED
    BY <1>a, <2>2, <2>4, <2>5 DEF ClientInv, DisconnectSticks
<1>11. CASE UNCHANGED clientVars
  BY <1>a, <1>11 DEF clientVars, outbox, ClientInv, ClientTypeOK, OutboxInOrder, DisconnectSticks
<1> QED
  BY <1>1, <1>2, <1>3, <1>4, <1>5, <1>6, <1>7, <1>8, <1>9, <1>10, <1>11 DEF ClientNext

LEMMA ClientInvAlways == ClientSpec => []ClientInv
BY ClientInvInit, ClientInvStep, PTL DEF ClientSpec

\* Messages go out in the order they were sent in and no more than once, over
\* any number of sockets, reconnections, expiries and displaced messages.
THEOREM MessagesKeepTheirOrder == ClientSpec => []SentInOrder
<1>1. ClientInv => SentInOrder
  <2> SUFFICES ASSUME ClientInv, NEW i \in DOMAIN sent, i > 1 PROVE sent[i - 1] < sent[i]
    BY DEF SentInOrder
  <2>1. sent \in Seq(1 .. MaxMessages) /\ i \in 1 .. Len(sent) /\ i - 1 \in 1 .. Len(sent)
    BY DEF ClientInv, ClientTypeOK
  <2> QED
    BY <2>1 DEF ClientInv, OutboxInOrder
<1> QED
  BY <1>1, ClientInvAlways, PTL

\* No late close and no timer brings a disconnected page back.
THEOREM DisconnectionsStick == ClientSpec => []DisconnectSticks
<1>1. ClientInv => DisconnectSticks
  BY DEF ClientInv
<1> QED
  BY <1>1, ClientInvAlways, PTL

\* A page holds no more than MaxPending messages, whatever it is sent.
THEOREM ClientKeepsItsShape == ClientSpec => []ClientTypeOK
<1>1. ClientInv => ClientTypeOK
  BY DEF ClientInv
<1> QED
  BY <1>1, ClientInvAlways, PTL
=============================================================================

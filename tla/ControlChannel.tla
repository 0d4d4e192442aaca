--------------------------- MODULE ControlChannel ---------------------------
(***************************************************************************)
(* ui/src/client/core/control-channel.ts and the reasoning handlers of     *)
(* ui/src/server/handlers.ts: pages send control requests numbered by      *)
(* themselves over their sockets, and one server answers them, some only   *)
(* after an await.  The server has ONE handler context, whose `ws` is set  *)
(* to the sender on every message (index.ts:765), and one run at a time.   *)
(***************************************************************************)
EXTENDS Naturals, Sequences

CONSTANTS Pages, Kinds,    \* of the requests a page makes
          NoRun,           \* no run is active
          NoAnswer, TimedOut,   \* of a request: not settled, settled by its timer
          Quota, MaxSockets   \* bounds: the requests of each page, its sockets

ASSUME ControlAssumption ==
  /\ Quota \in [Pages -> Nat] /\ MaxSockets \in Nat \ {0}
  /\ Kinds \subseteq {"submit", "run", "abort", "retract"}

VARIABLES sockets,   \* the sockets each page has had; the last may be open
          isOpen,
          nextSeqId, pending,   \* per page, the correlation map
          up, down,  \* what travels on the socket of a page (up: or waits for one)
          outcome,   \* history: what each request was settled with
          ctxWs,     \* HandlerContext.ws
          work,      \* handlers awaiting the engine
          runs, activeRun   \* unfinished runCycles calls; the controller at hand

pageVars == <<sockets, isOpen, nextSeqId, pending, outcome>>
controlVars == <<pageVars, up, down, ctxWs, work, runs, activeRun>>

SeqIds == UNION {1..Quota[p] : p \in Pages}
RequestsOf == [page : Pages, seqId : SeqIds, kind : Kinds]

ControlInit ==
  /\ sockets = [p \in Pages |-> 1] /\ isOpen = [p \in Pages |-> TRUE]
  /\ nextSeqId = [p \in Pages |-> 1] /\ pending = [p \in Pages |-> {}]
  /\ up = [p \in Pages |-> <<>>] /\ down = [p \in Pages |-> <<>>]
  /\ outcome = [p \in Pages |-> [s \in SeqIds |-> NoAnswer]]
  /\ ctxWs \in {<<p, 1>> : p \in Pages}
  /\ work = {} /\ runs = {} /\ activeRun = NoRun

-----------------------------------------------------------------------------
(* The page *)

\* request: awaitControl, then send, which holds the message while offline.
Request(p, kind) ==
  /\ nextSeqId[p] <= Quota[p]
  /\ nextSeqId' = [nextSeqId EXCEPT ![p] = @ + 1]
  /\ pending' = [pending EXCEPT ![p] = @ \cup {nextSeqId[p]}]
  /\ up' = [up EXCEPT ![p] = Append(@, [page |-> p, seqId |-> nextSeqId[p], kind |-> kind])]
  /\ UNCHANGED <<sockets, isOpen, down, outcome, ctxWs, work, runs, activeRun>>

Settled(p, s, result) ==
  /\ pending' = [pending EXCEPT ![p] = @ \ {s}]
  /\ outcome' = [outcome EXCEPT ![p][s] = result]

\* The timer of awaitControl.
Timeout(p, s) ==
  /\ s \in pending[p] /\ Settled(p, s, TimedOut)
  /\ UNCHANGED <<sockets, isOpen, nextSeqId, up, down, ctxWs, work, runs, activeRun>>

\* settleControl.
Hear(p) ==
  /\ down[p] # <<>> /\ down' = [down EXCEPT ![p] = Tail(@)]
  /\ LET answered == Head(down[p]) IN
       IF answered.seqId \in pending[p] THEN Settled(p, answered.seqId, answered)
       ELSE UNCHANGED <<pending, outcome>>
  /\ UNCHANGED <<sockets, isOpen, nextSeqId, up, ctxWs, work, runs, activeRun>>

\* The connection is lost with what it carries; another one is made.
LosePage(p) ==
  /\ isOpen[p] /\ sockets[p] < MaxSockets
  /\ isOpen' = [isOpen EXCEPT ![p] = FALSE]
  /\ up' = [up EXCEPT ![p] = <<>>] /\ down' = [down EXCEPT ![p] = <<>>]
  /\ UNCHANGED <<sockets, nextSeqId, pending, outcome, ctxWs, work, runs, activeRun>>

Reopen(p) ==
  /\ ~isOpen[p]
  /\ isOpen' = [isOpen EXCEPT ![p] = TRUE] /\ sockets' = [sockets EXCEPT ![p] = @ + 1]
  /\ UNCHANGED <<nextSeqId, pending, up, down, outcome, ctxWs, work, runs, activeRun>>

-----------------------------------------------------------------------------
(* The server *)

\* respondReasoning: nothing is said to a socket that has closed.
Respond(ws, request) ==
  down' = IF isOpen[ws[1]] /\ sockets[ws[1]] = ws[2]
            THEN [down EXCEPT ![ws[1]] = Append(@, request)] ELSE down

Aborted(r) == [r EXCEPT !.aborted = TRUE]

\* The current controller is aborted, whatever became of its run.
AbortActive == {IF r.request = activeRun THEN Aborted(r) ELSE r : r \in runs}

\* The next message of a page, by the handler its type names.
Handle(p, kind) ==
  /\ isOpen[p] /\ up[p] # <<>> /\ Head(up[p]).kind = kind
  /\ up' = [up EXCEPT ![p] = Tail(@)] /\ ctxWs' = <<p, sockets[p]>>
  /\ UNCHANGED pageVars

\* handleReasoningSubmit, Ask, Revise, AddGoal and handleCycleRewind await the engine.
HandleSubmit(p) ==
  /\ Handle(p, "submit") /\ work' = work \cup {Head(up[p])}
  /\ UNCHANGED <<down, runs, activeRun>>

\* They answer on the context's socket of the moment.
Answer(w) ==
  /\ w \in work /\ work' = work \ {w} /\ Respond(ctxWs, w)
  /\ UNCHANGED <<pageVars, up, ctxWs, runs, activeRun>>

\* handleReasoningRun and Step: runCycles, which keeps the socket it was called with.
HandleRun(p) ==
  /\ Handle(p, "run")
  /\ runs' = AbortActive \cup {[request |-> Head(up[p]), ws |-> <<p, sockets[p]>>, aborted |-> FALSE]}
  /\ activeRun' = Head(up[p])
  /\ UNCHANGED <<down, work>>

HandleAbort(p) ==
  /\ Handle(p, "abort") /\ Respond(ctxWs', Head(up[p]))
  /\ runs' = AbortActive /\ activeRun' = NoRun
  /\ UNCHANGED work

\* handleReasoningRetract, AdjustBudget and AdjustProvider answer at once.
HandleRetract(p) ==
  /\ Handle(p, "retract") /\ Respond(ctxWs', Head(up[p]))
  /\ UNCHANGED <<work, runs, activeRun>>

\* Mutant: the last reference is dropped whoever holds it.
RunEndsForgetting(r) ==
  /\ r \in runs /\ runs' = runs \ {r} /\ Respond(r.ws, r.request)
  /\ activeRun' = NoRun
  /\ UNCHANGED <<pageVars, up, ctxWs, work>>

\* Mutant: a run answers like the other handlers.
RunEndsOnContext(r) ==
  /\ r \in runs /\ runs' = runs \ {r} /\ Respond(ctxWs, r.request)
  /\ activeRun' = IF activeRun = r.request THEN NoRun ELSE activeRun
  /\ UNCHANGED <<pageVars, up, ctxWs, work>>

\* The cycles end, or their signal ends them.
RunEnds(r) ==
  /\ r \in runs /\ runs' = runs \ {r} /\ Respond(r.ws, r.request)
  /\ activeRun' = IF activeRun = r.request THEN NoRun ELSE activeRun
  /\ UNCHANGED <<pageVars, up, ctxWs, work>>

ControlNext ==
  \/ \E p \in Pages :
       \/ \E kind \in Kinds : Request(p, kind)
       \/ \E s \in SeqIds : Timeout(p, s)
       \/ Hear(p) \/ LosePage(p) \/ Reopen(p)
       \/ HandleSubmit(p) \/ HandleRun(p) \/ HandleAbort(p) \/ HandleRetract(p)
  \/ \E w \in work : Answer(w)
  \/ \E r \in runs : RunEnds(r)

ControlSpec == ControlInit /\ [][ControlNext]_controlVars

-----------------------------------------------------------------------------

ControlTypeOK ==
  /\ sockets \in [Pages -> 1..MaxSockets] /\ isOpen \in [Pages -> BOOLEAN]
  /\ nextSeqId \in [Pages -> Nat] /\ pending \in [Pages -> SUBSET SeqIds]
  /\ up \in [Pages -> Seq(RequestsOf)] /\ down \in [Pages -> Seq(RequestsOf)]
  /\ outcome \in [Pages -> [SeqIds -> RequestsOf \cup {NoAnswer, TimedOut}]]
  /\ ctxWs \in Pages \X (1..MaxSockets) /\ work \subseteq RequestsOf
  /\ runs \subseteq [request : RequestsOf, ws : Pages \X (1..MaxSockets), aborted : BOOLEAN]
  /\ activeRun \in RequestsOf \cup {NoRun}

\* "The in-flight `reasoning.run`; a new run or an abort cancels it" (index.ts:678):
\* of the runs that have not ended only one is not cancelled, whoever asked,
\* although an earlier one may end later and clears up behind itself.
OneLiveRun ==
  \A r \in runs : ~r.aborted => r.request = activeRun

\* What a run says reaches the request that started it and no other, on
\* whatever page, although every page numbers its requests from one.
RunsAnswerTheirAsker ==
  \A p \in Pages : \A s \in SeqIds :
    outcome[p][s] \notin {NoAnswer, TimedOut} /\ outcome[p][s].kind = "run"
      => outcome[p][s].page = p

\* control-channel.ts:6-9: "the engine echoes the request's `seqId` and the map
\* settles exactly one".  The code: the late answer of an awaiting handler goes
\* to whichever page spoke last, and settles that page's request of the number.
AnswersGoHome ==
  \A p \in Pages : \A s \in SeqIds :
    outcome[p][s] \notin {NoAnswer, TimedOut} => outcome[p][s].page = p
=============================================================================

------------------------------ MODULE EventLog ------------------------------
(***************************************************************************)
(* core/src/eventlog: the append-only event log, its subscriptions and     *)
(* the push queues their consumers read.  An event is its type; its id is  *)
(* its position, since ids are minted in the same synchronous step that    *)
(* stores it.  What follows an await runs later, as a microtask, and calls *)
(* may come between: microtasks run in the order they were queued.         *)
(***************************************************************************)
EXTENDS Integers, Sequences, FiniteSets, SequencesExt, Selection

CONSTANTS Types,      \* event types
          Consumers,  \* consumers, one subscription each per process life
          MaxEvents,  \* limits.maxEvents: append refuses beyond it
          Replays     \* whether consumers subscribe from an id

ASSUME LogConstants ==
  MaxEvents \in Nat /\ Replays \in BOOLEAN

VARIABLES store,      \* "sqlite": SqliteEventLog; "memory": InMemoryEventLog
          log,        \* the stored events, oldest first
          closed,     \* #closed
          micro,      \* pending continuations of append and subscribe
          subs,       \* each consumer's subscription and queue
          waiting,    \* consumers parked in PushQueue.next
          since       \* history: the log a consumer's subscription started from

logVars == <<store, log, closed, micro, subs, waiting, since>>

NoId == 0                      \* subscribe without fromId
EventIds == 1 .. MaxEvents
NotSubscribed == [state |-> "none", from |-> NoId, types |-> {}, queue |-> <<>>, taken |-> <<>>]
Durable == store = "sqlite"
Open(s) == subs[s].state = "open"

\* Everything the queue was given, in order, whether or not it was read yet.
Delivered(s) == subs[s].taken \o subs[s].queue

LogInit ==
  /\ store \in {"memory", "sqlite"}
  /\ log = <<>> /\ closed = FALSE /\ micro = <<>>
  /\ subs = [s \in Consumers |-> NotSubscribed]
  /\ waiting = {} /\ since = [s \in Consumers |-> 0]

-----------------------------------------------------------------------------
(* Helpers.                                                                  *)

\* subscriptionAdmits: an empty allowlist means every type.
Admits(sub, id) == sub.types = {} \/ log[id] \in sub.types

\* PushQueue.push of a run of events: the first goes to a parked next().
Pushed(sub, ids, parked) ==
  IF sub.state # "open" THEN sub
  ELSE LET direct == IF parked /\ ids # <<>> THEN 1 ELSE 0
       IN  [sub EXCEPT !.taken = @ \o SubSeq(ids, 1, direct),
                       !.queue = @ \o SubSeq(ids, direct + 1, Len(ids))]

\* Mutant: the live path forgets the subscription's own starting point.
HearsFromAnywhere(s, id) == Open(s) /\ Admits(subs[s], id)
\* notify's tests for one subscription.
Hears(s, id) ==
  /\ Open(s) /\ Admits(subs[s], id)
  /\ subs[s].from = NoId \/ subs[s].from < id

\* Mutant: the range stops one short.
RangeStopsShort(id) == [k \in 1 .. Len(log) - id - 1 |-> id + k]
\* getRange(fromId), as the store stands when subscribe is called.
RangeAfter(id) == [k \in 1 .. Len(log) - id |-> id + k]

-----------------------------------------------------------------------------
(* Calls.                                                                    *)

\* Mutant: the newest continuation runs first.
AppendNotifiedFirst(t) ==
  /\ ~closed /\ Len(log) < MaxEvents
  /\ log' = Append(log, t)
  /\ micro' = <<[kind |-> "notify", id |-> Len(log) + 1]>> \o micro
  /\ UNCHANGED <<store, closed, subs, waiting, since>>

\* Mutant: the full test is off by one.
AppendOneTooMany(t) ==
  /\ ~closed /\ Len(log) <= MaxEvents
  /\ log' = Append(log, t)
  /\ micro' = Append(micro, [kind |-> "notify", id |-> Len(log) + 1])
  /\ UNCHANGED <<store, closed, subs, waiting, since>>

\* append up to its await: mint, check, store; notify is left for later.
\* A closed or full log refuses and nothing changes.
AppendEvent(t) ==
  /\ ~closed /\ Len(log) < MaxEvents
  /\ log' = Append(log, t)
  /\ micro' = Append(micro, [kind |-> "notify", id |-> Len(log) + 1])
  /\ UNCHANGED <<store, closed, subs, waiting, since>>

\* subscribe: registered at once, a replay read now and delivered later.  A
\* closed log does not refuse; a closed sqlite store fails the replay's read.
Subscribe(s, from, types) ==
  /\ subs[s].state = "none"
  /\ subs' = [subs EXCEPT ![s] = [NotSubscribed EXCEPT !.state = "open",
                                                       !.from = from, !.types = types]]
  /\ micro' = IF from = NoId \/ (Durable /\ closed) THEN micro
              ELSE Append(micro, [kind |-> "replay", to |-> s, ids |-> RangeAfter(from)])
  /\ since' = [since EXCEPT ![s] = IF from = NoId THEN Len(log) ELSE from]
  /\ UNCHANGED <<store, log, closed, waiting>>

\* PushQueue.next: an item, the end, or a parked waiter.
TakeNext(s) ==
  /\ subs[s].state # "none" /\ s \notin waiting
  /\ IF subs[s].queue # <<>>
     THEN /\ subs' = [subs EXCEPT ![s].taken = Append(@, Head(subs[s].queue)),
                                  ![s].queue = Tail(@)]
          /\ UNCHANGED waiting
     ELSE /\ Open(s)
          /\ waiting' = waiting \cup {s}
          /\ UNCHANGED subs
  /\ UNCHANGED <<store, log, closed, micro, since>>

\* Mutant: a close that forgets the parked waiter.
EndIterationLeavesWaiter(s) ==
  /\ Open(s)
  /\ subs' = [subs EXCEPT ![s].state = "closed"]
  /\ UNCHANGED <<store, log, closed, micro, waiting, since>>

\* The iterator's return: the consumer closes its own queue.
EndIteration(s) ==
  /\ Open(s)
  /\ subs' = [subs EXCEPT ![s].state = "closed"]
  /\ waiting' = waiting \ {s}
  /\ UNCHANGED <<store, log, closed, micro, since>>

\* close: the in-memory log closes every queue, the sqlite override only the store.
Close ==
  /\ ~closed /\ closed' = TRUE
  /\ IF Durable THEN UNCHANGED <<subs, waiting>>
     ELSE /\ subs' = [s \in Consumers |->
                        IF Open(s) THEN [subs[s] EXCEPT !.state = "closed"] ELSE subs[s]]
          /\ waiting' = {}
  /\ UNCHANGED <<store, log, micro, since>>

-----------------------------------------------------------------------------
(* Microtasks.                                                               *)

\* The rest of append: fan the event out to the subscriptions of that moment.
Notify ==
  /\ micro # <<>> /\ Head(micro).kind = "notify"
  /\ LET id == Head(micro).id IN
       /\ subs' = [s \in Consumers |->
                     IF Hears(s, id) THEN Pushed(subs[s], <<id>>, s \in waiting) ELSE subs[s]]
       /\ waiting' = {s \in waiting : ~Hears(s, id)}
  /\ micro' = Tail(micro)
  /\ UNCHANGED <<store, log, closed, since>>

\* The rest of subscribe: the replayed events, filtered, one push each.
Replay ==
  /\ micro # <<>> /\ Head(micro).kind = "replay"
  /\ LET s == Head(micro).to
         all == Head(micro).ids
         ids == Selected(all, {k \in DOMAIN all : Admits(subs[s], all[k])})
     IN  /\ subs' = [subs EXCEPT ![s] = Pushed(@, ids, s \in waiting)]
         /\ waiting' = IF Open(s) /\ ids # <<>> THEN waiting \ {s} ELSE waiting
  /\ micro' = Tail(micro)
  /\ UNCHANGED <<store, log, closed, since>>

\* The process dies, at any point, and a new one opens the same database:
\* what was stored is there, what was pending or subscribed is not.
Restart ==
  /\ Durable
  /\ closed' = FALSE /\ micro' = <<>>
  /\ subs' = [s \in Consumers |-> NotSubscribed]
  /\ waiting' = {} /\ since' = [s \in Consumers |-> 0]
  /\ UNCHANGED <<store, log>>

StartIds == IF Replays THEN 0 .. Len(log) ELSE {NoId}

LogNext ==
  \/ \E t \in Types : AppendEvent(t)
  \/ \E s \in Consumers, from \in StartIds, types \in SUBSET Types : Subscribe(s, from, types)
  \/ \E s \in Consumers : TakeNext(s) \/ EndIteration(s)
  \/ Close \/ Notify \/ Replay \/ Restart

\* The event loop drains the microtask queue before anything else can starve it.
LogFairness == WF_logVars(Notify) /\ WF_logVars(Replay)
LogSpec == LogInit /\ [][LogNext]_logVars /\ LogFairness

-----------------------------------------------------------------------------
(* Properties.                                                               *)

\* Shapes, and the bound of the store: a log never holds more than maxEvents.
LogTypeOK ==
  /\ store \in {"memory", "sqlite"}
  /\ log \in Seq(Types) /\ Len(log) <= MaxEvents
  /\ closed \in BOOLEAN
  /\ subs \in [Consumers -> [state : {"none", "open", "closed"}, from : 0 .. MaxEvents,
                             types : SUBSET Types, queue : Seq(EventIds), taken : Seq(EventIds)]]
  /\ waiting \subseteq Consumers
  /\ since \in [Consumers -> 0 .. MaxEvents]
  /\ \A k \in DOMAIN micro :
       \/ micro[k] \in [kind : {"notify"}, id : EventIds]
       \/ micro[k] \in [kind : {"replay"}, to : Consumers, ids : Seq(EventIds)]

\* What an onlooker sees of the log: which events have been told to whoever heard
\* them, and how far the replay of a consumer that resumed is to bring it.
Untold == {id \in EventIds : \E k \in DOMAIN micro : micro[k].kind = "notify" /\ micro[k].id = id}
Told == Len(log) - Cardinality(Untold)
Due(s) == {k \in DOMAIN micro : micro[k].kind = "replay" /\ micro[k].to = s}
Upto(s) ==
  IF Due(s) = {} THEN 0 ELSE subs[s].from + Len(micro[CHOOSE k \in Due(s) : TRUE].ids)
Reader(s) == [state |-> subs[s].state, from |-> subs[s].from, types |-> subs[s].types,
              upto |-> Upto(s), heard |-> Delivered(s)]
Readers == [s \in Consumers |-> Reader(s)]
Promise == INSTANCE Feed WITH feed <- log, told <- Told, readers <- Readers, shut <- closed

\* The log with its detached notifications, its replays read before the await and
\* delivered after it, and its queues, is a feed: each event is told once and in
\* order, and a replay comes after the telling of what it holds and before that of
\* what was stored later.
LogIsAFeed == Promise!FeedPromise

\* A consumer that only listens gets each event at most once, in log order,
\* although notification is detached from storage.
LiveInOrder ==
  \A s \in Consumers :
    subs[s].from = NoId =>
      \A i, j \in DOMAIN Delivered(s) : i < j => Delivered(s)[i] < Delivered(s)[j]

\* Once nothing is pending, an open subscription has been given every event it
\* admits that came after its start, wherever storage, notification and replay
\* interleaved.
NothingMissed ==
  micro = <<>> =>
    \A s \in Consumers :
      Open(s) /\ (closed => ~Durable) =>
        \A id \in since[s] + 1 .. Len(log) :
          Admits(subs[s], id) => \E k \in DOMAIN Delivered(s) : Delivered(s)[k] = id

\* A resumed consumer never sees the event it resumed from, or an earlier one.
NothingBeforeStart ==
  \A s \in Consumers :
    subs[s].from # NoId =>
      \A k \in DOMAIN Delivered(s) : Delivered(s)[k] > subs[s].from

\* A consumer parked on an empty queue is parked with nothing to read.
NoLostWakeup == \A s \in waiting : Open(s) /\ subs[s].queue = <<>>

\* EventLog.close: "stop subscribers, then the store".  (Violated on sqlite,
\* whose override closes the store and leaves its consumers parked.)
CloseStopsSubscribers ==
  [][closed' /\ ~closed => waiting' = {} /\ \A s \in Consumers : subs'[s].state # "open"]_logVars

\* An event a consumer should hear is delivered, unless the consumer leaves,
\* the log is closed or the process restarts.
EventuallyHeard ==
  \A s \in Consumers, id \in EventIds :
    (Open(s) /\ id > since[s] /\ id \in DOMAIN log /\ Admits(subs[s], id))
      ~> (\/ ~Open(s) \/ closed
          \/ \E k \in DOMAIN Delivered(s) : Delivered(s)[k] = id)
=============================================================================

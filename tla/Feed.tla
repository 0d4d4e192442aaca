-------------------------------- MODULE Feed --------------------------------
(***************************************************************************)
(* What an event log promises its readers: the events are told one by one, *)
(* in the order they were published, to those who read at that moment; who *)
(* joins from an earlier event also catches up, once, with what had been   *)
(* published by then, before anything later is told.  What was published   *)
(* but not yet told when it joined it hears twice: told, and caught up.    *)
(***************************************************************************)
EXTENDS Integers, Sequences, Selection

CONSTANTS Types, Consumers, MaxEvents

VARIABLES feed,    \* the published events, oldest first
          told,    \* how many of them have been told
          readers, \* who reads: from where, which types, what to catch up with, what was heard
          shut     \* whether the feed takes no more events

feedVars == <<feed, told, readers, shut>>

Nobody == [state |-> "none", from |-> 0, types |-> {}, upto |-> 0, heard |-> <<>>]
Away == [c \in Consumers |-> Nobody]

FeedInit == feed = <<>> /\ told = 0 /\ readers = Away /\ shut = FALSE

\* A reader reads every type of event, or some.
Likes(r, id) == r.types = {} \/ feed[id] \in r.types

\* What an open reader is given it keeps, behind what it has.
Given(r, ids) == IF r.state = "open" THEN [r EXCEPT !.heard = @ \o ids] ELSE r

Publish(t) ==
  /\ ~shut /\ Len(feed) < MaxEvents
  /\ feed' = Append(feed, t)
  /\ UNCHANGED <<told, readers, shut>>

\* The next event is told, unless somebody has yet to catch up with earlier ones.
Tell ==
  /\ told < Len(feed)
  /\ \A c \in Consumers : readers[c].upto = 0 \/ told < readers[c].upto
  /\ told' = told + 1
  /\ readers' = [c \in Consumers |->
                   IF Likes(readers[c], told + 1) /\ (readers[c].from = 0 \/ readers[c].from < told + 1)
                   THEN Given(readers[c], <<told + 1>>) ELSE readers[c]]
  /\ UNCHANGED <<feed, shut>>

\* One who joined from an event hears what followed it, up to the join.
CatchUp(c) ==
  /\ readers[c].upto # 0 /\ told >= readers[c].upto
  /\ LET r == readers[c]
         all == [k \in 1 .. r.upto - r.from |-> r.from + k]
     IN  readers' = [readers EXCEPT ![c] =
                       [Given(r, Selected(all, {k \in DOMAIN all : Likes(r, all[k])})) EXCEPT !.upto = 0]]
  /\ UNCHANGED <<feed, told, shut>>

\* Joining a feed that is shut may bring nothing to catch up with.
Join(c, from, types) ==
  /\ readers[c].state = "none"
  /\ \E upto \in {0, Len(feed)} :
       /\ from = 0 => upto = 0
       /\ from # 0 /\ ~shut => upto = Len(feed)
       /\ readers' = [readers EXCEPT ![c] = [state |-> "open", from |-> from, types |-> types,
                                             upto |-> upto, heard |-> <<>>]]
  /\ UNCHANGED <<feed, told, shut>>

Left(r) == IF r.state = "open" THEN [r EXCEPT !.state = "closed"] ELSE r

Leave(c) ==
  /\ readers' = [readers EXCEPT ![c] = Left(@)]
  /\ UNCHANGED <<feed, told, shut>>

\* Shutting the feed sends all its readers away, or none.
Shut ==
  /\ ~shut /\ shut' = TRUE
  /\ readers' = readers \/ readers' = [c \in Consumers |-> Left(readers[c])]
  /\ UNCHANGED <<feed, told>>

\* A feed that begins again has its events and no readers; nothing is told twice.
BeginAgain ==
  /\ told' = Len(feed) /\ readers' = Away /\ shut' = FALSE
  /\ UNCHANGED feed

FeedNext ==
  \/ \E t \in Types : Publish(t)
  \/ Tell
  \/ \E c \in Consumers : CatchUp(c) \/ Leave(c)
  \/ \E c \in Consumers, from \in 0 .. Len(feed), types \in SUBSET Types : Join(c, from, types)
  \/ Shut \/ BeginAgain

FeedPromise == FeedInit /\ [][FeedNext]_feedVars
=============================================================================

---------------------------- MODULE IRCConnection ----------------------------
(***************************************************************************)
(* io/src/connections/irc.ts on base.ts: one IRC connection, dialled by    *)
(* its owner and redialled when it drops.  Every dial makes a new client,  *)
(* a promise and a deadline; what ends a dial acts on the client there is  *)
(* then, which may be another dial's.  The irc library and its server are  *)
(* external: they answer late, or never.                                   *)
(***************************************************************************)
EXTENDS Naturals, FiniteSets

CONSTANTS MaxRetries,          \* of a dropped connection's redial
          MaxDials, MaxOrders, \* bounds: dials, calls of the owner
          MaxJoins             \* bound: join timers of a dial at a time

ASSUME IRCAssumption ==
  MaxRetries \in Nat /\ MaxDials \in Nat /\ MaxOrders \in Nat /\ MaxJoins \in Nat

Dials == 1 .. MaxDials

VARIABLES autoReconnect, \* of the configuration
          ircState,    \* state, of BaseConnection
          client,      \* the dial whose client is the current one, 0 for null
          registered,  \* connected, the flag send reads
          dialled,     \* dials so far
          net,         \* external: how the link of a dial is
          heard,       \* dials whose client still has its listeners
          open,        \* dials whose promise is
          armed,       \* dials whose deadline is
          joins,       \* how many join timers of a dial are
          quits,       \* what was asked of clients that have not quit yet: by
                       \* which order, and whether that was a reconnect
          due,         \* reconnects whose client has quit and that dial next
          asked,       \* external: clients ever asked, which stay away
          retries,     \* how many redials may follow a dial
          asleep,      \* failed dials whose redial is due
          orders

quitting == <<quits, due, asked>>
timers == <<joins, quitting, asleep>>
owner == <<autoReconnect, orders>>
ircVars == <<ircState, client, registered, dialled, net, heard, open, armed, timers, retries, owner>>

IRCInit ==
  /\ autoReconnect \in BOOLEAN
  /\ ircState = "disconnected" /\ client = 0 /\ registered = FALSE /\ dialled = 0
  /\ net = [n \in Dials |-> "none"] /\ heard = {}
  /\ open = {} /\ armed = {} /\ joins = [n \in Dials |-> 0]
  /\ quits = {} /\ due = {} /\ asked = {} /\ asleep = {}
  /\ retries = [n \in Dials |-> 0] /\ orders = 0

-----------------------------------------------------------------------------

\* connect of what is not connected: the client there is is replaced, and
\* whoever has listeners keeps them.
Dial(more, links, listeners) ==
  /\ dialled < MaxDials
  /\ dialled' = dialled + 1 /\ client' = dialled + 1 /\ ircState' = "connecting"
  /\ net' = [links EXCEPT ![dialled + 1] = "dialling"] /\ heard' = listeners \cup {dialled + 1}
  /\ open' = open \cup {dialled + 1} /\ armed' = armed \cup {dialled + 1}
  /\ retries' = [retries EXCEPT ![dialled + 1] = more]

\* dispose: the link is left alone, and so are the timers.
Dispose == client' = 0 /\ registered' = FALSE /\ heard' = heard \ {client}

\* Nothing comes between a client that has quit and the reconnect that waits for it.
Turn == due = {}

Orders == Turn /\ orders < MaxOrders /\ orders' = orders + 1 /\ UNCHANGED autoReconnect

\* enableConnection, and reconnect, of a connection that is down.
Enable ==
  /\ Orders /\ ircState = "disconnected" /\ Dial(0, net, heard)
  /\ UNCHANGED <<registered, timers>>

\* disconnect; or reconnect, which leaves a connection that is up alone.  The
\* client may have been asked before.
Quit(redial) ==
  /\ Orders /\ ircState # "disconnected" /\ client # 0
  /\ redial => ircState # "connected"
  /\ ircState' = "disconnecting" /\ asked' = asked \cup {client}
  /\ quits' = quits \cup {[of |-> client, redial |-> redial, order |-> orders]}
  /\ UNCHANGED <<client, registered, dialled, net, heard, open, armed, joins, due, asleep, retries>>

\* The same when the client is gone already.
QuitNothing(redial) ==
  /\ Orders /\ ircState # "disconnected" /\ client = 0
  /\ \/ redial /\ ircState # "connected" /\ Dial(0, net, heard)
     \/ /\ ~redial /\ ircState' = "disconnected"
        /\ UNCHANGED <<client, dialled, net, heard, open, armed, retries>>
  /\ UNCHANGED <<registered, timers>>

\* Mutant: the current dial's deadline goes with its client.
QuitDoneDisarming(q) ==
  /\ q \in quits /\ \A r \in due : r.of = q.of
  /\ q.redial => dialled + Cardinality(due) < MaxDials
  /\ quits' = quits \ {q} /\ due' = (IF q.redial THEN due \cup {q} ELSE due)
  /\ Dispose /\ ircState' = "disconnected" /\ armed' = armed \ {client}
  /\ UNCHANGED <<dialled, net, open, joins, asked, asleep, retries, owner>>

\* The library says, to whoever asked it, that a client has quit: the one there
\* is by then is disposed of.  Those who asked the same client may be told in a row.
QuitDone(q) ==
  /\ q \in quits /\ \A r \in due : r.of = q.of
  /\ q.redial => dialled + Cardinality(due) < MaxDials
  /\ quits' = quits \ {q} /\ due' = (IF q.redial THEN due \cup {q} ELSE due)
  /\ Dispose /\ ircState' = "disconnected"
  /\ UNCHANGED <<dialled, net, open, armed, joins, asked, asleep, retries, owner>>

\* The rest of reconnect, in microtasks after that.
ConnectAgain ==
  /\ \E q \in due : due' = due \ {q}
  /\ Dial(0, net, heard)
  /\ UNCHANGED <<registered, joins, quits, asked, asleep, owner>>

-----------------------------------------------------------------------------

\* 'registered', with scheduleJoin.
Registered(n) ==
  /\ Turn /\ n \in heard /\ net[n] = "dialling" /\ net' = [net EXCEPT ![n] = "up"]
  /\ armed' = armed \ {n} /\ registered' = TRUE
  /\ joins[n] < MaxJoins /\ joins' = IF client = 0 THEN joins ELSE [joins EXCEPT ![n] = @ + 1]
  /\ open' = open \ {n} /\ ircState' = IF n \in open THEN "connected" ELSE ircState
  /\ UNCHANGED <<client, dialled, heard, quitting, asleep, retries, owner>>

\* The join timer of a dial: the connection counts as up from here on.
Join(n) ==
  /\ Turn /\ joins[n] > 0 /\ joins' = [joins EXCEPT ![n] = @ - 1] /\ ircState' = "connected"
  /\ UNCHANGED <<client, registered, dialled, net, heard, open, armed, quitting, asleep, retries,
                 owner>>

\* The deadline of a dial, in the order they were set: its promise is
\* rejected, and the client there is by then disposed of.
Deadline(n) ==
  /\ Turn /\ n \in armed /\ \A m \in armed : n <= m
  /\ armed' = armed \ {n} /\ Dispose /\ open' = open \ {n}
  /\ ircState' = IF n \in open THEN "disconnected" ELSE ircState
  /\ asleep' = IF n \in open /\ retries[n] > 0 THEN asleep \cup {n} ELSE asleep
  /\ UNCHANGED <<dialled, net, joins, quitting, retries, owner>>

\* 'close' of a link: a connection that was up is down, and dialled again at once
\* if so configured.
EndLink(n) ==
  /\ Turn /\ n \in heard /\ net[n] # "down" /\ ~(ircState = "connected" /\ autoReconnect)
  /\ registered' = FALSE /\ net' = [net EXCEPT ![n] = "down"]
  /\ ircState' = IF ircState = "connected" THEN "disconnected" ELSE ircState
  /\ UNCHANGED <<client, dialled, heard, open, armed, timers, retries, owner>>

Drop(n) ==
  /\ Turn /\ n \in heard /\ net[n] # "down" /\ ircState = "connected" /\ autoReconnect
  /\ registered' = FALSE /\ Dial(MaxRetries, [net EXCEPT ![n] = "down"], heard)
  /\ UNCHANGED <<timers, owner>>

\* The library dials a lost link again by itself.
Relink(n) ==
  /\ Turn /\ n \in heard /\ net[n] = "down" /\ n \notin asked
  /\ net' = [net EXCEPT ![n] = "dialling"]
  /\ UNCHANGED <<ircState, client, registered, dialled, heard, open, armed, timers, retries, owner>>

\* A retry is due: there is nothing to do when the connection is up.
Redial(n) ==
  /\ Turn /\ n \in asleep /\ asleep' = asleep \ {n}
  /\ \/ ircState # "connected" /\ Dial(retries[n] - 1, net, heard)
     \/ ircState = "connected" /\ UNCHANGED <<ircState, client, dialled, net, heard, open, armed, retries>>
  /\ UNCHANGED <<registered, joins, quitting, owner>>

IRCNext ==
  \/ Enable \/ ConnectAgain
  \/ \E redial \in BOOLEAN : Quit(redial) \/ QuitNothing(redial)
  \/ \E q \in quits : QuitDone(q)
  \/ \E n \in Dials :
       Registered(n) \/ Join(n) \/ Deadline(n) \/ EndLink(n) \/ Drop(n) \/ Relink(n) \/ Redial(n)

\* Timers fire, microtasks run; the library and the server owe nothing.
IRCFairness == WF_ircVars(\E n \in Dials : Deadline(n)) /\ WF_ircVars(ConnectAgain)

IRCSpec == IRCInit /\ [][IRCNext]_ircVars /\ IRCFairness

-----------------------------------------------------------------------------

\* Whoever awaits connect hears the outcome, also when the dial was given up,
\* replaced or disposed of meanwhile.
DialsSettle == \A n \in Dials : n \in open ~> n \notin open

\* A connection that calls itself connected has a client to send through; the
\* comment on runDisconnect fears "a resource that believes it is still open".
ConnectedHasClient == ircState = "connected" => client # 0
=============================================================================

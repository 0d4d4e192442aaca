------------------------------ MODULE WsClient ------------------------------
(***************************************************************************)
(* ui/src/client/core/ws-client.ts: one page's connection to the server.   *)
(* A socket is replaced by the next without being waited for, and reports  *)
(* its end later; a closed one is replaced after a delay, a limited number *)
(* of times; what is sent meanwhile is held and goes out on the next one.  *)
(***************************************************************************)
EXTENDS SequencesExt, Naturals, Selection

CONSTANTS MaxAttempts,   \* MAX_RECONNECT_ATTEMPTS
          MaxPending,    \* MAX_PENDING_MESSAGES
          MaxMessages, MaxCalls, MaxStale   \* bounds: sends, calls of the page, sockets remembered

ASSUME ClientAssumption ==
  {MaxAttempts, MaxPending, MaxMessages, MaxCalls, MaxStale} \subseteq Nat /\ MaxPending > 0

VARIABLES socket,     \* the current socket's readyState, none when it is null
          stale,      \* sockets that were replaced or closed and have yet to say so
          reconnectAttempt, reconnectTimer, connectionState,
          held,       \* pendingMessages: what was sent, and whether its time is up
          sent,       \* history: what went out, on whatever socket
          sends, calls   \* so far

outbox == <<held, sent, sends>>
clientVars == <<socket, stale, reconnectAttempt, reconnectTimer, connectionState, outbox, calls>>

ClientInit ==
  /\ socket = "none" /\ stale = 0 /\ reconnectAttempt = 0 /\ reconnectTimer = FALSE
  /\ connectionState = "disconnected" /\ held = <<>> /\ sent = <<>> /\ sends = 0 /\ calls = 0

-----------------------------------------------------------------------------

\* A live socket that is let go of ends some time later.
LetGo == stale' = IF socket \in {"none", "closed"} \/ stale = MaxStale THEN stale ELSE stale + 1

\* connect: the socket there is, if any, is neither closed nor waited for.
OpenNext ==
  /\ connectionState' = IF socket = "none" THEN "connecting" ELSE "reconnecting"
  /\ socket' = "connecting" /\ LetGo

Called == calls < MaxCalls /\ calls' = calls + 1

\* By the page's entry and again by its app shell, or after disconnect.
Connect == Called /\ OpenNext /\ UNCHANGED <<reconnectAttempt, reconnectTimer, outbox>>

\* reconnect: the socket is closed and forgotten first, the messages are kept.
Reconnect ==
  /\ Called /\ reconnectTimer' = FALSE /\ reconnectAttempt' = 0
  /\ LetGo /\ socket' = "connecting" /\ connectionState' = "connecting"
  /\ UNCHANGED outbox

\* disconnect.
Disconnect ==
  /\ Called /\ reconnectTimer' = FALSE /\ LetGo /\ socket' = "none"
  /\ held' = <<>> /\ connectionState' = "disconnected"
  /\ UNCHANGED <<reconnectAttempt, sent, sends>>

-----------------------------------------------------------------------------

Fresh(ms) == Selected(ms, {i \in DOMAIN ms : ~ms[i].expired})
Bodies(ms) == [i \in DOMAIN ms |-> ms[i].body]

\* Mutant: the batch is sent and kept.
OnOpenKeeping ==
  /\ socket = "connecting" /\ socket' = "open"
  /\ reconnectAttempt' = 0 /\ connectionState' = "connected"
  /\ sent' = sent \o Bodies(Fresh(held)) /\ held' = Fresh(held)
  /\ UNCHANGED <<stale, reconnectTimer, sends, calls>>

\* ws.onopen, with flushPending.
OnOpen ==
  /\ socket = "connecting" /\ socket' = "open"
  /\ reconnectAttempt' = 0 /\ connectionState' = "connected"
  /\ sent' = sent \o Bodies(Fresh(held)) /\ held' = <<>>
  /\ UNCHANGED <<stale, reconnectTimer, sends, calls>>

\* The close handshake has begun.
Closing ==
  /\ socket = "open" /\ socket' = "closing"
  /\ UNCHANGED <<stale, reconnectAttempt, reconnectTimer, connectionState, outbox, calls>>

\* Mutant: an attempt that fails is not counted.
ScheduleUncounted ==
  IF reconnectTimer
    THEN connectionState' = "reconnecting" /\ UNCHANGED <<reconnectAttempt, reconnectTimer>>
    ELSE /\ connectionState' = "reconnecting" /\ reconnectTimer' = TRUE
         /\ UNCHANGED reconnectAttempt

\* scheduleReconnect, behind the state that onclose sets.
ScheduleReconnect ==
  \/ /\ reconnectTimer /\ connectionState' = "reconnecting"
     /\ UNCHANGED <<reconnectAttempt, reconnectTimer>>
  \/ /\ ~reconnectTimer /\ reconnectAttempt >= MaxAttempts
     /\ connectionState' = "disconnected"
     /\ UNCHANGED <<reconnectAttempt, reconnectTimer>>
  \/ /\ ~reconnectTimer /\ reconnectAttempt < MaxAttempts
     /\ connectionState' = "reconnecting"
     /\ reconnectAttempt' = reconnectAttempt + 1 /\ reconnectTimer' = TRUE

\* ws.onclose of the current socket; ws.onerror leads to it.
OnClose ==
  /\ socket \in {"connecting", "open", "closing"} /\ socket' = "closed"
  /\ ScheduleReconnect /\ UNCHANGED <<stale, outbox, calls>>

\* Mutant: whose close it is, is not asked.
StaleCloseHeard ==
  /\ stale > 0 /\ stale' = stale - 1
  /\ ScheduleReconnect /\ UNCHANGED <<socket, outbox, calls>>

\* ws.onclose of another: isCurrent fails.
StaleClose ==
  /\ stale > 0 /\ stale' = stale - 1
  /\ UNCHANGED <<socket, reconnectAttempt, reconnectTimer, connectionState, outbox, calls>>

\* The timer of scheduleReconnect.
TimerFires ==
  /\ reconnectTimer /\ reconnectTimer' = FALSE /\ OpenNext
  /\ UNCHANGED <<reconnectAttempt, outbox, calls>>

-----------------------------------------------------------------------------

\* send: on an open socket at once, else held; the oldest makes room.
Send ==
  /\ sends < MaxMessages /\ sends' = sends + 1
  /\ IF socket = "open" THEN sent' = Append(sent, sends') /\ UNCHANGED held
     ELSE /\ LET live == Fresh(held) IN
               held' = Append(IF Len(live) >= MaxPending THEN Tail(live) ELSE live,
                              [body |-> sends', expired |-> FALSE])
          /\ UNCHANGED sent
  /\ UNCHANGED <<socket, stale, reconnectAttempt, reconnectTimer, connectionState, calls>>

\* PENDING_TTL_MS passes for the oldest message it has not passed for.
Age ==
  /\ \E i \in DOMAIN held :
       /\ ~held[i].expired /\ \A h \in 1..(i - 1) : held[h].expired
       /\ held' = [held EXCEPT ![i].expired = TRUE]
  /\ UNCHANGED <<socket, stale, reconnectAttempt, reconnectTimer, connectionState, sent, sends, calls>>

ClientNext ==
  \/ Connect \/ Reconnect \/ Disconnect \/ Send \/ Age
  \/ OnOpen \/ Closing \/ OnClose \/ StaleClose \/ TimerFires

\* The browser opens a socket or gives up on it, and finishes what it closes; timers fire.
ClientFairness ==
  /\ WF_clientVars(socket \in {"connecting", "closing"} /\ (OnOpen \/ OnClose))
  /\ WF_clientVars(TimerFires)

ClientSpec == ClientInit /\ [][ClientNext]_clientVars /\ ClientFairness

-----------------------------------------------------------------------------

ClientTypeOK ==
  /\ socket \in {"none", "connecting", "open", "closing", "closed"} /\ stale \in 0..MaxStale
  /\ reconnectAttempt \in 0..MaxAttempts /\ reconnectTimer \in BOOLEAN
  /\ connectionState \in {"disconnected", "connecting", "connected", "reconnecting"}
  /\ held \in Seq([body : 1..MaxMessages, expired : BOOLEAN]) /\ Len(held) <= MaxPending
  /\ sent \in Seq(1..MaxMessages) /\ sends \in 0..MaxMessages /\ calls \in 0..MaxCalls

\* Over all the sockets there have been, messages go out in the order they
\* were sent in and no more than once.
SentInOrder == \A i \in DOMAIN sent : i > 1 => sent[i - 1] < sent[i]

\* A page that has disconnected stays so until it calls again: "a superseded
\* socket's late `onclose` must not schedule a reconnect".
DisconnectSticks == socket = "none" => ~reconnectTimer /\ connectionState = "disconnected"

\* Attempts come to an end: again and again the page is connected, or it says
\* that it is not and waits for its user.
Settles == []<>(connectionState \in {"connected", "disconnected"})
=============================================================================

------------------------------- MODULE MCWaits ------------------------------
(* Those somebody waits for, each by itself, for TLC: a log of two event    *)
(* types that fills up, with one consumer, and three requests for approval, *)
(* of core; the lanes and one IRC connection, of io; the socket of one page *)
(* of ui; four works staged for model rules, of nar.                        *)
EXTENDS EventLog, Approval, SerialLanes, IRCConnection, WsClient, StreamReasoner

VARIABLE part
waitVars == <<logVars, approvalVars, laneVars, ircVars, clientVars, srVars, part>>

LaneKeys == {"a", "b"}
LaneJobs == 1 .. 5
LaneOfJob == [j \in LaneJobs |-> IF j <= 3 THEN "a" ELSE "b"]

FourWorks == {"w1", "w2", "w3", "w4"}
PremiseOf == [w \in Works |-> IF w \in {"w1", "w4"} THEN "a" ELSE "b"]

WaitInit ==
  /\ LogInit /\ Init /\ LanesInit /\ IRCInit /\ ClientInit /\ SRInit
  /\ part \in {"log", "approval", "lanes", "irc", "socket", "seam"}
  /\ part # "log" => store = "memory"
  /\ part # "approval" => ~headless
  /\ part # "irc" => autoReconnect

LogWork(A) == part = "log" /\ A
  /\ UNCHANGED <<approvalVars, laneVars, ircVars, clientVars, srVars, part>>
ApprovalWork(A) == part = "approval" /\ A
  /\ UNCHANGED <<logVars, laneVars, ircVars, clientVars, srVars, part>>
LanesWork(A) == part = "lanes" /\ A
  /\ UNCHANGED <<logVars, approvalVars, ircVars, clientVars, srVars, part>>
IRCWork(A) == part = "irc" /\ A
  /\ UNCHANGED <<logVars, approvalVars, laneVars, clientVars, srVars, part>>
SocketWork(A) == part = "socket" /\ A
  /\ UNCHANGED <<logVars, approvalVars, laneVars, ircVars, srVars, part>>
SeamWork(A) ==
  part = "seam" /\ A /\ UNCHANGED <<logVars, approvalVars, laneVars, ircVars, clientVars, part>>

WaitNext ==
  \/ LogWork(LogNext) \/ ApprovalWork(Next)
  \/ LanesWork(LanesNext) \/ IRCWork(IRCNext) \/ SocketWork(ClientNext)
  \/ SeamWork(SRNext)

\* The part that is at work has the fairness it has by itself.
WaitFairness ==
  /\ WF_waitVars(LogWork(Notify)) /\ WF_waitVars(LogWork(Replay))
  /\ \A r \in Requests :
       WF_waitVars(ApprovalWork(Expire(r))) /\ WF_waitVars(ApprovalWork(Resume(r) \/ GiveUp(r)))
  /\ \A j \in Jobs : WF_waitVars(LanesWork(Microtask(j)))
  /\ WF_waitVars(IRCWork(\E n \in Dials : Deadline(n))) /\ WF_waitVars(IRCWork(ConnectAgain))
  /\ WF_waitVars(SocketWork(socket \in {"connecting", "closing"} /\ (OnOpen \/ OnClose)))
  /\ WF_waitVars(SocketWork(TimerFires))
  /\ WF_waitVars(SeamWork(Pump)) /\ WF_waitVars(SeamWork(FlushNothing \/ Flush))
  /\ WF_waitVars(SeamWork(Retire))

WaitSpec == WaitInit /\ [][WaitNext]_waitVars /\ WaitFairness
=============================================================================

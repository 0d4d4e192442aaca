--------------------------- MODULE CognitiveThread ---------------------------
(***************************************************************************)
(* core/src/cognitive-thread.ts: threads of reasoning with a budget slice  *)
(* inherited from their parent's, a bounded mailbox and a pool.  A thread  *)
(* is its object (a pool id may be used again by another).  run awaits its *)
(* work, so every other call may come between its start and its end.       *)
(***************************************************************************)
EXTENDS Integers, FiniteSets, FiniteSetsExt

CONSTANTS Threads,          \* thread objects that may come to exist
          Dimensions,             \* budget dimensions; cycles and depth are two of them
          Requests,         \* partial allocations a caller may ask for
          RootMaxima,       \* the root slice's limits
          MailboxCapacity,
          MaxThreads,       \* ThreadPool.maxThreads
          LimitBound          \* a bound on limits and requests

ASSUME ThreadConstants ==
  /\ "cycles" \in Dimensions /\ {"pool", "none"} \cap Threads = {} /\ LimitBound \in Nat
  /\ MailboxCapacity \in Nat /\ MaxThreads \in Nat
  /\ RootMaxima \in [Dimensions -> 0 .. LimitBound]
  /\ \A req \in Requests : \E D \in SUBSET Dimensions : req \in [D -> 0 .. LimitBound]

VARIABLES limit,    \* max*, of every slice: each thread's and the root's
          spent,    \* consumed
          reason,   \* terminationReason
          parent,   \* who spawned the thread, "none" until then
          hard,     \* threads whose allocation was charged to their parent
          status,   \* CognitiveThread.status
          failed,   \* threads with an error: join throws
          working,  \* threads whose run awaits its work
          pooled,   \* ThreadPool.threads
          queued,   \* messages in each mailbox
          cut       \* the abort signal fired or the deadline passed

slices == <<limit, spent, reason>>
kinship == <<parent, hard, pooled>>
threadVars == <<limit, spent, reason, parent, hard, status, failed, working, pooled, queued, cut>>

Owners == Threads \cup {"pool"}
Alive == {t \in Threads : parent[t] # "none"}
Children(p) == {t \in Threads : parent[t] = p}
NoSpend == [d \in Dimensions |-> 0]
Least(i, j) == IF i <= j THEN i ELSE j

ThreadInit ==
  /\ limit = [o \in Owners |-> IF o = "pool" THEN RootMaxima ELSE NoSpend]
  /\ spent = [o \in Owners |-> NoSpend] /\ reason = [o \in Owners |-> "none"]
  /\ parent = [t \in Threads |-> "none"] /\ hard = {} /\ pooled = {}
  /\ status = [t \in Threads |-> "created"] /\ failed = {} /\ working = {}
  /\ queued = [t \in Threads |-> 0]
  /\ cut = FALSE

-----------------------------------------------------------------------------
(* Slices.                                                                   *)

\* remainingOf: unconsumed capacity, floored at zero.
Remaining(o) == [d \in Dimensions |-> IF limit[o][d] > spent[o][d] THEN limit[o][d] - spent[o][d] ELSE 0]

\* isExhausted.
Exhausted(o) == reason[o] # "none" \/ cut \/ \E d \in Dimensions : limit[o][d] <= spent[o][d]

\* consume: a charge that fits, or the reason it did not.
Consumed(o, d, n) ==
  IF limit[o][d] - spent[o][d] >= n
  THEN spent' = [spent EXCEPT ![o][d] = @ + n] /\ UNCHANGED reason
  ELSE /\ reason' = [reason EXCEPT ![o] = IF limit[o][d] <= spent[o][d] THEN d ELSE "backpressure"]
       /\ UNCHANGED spent

\* Mutant: what is asked for is given.
AllottedUncapped(o, req, default) ==
  [d \in Dimensions |-> IF d \in DOMAIN req THEN req[d] ELSE default[d]]
\* resolveAllocation: the request, or the default, within what remains.
Allotted(o, req, default) ==
  [d \in Dimensions |-> Least(IF d \in DOMAIN req THEN req[d] ELSE default[d], Remaining(o)[d])]

\* spawn's default: a share of everything but depth.
Shares(p) ==
  [d \in Dimensions |-> IF d = "depth" THEN Remaining(p)[d]
                  ELSE Remaining(p)[d] \div (Cardinality(Children(p)) + 2)]

\* Mutant: a dimension asked for by name is not charged.
ChargedDefaultsOnly(p, alloc, req) ==
  [d \in Dimensions |-> IF d \in DOMAIN req THEN 0 ELSE alloc[d]]
\* chargeAllocation: every dimension, asked for or not; a resolved one fits.
Charged(p, alloc, req) == alloc

\* A new thread c of p with these limits.
Born(c, p, limits) ==
  /\ parent' = [parent EXCEPT ![c] = p]
  /\ limit' = [limit EXCEPT ![c] = limits]
  /\ UNCHANGED <<reason, status, failed, working, queued, cut>>

\* spawn and spawnWithBudget: resolve, charge the parent, then slice it.
Inherit(c, p, req, default) ==
  LET alloc == Allotted(p, req, default)
      charge == Charged(p, alloc, req)
  IN  /\ spent' = [spent EXCEPT ![p] = [d \in Dimensions |-> spent[p][d] + charge[d]]]
      /\ hard' = hard \cup {c}
      /\ Born(c, p, alloc)

-----------------------------------------------------------------------------
(* Calls.                                                                    *)

\* CognitiveThread.spawn.
Spawn(t, c, req) ==
  /\ t \in Alive /\ c \notin Alive
  /\ Inherit(c, t, req, Shares(t))
  /\ UNCHANGED pooled

Admits == Cardinality(pooled) < MaxThreads

\* ThreadPool.spawnWithBudget.
PoolSpawnWithBudget(c, req) ==
  /\ Admits /\ c \notin Alive
  /\ Inherit(c, "pool", req, Remaining("pool"))
  /\ pooled' = pooled \cup {c}

\* ThreadPool.spawn: sliced from the root, which is not charged.
PoolSpawn(c, req) ==
  /\ Admits /\ c \notin Alive
  /\ Born(c, "pool", [d \in Dimensions |-> IF d \in DOMAIN req THEN req[d]
                                     ELSE IF d = "depth" THEN limit["pool"][d]
                                     ELSE limit["pool"][d] - spent["pool"][d]])
  /\ pooled' = pooled \cup {c}
  /\ UNCHANGED <<spent, hard>>

\* send past its budget gate: a cycle is spent, then the mailbox takes the
\* message or refuses it.
Send(t) ==
  /\ t \in Alive /\ ~Exhausted(t)
  /\ Consumed(t, "cycles", 1)
  /\ IF queued[t] < MailboxCapacity
     THEN queued' = [queued EXCEPT ![t] = @ + 1]
     ELSE UNCHANGED queued
  /\ UNCHANGED <<limit, kinship, status, failed, working, cut>>

Receive(t) ==
  /\ queued[t] > 0
  /\ queued' = [queued EXCEPT ![t] = @ - 1]
  /\ UNCHANGED <<slices, kinship, status, failed, working, cut>>

\* consume.
Consume(t, cycles) ==
  /\ t \in Alive
  /\ Consumed(t, "cycles", cycles)
  /\ UNCHANGED <<limit, kinship, status, failed, working, queued, cut>>

\* run up to its await: the overhead is charged whether or not it fits.
RunStart(t) ==
  /\ t \in Alive /\ t \notin working
  /\ status' = [status EXCEPT ![t] = "running"]
  /\ working' = working \cup {t}
  /\ Consumed(t, "cycles", 1)
  /\ UNCHANGED <<limit, kinship, failed, queued, cut>>

\* run after its await: the work returned, or threw.
RunEnd(t, ok) ==
  /\ t \in working
  /\ working' = working \ {t}
  /\ status' = [status EXCEPT ![t] = IF ok THEN "completed" ELSE "error"]
  /\ failed' = IF ok THEN failed ELSE failed \cup {t}
  /\ UNCHANGED <<slices, kinship, queued, cut>>

\* Mutant: the error is set only on a thread that runs.
KilledWhenRunning(S) ==
  /\ status' = [t \in Threads |-> IF t \in S THEN "killed" ELSE status[t]]
  /\ failed' = failed \cup (S \cap working)
\* kill, of the threads in S and of nothing else.
Killed(S) ==
  /\ status' = [t \in Threads |-> IF t \in S THEN "killed" ELSE status[t]]
  /\ failed' = failed \cup S

Kill(t) ==
  /\ t \in Alive
  /\ Killed({t})
  /\ UNCHANGED <<slices, kinship, working, queued, cut>>

\* ThreadPool.kill and killAll: killed and forgotten; a run goes on.
PoolKill(S) ==
  /\ S # {} /\ Killed(S)
  /\ pooled' = pooled \ S
  /\ UNCHANGED <<slices, parent, hard, working, queued, cut>>

\* The caller aborts, or the deadline passes.
CutOff ==
  /\ ~cut /\ cut' = TRUE
  /\ UNCHANGED <<slices, kinship, status, failed, working, queued>>

ThreadNext ==
  \/ \E c \in Threads, req \in Requests :
       \/ \E t \in Threads : Spawn(t, c, req)
       \/ PoolSpawnWithBudget(c, req) \/ PoolSpawn(c, req)
  \/ \E t \in Threads : Send(t) \/ Receive(t) \/ RunStart(t) \/ Kill(t)
  \/ \E t \in Threads, ok \in BOOLEAN : RunEnd(t, ok)
  \/ \E t \in Threads, cycles \in 1 .. 2 : Consume(t, cycles)
  \/ \E t \in pooled : PoolKill({t})
  \/ PoolKill(pooled)
  \/ CutOff

ThreadSpec == ThreadInit /\ [][ThreadNext]_threadVars

-----------------------------------------------------------------------------
(* Properties.                                                               *)

\* Shapes; a mailbox and a pool never hold more than they were made for.
ThreadTypeOK ==
  /\ limit \in [Owners -> [Dimensions -> 0 .. LimitBound]]
  /\ spent \in [Owners -> [Dimensions -> 0 .. LimitBound]]
  /\ reason \in [Owners -> {"none", "backpressure"} \cup Dimensions]
  /\ parent \in [Threads -> Owners \cup {"none"}] /\ hard \subseteq Threads
  /\ status \in [Threads -> {"created", "running", "completed", "killed", "error"}]
  /\ failed \subseteq Threads /\ working \subseteq Threads
  /\ pooled \subseteq Threads /\ Cardinality(pooled) <= MaxThreads
  /\ queued \in [Threads -> 0 .. MailboxCapacity]
  /\ cut \in BOOLEAN

\* The hard inheritance bound, "Σ(child) ≤ parent.remaining", over a life: all a
\* slice ever lent to the threads it was charged for is part of what it spent,
\* and it never spent more than it had, whatever its threads, its mailbox and
\* its children's own children do.
HardInheritance ==
  \A p \in Owners, d \in Dimensions :
    /\ MapThenSumSet(LAMBDA c : limit[c][d], Children(p) \cap hard) <= spent[p][d]
    /\ spent[p][d] <= limit[p][d]

\* A killed thread joins with its error, even when its run ends well later.
KillIsRemembered == \A t \in Threads : status[t] = "killed" => t \in failed

-----------------------------------------------------------------------------
(* What a comment of the code says and the code does not do.                 *)

\* consume: "exhaustion sets the termination reason exactly once".
ReasonSetOnce ==
  [][\A o \in Owners : reason[o] # "none" => reason'[o] = reason[o]]_threadVars

\* kill: "Kill the thread and all children".
KillReachesChildren ==
  [][\A t \in Threads : status[t] # "killed" /\ status'[t] = "killed" =>
       \A c \in Children(t) : status'[c] = "killed"]_threadVars
=============================================================================

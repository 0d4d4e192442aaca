---------------------------- MODULE SerialLanes ----------------------------
(***************************************************************************)
(* util/src/utils/async.ts: one promise chain per key.  A job is chained   *)
(* behind the tail it finds; the map forgets a tail on the microtask after *)
(* it settles, unless somebody has chained behind it meanwhile.            *)
(* io/src/connections/base.ts runs one lane per message origin on it.      *)
(***************************************************************************)
EXTENDS Sequences, Naturals

CONSTANTS Keys, Jobs,
          LaneOf,   \* the key a job is run under
          NoJob     \* no tail, no predecessor

ASSUME LaneAssumption == LaneOf \in [Jobs -> Keys] /\ NoJob \notin Jobs

VARIABLES tails,    \* #tails: the last job of each lane that is remembered
          behind,   \* the job whose tail a job was chained to
          status,   \* how far each job is
          line      \* history: the jobs of each lane yet to begin, in the order of their calls

laneVars == <<tails, behind, status, line>>

\* A job that has not been run yet; whose turn has not come; whose promise
\* is open; that settled; whose tail did; whose tail's clean-up has run.
Stages == {"new", "queued", "running", "settled", "passed", "released"}

\* Nothing more of the job is to come that another may have to wait for.
Passed(j) == status[j] \in {"passed", "released"}

LanesInit ==
  /\ tails = [k \in Keys |-> NoJob]
  /\ behind = [j \in Jobs |-> NoJob] /\ status = [j \in Jobs |-> "new"]
  /\ line = [k \in Keys |-> <<>>]

\* run.
RunJob(j) ==
  /\ status[j] = "new"
  /\ behind' = [behind EXCEPT ![j] = tails[LaneOf[j]]]
  /\ tails' = [tails EXCEPT ![LaneOf[j]] = j]
  /\ status' = [status EXCEPT ![j] = "queued"]
  /\ line' = [line EXCEPT ![LaneOf[j]] = Append(@, j)]

\* Its predecessor's tail has settled: the work is called.
Begin(j) ==
  /\ status[j] = "queued" /\ (behind[j] # NoJob => Passed(behind[j]))
  /\ status' = [status EXCEPT ![j] = "running"]
  /\ line' = [line EXCEPT ![LaneOf[j]] = Tail(@)]
  /\ UNCHANGED <<tails, behind>>

\* The work resolves or rejects; a microtask later so does the tail.
Settle(j) ==
  /\ status[j] = "running"
  /\ status' = [status EXCEPT ![j] = "settled"]
  /\ UNCHANGED <<tails, behind, line>>

Pass(j) ==
  /\ status[j] = "settled"
  /\ status' = [status EXCEPT ![j] = "passed"]
  /\ UNCHANGED <<tails, behind, line>>

\* Mutant: the lane is forgotten whoever waits in it.
ReleaseAlways(j) ==
  /\ status[j] = "passed"
  /\ status' = [status EXCEPT ![j] = "released"]
  /\ tails' = [tails EXCEPT ![LaneOf[j]] = NoJob]
  /\ UNCHANGED <<behind, line>>

\* Mutant: the lane is never forgotten.
ReleaseNever(j) ==
  /\ status[j] = "passed"
  /\ status' = [status EXCEPT ![j] = "released"]
  /\ UNCHANGED <<tails, behind, line>>

\* The clean-up chained to the tail.
Release(j) ==
  /\ status[j] = "passed"
  /\ status' = [status EXCEPT ![j] = "released"]
  /\ tails' = [tails EXCEPT ![LaneOf[j]] = IF @ = j THEN NoJob ELSE @]
  /\ UNCHANGED <<behind, line>>

Microtask(j) == Begin(j) \/ Pass(j) \/ Release(j)

LanesNext == \E j \in Jobs : RunJob(j) \/ Settle(j) \/ Microtask(j)

\* Microtasks run; that the work itself settles is its own affair.
LanesFairness == \A j \in Jobs : WF_laneVars(Microtask(j))

LanesSpec == LanesInit /\ [][LanesNext]_laneVars /\ LanesFairness

-----------------------------------------------------------------------------

LanesTypeOK ==
  /\ tails \in [Keys -> Jobs \cup {NoJob}] /\ behind \in [Jobs -> Jobs \cup {NoJob}]
  /\ status \in [Jobs -> Stages] /\ line \in [Keys -> Seq(Jobs)]

\* Two jobs of one lane never run at the same time, although the map forgets
\* lanes while calls come in.
Exclusive ==
  \A i, j \in Jobs : LaneOf[i] = LaneOf[j] /\ status[i] = "running" /\ status[j] = "running"
                     => i = j

\* "Serial execution, one lane per key": what is queued and what runs are the
\* lanes of the abstract specification.
Abstract ==
  INSTANCE Lanes WITH
    waiting <- line,
    busy <- [k \in Keys |-> {j \in Jobs : LaneOf[j] = k /\ status[j] = "running"}]

LanesAreSerial == Abstract!LanesPromise

\* Once its jobs have settled a lane is forgotten, so that the map's size
\* follows the work and not the keys a peer names.
LanesAreForgotten ==
  \A k \in Keys : []<>(tails[k] = NoJob) \/ []<>(\E j \in Jobs : LaneOf[j] = k /\ status[j] = "running")
=============================================================================

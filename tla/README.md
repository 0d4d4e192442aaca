# SeNARS in TLA+

A verification development for SeNARS (the packages `util`, `core`, `nar`, `io`
and `ui` of this repository): TLA+ modules translated from the TypeScript
sources, the TLC configurations that check them on small instances, and theorems
checked by TLAPS. `PROJECT.json` is the index: which definition stands for which
lines, which run checks which property, which hazard each property is for. Paths
below are relative to `src/`.

SeNARS is a reasoner that must keep working under bounded resources: bounded
bags of concepts, budgets for every kind of work, bounded queues between
producers and consumers, append-only logs that roll over, and gates that decide
what a self-modifying agent may do. It runs in one JavaScript thread. What is
hard is therefore not shared memory but (1) long sequences of legal calls on
structures with caches and indexes, (2) everything that comes between two steps
of an `async` function, (3) the end of the process between two steps, (4) timers
racing answers, and (5) sockets and providers that come, go and answer late. The
modules below are about those five.

## 1. Inventory

| Component | State | Operations | Hard behaviour | Correct when |
| --- | --- | --- | --- | --- |
| Priority bag (`util/src/bag`) | store in priority order, cached total, Fenwick tree with a stale flag, version, pressure level | add, sample, remove, removeAll, removeMany, evict, decay, clear, pressure | caches that must follow every mutation; admission at capacity | order, total and tree agree |
| Focus memory (`nar/src/focus/Focus.ts`) | a bag of concepts, an index by id, the version it was built for | addConcept (admit, raise, refuse), getNALDerivations, step | an index believed current | one concept per term; the index misses nothing |
| Event log (`core/src/eventlog`, `util/src/events/push-queue.ts`) | stored events, subscriptions, a queue and a parked reader each, pending continuations | append, subscribe with replay, next, return, close, restart | notification runs later than storage, replay later than subscription | nothing missed, nothing twice, in order, nobody parked for ever |
| Budget gate (`nar/src/kernel/KernelBudgetGate.ts`, `control-budgets.ts`, `budget-scopes.ts`) | the root budget and one per open scope | check, open, begin a cycle, judge, focus step, game tick, release, adjust, reset | several callers opening the same scope in any order | no scope is granted more than its ceiling |
| Cognitive threads (`core/src/cognitive-thread.ts`, `core/src/budget.ts`) | a budget slice, mailbox and status per thread; the pool | spawn, send, receive, consume, run, kill | runs that end after a kill; slices of slices | what is lent was spent; what is spent was there |
| Ledger (`util/src/ledger.ts`) | files per day and overflow, writer position, hot cache | append, query, rotate, sweep, compact, clear, restart | compaction and sweeps across awaits; crashes; failing writes | rows neither lost early, doubled, nor brought back |
| Action gate durability (`KernelActionGate.ts`, `GateEventLedger.ts`, `GateRegistry.ts`) | autonomy mode, a ring of changes, what was written | requestModeChange, flush, start with replay, stop, crash | the mode after a restart comes from a log | beyond the sandbox only with a grant |
| Approval (`core/src/ApprovalService.ts`) | pending requests and their promises | request, answer, expire | an answer between the deadline and the caller's reaction | nothing granted without an answer; everything decided |
| Proposal seam (`nar/src/stream/reasoner.ts`, `nar/src/proposal`, `nar/src/rules/impls/rule-table.ts`, authorize in `nar-execution.ts`) | a queue of works, their provisionals, the batch awaited and those given up, settled derivations with the premises they read; queued rule proposals, the revision, the log of verdicts, the rule table | stage, pump, flush, retire, drain, submit a rule, judge, commit, apply | batches that go on after their deadline; two lists kept in step; a commit that throws halfway | derivations keep their premises; nothing in memory or table without its admission |
| Serial lanes (`util/src/utils/async.ts`, used by `io/src/connections/base.ts`) | the last promise of each key | run | a key is forgotten while a call comes in | one job at a time and in order; keys do not pile up |
| IRC connection (`io/src/connections/irc.ts`, `base.ts`) | state, client, the timers and promise of each dial | enable, reconnect, disconnect, registered, join, drop, deadline, retry | what ends one dial acts on the client of another | whoever awaits a dial hears of it |
| Language-model service (`nar/src/lm/service`, `nar/src/utils/circuit-breaker.ts`) | a breaker per provider, the cache, the last decision, failures and demotions, the one re-probe | call, stream, settle, cache hit, re-probe, health probe, switch | settling after others opened or settled; probes racing calls | a circuit opens on failures with no successful call or cache hit between them, and heals; the cache holds no failure |
| Model rules (`nar/src/lm/rule/LMRule.ts`) | a breaker of its own, enabled | apply, adapter, tool, deadline | its skip test comes before the breaker's | it is tried again once its breaker's time is up |
| Control channel (`ui/src/server/handlers.ts`, `index.ts`, `ui/src/client/core/control-channel.ts`) | per page the open requests; one handler context, the active run | request, time out, handle, answer, run, abort, lose a socket | one context for all pages, read after an await | one live run; answers reach the request they answer |
| Graph projection (`ui/src/server/UnifiedGraphProjection.ts`, `ui/src/client/core`) | nodes, edges and focus; a copy per page | delta, patch, remove, focus, connect, snapshot | deltas to a page between its connection and its snapshot, and after a lost socket | a page shows the server's nodes and edges |
| Page socket (`ui/src/client/core/ws-client.ts`) | the socket, its retry counter and timer, held messages | connect, reconnect, disconnect, send, open, close | a replaced socket reports its end late | messages once and in order; a disconnected page stays so |
| Cycle control (`nar/src/nar-execution.ts`, `task/manager.ts`, `autonomy/heartbeat.ts`) | control state, cycle count, queue of tasks, beats of the window | run, step, tick, pause, resume, add and expire a task, dispatch tool goals, process the queue | several drivers of the same clock, each awaiting its stages | control agrees with who steps; the window holds; tool goals are dispatched |
| Checkpoints (`nar/src/state/checkpoint.ts`) | a ring of checkpoints, the recovery point of a consolidation | capture, rewind, recover | a restore awaits between the graph and the queue | a task is queued or remembered, not both |
| Persisted state (`nar/src/facade/persistence.ts`) | files of a reasoner | save, load | crash between files | *not modelled, but for the restoration of the action gate* |
| Focus bag, tree, games, scheduler (`nar/src/focus`) | weights, last steps, scopes | rebalance, pick, tick | weights changed in place inside a sorted bag | *not modelled; planned* |
| AIKR processor (`nar/src/learning/aikr-processor.ts`) | a bag of candidates | admit, process, decay | sampled before an await, removed by id after it | *not modelled; planned* |
| Governance pipeline (`nar/src/governance`, `nar/src/proposal/stages.ts`) | stage of each change | validate, shadow, approve, apply, roll back | partial failure | *not modelled; planned* |
| Perception and reward gates, source reputation, derivation ledger | quarantine, scores, rows | admit, decay, replay | decay of counters | *not modelled; planned* |
| Agent pipeline, motor and tools, other transports, System One | sequential orchestration | see sources | policy and approval in a fixed order | *not modelled* |
| Memory, terms, truth functions, rules, MeTTa, dialogue, games, views, scripts | - | - | - | *not modelled (section 7)* |

Interactions. A focus owns a bag and calls it synchronously. Runs, steps and the
autonomy loop drive cycles; the cycle, System One's judgments and the focuses all
charge the one budget gate, and the first two share scopes. A cycle takes tasks
from the queue into memory, pumps the proposal seam, whose model rules call the
language-model service behind breakers of their own, and applies what the seam
settled at its next boundary; at its end it may keep a checkpoint. Threads take
slices of a root budget. The gates keep rings of events, which the reasoner
flushes to a ledger at the end of some cycles and at stop, and replays from it
at start. The event log calls nobody; consumers pull from push queues. Approval
is called by tool dispatch and by proposals and awaits a manager that anybody
may answer through. Connections hand their messages to serial lanes, one per
origin. Pages hold a socket each to one server, which keeps one handler context,
one run at a time, and the graph it sends them deltas of.

## 2. Modules

| Module | Extends | Models |
| --- | --- | --- |
| `Selection` | | the code's `filter`: the elements of a sequence at chosen positions, in order |
| `PriorityBag` | | `Bag.ts`, `fenwick.ts` |
| `FocusMemory` | PriorityBag | `Focus.addConcept` and its index, composed with the bag |
| `Feed` | Selection | what an event log promises its readers (abstract) |
| `EventLog` | Selection | `AbstractEventLog`, the in-memory and sqlite logs, `PushQueue`, with the mapping to `Feed` |
| `BudgetGate` | | `KernelBudgetGate`, `ControlBudgets`, the scope table, and their callers |
| `CognitiveThread` | | `CognitiveThread`, `ThreadPool`, budget slices |
| `CycleControl` | | the cycle loop with its drivers, the task queue, checkpoints, the autonomy loop |
| `Ledger` | Selection | `Ledger` with its files |
| `AutonomyGate` | Ledger | the action gate's mode, ring, flush and replay, composed with the ledger |
| `Approval` | | `ApprovalService`, its manager, `withDeadline` |
| `CircuitBreaker` | | `circuit-breaker.ts`, as operators on one breaker |
| `LMCalls` | CircuitBreaker | the language-model service, its providers, cache and probes |
| `LMRule` | CircuitBreaker | one model rule with its breaker |
| `Lanes` | | what serial lanes promise (abstract) |
| `SerialLanes` | | `SerialLanes`, its chains of promises, with the mapping to `Lanes` |
| `IRCConnection` | | `irc.ts`, `base.ts`, `connection-manager.ts` |
| `ControlChannel` | | the pages' control requests and the server's reasoning handlers |
| `GraphSync` | | the server's graph and the pages' copies |
| `WsClient` | Selection | the socket of a page |
| `StreamReasoner` | Selection | the queue of works for model rules, its flushes and deadlines |
| `ProposalSeam` | StreamReasoner | the boundary: judgments, commits, rule table, application |
| `SequenceLemmas` | Selection | facts about sequences and sums, and induction |
| `MemoryProofs` | FocusMemory, SequenceLemmas | the store's order and total; concepts and the index |
| `ControlProofs` | BudgetGate, CognitiveThread, CycleControl, SequenceLemmas | budgets, threads, and the clock |
| `WaitProofs` | Approval, SerialLanes, EventLog, SequenceLemmas | approvals, lanes and their refinement, the event log and its refinement |
| `LedgerProofs` | AutonomyGate, SequenceLemmas | the ledger; the gate restored from it |
| `PageProofs` | ControlChannel, GraphSync, WsClient, SequenceLemmas | requests, graphs and sockets of the pages |
| `ProposalProofs` | ProposalSeam, SequenceLemmas | premises; the log explains the state |
| `LMCallsProofs` | LMCalls | when a circuit may open; the cache |

Definitions keep the names of the code; each one that stands for code is mapped
to its lines. A definition with the comment `Mutant:` is not part of any
specification: it is the definition after it with a plausible bug, and shows
that the property checked against it can fail.

`MCUtil`, `MCAgent`, `MCWaits` and `MCControl` put several components that share
no state into one run: a variable `part`, chosen at the start, says which of them
is at work, and the others stay as they were. Nothing is multiplied, the state
spaces add up; components that do interact are composed instead (`FocusMemory`,
`AutonomyGate`, `ProposalSeam`, `LMCalls`). The other `MC...` modules give one
module its constants.

### PriorityBag

`list` is `store`, `tree` the nodes `1..capacity` of the Fenwick tree, and
`treeStale`, `version`, `pressureLevel` the fields of those names. One action is
one call run to completion, since the bag never awaits. Priorities are naturals,
so that the arithmetic of the total is exact. An insertion goes where the binary
search may end. Removal by id, by predicate and by position differ in how they
maintain the total and the version, and are separate actions. `Sample` is only
what sampling does to the state: it recomputes a non-positive total and brings a
stale tree up to date; the pick itself is `FindByPrefixSum`. The victim of an
LRU or random eviction is any entry (`DropAt`).

### FocusMemory

The bag of a focus, whose items are concepts, with `conceptsById` as the set of
ids the index can find and the version it was built for. `Raise`, `Admit` and
`Refuse` are the three outcomes of `addConcept`; each starts with the index as
`rebuildIndexes` leaves it. `Age` and `ReportPressure` are the other calls a
focus and its telemetry make on the bag.

### EventLog

An event is its position in the store and has a type. `micro` is the queue of
continuations: the part of `append` after its await (`Notify`) and of
`subscribe` (`Replay`) run in the order they were queued, other calls come in
between at will. A subscription is its filter, its start and what its queue was
given (`queue`) and the consumer has read (`taken`); `waiting` are the consumers
parked in `next`. `store` is the kind of log, chosen at the start: the sqlite
log (`Durable`) survives `Restart`, which drops everything else, and its `Close`
is the override in `SqliteEventLog`. `Replays` says whether consumers may resume
from an id.

`LogIsAFeed` is the refinement of `Feed`, which knows no microtasks and no queues:
events are published, then told one by one; a reader that joins from an event has
a number `upto` to which it is to catch up, and until it has, nothing later is
told. The mapping counts the announcements that wait (`Told`), finds how far the
replay that waits for a consumer goes (`Upto`), and takes what a queue was given,
read or not, for what its reader heard; so `TakeNext` is a stutter. A feed lets a
reader hear twice what was stored and not yet told when it joined, as the code
does: `subscribe` registers at once, and its range holds those events too.

### BudgetGate

A budget is a ceiling and a counter per dimension, a termination reason and an
id. `scopes` is the gate's map; `granted` is a history variable, what each scope
was granted since it was last renewed. `CheckAs` is a check of an already
resolved budget; the actions differ in how they resolve it: `Charge` opens a
declared scope first (`ControlBudgets.charge`), `Judge` and `FocusStep` go to
the gate directly, `GameTick` replaces the scope. `BeginCycle` zeroes the
declared scopes, `AdjustCycleBudget` changes the root's ceiling under its
consumption, `ResetBudget` forgets everything.

### CognitiveThread

Limits and consumption of every slice, the root's under the owner `"pool"`.
`Inherit` is the resolve-charge-slice sequence of `spawn` and `spawnWithBudget`;
`PoolSpawn` is the pool's `spawn`, which slices the root without charging it.
`run` is two actions, `RunStart` and `RunEnd`, since it awaits the thread's
work; kills, sends and charges come in between. `CutOff` stands for the abort
signal and the deadline of the slice. `hard` records which threads were charged
to their parents.

### CycleControl

A driver is a call of `run`, `step` or `tick` under way; several are at once,
since each awaits the stages of its cycles. A cycle is a chain of actions:
`OpenCycle` with the snapshot of tool goals, `Dispatch` of each goal (taken out of
the queue, its execution awaited), `Perceive`, which runs `processPending`,
`Learn`, which reads the count of cycles before consolidation is awaited, and then
either `NextCycle` or `LastCycle`, with the capture of a checkpoint under the count
that was read. What a
cycle derives is not told apart: `graph` is the set of queued tasks that memory
took, of which it may forget any when it consolidates. `Tick` is the beat of the
autonomy loop up to its step, `LastCycle` charges the window for it, and
`Consolidate` is the rest of the beat; what it asks in between is an `Enqueue`.
`FailCycle` is a stage that throws. `step` reads `previous` when it begins
(`was`) and writes it back in its `finally` (`ControlAfter`). A rewind is two
actions, `RestoreGraph` and `RestoreBoundary`, for the await between them; one at
a time. The removal of the first tool goal is a step of its own, although the
code makes it in the same turn as the snapshot: the model allows a little more.
A call whose signal is aborted before its first cycle is left out.

The history variables say what the properties except: `crossed` (a cycle or a
capture inside the await of a restore), `late` (goals queued while goals were
dispatched), `blurred` (beats that overlapped, threw, or were rewound), `off`
(a pause holds, or a step crossed it).

### Ledger

`disk` maps files to rows; a file is a day and an overflow index. `Scan` lists
files in the order the code's `sort()` does. `Dated`, `OpenedFile` and
`Positioned` are the three steps by which `#writeToFile` finds the file a row
goes to. A write leaves the whole row or throws (`AppendThrows`; with `Fails`).
`sweeps` holds retention sweeps started and not awaited, `compaction` the one
under way, whose three parts are actions of their own. A row leaves the hot cache
by `Expire` or, at the latest, two midnights later. `Restart` is a crash as well
as a clean exit: the ledger writes nothing at exit. `compacts` is whether the
owner of the ledger ever compacts it.

### AutonomyGate

Extends `Ledger`; a row's key is the autonomy event it holds. Modes are their
position in `MODE_ORDER`, and legal transitions go one step at a time.
`requestModeChange` pushes to a ring of `RingSize` events. A flush is started by
a cycle's end or by stop, and appends the unseen events one by one; it is
synchronous, so only the process's death (`Die`) comes between its steps.
`BeginStart` is `NAR.start` up to the await of the saved state, and `Replay` or
`StartFresh` what follows it. The ledger's own steps that run meanwhile are
midnight and sweeps; the kernel ledger is never compacted nor cleared.

### Approval

`pending` is the manager's map, `promise` what each request's promise resolved
to, `caller` where its `requestApproval` is. The deadline (`Expire`) and the
caller's catch (`GiveUp`) are two steps, and an answer may come between them.
`headless` is the CI or headless configuration.

### CircuitBreaker, LMCalls, LMRule

A breaker is a record; its counters saturate at the thresholds and its clock is
the one bit `canRequest` computes from it (`Expire`). A call opens in one step
(resolve a model, ask the gate, look into the cache, make a decision), settles in
another (`Succeed`, `Fail`), and after a transport failure may await the one
re-probe of the active provider. A stream that fails midway is tried again
without asking the gate. `Probe` and `Probed` are the health probe. `streak`,
`suffered` and `lastOutcome` are history. `Named` is the model a caller names for a
task, if any; a call is refused when no model answers for its task. A streak of
failures is ended by what ends it in the code, a call that succeeded and a cache
hit; a health probe that succeeds while the circuit is not open leaves the
breaker's count, and the streak, as they are. Instances follow the demotion of the
models in `Tracked` only, for the size of the state space. `LMRule` is one rule
with several applications under way, each of which may await its adapter or a
tool between the skip test and the breaker; the rule begins enabled or not, and
`Reset`, which its owner may call, gives it a fresh breaker.

### Lanes, SerialLanes

`tails` is the code's map, `behind` what each job's promise is chained behind,
`status` where each job is, `line` the queue the abstract lanes have (history).
A settled job releases its lane a microtask later (`Release`), if it is still
the tail. `SerialLanes` names its refinement with
`INSTANCE Lanes WITH waiting <- ..., busy <- ...`.

### IRCConnection

One connection; every dial is a client, a promise and a deadline of its own, and
`Dials` numbers them. The owner enables, reconnects and disconnects through the
connection manager, also while a client it asked to quit has not done so; a
reconnect is two actions, `QuitDone` when the library says that the client has
quit and `ConnectAgain`, the microtask that dials, with nothing in between (`Turn`).
`autoReconnect` is the configuration's, either way. The irc library and its
server are external: they register, drop, let dials hang, and the library dials a
lost link again by itself (`Relink`) unless its client was asked to quit.

### ControlChannel, GraphSync, WsClient

Pages number their requests themselves and hold a timer for each; the server's
`ctxWs` is the socket of the last sender. Handlers that await are split at the
await. `abort` and the end of a run act on `activeRun` as the code does. In
`GraphSync` a node is the set of optional fields it carries, an edge its two
ends; a link is the sequence of frames on their way to a page, and is lost whole.
In `WsClient` the page's socket is the current one, with those it replaced among
`stale`; the browser is external and opens or closes sockets late.

### StreamReasoner, ProposalSeam

Works are staged into a queue that keeps the newest, pumped, flushed in batches,
and yield derivations into one list and the premises they read into another
beside it. A batch that its deadline gave up goes on (`DeriveLate`) next to its
successor. A derivation may throw (`Throw`, `ThrowLate`): the rest of its batch
goes with it, and an awaited flush ends with its provisionals left. `Boundary`
drains both lists. `ProposalSeam` replaces the boundary by
`Take`: derivations become content proposals named after their stamp, they and
the queued rule proposals are judged against the revision, committed one by one
to the log, admitted to the rule table, which may throw, and `Apply` puts what
comes back into memory as far as a budget goes. The results of one work become
visible at once.

## 3. Runs

Passing runs:

| Run | Shows | Bounds |
| --- | --- | --- |
| `util` | bag: order, cached total, rebuilt tree. Ledger: nothing twice, whatever happens; order until an overflow; retention and clearing without compactions | 5 items, capacity 4, priorities 0..3, 5 versions; 3 days, 3 appends, 2 keys, 2 rows a file, 2 overflow files, failing writes |
| `agent` | concept memory: one concept per term, an index that misses nothing. Gate: ceilings over every order of callers. Threads: the inheritance bound. Cycles: control, window, queue, checkpoints | 3 terms, capacity 2, 6 versions; 2 declared scopes and 1 focus, 2 dimensions, ceilings to 2; 2 threads, 3 cycles, mailboxes of 1; 2 drivers, 3 cycles, runs of 2, a window of 1, a ring of 2, 2 restores, 2 kinds of input |
| `waits` | consumers of a log (a refinement), requests for approval, jobs of lanes (a refinement), dials, messages of a page, works of the seam: answered, once, in order, and in the end | 1 consumer, 2 types, 3 events, both kinds of log; 3 requests; 5 jobs in 2 lanes; 3 dials, 3 orders, 1 retry, 1 join timer of a dial; 2 attempts, 2 held messages of 4, 3 calls, 2 stale sockets; 4 works, a queue of 3, batches of 2, 2 pumps |
| `control` | modes granted, written once and resumed; one live run, each answered to its asker; pages that show the server's graph; a log that explains table and memory | 3 changes, 3 rows, 2 days, a ring of 2; 2 pages with 2 and 1 requests, 2 sockets each; 2 viewers, 2 terms, 1 field, 4 edits, 2 frames under way; 2 works with 2 results, 2 proposals of one rule, 1 content and 1 rule place |
| `lm_calls` | circuits open on failures with no successful call or cache hit between them, and heal; the cache holds no failure | 3 calls, 1 provider, model and task, thresholds of 2 |

Each takes between one and three minutes on two workers. Each property has a mutant
of a mapped definition that violates it under the same configuration.

The cycles are checked twice, as `clock` (all kinds of drivers; no inputs and no
rewinds) and as `queue` (one input at a time, a run beside a beat, rewinds): the
first keeps `SteppingIsStepping`, `PauseOutlivesSteps` and `WindowHeld`
interesting, the second the rest. The theorems of section 5 have no such limit.

Why the bounds are enough to be interesting. A Fenwick tree of four nodes has
nodes of every rank, and a fifth item overflows it. A focus memory of two evicts
on the third term. Three events let one be stored, one pending and one replayed.
Ceilings of 1 and 2 with costs of 1 and 2 give exhaustion and backpressure. Two
threads give a thread, its child and the pool. Two rows a file and three rows
overflow a day, three days let a sweep of the first run on the third. A ring of
two with three changes drops one unwritten. Two drivers overlap, three cycles let
a run's second cycle meet a step; a ring of two and two restores bring a cycle
number back. Three jobs of a lane let one chain while its predecessor's tail is
being forgotten. Three dials let the leftovers of one end the next. Four works
overflow the queue, and batches of two leave some behind. Three calls let two
settle after a third opened the circuit.

Where the code does not do what a comment of the repository says, the statement
is a definition of its module. Seven have a run that ends in its violation and are
findings of `PROJECT.json`; the others give their counterexample when they are
named in the configuration of the module's run, in place of its properties.

| Definition (run) | The statement | What the code does |
| --- | --- | --- |
| `FreshTreeIsFaithful` (`bag_tree`) | an append or tail drop is a single point update (`Bag.ts:73`) | the tree then misses part of its prefix sums, and a fresh tree picks the wrong entry |
| `LatestIsDurable` (`ledger_durable`) | every entry is durable (`ledger.ts:418`) | a compaction loses rows to a crash or to appends between its steps |
| `ReplayResumesTheLog` (`autonomy_replay`) | log and gate agree after a restart (`GateRegistry.ts:151`) | after an overflow an older mode is restored |
| `RuleSelfHeals` (`rule_heals`) | the breaker's timeout governs a half-open probe (`LMRule.ts:410`) | the rule skips itself while the breaker is open, so nobody asks it |
| `ConnectedHasClient` (`irc_up`) | a connection does not believe it is open when it is not (`base.ts:138`) | the join timer of a disposed client declares it connected |
| `AnswersGoHome` (`control_home`) | the answer settles exactly one request, the asker's (`control-channel.ts:8`) | a late answer goes to the page that spoke last |
| `AbsentMeansRefused` (`seam_absent`) | a task is absent only because it was refused with a reason (`lm-rule-producer.ts:166`) | results that share a stamp replace one another |
| `PauseHolds` | `pause()` is the off switch (`nar-execution.ts:185`) | a step under way ends by resuming a kernel that was paused meanwhile |
| `WindowIsBounded` | the loop never passes its window budget (`heartbeat.ts:12`) | overlapping beats pass the check together; a step that throws is not counted |
| `ToolGoalsAreExecuted` | tool goals are executed rather than remembered (`nar-execution.ts:207`) | a goal queued during a dispatch is not in the snapshot and goes to memory |
| `GoalsAreOwned` | dispatch takes ownership of the goal (`nar-execution.ts:741`) | it executes a goal that another cycle took, or whose deadline passed |
| `NewestIsPicked` | the newest checkpoint at or before a cycle (`checkpoint.ts:108`) | after a rewind a cycle comes twice, and the older one is picked |
| `DeclaredBound` | the declared limit is used (`budget-scopes.ts:52`) | a scope first charged by a judgment keeps the root's ceiling |
| `ScopesCarryTheirId` | a scope is stamped with its own id (`budget-scopes.ts:143`) | it keeps the id it was copied with |
| `ReasonSetOnce` | exhaustion sets the reason exactly once (`budget.ts:319`) | every refusal sets it again |
| `IndexIsCurrent` | add never evicts, so a taken entry leaves the index current (`Focus.ts:202`) | add at capacity drops the tail, which the index still names |
| `Sorted`, of `FocusSpec` | the store is in descending order (`Bag.ts:92`) | a known concept's priority is raised where it stands |
| `CloseStopsSubscribers` | close stops subscribers, then the store (`EventLog.ts:41`) | the sqlite log closes its store only |
| `KillReachesChildren` | kill reaches all children (`cognitive-thread.ts:196`) | it reaches none |
| `ScanIsAppendOrder` | a scan is in append order (`ledger.ts:328`) | overflow files sort before the file they overflowed from |
| `DiskContainsHot` | the disk holds what the cache holds (`ledger.ts:302`) | a failed write leaves its row in the cache |
| `FileCap` | a file holds at most its cap (`ledger.ts:46`) | a rotation or restart counts the day's file from zero |
| `ClearedIsGone` without its `~compacts` | clear removes all entries (`ledger.ts:424`) | a compaction under way writes them back |
| `LimitedIsNewest` | a limited query returns the newest (`retrospect.ts:247`) | it returns the oldest |
| `FlushWritesAll` | a flush writes every unwritten event (`GateEventLedger.ts:58`) | an event whose write failed counts as written |
| `DemotionIsEarned` | a model is demoted on its own failures in a row (`accounting.ts:102`) | they are counted against the last decision, which may be another call's |
| `FieldsFollow` | every change is emitted as a delta (`UnifiedGraphProjection.ts:28`) | the server replaces a node and the page merges it, so a field the new node lacks is never taken back |
| `PairsExactly` | each derivation keeps its premises (`lm-rule-producer.ts:99`) | an overflow trims the derivations and not the premises |
| `TableIsTheLog` | the table can be rebuilt from the log alone (`proposal.ts:146`) | the log carries no declaration |

The passing runs state what does hold around those places. `OrderedUntilOverflow`
and `ReplayResumesInOrder` hold as long as no day overflowed its first file;
`PairsUntilTrimmed` until the derivations overflow; `ServedBelowPressure` of
works that are not under pressure; `WindowHeld`, `TasksAreInOnePlace` and
`OnlyLateGoalsAreRemembered` with the exceptions their history variables record.
Retention and clearing are claimed of a ledger whose owner does not compact it.
`RebuildIsFaithful` speaks of the tree after a rebuild.

Other things the code does that no comment of it denies: at 85 % pressure a flush
is inert, and only a flush relieves pressure (`reasoner.ts:139`); when the budget
for applications runs out the warning says that the rest stays queued, and the
rest is lost (`nar-execution.ts:253`); a proposal is stamped with the revision at
the drain, so that it is never stale; a rule table that throws loses the rest of
its batch, already taken; a beat steps a paused kernel, and a run under way
ignores a pause; an input queued during a restore's await is dropped with the
queue; a rewind primes a counter of ids that a sequential id source does not read.

## 4. Fairness

`EventLog` has weak fairness on `Notify` and `Replay`: both are microtasks, and
the event loop drains those before anything else. No consumer is assumed to
read, no producer to append. `Approval` has weak fairness on the deadline's
timer and on the caller's continuation, and none on answers. `SerialLanes` has
it on the microtasks of each job, and none on the end of a job:
`LanesAreForgotten` speaks of jobs that settled. `IRCConnection` has it on the
deadlines of dials and on the microtask `ConnectAgain`, and none on the library
or the server. `WsClient` has it on the browser's report of a socket that is
opening or closing, and on the retry timer. `StreamReasoner` has it on the pump,
which every cycle runs, on the flush it queues, and on the deadline of the batch
awaited; the provider may never answer. `ServedBelowPressure` assumes strong
fairness of `Flush` beyond that, as its hypothesis, because a flush is inert
whenever it comes at high pressure. `LMCalls` has weak fairness on the breakers'
clocks and on each call's settling, which is an assumption about providers: that
they answer, one way or the other. The service sets no deadline of its own (of
its callers only `LMRule` gives one up, by `withTimeout`); `OpenHeals` does not
need one in the code, where there is always another caller, while a model has
only as many calls as `Calls`. `OpenHeals` assumes, as its hypothesis, that the
provider is asked whenever its circuit would admit it. `LMRule` is given
everything a rule may hope for (settling, strong fairness of its application),
so that its counterexample is not a rule nobody calls. All other specifications,
`CycleControl` among them, are safety only: nobody is obliged to call a bag, a
gate, a thread or a clock.

`CHECK_DEADLOCK FALSE` is set for `waits`, `control`, `lm_calls`, `rule_heals`,
`irc_up`, `control_home` and `seam_absent`: a closed log whose consumers have
left, a connection whose owner stopped calling, pages that have asked all they
may, and a boundary with nothing left to judge have nothing more to do, and for
`rule_heals` and `lm_calls` stopping is not the question. The other runs check
deadlock, `util` and `agent` among them.

## 5. Proofs

Each theorem holds for every value of the constants that the module's named
assumptions allow (`BagConstants`, `GateConstants`, `ThreadConstants`,
`CycleAssumption`, `LedgerConstants`, `LogConstants`, ...): sizes and
thresholds are naturals, and maps have the domains the code gives them. The
`Max...` constants that bound a run stay arbitrary. A theorem about a component is about its own specification, which is the
one the runs compose or put beside others.

**Induction over data.** The library's induction theorems take a predicate, which
the provers cannot instantiate. `SequenceLemmas` puts a set in its place:
`NatInSets` (a set of naturals with 0 and successors is all of `Nat`) and
`SubsetsInSets` (a set of subsets closed under adding an element has every finite
subset) both come from well-founded minimality. From them follow what `Selected`
(the code's `filter`) and a flattened sequence hold, and what sums are: `IsSum`
says that a function gives each finite subset the sum of its elements, whichever
element is taken out first, `FoldIsSum` that the library's fold is such a
function, and `SumsAgree`, `SumSplits` and their kin how sums change with a part.

`MemoryProofs`. `StoreStaysSorted`: the invariant `StoreInv` is that the store is
a descending sequence of entries no longer than the capacity; order alone is not
inductive, since what an insertion does is only known of a sequence of entries
with room for one more. The lemmas show that an insertion at an insert point, a
filter and a monotone map of priorities keep a sequence descending; decay needs
that the retained share of a priority is monotone in it. `TotalIsKept`: the
cached total is the sum of the store, although insertions, removals and evictions
only add and subtract what they moved; priorities are naturals, so this is the
bookkeeping without the rounding. `PicksAreProportional` (`RebuildIsFaithful`):
node `j` of a rebuilt tree holds the weight of the entries in `(j - 2^r, j]`, `2^r`
being the lowest bit of `j`. The invariant of rebuild's loop says down to which
power a node has gathered its children, those still to come lying beyond the loop's
index; that of the descent, that what it passed weighs less than the target and
that the next `2^b` entries suffice to reach it. Recursion along the loops is a
fold, which `FoldHasValues` shows to exist, and `PowersDouble` is had by counting
subsets. `ConceptsAreUnique` and `IndexMissesNothing`:
distinct concepts are not inductive, since admission asks the index and not the
bag. `FocusInv` adds that a current index covers the bag and that the index's
version never runs ahead of the bag's. `Sorted` is no part of it, being false
here.

`ControlProofs`, of the budgets: `BudgetsKeepTheirShape` and `ScopesAreBounded`
(`PerCycleBound`). The bound says nothing of the counters by which the gate
decides. `GateInv` ties them together: a scope is *solvent* (no counter above its
ceiling), what it was granted equals what its counters say, and a scope that is
not open was granted nothing. Solvency is not claimed of the root, and is false
of it: lowering the cycle ceiling may leave it overspent.
Of the threads: `LentIsSpent` (`HardInheritance`), `ThreadsKeepTheirShape`,
`KillsAreRemembered`. What a slice lent is a sum over its charged children;
`ThreadInv` adds that threads that are not born have spent nothing, are charged
to nobody and are nobody's parent, so that a spawn adds one term to one sum, and
that finitely many exist, so that there is a sum.
Of the clock: `ClockKeepsItsShape`, `SteppingMeansAStep`, `PausesOutliveSteps`,
`OnePlacePerTask`, `ToolGoalsAreDispatched`, `WindowsAreHeld`. Three invariants,
each by itself beside the types. `ControlInv`: while a pause holds nobody steps,
or exactly one driver does and has `paused` to put back. `QueueInv`: whatever is
queued, remembered or kept in a checkpoint was queued once; while a restore is
under way memory is within the graph being restored, so that the queue put back
fits it; and a driver that dispatches has before it every tool goal that is
queued and not late. `WindowInv`: beats that ended are counted, the one under way
began at an earlier count, and is alone.

`WaitProofs`, of approvals: `PendingMapIsExact` and `GatesOpenOnAnswers` (a caller
is told granted only if somebody granted). `ApprovalInv` adds that an answered
caller has an answer, that a verdict belongs to a caller that returned, and that
nobody waits when headless.
Of lanes: `LanesAreExclusive`, and `ChainsImplementLanes`: the chains of promises
implement `Lanes`, step by step, under the mapping `SerialLanes` names. The
invariant says that a job is in its lane's line exactly while it is queued, that
everyone in a line is chained behind the one before and the map remembers the
last, and that whoever runs is what the next is chained behind; the last part is
what a tail forgotten too early would break.
Of the event log: `ListenersHearInOrder`, `NothingIsMissed`,
`ParkedHaveNothingToRead`, `ResumedStartLater`, `LogKeepsItsBound`. `LogInv` is
about the continuations as much as the queues: announcements wait in the order of
their events and are of stored ones; a replay waits only for a consumer that asked
for it and holds events after its start; what a listener holds is older than all
that is yet to be announced; and whatever an open subscription should have is in
its queue, was read, is announced or is to be replayed. `LogImplementsFeed`: each
step of the log is a step of `Feed` or a stutter. That needs more of the
continuations than `LogInv` says, and `FeedInv` says it: the announcements that wait
are a suffix of the log without gaps, so that a number can stand for them; a consumer
has at most one replay waiting, of all that followed its start when it asked; and in
the queue such a replay stands behind the announcements of what it holds and before
those of what was stored later. `Seen` gives the mapping's three values in those
terms, before and after a step. The order of the events for one who only listens
(`ListenersHearInOrder`) is part of being a feed, and no run checks it by itself.

`LedgerProofs`, of the ledger: `RowsAreThereOnce`, `ScanIsInOrder`,
`ClearedIsNeverBack`, `RowsStayTheirTime` (an action property: a row leaves only
by a clear or once it is due), `LedgerKeepsItsShape`. `LedgerInv` has a part for
each way to break them: what is on disk was acknowledged and is in one place; a
compaction under way holds each row once, and once it has removed the files holds
none that is on disk; sweeps under way have a cutoff that is still due; and, with
no compactions, files hold rows of their day, in the order of the appends.
That a scan in that order is sorted is the one fact about flattened files.
Of the gate: `NoSelfPromotion`, `ChangesAreThereOnce`,
`ReplayRestoresTheNewest` (an action property), `GateKeepsItsShape`. Its `GateInv`
contains the ledger's, and says that later rows are later changes, that what the
ring has yet to write is later than all that is written, and that a mode beyond
the sandbox was granted wherever it is held, in the ring or on disk, with those
below it, since a gate that is stepped down from a granted mode is still beyond
the sandbox.

`PageProofs`, of requests: `OneRunIsLive` and `RunsReachTheirAsker`. `ControlInv`
needs the numbering: what the server has yet to read of a page is newer than all
its runs, so no two runs are of one request, and each run keeps the socket of its
asker while the context moves on.
Of graphs: `PagesFollowTheGraph` and `EdgesKeepTheirEnds`. `SyncInv` is
`MembersFollow` itself with the types and the ends of the edges: it already speaks
of a page together with the frames under way, so that a frame sent or delivered
cancels out. The lemmas say what a sequence of frames does to a copy.
Of sockets: `MessagesKeepTheirOrder`, `DisconnectionsStick`,
`ClientKeepsItsShape`. `ClientInv` adds that what is held is newer than what was
sent and that nothing is held beside an open socket.

`ProposalProofs`. `PremisesStayPaired`, with `ReasonerKeepsItsShape`: `SRInv` adds
that a batch under way has a pump behind it and that no retired batch is done.
`LogIsTheTruth`, with `SeamKeepsItsShape`: `SeamInv` adds that what a boundary
returned, and is yet to be applied, is told to the log as well, so that applying it
later adds nothing untold.

`LMCallsProofs`. `ServiceKeepsItsShape`, `CircuitsTripOnRealFailures`
(`TripsAreEarned`, an action property), `CacheFollowsTheLastCall`. The invariant is
the types, that a breaker never counts more failures than its provider had since
its last successful call or cache hit, and that a call under way has a provider; one lemma says what a step may do to
the breakers, and each action is shown to be such a step.

What stays with TLC: liveness (`EventuallyHeard`, `EventuallyDecided`,
`LanesAreForgotten`, `DialsSettle`, `Settles`, `ServedBelowPressure`,
`OpenHeals`), since the provers have no rule for fairness; and what the code is
shown to violate. `IRCConnection` and `LMRule` have properties of these kinds
only. Every safety property of a passing run has its theorem.

## 6. Plan

1. More of the system: `FocusBag` and `FocusTree` (weights changed in place,
   apportionment of steps) with the scheduler; the AIKR processor; governance
   with approval and rollback; the state saved to files, with crashes; the
   reasoner's start, stop and dispose as one machine; quarantine and reputation.
2. An abstract specification of an append-only store with retention, that `Ledger`
   implements without compaction, and the proof; `LedgerInv` is the invariant that
   refinement needs.

## 7. Not modelled

Measured by lines this is a small part of the repository: most of it is terms,
truth functions and inference rules (functions on terms and reals, tested as
functions, with a generated parser), the MeTTa interpreter, the text of prompts,
games, dialogue, views, benchmarks and scripts. None of those is a protocol, and
a model of them would be a second implementation. What has state that outlives a
call, and steps that others can come between, is what the modules above are
about; of that the planned components of section 1 are missing.

Within the modelled components: wall-clock dimensions of budgets and thread-local
values; inline budgets and the budget event feed; the ledger's mirror window and
failing reads; the source of event ids (ids are positions, so a clock set back is
outside the model); the rounding of priorities; the authorisation of single
actions; spending and routing scores of the language-model service; the flood
queue of IRC; lenses, layout and edge types of the graph, and the reset of the projection, which
only the server's test endpoints call (`UnifiedGraphProjection.ts:65`) and which
tells no page, so that the pages there keep what they show; the history and reverts
of the rule table, proposals without a derivation and cancellations, which
nothing in the code issues; the retries and high-water mark of tasks and ids in a
checkpoint, and the occurrence times a restored bag loses. The rule table also
throws at a revision that does not advance its own (`rule-table.ts:281`); no state
of the model gets there, since every admission takes the next revision.

---------------------------- MODULE CycleControl ----------------------------
(***************************************************************************)
(* nar/src/nar-execution.ts with task/manager.ts, state/checkpoint.ts and  *)
(* autonomy/heartbeat.ts: the reasoner's clock.  A run, a step and a beat  *)
(* of the autonomy loop each drive cycles, whose stages are awaited, so    *)
(* several drive at once; the owner pauses, resumes and rewinds meanwhile. *)
(* What a cycle derives is not told apart: the graph is the tasks memory   *)
(* took from the queue.                                                    *)
(***************************************************************************)
EXTENDS Integers, Sequences

CONSTANTS Drivers,             \* calls of run, step and tick under way at a time
          Inputs, ToolGoals,   \* tasks that may be queued; those with an operation's term
          Interval,            \* checkpointInterval; none at 0
          RingCap,             \* CHECKPOINT_RING_CAP
          SweepEvery,          \* consolidation.intervalCycles
          WindowMax,           \* maxCyclesPerWindow
          MaxRun, MaxBegun, MaxRestores   \* bounds: cycles of a run, cycles, restores

ASSUME CycleAssumption ==
  /\ ToolGoals \subseteq Inputs
  /\ Interval \in Nat /\ RingCap \in Nat \ {0} /\ SweepEvery \in Nat \ {0} /\ WindowMax \in Nat
  /\ MaxRun \in Nat \ {0} /\ MaxBegun \in Nat /\ MaxRestores \in Nat

VARIABLES control,     \* #controlState
          cycleCount,  \* _cycleCount
          graph,       \* of memory: the tasks it took from the queue
          queue,       \* pending, of TaskManager
          ring,        \* #ring: the checkpoints kept, newest last
          recovery,    \* #consolidation: none, or one checkpoint
          restoring,   \* the checkpoint whose graph is restored, not yet its boundary
          drive,       \* where each driver is
          beats,       \* #cyclesInWindow
          \* history: the inputs queued, the tool goals queued while somebody
          \* dispatched; whether a pause holds, or was crossed by a step; whether
          \* a restore was crossed by a cycle; the beats of this window, and
          \* whether they can be told from it; cycles begun and restores made
          entered, late, off, crossed, beaten, blurred, begun, restores

cycleVars == <<control, cycleCount, graph, queue, ring, recovery, restoring, drive, beats, entered,
               late, off, crossed, beaten, blurred, begun, restores>>

Controls == {"running", "paused", "stepping"}

Checkpoint == [cycle : Nat, graph : SUBSET Inputs, queue : SUBSET Inputs]

Driver == [pc : {"idle", "tools", "reason", "learn", "tail"}, kind : {"run", "step", "beat"},
           left : Nat,             \* cycles of the run yet to end
           was : Controls,         \* previous, of step
           before : Nat,           \* of #advance
           at : Nat,               \* the count onCycleEnd was called with
           goals : SUBSET Inputs]  \* tool goals of the snapshot dispatchToolGoals walks

AtRest == [pc |-> "idle", kind |-> "run", left |-> 0, was |-> "running", before |-> 0,
           at |-> 0, goals |-> {}]

CyclesInit ==
  /\ control = "running" /\ cycleCount = 0 /\ graph = {} /\ queue = {}
  /\ ring = <<>> /\ recovery = {} /\ restoring = {}
  /\ drive = [d \in Drivers |-> AtRest] /\ beats = 0
  /\ entered = {} /\ late = {} /\ off = "no" /\ crossed = FALSE
  /\ beaten = 0 /\ blurred = FALSE /\ begun = 0 /\ restores = 0

checkpointed == <<ring, recovery>>
windowed == <<beats, beaten, blurred>>
restored == <<restoring, restores>>

Cycling(d) == drive[d].pc \in {"tools", "reason", "learn"}
\* A step, of a caller or of a beat, is awaited.
Stepping(d) == Cycling(d) /\ drive[d].kind # "run"
Beating(d) == Cycling(d) /\ drive[d].kind = "beat"
Dispatching == \E d \in Drivers : drive[d].pc = "tools"

-----------------------------------------------------------------------------

\* addTask: an input, a goal of the drives, a task of a stream.
Enqueue(t) ==
  /\ t \notin entered /\ entered' = entered \cup {t} /\ queue' = queue \cup {t}
  /\ late' = IF Dispatching THEN late \cup ({t} \cap ToolGoals) ELSE late
  /\ UNCHANGED <<control, cycleCount, graph, checkpointed, restored, drive, windowed, off, crossed,
                 begun>>

\* expireTask.
ExpireTask(t) ==
  /\ t \in queue /\ queue' = queue \ {t}
  /\ UNCHANGED <<control, cycleCount, graph, checkpointed, restored, drive, windowed, entered, late,
                 off, crossed, begun>>

Pause ==
  /\ control' = "paused"
  /\ off' = IF \E d \in Drivers : Stepping(d) THEN "torn" ELSE "held"
  /\ UNCHANGED <<cycleCount, graph, queue, checkpointed, restored, drive, windowed, entered, late,
                 crossed, begun>>

Resume ==
  /\ control' = "running" /\ off' = "no"
  /\ UNCHANGED <<cycleCount, graph, queue, checkpointed, restored, drive, windowed, entered, late,
                 crossed, begun>>

-----------------------------------------------------------------------------

\* The head of run's loop, up to its first await: the goals are a snapshot.
OpenCycle(d, driver) ==
  /\ begun < MaxBegun /\ begun' = begun + 1
  /\ cycleCount' = cycleCount + 1
  /\ drive' = [drive EXCEPT ![d] = [driver EXCEPT !.pc = "tools", !.goals = queue \cap ToolGoals]]

\* run, of what is not paused; driveCycles calls it once a cycle.
CallRun(d, n) ==
  /\ drive[d].pc = "idle" /\ control # "paused"
  /\ OpenCycle(d, [AtRest EXCEPT !.left = n])
  /\ UNCHANGED <<control, graph, queue, checkpointed, restored, windowed, entered, late, off,
                 crossed>>

\* step: whatever the state was.
StepBegins(d, driver) ==
  /\ control' = "stepping"
  /\ off' = IF off = "held" /\ \E e \in Drivers : Stepping(e) THEN "torn" ELSE off
  /\ OpenCycle(d, [driver EXCEPT !.left = 1, !.was = control])

CallStep(d) ==
  /\ drive[d].pc = "idle" /\ StepBegins(d, [AtRest EXCEPT !.kind = "step"])
  /\ UNCHANGED <<graph, queue, checkpointed, restored, windowed, entered, late, crossed>>

\* Mutant: one more than the budget.
SpareInclusive(spent) == spent <= WindowMax

\* #cyclesInWindow is under the window's budget.
Spare(spent) == spent < WindowMax

\* tick: #rollWindow, and #advance up to its await, or its halt.
Tick(d, rolled) ==
  /\ drive[d].pc = "idle"
  /\ LET spent == IF rolled THEN 0 ELSE beats
     IN /\ beats' = spent
        /\ IF Spare(spent)
           THEN /\ StepBegins(d, [AtRest EXCEPT !.kind = "beat", !.before = cycleCount])
                /\ beaten' = (IF rolled THEN 0 ELSE beaten) + 1
                /\ blurred' = ((~rolled /\ blurred) \/ \E e \in Drivers : Beating(e))
           ELSE /\ drive' = [drive EXCEPT ![d] = [AtRest EXCEPT !.pc = "tail", !.kind = "beat"]]
                /\ UNCHANGED <<control, cycleCount, off, beaten, blurred, begun>>
  /\ UNCHANGED <<graph, queue, checkpointed, restored, entered, late, crossed>>

-----------------------------------------------------------------------------

\* dispatchToolGoals, one goal: removePending, and its execution is awaited.
Dispatch(d, g) ==
  /\ drive[d].pc = "tools" /\ g \in drive[d].goals
  /\ queue' = queue \ {g} /\ drive' = [drive EXCEPT ![d].goals = @ \ {g}]
  /\ UNCHANGED <<control, cycleCount, graph, checkpointed, restored, windowed, entered, late, off,
                 crossed, begun>>

\* processPending: as many as the budget grants leave the queue; memory may
\* refuse them, and give up what it holds for want of room.
Process(d, taken, kept) ==
  /\ taken \subseteq queue /\ kept \subseteq graph \cup taken
  /\ queue' = queue \ taken /\ graph' = kept
  /\ drive' = [drive EXCEPT ![d].pc = "reason"]
  /\ crossed' = (crossed \/ restoring # {})
  /\ UNCHANGED <<control, cycleCount, checkpointed, restored, windowed, entered, late, off, begun>>

\* Mutant: the dispatch is not awaited.
PerceiveAtOnce(d, taken, kept) == drive[d].pc = "tools" /\ Process(d, taken, kept)

\* Once every goal is dispatched.
Perceive(d, taken, kept) ==
  drive[d].pc = "tools" /\ drive[d].goals = {} /\ Process(d, taken, kept)

Push(c) == LET all == Append(ring, c) IN IF Len(all) > RingCap THEN Tail(all) ELSE all
Snapshot(cycle) == [cycle |-> cycle, graph |-> graph, queue |-> queue]

\* The stages are over: onCycleEnd is called with the count there is now, and
\* awaits maybeConsolidateLearning.
Learn(d) ==
  /\ drive[d].pc = "reason"
  /\ drive' = [drive EXCEPT ![d].pc = "learn", ![d].at = cycleCount]
  /\ UNCHANGED <<control, cycleCount, graph, queue, checkpointed, restored, windowed, entered, late,
                 off, crossed, begun>>

\* maybeCapture, with the count of before that await.
Capture(cycle) ==
  LET due == Interval > 0 /\ cycle % Interval = 0
  IN /\ ring' = IF due THEN Push(Snapshot(cycle)) ELSE ring
     /\ crossed' = (crossed \/ (due /\ restoring # {}))

\* The cycle closes and the run goes on.
NextCycle(d) ==
  /\ drive[d].pc = "learn" /\ drive[d].left > 1
  /\ Capture(drive[d].at) /\ OpenCycle(d, [drive[d] EXCEPT !.left = @ - 1, !.at = 0])
  /\ UNCHANGED <<control, graph, queue, recovery, restored, windowed, entered, late, off>>

\* Mutants: what there was is put back as it was; a step always resumes.
ControlRestored(driver) == IF driver.kind = "run" THEN control ELSE driver.was
ControlResumed(driver) == IF driver.kind = "run" THEN control ELSE "running"

\* The finally of step.
ControlAfter(driver) ==
  IF driver.kind = "run" THEN control ELSE IF driver.was = "paused" THEN "paused" ELSE "running"

\* The cycle closes and the run with it, done or aborted; memory may forget.
\* A beat counts its cycles, and goes on to its policies.
LastCycle(d, kept) ==
  /\ drive[d].pc = "learn" /\ Capture(drive[d].at)
  /\ kept \subseteq graph /\ graph' = kept
  /\ control' = ControlAfter(drive[d])
  /\ IF drive[d].kind = "beat"
     THEN /\ beats' = beats + (cycleCount - drive[d].before)
          /\ drive' = [drive EXCEPT ![d] = [AtRest EXCEPT !.pc = "tail", !.kind = "beat"]]
     ELSE /\ drive' = [drive EXCEPT ![d] = AtRest]
          /\ UNCHANGED beats
  /\ UNCHANGED <<cycleCount, queue, recovery, restored, beaten, blurred, entered, late, off,
                 begun>>

\* A stage throws: neither the cycle's end nor the beat's count is reached.
FailCycle(d) ==
  /\ Cycling(d)
  /\ control' = ControlAfter(drive[d]) /\ drive' = [drive EXCEPT ![d] = AtRest]
  /\ blurred' = (blurred \/ drive[d].kind = "beat")
  /\ UNCHANGED <<cycleCount, graph, queue, checkpointed, restored, beats, beaten, entered,
                 late, off, crossed, begun>>

\* #consolidate, once the beat's question is in: its checkpoint, and the sweep.
Consolidate(d, kept) ==
  /\ drive[d].pc = "tail" /\ drive' = [drive EXCEPT ![d] = AtRest]
  /\ kept \subseteq graph
  /\ \/ /\ cycleCount # 0 /\ cycleCount % SweepEvery = 0
        /\ ring' = Push(Snapshot(cycleCount)) /\ recovery' = {Snapshot(cycleCount)}
        /\ crossed' = (crossed \/ restoring # {}) /\ graph' = kept
     \* not due, or under pressure
     \/ UNCHANGED <<checkpointed, crossed, graph>>
  /\ UNCHANGED <<control, cycleCount, queue, restored, windowed, entered, late, off, begun>>

-----------------------------------------------------------------------------

\* atOrBefore: the first of the greatest cycle.
Picks(i, cycle) ==
  /\ i \in DOMAIN ring /\ ring[i].cycle <= cycle
  /\ \A j \in DOMAIN ring :
       ring[j].cycle <= cycle => \/ ring[j].cycle < ring[i].cycle
                                 \/ ring[j].cycle = ring[i].cycle /\ i <= j

Target(n) == IF n > cycleCount THEN 0 ELSE cycleCount - n

\* #restore up to its await: the graph.
RestoreGraph(c) ==
  /\ restoring = {} /\ restores < MaxRestores /\ restores' = restores + 1
  /\ restoring' = {c} /\ graph' = c.graph
  /\ UNCHANGED <<control, cycleCount, queue, checkpointed, drive, windowed, entered, late, off,
                 crossed, begun>>

Rewind(n) == \E i \in DOMAIN ring : Picks(i, Target(n)) /\ RestoreGraph(ring[i])
Recover == \E c \in recovery : RestoreGraph(c)

\* Mutant: without clearPending.
RestoreOnTop(c) ==
  /\ c \in restoring /\ restoring' = {}
  /\ queue' = queue \cup c.queue /\ cycleCount' = c.cycle
  /\ late' = IF Dispatching THEN late \cup (c.queue \cap ToolGoals) ELSE late
  /\ blurred' = (blurred \/ \E d \in Drivers : Beating(d))
  /\ UNCHANGED <<control, graph, checkpointed, restores, drive, beats, beaten, entered, off,
                 crossed, begun>>

\* The rest of #restore: the queue and the count.
RestoreBoundary(c) ==
  /\ c \in restoring /\ restoring' = {}
  /\ queue' = c.queue /\ cycleCount' = c.cycle
  /\ late' = IF Dispatching THEN late \cup (c.queue \cap ToolGoals) ELSE late
  /\ blurred' = (blurred \/ \E d \in Drivers : Beating(d))
  /\ UNCHANGED <<control, graph, checkpointed, restores, drive, beats, beaten, entered, off,
                 crossed, begun>>

Cycle(d) ==
  \/ \E n \in 1..MaxRun : CallRun(d, n)
  \/ CallStep(d) \/ \E rolled \in BOOLEAN : Tick(d, rolled)
  \/ \E g \in ToolGoals : Dispatch(d, g)
  \/ \E taken \in SUBSET queue : \E kept \in SUBSET (graph \cup taken) : Perceive(d, taken, kept)
  \/ Learn(d) \/ NextCycle(d) \/ FailCycle(d)
  \/ \E kept \in SUBSET graph : LastCycle(d, kept) \/ Consolidate(d, kept)

CyclesNext ==
  \/ \E t \in Inputs : Enqueue(t) \/ ExpireTask(t)
  \/ Pause \/ Resume
  \/ \E d \in Drivers : Cycle(d)
  \/ \E n \in 0..cycleCount : Rewind(n)
  \/ Recover
  \/ \E c \in restoring : RestoreBoundary(c)

CyclesSpec == CyclesInit /\ [][CyclesNext]_cycleVars

-----------------------------------------------------------------------------

CyclesTypeOK ==
  /\ control \in Controls /\ cycleCount \in Nat
  /\ graph \subseteq Inputs /\ queue \subseteq Inputs
  /\ ring \in Seq(Checkpoint) /\ recovery \subseteq Checkpoint /\ restoring \subseteq Checkpoint
  /\ drive \in [Drivers -> Driver] /\ beats \in Int
  /\ entered \subseteq Inputs /\ late \subseteq Inputs /\ off \in {"no", "held", "torn"}
  /\ crossed \in BOOLEAN /\ beaten \in Nat /\ blurred \in BOOLEAN
  /\ begun \in Nat /\ restores \in Nat

\* "a step is that same call with a state the observer can name": a kernel that
\* says it is stepping is, however steps, pauses and resumes overlap.
SteppingIsStepping == control = "stepping" => \E d \in Drivers : Stepping(d)

\* A pause that no step crosses is still there after the steps taken under it.
PauseOutlivesSteps == off = "held" => control \in {"paused", "stepping"}

Checkpoints == {ring[i] : i \in DOMAIN ring} \cup recovery

\* A task is queued or remembered, never both, now and in every checkpoint a
\* rewind may return to; unless a cycle crosses the await inside a restore.
TasksAreInOnePlace ==
  ~crossed => /\ restoring = {} => graph \cap queue = {}
              /\ \A c \in Checkpoints : c.graph \cap c.queue = {}

\* "tool goals are executed rather than being added to memory as plain goals":
\* all but those queued, or put back by a rewind, while goals were dispatched.
OnlyLateGoalsAreRemembered ==
  /\ graph \cap ToolGoals \subseteq late
  /\ \A c \in Checkpoints : c.graph \cap ToolGoals \subseteq late

\* "never advances the kernel past its window budget", while beats do not
\* overlap, none throws and no rewind lands in one.
WindowHeld == ~blurred => beaten <= WindowMax

\* "`pause()` is the off switch": after a pause, until a resume, the kernel is
\* not running.  (Violated: the finally of a step that was under way undoes it.)
PauseHolds == off # "no" => control # "running"

\* "The newest checkpoint at or before `cycle`".  (Violated: after a rewind the
\* same cycle comes again, and the first of two is picked.)
NewestIsPicked ==
  \A i, j \in DOMAIN ring, c \in 0..cycleCount :
    Picks(i, c) /\ ring[j].cycle = ring[i].cycle => j <= i

\* "never advances the kernel past its window budget".  (Violated: by beats that
\* overlap, by a rewind within one and by one that throws.)
WindowIsBounded == beaten <= WindowMax

\* "tool goals are executed rather than being added to memory as plain goals".
\* (Violated: one queued while another is awaited is not in the snapshot.)
ToolGoalsAreExecuted == graph \cap ToolGoals = {}

\* "Take ownership of the goal": what is executed was queued then.  (Violated:
\* two cycles walk the same snapshot, or the goal's deadline passed meanwhile.)
GoalsAreOwned ==
  [][\A d \in Drivers : \A g \in ToolGoals : Dispatch(d, g) => g \in queue]_cycleVars
=============================================================================

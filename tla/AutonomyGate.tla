---------------------------- MODULE AutonomyGate ----------------------------
(***************************************************************************)
(* The autonomy mode of the kernel's action gate and its durability:       *)
(* KernelActionGate.requestModeChange, the bounded log of mode changes,    *)
(* GateEventLedger.flush and replayInto, and NAR's start, stop and crash,  *)
(* over the Ledger they write to.  A row's key is the event it holds: its  *)
(* number and the mode it changed to.  The other gates' events share the   *)
(* files; they change no gate's state when they are replayed.              *)
(***************************************************************************)
EXTENDS Ledger

CONSTANTS RingSize,     \* GATE_LOG_CAPACITY
          DefaultMode,  \* the mode a gate is configured with
          MaxChanges    \* bound: mode changes

\* MODE_ORDER; LEGAL_TRANSITIONS goes one step at a time.
Modes == 1 .. 5

ASSUME GateConstants ==
  /\ RingSize \in Nat \ {0} /\ DefaultMode \in 1 .. 3 /\ MaxChanges \in Nat
  /\ (1 .. MaxChanges) \X Modes \subseteq Keys

VARIABLES mode,       \* autonomyMode
          ring,       \* autonomyLog
          seen,       \* GateEventLedger.#seen
          nar,        \* where start and stop are
          flushing,   \* what a flush under way was called by
          saved,      \* whether the persister has files to load
          changes,    \* history: mode changes made
          granted     \* history: modes someone other than the system asked for

gateVars == <<mode, ring, seen, nar, flushing, saved, changes, granted>>
vars == <<ledgerVars, gateVars>>

Sandbox == 3
Authorities == {"human", "system"}

GateInit ==
  /\ LedgerInit /\ ~compacts
  /\ mode = DefaultMode /\ ring = <<>> /\ seen = {}
  /\ nar = "built" /\ flushing = "no" /\ saved = FALSE
  /\ changes = 0 /\ granted = {}

Event(n, m) == <<n, m>>
\* Mutant: a restore pushes without the cap.
LoggedUnbounded(events) == events
Logged(events) == Newest(events, RingSize)

-----------------------------------------------------------------------------
(* KernelActionGate.                                                         *)

\* Mutant: only the last step needs a human.
RefusedAtTheTop(new, by) == new > mode /\ new > Sandbox + 1 /\ by = "system"
Refused(new, by) == new > mode /\ new > Sandbox /\ by = "system"

\* requestModeChange, when it changes the mode.
RequestModeChange(new, by) ==
  /\ flushing = "no" /\ changes < MaxChanges
  /\ new \in {mode - 1, mode + 1} /\ ~ Refused(new, by)
  /\ mode' = new /\ changes' = changes + 1
  /\ ring' = Logged(Append(ring, Event(changes + 1, new)))
  /\ granted' = IF by = "system" THEN granted ELSE granted \cup {new}
  /\ UNCHANGED <<seen, nar, flushing, saved>> /\ UNCHANGED ledgerVars

-----------------------------------------------------------------------------
(* GateEventLedger.flush: one event after the other, nothing in between but  *)
(* the end of the process.                                                   *)

Unseen == Selected(ring, {i \in DOMAIN ring : ring[i][1] \notin seen})

\* maybeFlush at the end of a cycle, and stop.
BeginFlush(caller) ==
  /\ nar = "started" /\ flushing = "no"
  /\ flushing' = caller
  /\ UNCHANGED <<mode, ring, seen, nar, saved, changes, granted>> /\ UNCHANGED ledgerVars

FlushEvent ==
  /\ flushing # "no" /\ Unseen # <<>>
  /\ AppendRow(Head(Unseen))
  /\ seen' = seen \cup {Head(Unseen)[1]}
  /\ UNCHANGED <<mode, ring, nar, flushing, saved, changes, granted>>

\* The exception leaves flush; stop does not get to save.
FlushThrows ==
  /\ flushing # "no" /\ Unseen # <<>>
  /\ AppendThrows(Head(Unseen))
  /\ seen' = seen \cup {Head(Unseen)[1]} /\ flushing' = "no"
  /\ UNCHANGED <<mode, ring, nar, saved, changes, granted>>

\* flush is over; stop goes on to save.
EndFlush ==
  /\ flushing # "no" /\ Unseen = <<>>
  /\ flushing' = "no"
  /\ IF flushing = "stop" THEN nar' = "stopped" /\ saved' = TRUE ELSE UNCHANGED <<nar, saved>>
  /\ UNCHANGED <<mode, ring, seen, changes, granted>> /\ UNCHANGED ledgerVars

-----------------------------------------------------------------------------
(* start, and the end of a process.                                          *)

Persisted == [i \in DOMAIN Scan |-> Scan[i].key]

\* Mutant: the mode the log began at.
RestoredFirst == IF Persisted = <<>> THEN mode ELSE Persisted[1][2]
\* restoreEventLogs: the newMode of the last autonomy event read.
Restored == IF Persisted = <<>> THEN mode ELSE Persisted[Len(Persisted)][2]

\* Mutant: replayed events are not adopted.
AdoptNothing == seen
Adopted == seen \cup {Persisted[i][1] : i \in DOMAIN Persisted}

\* start: load awaits the files, then replays the log if there was any state.
BeginStart ==
  /\ nar \in {"built", "stopped"} /\ nar' = "loading"
  /\ UNCHANGED <<mode, ring, seen, flushing, saved, changes, granted>> /\ UNCHANGED ledgerVars

Replay ==
  /\ nar = "loading" /\ saved
  /\ mode' = Restored /\ seen' = Adopted
  /\ ring' = Logged(ring \o Persisted)
  /\ nar' = "started"
  /\ UNCHANGED <<flushing, saved, changes, granted>> /\ UNCHANGED ledgerVars

StartFresh ==
  /\ nar = "loading" /\ ~ saved /\ nar' = "started"
  /\ UNCHANGED <<mode, ring, seen, flushing, saved, changes, granted>> /\ UNCHANGED ledgerVars

\* The process ends, wherever it is, and another is built.
Die ==
  /\ Restart
  /\ mode' = DefaultMode /\ ring' = <<>> /\ seen' = {}
  /\ nar' = "built" /\ flushing' = "no"
  /\ UNCHANGED <<saved, changes, granted>>

\* What the ledger does meanwhile.
LedgerStep ==
  /\ Midnight \/ \E cutoff \in sweeps : Sweep(cutoff)
  /\ UNCHANGED gateVars

GateNext ==
  \/ \E new \in Modes, by \in Authorities : RequestModeChange(new, by)
  \/ \E caller \in {"cycle", "stop"} : BeginFlush(caller)
  \/ FlushEvent \/ FlushThrows \/ EndFlush
  \/ BeginStart \/ Replay \/ StartFresh \/ Die
  \/ LedgerStep

GateSpec == GateInit /\ [][GateNext]_vars

-----------------------------------------------------------------------------
(* Properties.                                                               *)

EventsOnDisk == {Persisted[i] : i \in DOMAIN Persisted}

\* Shapes and the bound of the ring.
GateTypeOK ==
  /\ mode \in Modes /\ Len(ring) <= RingSize
  /\ \A i \in DOMAIN ring : ring[i] \in (1 .. changes) \X Modes
  /\ seen \subseteq 1 .. changes
  /\ nar \in {"built", "loading", "started", "stopped"} /\ flushing \in {"no", "cycle", "stop"}
  /\ saved \in BOOLEAN /\ granted \subseteq Modes

\* A gate is beyond the sandbox only in a mode that someone other than the
\* system once asked for, whatever was lost, replayed or replayed out of order.
BeyondSandboxWasGranted == mode > Sandbox => mode \in granted

\* A mode change is in the ledger once, however often it is replayed and flushed.
ChangesWrittenOnce == Cardinality(EventsOnDisk) = Len(Persisted)

\* As long as no day overflowed its first file, a replay that finds the newest
\* mode change in the ledger leaves the gate in the mode that change made.
ReplayResumesInOrder ==
  [][nar = "loading" /\ nar' = "started" /\ Ascending(Scan) =>
       \A e \in EventsOnDisk : saved /\ e[1] = changes => mode' = e[2]]_vars

-----------------------------------------------------------------------------
(* What a comment of the code says and the code does not do.                 *)

\* restoreEventLogs: the mode the log "ends at is restored with it", "so the log
\* and the gate cannot disagree after a restart".
ReplayResumesTheLog ==
  [][nar = "loading" /\ nar' = "started" /\ saved =>
       \A e \in EventsOnDisk : e[1] = changes => mode' = e[2]]_vars

\* flush: "Append every not-yet-written gate event".
FlushWritesAll ==
  [][flushing # "no" /\ flushing' = "no" /\ nar' # "built" /\ Unseen = <<>> =>
       \A i \in DOMAIN ring : ring[i][1] \in {k[1] : k \in EventsOnDisk}]_vars
=============================================================================

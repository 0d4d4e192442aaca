----------------------------- MODULE FocusMemory -----------------------------
(***************************************************************************)
(* nar/src/focus/Focus.ts: a Focus's concept memory, a priority bag, and   *)
(* the by-id index over it that is rebuilt when the bag's version moves.   *)
(* conceptsById is kept as its set of ids: an id whose concept the bag no  *)
(* longer holds maps to a detached object that nothing else reads.         *)
(***************************************************************************)
EXTENDS PriorityBag

VARIABLES conceptsById,   \* ids the index can find
          indexVersion    \* the bag version the index was built for

indexVars == <<conceptsById, indexVersion>>
focusVars == <<list, totalPriority, tree, treeStale, version, pressureLevel,
               conceptsById, indexVersion>>

IdsOf(s) == {s[k].item : k \in DOMAIN s}
MaxOf(p, q) == IF p >= q THEN p ELSE q

\* rebuildIndexes: the index a reader of it sees.
CurrentIndex == IF indexVersion = version THEN conceptsById ELSE Present

FocusInit == Init /\ conceptsById = {} /\ indexVersion = -1

\* addConcept of a known id: the object's priority is raised where it stands.
Raise(id, priority) ==
  /\ id \in CurrentIndex
  /\ list' = [k \in DOMAIN list |->
                IF list[k].item = id
                THEN [list[k] EXCEPT !.priority = MaxOf(@, priority)] ELSE list[k]]
  /\ conceptsById' = CurrentIndex
  /\ indexVersion' = version
  /\ UNCHANGED <<totalPriority, tree, treeStale, version, pressureLevel>>

\* Mutant: the version is recorded, the new id is not.
AdmitUnindexed(id, priority) ==
  /\ id \notin CurrentIndex
  /\ Add(id, priority)
  /\ conceptsById' = CurrentIndex
  /\ indexVersion' = version'

\* addConcept of an unknown id the memory takes.
Admit(id, priority) ==
  /\ id \notin CurrentIndex
  /\ Add(id, priority)
  /\ conceptsById' = CurrentIndex \cup {id}
  /\ indexVersion' = version'

\* addConcept of an unknown id the memory refuses.
Refuse(id, priority) ==
  /\ id \notin CurrentIndex
  /\ ~Room /\ (Capacity = 0 \/ ~Overflows(priority))
  /\ conceptsById' = CurrentIndex
  /\ indexVersion' = version
  /\ UNCHANGED bagVars

\* getNALDerivations: a read that refreshes the index.
ReadIndex ==
  /\ conceptsById' = CurrentIndex
  /\ indexVersion' = version
  /\ UNCHANGED bagVars

\* step's closing decay of the memory, and the pressure telemetry.
Age(keep) == Decay(keep) /\ UNCHANGED indexVars
ReportPressure == Pressure /\ UNCHANGED indexVars

FocusNext ==
  \/ \E id \in Items, p \in Priorities : Raise(id, p) \/ Admit(id, p) \/ Refuse(id, p)
  \/ ReadIndex \/ ReportPressure
  \/ \E keep \in KeepRates : Age(keep)

FocusSpec == FocusInit /\ [][FocusNext]_focusVars

-----------------------------------------------------------------------------
(* Properties.                                                              *)

\* The memory is a bag of concepts within its capacity, the index a set of ids
\* stamped with a version the bag has had.
FocusTypeOK ==
  /\ list \in Seq(Entry) /\ Len(list) <= Capacity
  /\ conceptsById \subseteq Items /\ indexVersion \in -1 .. MaxVersion

\* A term has one concept: processing a belief twice never splits it, however
\* admissions, evictions and decays interleave with stale and fresh indexes.
NoDuplicates ==
  \A i, j \in DOMAIN list : list[i].item = list[j].item => i = j

\* An index that claims to be current misses nothing the memory holds: what
\* NoDuplicates rests on.
IndexCoversMemory == indexVersion = version => Present \subseteq conceptsById

-----------------------------------------------------------------------------
(* What a comment of the code says and the code does not do.                 *)

\* addConcept's comment: the bag never evicts on add, "so a taken entry leaves
\* the index current": an index that claims to be current names nothing else.
IndexIsCurrent == indexVersion = version => conceptsById \subseteq Present
=============================================================================

----------------------------- MODULE ProposalSeam -----------------------------
(***************************************************************************)
(* The proposal seam: the producer of StreamReasoner, with                 *)
(* nar/src/proposal/lifecycle.ts, the rule table it admits to              *)
(* (nar/src/rules/impls/rule-table.ts) and the authorize stage of a cycle  *)
(* (nar/src/nar-execution.ts).  At a boundary the settled derivations      *)
(* become content proposals; they and the queued rule proposals are        *)
(* judged, committed to the log one by one, and what comes back is put     *)
(* into memory as far as a budget goes.                                    *)
(***************************************************************************)
EXTENDS StreamReasoner

CONSTANTS StampOf,    \* the id of the stamp the results of a work share
          Proposals,  \* rule proposals, each submitted at most once
          RuleOf,     \* the rule id one declares
          References, \* the concepts one read
          Builtin,    \* rule ids of the shipped table
          Bodied,     \* proposals that name a body
          Resolvable, \* those whose body is implemented
          MaxContent, MaxRules

ASSUME SeamAssumption ==
  /\ DOMAIN StampOf = Works /\ DOMAIN RuleOf = Proposals
  /\ References \in [Proposals -> SUBSET Concepts] /\ Resolvable \subseteq Bodied /\ Bodied \subseteq Proposals
  /\ MaxContent \in Nat \ {0} /\ MaxRules \in Nat

VARIABLES resident,  \* concepts memory holds
          rules,     \* ProposalLifecycle.rules: proposals and their baseRevision
          revision,  \* ProposalLifecycle.revision
          events,    \* what was recorded
          table,     \* the admitted entries of the RuleTableStore
          returned,  \* what takeDerived returned, until authorize put it in
          memory,    \* derivations of the seam that reached memory
          submitted, \* history: proposals submitted
          drained, handed \* history: derivations taken, and handed to authorize

lifecycleVars == <<rules, revision, events, table, returned, memory, submitted, drained, handed>>
seamVars == <<srVars, resident, lifecycleVars>>

SeamInit ==
  /\ SRInit /\ resident = Concepts
  /\ rules = <<>> /\ revision = 0 /\ events = <<>> /\ table = <<>>
  /\ returned = <<>> /\ memory = {} /\ submitted = {} /\ drained = {} /\ handed = {}

Rejection(id, reason) == [type |-> "rejected", id |-> id, reason |-> reason, revision |-> revision]

\* Mutant: a verdict carries the revision after the one it was judged against.
AdmissionOfVerdict(id, kind, n) ==
  [type |-> "admitted", id |-> id, kind |-> kind, revision |-> revision + 1]

\* commit: each admission of a batch is a revision of its own; it names no
\* declaration, of a rule neither.
Admission(id, kind, n) ==
  [type |-> "admitted", id |-> id, kind |-> kind, revision |-> revision + n]

-----------------------------------------------------------------------------

\* submitRule: a full queue refuses, and says so.
SubmitRule(p, base) ==
  /\ p \notin submitted /\ submitted' = submitted \cup {p}
  /\ IF Len(rules) >= MaxRules
     THEN events' = Append(events, Rejection(p, "queue-overflow")) /\ UNCHANGED rules
     ELSE rules' = Append(rules, [id |-> p, base |-> base]) /\ UNCHANGED events
  /\ UNCHANGED <<srVars, resident, revision, table, returned, memory, drained, handed>>

\* The content queue fills up in one boundary: the oldest are displaced.
Displaced == Len(derived) - Len(Capped(derived, MaxContent))

\* judge, of the i-th derivation: its base is the committed revision, and what it
\* is told to have read must resolve.
Resolves(i) == i > Len(premises) \/ premises[i] \in resident

Clear == {i \in Displaced + 1 .. Len(derived) : Resolves(i)}
IdAt(i) == StampOf[derived[i][1]]

\* The derivations that clear, in order, and those whose reference does not
\* resolve.
Positions == [i \in 1 .. Len(derived) |-> i]
ClearInOrder == Selected(Positions, Clear)
Unresolved == Selected(Positions, (Displaced + 1 .. Len(derived)) \ Clear)

\* Each is looked up by its proposal id, under which the last one landed.
Landed(id) == derived[CHOOSE i \in 1 .. Len(derived) :
                /\ IdAt(i) = id /\ \A j \in i + 1 .. Len(derived) : IdAt(j) # id]

\* judge, of a rule: against the revision the boundary found.
IsStale(r) == r.base # revision
Evicted(r) == ~(References[r.id] \subseteq resident)
IsFresh(r) == ~IsStale(r) /\ ~Evicted(r) /\ r.id \in Bodied
Fresh == Selected(rules, {i \in DOMAIN rules : IsFresh(rules[i])})
Unfit == Selected(rules, {i \in DOMAIN rules : ~IsFresh(rules[i])})

\* RuleTableStore.admit throws for a second entry of a rule id and for a body
\* nothing implements; what was to be committed after it is not.
Admits(k) ==
  /\ Fresh[k].id \in Resolvable
  /\ RuleOf[Fresh[k].id] \notin Builtin \cup {RuleOf[table[j].id] : j \in 1 .. Len(table)}
                                        \cup {RuleOf[Fresh[j].id] : j \in 1 .. k - 1}
Throwing == {k \in 1 .. Len(Fresh) : ~Admits(k)}
Committed == IF Throwing = {} THEN Len(Fresh) ELSE CHOOSE k \in Throwing : \A j \in Throwing : k <= j

\* What a boundary records: displaced content, refusals, admissions.
Refusals ==
  [i \in 1 .. Displaced |-> Rejection(IdAt(i), "queue-overflow")]
    \o [k \in 1 .. Len(Unresolved) |-> Rejection(IdAt(Unresolved[k]), "evicted-reference")]
    \o [k \in 1 .. Len(Unfit) |->
          Rejection(Unfit[k].id, IF IsStale(Unfit[k]) THEN "stale-revision"
                                  ELSE IF Evicted(Unfit[k]) THEN "evicted-reference"
                                  ELSE "failed-schema")]

Admissions ==
  [k \in 1 .. Len(ClearInOrder) |-> Admission(IdAt(ClearInOrder[k]), "content", k)]
    \o [k \in 1 .. Committed |-> Admission(Fresh[k].id, "rule", Len(ClearInOrder) + k)]

\* The entries the table takes.  It would also throw at a revision that is not
\* past its own, but each admission here advances the one revision there is.
Admitted ==
  [k \in 1 .. Committed - (IF Throwing = {} THEN 0 ELSE 1) |->
     [id |-> Fresh[k].id, revision |-> revision + Len(ClearInOrder) + k]]

\* takeDerived: a throw loses what was to be returned.
Take ==
  /\ returned = <<>> /\ (derived # <<>> \/ rules # <<>>)
  /\ Drain
  /\ drained' = drained \cup {derived[i] : i \in 1 .. Len(derived)}
  /\ rules' = <<>>
  /\ events' = events \o Refusals \o Admissions
  /\ revision' = revision + Len(Admissions)
  /\ table' = table \o Admitted
  /\ returned' = IF Throwing = {}
                 THEN [k \in 1 .. Len(ClearInOrder) |-> Landed(IdAt(ClearInOrder[k]))] ELSE <<>>
  /\ handed' = handed \cup {returned'[k] : k \in 1 .. Len(returned')}
  /\ UNCHANGED <<resident, memory, submitted>>

\* authorize admits what was returned until the budget of applications is
\* spent; the rest is dropped.
Apply(n) ==
  /\ returned # <<>> /\ n <= Len(returned)
  /\ memory' = memory \cup {returned[i] : i \in 1 .. n}
  /\ returned' = <<>>
  /\ UNCHANGED <<srVars, resident, rules, revision, events, table, submitted, drained, handed>>

\* Memory forgets a concept, or takes it up again.
Turnover(c) ==
  /\ resident' = IF c \in resident THEN resident \ {c} ELSE resident \cup {c}
  /\ UNCHANGED <<srVars, lifecycleVars>>

SeamNext ==
  \/ SRStep /\ UNCHANGED <<resident, lifecycleVars>>
  \/ \E p \in Proposals, base \in 0 .. revision : SubmitRule(p, base)
  \/ Take
  \/ \E n \in 0 .. Len(returned) : Apply(n)
  \/ \E c \in Concepts : Turnover(c)

SeamSpec == SeamInit /\ [][SeamNext]_seamVars

-----------------------------------------------------------------------------

SeamEvent ==
  [type : {"rejected"}, id : Proposals \cup Range(StampOf), revision : Nat,
   reason : {"queue-overflow", "stale-revision", "evicted-reference", "failed-schema"}]
  \cup [type : {"admitted"}, id : Proposals \cup Range(StampOf), revision : Nat,
        kind : {"content", "rule"}]

SeamTypeOK ==
  /\ SRTypeOK /\ resident \subseteq Concepts
  /\ rules \in Seq([id : Proposals, base : Nat]) /\ revision \in Nat
  /\ events \in Seq(SeamEvent) /\ table \in Seq([id : Proposals, revision : Nat])
  /\ returned \in Seq(Derivations) /\ memory \subseteq Derivations
  /\ submitted \subseteq Proposals /\ drained \subseteq Derivations /\ handed \subseteq drained

AdmissionsTold == Selected(events, {k \in DOMAIN events : events[k].type = "admitted"})
IsTold(kind, id) ==
  \E k \in 1 .. Len(events) :
    events[k].type = "admitted" /\ events[k].kind = kind /\ events[k].id = id

\* "The event that records admission is the source of truth": the k-th admission
\* of the log states revision k, the lifecycle stands at the last, and nothing
\* is in the table or in memory that the log did not admit, the table at the
\* revision the log states.
LogExplainsState ==
  /\ revision = Len(AdmissionsTold)
  /\ \A k \in 1 .. revision : AdmissionsTold[k].revision = k
  /\ \A k \in 1 .. Len(table) :
       /\ table[k].revision <= revision
       /\ AdmissionsTold[table[k].revision].kind = "rule"
       /\ AdmissionsTold[table[k].revision].id = table[k].id
  /\ \A d \in memory : IsTold("content", StampOf[d[1]])

\* RuleTableStore.fromEvents: the rules of those admissions that name one.
FromEvents ==
  LET told == SelectSeq(AdmissionsTold, LAMBDA e : e.kind = "rule" /\ "declaration" \in DOMAIN e)
  IN [k \in 1 .. Len(told) |-> [id |-> told[k].id, revision |-> told[k].revision]]

\* "A rule admission carries the declaration it admitted, so the table can be
\* reconstructed from the log alone."  (Violated: commit records none.)
TableIsTheLog == table = FromEvents

\* "a task is absent because the lifecycle refused it with a recorded reason,
\* never because the gate silently ate it": every derivation taken at a boundary
\* is handed on or its proposal was rejected.  (Violated: the results of one
\* work share the stamp that names their proposals, so that the last stands in
\* for all; and a rule the table throws at takes the boundary's results along.)
AbsentMeansRefused ==
  \A d \in drained \ handed :
    \E k \in 1 .. Len(events) : events[k].type = "rejected" /\ events[k].id = StampOf[d[1]]
=============================================================================

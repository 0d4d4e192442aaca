------------------------------ MODULE Approval ------------------------------
(***************************************************************************)
(* core/src/ApprovalService.ts: a request for approval, the registry of    *)
(* pending ones, and the race between whoever answers it and the deadline  *)
(* of the caller that awaits it.  The deadline's rejection reaches the     *)
(* caller as a later microtask, so an answer may come in between.          *)
(***************************************************************************)
EXTENDS Naturals

CONSTANT Requests   \* requests under way at a time

VARIABLES headless, \* CI or SENARS_HEADLESS
          pending,  \* InMemoryApprovalManager.pending
          promise,  \* what the request's promise resolved to
          caller,   \* where requestApproval is
          verdict   \* what requestApproval returned

approvalVars == <<headless, pending, promise, caller, verdict>>

Answers == {"granted", "refused"}

Init ==
  /\ headless \in BOOLEAN
  /\ pending = {} /\ promise = [r \in Requests |-> "open"]
  /\ caller = [r \in Requests |-> "none"] /\ verdict = [r \in Requests |-> "none"]

-----------------------------------------------------------------------------

\* requestApproval up to its await.
Ask(r) ==
  /\ ~headless /\ caller[r] \in {"none", "returned"}
  /\ pending' = pending \cup {r}
  /\ promise' = [promise EXCEPT ![r] = "open"]
  /\ caller' = [caller EXCEPT ![r] = "awaiting"]
  /\ verdict' = [verdict EXCEPT ![r] = "none"]
  /\ UNCHANGED headless

\* requestApproval when headless: refused at once; an observer of the request
\* may have answered its promise first.
AskHeadless(r, first) ==
  /\ headless /\ caller[r] \in {"none", "returned"}
  /\ promise' = [promise EXCEPT ![r] = first]
  /\ caller' = [caller EXCEPT ![r] = "returned"]
  /\ verdict' = [verdict EXCEPT ![r] = "refused"]
  /\ UNCHANGED <<headless, pending>>

\* resolveApproval of a pending request; of another one it returns false.
Answer(r, answer) ==
  /\ r \in pending
  /\ pending' = pending \ {r}
  /\ promise' = [promise EXCEPT ![r] = answer]
  /\ caller' = [caller EXCEPT ![r] = IF @ = "awaiting" THEN "answered" ELSE @]
  /\ UNCHANGED <<headless, verdict>>

\* The deadline wins the race.
Expire(r) ==
  /\ caller[r] = "awaiting"
  /\ caller' = [caller EXCEPT ![r] = "expired"]
  /\ UNCHANGED <<headless, pending, promise, verdict>>

Return(r, v) ==
  /\ caller' = [caller EXCEPT ![r] = "returned"]
  /\ verdict' = [verdict EXCEPT ![r] = v]

\* Mutant: the promise is read, not awaited.
ResumeEarly(r) ==
  /\ caller[r] \in {"awaiting", "answered"}
  /\ Return(r, promise[r])
  /\ UNCHANGED <<headless, pending, promise>>

\* The await resumes with the answer.
Resume(r) ==
  /\ caller[r] = "answered"
  /\ Return(r, promise[r])
  /\ UNCHANGED <<headless, pending, promise>>

\* Mutant: the caller leaves the request to a resolver that is not coming.
GiveUpSilently(r) ==
  /\ caller[r] = "expired"
  /\ Return(r, "refused")
  /\ UNCHANGED <<headless, pending, promise>>

\* Mutant: after a timeout the question is put again.
GiveUpAsksAgain(r) ==
  /\ caller[r] = "expired"
  /\ pending' = pending \cup {r}
  /\ promise' = [promise EXCEPT ![r] = "open"]
  /\ caller' = [caller EXCEPT ![r] = "awaiting"]
  /\ UNCHANGED <<headless, verdict>>

\* Mutant: what an answer that came too late said is returned.
GiveUpWithLateAnswer(r) ==
  /\ caller[r] = "expired"
  /\ pending' = pending \ {r}
  /\ Return(r, IF promise[r] = "open" THEN "granted" ELSE promise[r])
  /\ UNCHANGED <<headless, promise>>

\* The catch: answer the request if nobody has, and refuse.
GiveUp(r) ==
  /\ caller[r] = "expired"
  /\ pending' = pending \ {r}
  /\ promise' = [promise EXCEPT ![r] = IF r \in pending THEN "refused" ELSE @]
  /\ Return(r, "refused")
  /\ UNCHANGED headless

Next ==
  \E r \in Requests :
    \/ Ask(r) \/ Expire(r) \/ Resume(r) \/ GiveUp(r)
    \/ \E answer \in Answers : Answer(r, answer) \/ AskHeadless(r, answer)

\* Timers fire and microtasks run; nobody has to answer.
Fairness == \A r \in Requests : WF_approvalVars(Expire(r)) /\ WF_approvalVars(Resume(r) \/ GiveUp(r))
Spec == Init /\ [][Next]_approvalVars /\ Fairness

-----------------------------------------------------------------------------
(* Properties.                                                               *)

\* The states a request and its caller can be in.
TypeOK ==
  /\ headless \in BOOLEAN /\ pending \subseteq Requests
  /\ promise \in [Requests -> Answers \cup {"open"}]
  /\ caller \in [Requests -> {"none", "awaiting", "answered", "expired", "returned"}]
  /\ verdict \in [Requests -> Answers \cup {"none"}]

\* The pending map holds exactly the requests whose promise is open, and none
\* that its caller has stopped waiting for: "`pending` grew by one entry per
\* timeout".
PendingIsAwaited ==
  \A r \in Requests :
    /\ r \in pending <=> caller[r] # "none" /\ promise[r] = "open"
    /\ r \in pending => caller[r] # "returned"

\* A gate opens only on an answer: a caller is told granted only if somebody
\* granted the very request it awaits, never by a timeout or a headless run.
GrantedByAnAnswer == \A r \in Requests : verdict[r] = "granted" => promise[r] = "granted" /\ ~headless

\* Every request is decided, whether or not anyone answers, also when the answer
\* comes between the deadline and the caller's reaction to it.
EventuallyDecided == \A r \in Requests : (caller[r] # "none") ~> (caller[r] = "returned")
=============================================================================

----------------------------- MODULE Approvals -----------------------------
(***************************************************************************)
(* Human approval of remediations: Propose inserts a remediation and then, *)
(* in a second transaction, its approval request; people decide or cancel  *)
(* it through any API replica; every replica sweeps for requests that      *)
(* expired or are due for escalation.  A replica reads before it locks, so *)
(* its view may be stale when its transaction runs, and it may crash       *)
(* between two transactions.                                               *)
(***************************************************************************)
EXTENDS Integers, FiniteSets, RemediationStates

CONSTANTS
    Rems,           \* remediations whose policy decision requires approval
    Replicas,       \* API processes
    Actors,         \* operators
    AllowSelf,      \* Service.allowSelf
    EscalateAfter,  \* Service.escalateAfter
    Timeout,        \* Service.timeout
    Horizon         \* bound: the last instant of the clock

ASSUME ApprovalsAssumption ==
    /\ IsFiniteSet(Rems)
    /\ AllowSelf \in BOOLEAN
    /\ EscalateAfter \in Nat \ {0}
    /\ Timeout \in Nat
    /\ EscalateAfter < Timeout
    /\ Horizon \in Nat

VARIABLES
    now,          \* wall clock, the same for every replica
    status,       \* remediation_actions.status, "none" before the insert
    proposedBy,   \* remediation_actions.proposed_by
    request,      \* approval_requests.status, "none" before the insert
    escalatesAt,  \* approval_requests.escalates_at
    expiresAt,    \* approval_requests.expires_at
    escalated,    \* approval_requests.escalated_at IS NOT NULL
    decidedBy,    \* approval_requests.decided_by
    decidedAt,    \* approval_requests.decided_at
    notices,      \* escalation notifications sent: 0, 1 or 2 for several
    call,         \* the API call a replica is serving
    sweep,        \* the sweep a replica is running
    gauge         \* argus_approvals_pending of each replica

requestVars == <<request, escalatesAt, expiresAt, escalated, decidedBy, decidedAt>>
rowVars == <<status, proposedBy, requestVars>>
vars == <<now, rowVars, notices, call, sweep, gauge>>

Decisions == {"approve", "deny"}
Requests == {"none", "pending", "approved", "denied", "cancelled", "expired"}
Calls ==
    [pc: {"idle"}]
        \cup [pc: {"request", "cancel"}, rem: Rems]
        \cup [pc: {"decide"}, rem: Rems, actor: Actors, decision: Decisions, started: Nat]
Sweeps ==
    [pc: {"idle"}]
        \cup [pc: {"expire"}, now: Nat, due: SUBSET Rems, expired: Nat]
        \cup [pc: {"escalate"}, due: SUBSET Rems]
        \cup [pc: {"mark"}, due: SUBSET Rems, rem: Rems]
Idle == [pc |-> "idle"]

TypeOK ==
    /\ now \in Nat
    /\ status \in [Rems -> States \cup {"none"}]
    /\ proposedBy \in [Rems -> Actors]
    /\ request \in [Rems -> Requests]
    /\ escalatesAt \in [Rems -> Nat]
    /\ expiresAt \in [Rems -> Nat]
    /\ escalated \in [Rems -> BOOLEAN]
    /\ decidedBy \in [Rems -> Actors]
    /\ decidedAt \in [Rems -> Nat]
    /\ notices \in [Rems -> 0..2]
    /\ call \in [Replicas -> Calls]
    /\ sweep \in [Replicas -> Sweeps]
    /\ gauge \in [Replicas -> Int]

Init ==
    /\ now = 0
    /\ status = [r \in Rems |-> "none"]
    /\ proposedBy \in [Rems -> Actors]
    /\ request = [r \in Rems |-> "none"]
    /\ escalatesAt = [r \in Rems |-> 0]
    /\ expiresAt = [r \in Rems |-> 0]
    /\ escalated = [r \in Rems |-> FALSE]
    /\ decidedBy = proposedBy
    /\ decidedAt = [r \in Rems |-> 0]
    /\ notices = [r \in Rems |-> 0]
    /\ call = [p \in Replicas |-> Idle]
    /\ sweep = [p \in Replicas |-> Idle]
    /\ gauge = [p \in Replicas |-> 0]

Pending == {r \in Rems : request[r] = "pending"}
Begin(p, c) == call[p] = Idle /\ call' = [call EXCEPT ![p] = c]
Return(p) == call' = [call EXCEPT ![p] = Idle]
Count(p, n) == gauge' = [gauge EXCEPT ![p] = @ + n]

-----------------------------------------------------------------------------
(* Proposing.                                                              *)

\* Propose: the remediation is inserted in a transaction of its own; a repeat
\* finds it and asks for its approval again.
Propose(p, r) ==
    /\ status[r] \in {"none", "awaiting_approval"}
    /\ Begin(p, [pc |-> "request", rem |-> r])
    /\ status' = [status EXCEPT ![r] = "awaiting_approval"]
    /\ UNCHANGED <<now, proposedBy, requestVars, notices, sweep, gauge>>

\* RequestApproval: at most one request per remediation.  The bound leaves the
\* request time to expire.
RequestApproval(p) ==
    /\ call[p].pc = "request"
    /\ LET r == call[p].rem
       IN  IF request[r] # "none"
           THEN UNCHANGED <<requestVars, gauge>>
           ELSE /\ now + Timeout <= Horizon
                /\ request' = [request EXCEPT ![r] = "pending"]
                /\ escalatesAt' = [escalatesAt EXCEPT ![r] = now + EscalateAfter]
                /\ expiresAt' = [expiresAt EXCEPT ![r] = now + Timeout]
                /\ Count(p, 1)
                /\ UNCHANGED <<escalated, decidedBy, decidedAt>>
    /\ Return(p)
    /\ UNCHANGED <<now, status, proposedBy, notices, sweep>>

-----------------------------------------------------------------------------
(* Deciding and cancelling.                                                *)

validateSeparation(r, a) == AllowSelf \/ proposedBy[r] # a

\* Service.Decide up to the transaction: the clock is read here.
BeginDecide(p, r, a, d) ==
    /\ request[r] # "none"
    /\ validateSeparation(r, a)
    /\ Begin(p, [pc |-> "decide", rem |-> r, actor |-> a, decision |-> d, started |-> now])
    /\ UNCHANGED <<now, rowVars, notices, sweep, gauge>>

\* Mutant: the remediation is left waiting.
ExpireRequestOnly(r) ==
    /\ request' = [request EXCEPT ![r] = "expired"]
    /\ UNCHANGED <<status, proposedBy, escalatesAt, expiresAt, escalated, decidedBy, decidedAt>>

\* expireTx and expire: a pending request and its remediation, if that still
\* waits.
Expire(r) ==
    /\ request' = [request EXCEPT ![r] = "expired"]
    /\ status' = [status EXCEPT ![r] = IF @ = "awaiting_approval" THEN "timed_out" ELSE @]
    /\ UNCHANGED <<proposedBy, escalatesAt, expiresAt, escalated, decidedBy, decidedAt>>

\* Store.Decide.  The decision fails, and nothing is written, when the
\* remediation no longer waits.
Record(p, r, c) ==
    IF status[r] = "awaiting_approval"
    THEN /\ request' = [request EXCEPT ![r] = IF c.decision = "approve" THEN "approved" ELSE "denied"]
         /\ status' = [status EXCEPT ![r] = IF c.decision = "approve" THEN "approved" ELSE "rejected"]
         /\ decidedBy' = [decidedBy EXCEPT ![r] = c.actor]
         /\ decidedAt' = [decidedAt EXCEPT ![r] = c.started]
         /\ Count(p, -1)
         /\ UNCHANGED <<proposedBy, escalatesAt, expiresAt, escalated>>
    ELSE UNCHANGED <<rowVars, gauge>>

\* Mutants: the deadline is left to the sweep; an approval can be repeated.
DecideLate(p) ==
    /\ call[p].pc = "decide"
    /\ IF request[call[p].rem] = "pending"
       THEN Record(p, call[p].rem, call[p])
       ELSE UNCHANGED <<rowVars, gauge>>
    /\ Return(p)
    /\ UNCHANGED <<now, notices, sweep>>
DecideAgain(p) ==
    /\ call[p].pc = "decide"
    /\ LET r == call[p].rem
       IN  \/ /\ request[r] = "approved"
              /\ call[p].started < expiresAt[r]
              /\ decidedBy' = [decidedBy EXCEPT ![r] = call[p].actor]
              /\ decidedAt' = [decidedAt EXCEPT ![r] = call[p].started]
              /\ UNCHANGED <<status, proposedBy, request, escalatesAt, expiresAt, escalated, gauge>>
           \/ /\ request[r] = "pending"
              /\ call[p].started < expiresAt[r]
              /\ Record(p, r, call[p])
    /\ Return(p)
    /\ UNCHANGED <<now, notices, sweep>>

Decide(p) ==
    /\ call[p].pc = "decide"
    /\ LET r == call[p].rem
       IN  \/ /\ request[r] # "pending"
              /\ UNCHANGED <<rowVars, gauge>>
           \/ /\ request[r] = "pending"
              /\ call[p].started >= expiresAt[r]
              /\ Expire(r)
              /\ UNCHANGED gauge
           \/ /\ request[r] = "pending"
              /\ call[p].started < expiresAt[r]
              /\ Record(p, r, call[p])
    /\ Return(p)
    /\ UNCHANGED <<now, notices, sweep>>

\* Service.Cancel sends a remediation it saw awaiting approval to Approvals.
BeginCancel(p, r) ==
    /\ status[r] = "awaiting_approval"
    /\ Begin(p, [pc |-> "cancel", rem |-> r])
    /\ UNCHANGED <<now, rowVars, notices, sweep, gauge>>

\* Anybody may have called, and the clock is read when the transaction begins.
CancelByRemediation(p) ==
    /\ call[p].pc = "cancel"
    /\ LET r == call[p].rem
       IN  IF request[r] = "pending" /\ status[r] = "awaiting_approval"
           THEN /\ request' = [request EXCEPT ![r] = "cancelled"]
                /\ status' = [status EXCEPT ![r] = "cancelled"]
                /\ \E a \in Actors : decidedBy' = [decidedBy EXCEPT ![r] = a]
                /\ decidedAt' = [decidedAt EXCEPT ![r] = now]
                /\ Count(p, -1)
                /\ UNCHANGED <<proposedBy, escalatesAt, expiresAt, escalated>>
           ELSE UNCHANGED <<rowVars, gauge>>
    /\ Return(p)
    /\ UNCHANGED <<now, notices, sweep>>

\* A call ends with a database error and writes nothing.
Fail(p) ==
    /\ call[p] # Idle
    /\ Return(p)
    /\ UNCHANGED <<now, rowVars, notices, sweep, gauge>>

-----------------------------------------------------------------------------
(* What Service.Execute, Service.Cancel, workers and the reconciler do to  *)
(* an approved remediation: one conditional UPDATE each, whose condition   *)
(* on the status is the guard.  A call whose executor reports to it        *)
(* (Helios) gives its reservation back when that fails.                    *)

Update(r, from, to) ==
    /\ status[r] \in from
    /\ \E s \in to : status' = [status EXCEPT ![r] = s]
    /\ UNCHANGED <<now, proposedBy, requestVars, notices, call, sweep, gauge>>

\* Mutant: the release does not ask whether the remediation is still queued.
ReleaseRunning(r) == Update(r, {"queued", "running"}, {"approved"})

MarkRemediationQueued(r) == Update(r, {"approved"}, {"queued"})
ReleaseRemediationQueueReservation(r) == Update(r, {"queued"}, {"approved"})
ClaimRemediation(r) == Update(r, {"queued", "running"}, {"running"})
CompleteRemediation(r) == Update(r, {"queued", "running"}, {"succeeded", "failed", "timed_out"})
CancelRemediation(r) == Update(r, {"approved", "queued"}, {"cancelled"})
Progress(r) ==
    \/ MarkRemediationQueued(r) \/ ReleaseRemediationQueueReservation(r)
    \/ ClaimRemediation(r) \/ CompleteRemediation(r) \/ CancelRemediation(r)

-----------------------------------------------------------------------------
(* processDue, one transaction or notification per step.                   *)

Sweep(p, s) == sweep' = [sweep EXCEPT ![p] = s]

\* Mutant: only escalated requests expire.
StartSweepEscalated(p) ==
    /\ sweep[p] = Idle
    /\ Sweep(p, [pc |-> "expire", now |-> now, expired |-> 0,
                 due |-> {r \in Pending : escalated[r] /\ expiresAt[r] <= now}])
    /\ UNCHANGED <<now, rowVars, notices, call, gauge>>

StartSweep(p) ==
    /\ sweep[p] = Idle
    /\ Sweep(p, [pc |-> "expire", now |-> now, expired |-> 0,
                 due |-> {r \in Pending : expiresAt[r] <= now}])
    /\ UNCHANGED <<now, rowVars, notices, call, gauge>>

\* Store.expire of one listed request.
ExpireDue(p, r) ==
    /\ sweep[p].pc = "expire"
    /\ r \in sweep[p].due
    /\ IF request[r] = "pending"
       THEN Expire(r) /\ Sweep(p, [sweep[p] EXCEPT !.due = @ \ {r}, !.expired = @ + 1])
       ELSE UNCHANGED rowVars /\ Sweep(p, [sweep[p] EXCEPT !.due = @ \ {r}])
    /\ UNCHANGED <<now, notices, call, gauge>>

\* DueEscalations, after the expiries or after an error among them: then the
\* expired ones are not counted.
DueEscalations(p) ==
    /\ sweep[p].pc = "expire"
    /\ IF sweep[p].due = {} THEN Count(p, -sweep[p].expired) ELSE UNCHANGED gauge
    /\ Sweep(p, [pc |-> "escalate",
                 due |-> {r \in Pending : ~escalated[r] /\ escalatesAt[r] <= sweep[p].now}])
    /\ UNCHANGED <<now, rowVars, notices, call>>

\* Notify the approvers of one listed request, and mark it when that worked.
Notify(p, r) ==
    /\ sweep[p].pc = "escalate"
    /\ r \in sweep[p].due
    /\ \/ /\ Sweep(p, [pc |-> "mark", due |-> sweep[p].due \ {r}, rem |-> r])
          /\ notices' = [notices EXCEPT ![r] = IF @ = 0 THEN 1 ELSE 2]
       \/ /\ Sweep(p, [sweep[p] EXCEPT !.due = @ \ {r}])
          /\ UNCHANGED notices
    /\ UNCHANGED <<now, rowVars, call, gauge>>

MarkEscalated(p) ==
    /\ sweep[p].pc = "mark"
    /\ escalated' = [escalated EXCEPT ![sweep[p].rem] = @ \/ request[sweep[p].rem] = "pending"]
    /\ Sweep(p, [pc |-> "escalate", due |-> sweep[p].due])
    /\ UNCHANGED <<now, status, proposedBy, request, escalatesAt, expiresAt, decidedBy, decidedAt,
                   notices, call, gauge>>

EndSweep(p) ==
    /\ sweep[p] = [pc |-> "escalate", due |-> {}]
    /\ Sweep(p, Idle)
    /\ UNCHANGED <<now, rowVars, notices, call, gauge>>

\* A replica dies and starts again; Start counts the pending requests.
Restart(p) ==
    /\ call' = [call EXCEPT ![p] = Idle]
    /\ Sweep(p, Idle)
    /\ gauge' = [gauge EXCEPT ![p] = Cardinality(Pending)]
    /\ UNCHANGED <<now, rowVars, notices>>

Tick ==
    /\ now < Horizon
    /\ now' = now + 1
    /\ UNCHANGED <<rowVars, notices, call, sweep, gauge>>

Serve(p) ==
    \/ \E r \in Rems : Propose(p, r) \/ BeginCancel(p, r)
    \/ \E r \in Rems, a \in Actors, d \in Decisions : BeginDecide(p, r, a, d)
    \/ RequestApproval(p) \/ Decide(p) \/ CancelByRemediation(p) \/ Fail(p)
processDue(p) ==
    \/ StartSweep(p) \/ DueEscalations(p) \/ MarkEscalated(p) \/ EndSweep(p)
    \/ \E r \in Rems : ExpireDue(p, r) \/ Notify(p, r)

Next ==
    \/ \E p \in Replicas : Serve(p) \/ processDue(p) \/ Restart(p)
    \/ \E r \in Rems : Progress(r)
    \/ Tick

Spec == Init /\ [][Next]_vars

-----------------------------------------------------------------------------
(* Properties.                                                             *)

\* A remediation is only approved, and so only executed, on the recorded
\* decision of somebody other than its proposer, taken before the deadline:
\* Decide checks the deadline again under the row lock, with the time at which
\* the call arrived.  However often it is reserved, released and reserved
\* again, the decision it rests on stays that one.
ApprovedByAnother ==
    \A r \in Rems : status[r] \in {"approved", "queued", "running", "succeeded", "failed"} =>
        /\ request[r] = "approved"
        /\ AllowSelf \/ decidedBy[r] # proposedBy[r]
        /\ decidedAt[r] < expiresAt[r]

\* The request and the remediation tell the same story, although replicas
\* decide, cancel and expire them from stale reads while others execute: every
\* transaction of the workflow changes both or neither, and execution starts
\* from approved only.
RequestMatchesRemediation ==
    \A r \in Rems :
        /\ request[r] = "none" => status[r] \in {"none", "awaiting_approval"}
        /\ request[r] = "pending" => status[r] = "awaiting_approval"
        /\ request[r] = "denied" <=> status[r] = "rejected"
        /\ request[r] = "expired" => status[r] = "timed_out"
        /\ request[r] = "cancelled" => status[r] = "cancelled"
        /\ status[r] = "timed_out" => request[r] \in {"approved", "expired"}
        /\ status[r] = "cancelled" => request[r] \in {"approved", "cancelled"}
        /\ request[r] = "approved" => status[r] \notin {"none", "awaiting_approval"}

\* The approvers were told of every request that is marked escalated.
EscalationNotified == \A r \in Rems : escalated[r] => notices[r] > 0

\* A decision is never changed or repeated, by a racing decision, a
\* cancellation or a sweep.
DecidedOnce ==
    [][\A r \in Rems : request[r] \notin {"none", "pending"} =>
          /\ request'[r] = request[r]
          /\ decidedBy'[r] = decidedBy[r]
          /\ decidedAt'[r] = decidedAt[r]]_vars

Lifecycle == INSTANCE RemediationLifecycle WITH
    status <- [r \in Rems |-> IF status[r] = "none" THEN "awaiting_approval" ELSE status[r]],
    applied <- [r \in Rems |-> 0],
    Synchronous <- TRUE

\* Whatever decisions, cancellations, sweeps and executions race, a remediation
\* moves along the published transitions, apart from the release of a
\* reservation: nothing that was rejected, cancelled or timed out is approved
\* after all.
ImplementsLifecycle == Lifecycle!Spec

\* The inductive invariant: what has been decided was decided by a permitted
\* actor in time, which the calls in flight have already made sure of; a
\* request is only made for a remediation that was inserted.
CallInv(p) ==
    /\ call[p].pc = "request" => status[call[p].rem] # "none"
    /\ call[p].pc = "decide" => validateSeparation(call[p].rem, call[p].actor)
Inv ==
    /\ TypeOK
    /\ ApprovedByAnother
    /\ RequestMatchesRemediation
    /\ \A p \in Replicas : CallInv(p)

\* Documented: "pending requests escalate once".
NotifiedOnce == \A r \in Rems : notices[r] <= 1

\* Documented: the gauge is the "Current number of remediation approvals waiting
\* for a human decision".  Stated for a replica that is alone and at rest.
GaugeCountsPending ==
    \A p \in Replicas :
        Replicas = {p} /\ call[p] = Idle /\ sweep[p] = Idle => gauge[p] = Cardinality(Pending)

-----------------------------------------------------------------------------
(* Liveness.  Time passes, every replica's ticker starts sweeps, and no    *)
(* replica dies in the middle of every sweep.                              *)

Fairness ==
    /\ WF_vars(Tick)
    /\ \A p \in Replicas :
          /\ SF_vars(StartSweep(p))
          /\ SF_vars(DueEscalations(p))
          /\ SF_vars(MarkEscalated(p))
          /\ SF_vars(EndSweep(p))
          /\ \A r \in Rems : SF_vars(ExpireDue(p, r)) /\ SF_vars(Notify(p, r))
FairSpec == Spec /\ Fairness

\* An approval request is decided, cancelled or expired: none waits for ever.
RequestEnds == \A r \in Rems : request[r] = "pending" ~> request[r] # "pending"

=============================================================================

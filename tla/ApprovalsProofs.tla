-------------------------- MODULE ApprovalsProofs --------------------------
(* Proofs about Approvals, for any number of remediations, replicas and     *)
(* operators and any timeouts.                                             *)
EXTENDS Approvals, FiniteSetTheorems, TLAPS

\* The invariant of one remediation.
RowInv(r) ==
    /\ status[r] \in {"approved", "queued", "running", "succeeded", "failed"} =>
          /\ request[r] = "approved"
          /\ AllowSelf \/ decidedBy[r] # proposedBy[r]
          /\ decidedAt[r] < expiresAt[r]
    /\ request[r] = "none" => status[r] \in {"none", "awaiting_approval"}
    /\ request[r] = "pending" => status[r] = "awaiting_approval"
    /\ request[r] = "denied" <=> status[r] = "rejected"
    /\ request[r] = "expired" => status[r] = "timed_out"
    /\ request[r] = "cancelled" => status[r] = "cancelled"
    /\ status[r] = "timed_out" => request[r] \in {"approved", "expired"}
    /\ status[r] = "cancelled" => request[r] \in {"approved", "cancelled"}
    /\ request[r] = "approved" => status[r] \notin {"none", "awaiting_approval"}

\* The types of the rows alone.
RowType ==
    /\ status \in [Rems -> States \cup {"none"}]
    /\ proposedBy \in [Rems -> Actors]
    /\ request \in [Rems -> Requests]
    /\ escalatesAt \in [Rems -> Nat]
    /\ expiresAt \in [Rems -> Nat]
    /\ escalated \in [Rems -> BOOLEAN]
    /\ decidedBy \in [Rems -> Actors]
    /\ decidedAt \in [Rems -> Nat]

\* What a step does to the request and the remediation of r: the transactions
\* of the workflow, and everything else leaves the rows alone.
Create(r) ==
    /\ request[r] = "none"
    /\ status[r] = "awaiting_approval"
    /\ \E t \in Nat : expiresAt' = [expiresAt EXCEPT ![r] = t]
    /\ \E t \in Nat : escalatesAt' = [escalatesAt EXCEPT ![r] = t]
    /\ request' = [request EXCEPT ![r] = "pending"]
    /\ UNCHANGED <<status, proposedBy, escalated, decidedBy, decidedAt>>
Settle(r, q, s) ==
    /\ request[r] = "pending"
    /\ status[r] = "awaiting_approval"
    /\ request' = [request EXCEPT ![r] = q]
    /\ status' = [status EXCEPT ![r] = s]
    /\ UNCHANGED <<proposedBy, escalatesAt, expiresAt, escalated>>
Approve(r) ==
    /\ Settle(r, "approved", "approved")
    /\ \E a \in Actors, t \in Nat :
          /\ validateSeparation(r, a)
          /\ t < expiresAt[r]
          /\ decidedBy' = [decidedBy EXCEPT ![r] = a]
          /\ decidedAt' = [decidedAt EXCEPT ![r] = t]
Deny(r) ==
    /\ Settle(r, "denied", "rejected")
    /\ \E a \in Actors : decidedBy' = [decidedBy EXCEPT ![r] = a]
    /\ \E t \in Nat : decidedAt' = [decidedAt EXCEPT ![r] = t]
Cancel(r) ==
    /\ Settle(r, "cancelled", "cancelled")
    /\ \E a \in Actors : decidedBy' = [decidedBy EXCEPT ![r] = a]
    /\ \E t \in Nat : decidedAt' = [decidedAt EXCEPT ![r] = t]
Close(r) ==
    /\ Settle(r, "expired", "timed_out")
    /\ UNCHANGED <<decidedBy, decidedAt>>
\* Where execution takes a remediation from a status.
Outcomes(s) ==
    CASE s = "approved" -> {"queued", "cancelled"}
      [] s = "queued" -> {"approved", "running", "succeeded", "failed", "timed_out", "cancelled"}
      [] s = "running" -> {"running", "succeeded", "failed", "timed_out"}
      [] OTHER -> {}
Move(r) ==
    /\ \/ /\ status[r] \in {"none", "awaiting_approval"}
          /\ status' = [status EXCEPT ![r] = "awaiting_approval"]
       \/ \E s \in Outcomes(status[r]) : status' = [status EXCEPT ![r] = s]
    /\ UNCHANGED <<proposedBy, requestVars>>
Mark(r) ==
    /\ \E b \in BOOLEAN : escalated' = [escalated EXCEPT ![r] = b]
    /\ UNCHANGED <<status, proposedBy, request, escalatesAt, expiresAt, decidedBy, decidedAt>>
RowStep ==
    \/ \E r \in Rems : Create(r) \/ Approve(r) \/ Deny(r) \/ Cancel(r) \/ Close(r) \/ Move(r) \/ Mark(r)
    \/ UNCHANGED rowVars

\* The two properties are the row invariants.
LEMMA RowInvDef == ApprovedByAnother /\ RequestMatchesRemediation <=> \A r \in Rems : RowInv(r)
BY DEF ApprovedByAnother, RequestMatchesRemediation, RowInv

\* Such steps keep the types and the invariant of every row.
LEMMA RowStepInv ==
    ASSUME RowType, \A r \in Rems : RowInv(r), RowStep
    PROVE  RowType' /\ \A r \in Rems : RowInv(r)'
<1>1. ASSUME NEW r \in Rems, Create(r) PROVE RowType' /\ \A q \in Rems : RowInv(q)'
  <2>1. PICK t \in Nat, u \in Nat : /\ expiresAt' = [expiresAt EXCEPT ![r] = t]
                                    /\ escalatesAt' = [escalatesAt EXCEPT ![r] = u]
    BY <1>1 DEF Create
  <2>2. RowType'
    BY <1>1, <2>1 DEF Create, RowType, Requests
  <2>3. ASSUME NEW q \in Rems PROVE RowInv(q)'
    BY <1>1, <2>1 DEF Create, RowType, RowInv
  <2> QED
    BY <2>2, <2>3
<1>2. ASSUME NEW r \in Rems, Approve(r) PROVE RowType' /\ \A q \in Rems : RowInv(q)'
  BY <1>2 DEF Approve, Settle, validateSeparation, RowType, RowInv, Requests, States
<1>3. ASSUME NEW r \in Rems, Deny(r) PROVE RowType' /\ \A q \in Rems : RowInv(q)'
  BY <1>3 DEF Deny, Settle, RowType, RowInv, Requests, States
<1>4. ASSUME NEW r \in Rems, Close(r) PROVE RowType' /\ \A q \in Rems : RowInv(q)'
  BY <1>4 DEF Close, Settle, RowType, RowInv, Requests, States
<1>5. ASSUME NEW r \in Rems, Move(r) PROVE RowType' /\ \A q \in Rems : RowInv(q)'
  BY <1>5 DEF Move, Outcomes, requestVars, RowType, RowInv, States
<1>6. ASSUME NEW r \in Rems, Mark(r) PROVE RowType' /\ \A q \in Rems : RowInv(q)'
  BY <1>6 DEF Mark, RowType, RowInv
<1>7. CASE UNCHANGED rowVars
  BY <1>7 DEF rowVars, requestVars, RowType, RowInv
<1>8. ASSUME NEW r \in Rems, Cancel(r) PROVE RowType' /\ \A q \in Rems : RowInv(q)'
  BY <1>8 DEF Cancel, Settle, RowType, RowInv, Requests, States
<1> QED
  BY <1>1, <1>2, <1>3, <1>4, <1>5, <1>6, <1>7, <1>8 DEF RowStep

\* Decided requests keep their decision, in every such step.
LEMMA RowStepDecided ==
    ASSUME RowType, RowStep, NEW r \in Rems, request[r] \notin {"none", "pending"}
    PROVE  /\ request'[r] = request[r]
           /\ decidedBy'[r] = decidedBy[r]
           /\ decidedAt'[r] = decidedAt[r]
BY DEF RowStep, Create, Approve, Deny, Cancel, Close, Settle, Move, Outcomes, Mark, rowVars, requestVars, RowType

\* A remediation, once inserted, stays, and so does its proposer.
LEMMA RowStepMade ==
    ASSUME RowType, RowStep, NEW r \in Rems
    PROVE  (status[r] # "none" => status'[r] # "none") /\ proposedBy'[r] = proposedBy[r]
BY DEF RowStep, Create, Approve, Deny, Cancel, Close, Settle, Move, Outcomes, Mark, rowVars, requestVars, RowType

\* Expire settles a pending request of a waiting remediation.
LEMMA ExpireStep ==
    ASSUME RowType, NEW r \in Rems, RowInv(r), request[r] = "pending", Expire(r)
    PROVE  Close(r)
BY DEF RowInv, RowType, Expire, Close, Settle

\* Each step of execution is one update of the status.
LEMMA ProgressUpdate ==
    ASSUME NEW r \in Rems, Progress(r)
    PROVE  /\ \E s \in Outcomes(status[r]) : status' = [status EXCEPT ![r] = s]
           /\ UNCHANGED <<now, proposedBy, requestVars, notices, call, sweep, gauge>>
<1>1. PICK from, to : Update(r, from, to) /\ \A s \in from, u \in to : u \in Outcomes(s)
  BY DEF Progress, MarkRemediationQueued, ReleaseRemediationQueueReservation, ClaimRemediation,
         CompleteRemediation, CancelRemediation, Outcomes
<1> QED
  BY <1>1 DEF Update

\* What one step of the specification does to the rows, to the calls and to
\* the sweeps.
LEMMA NextRow ==
    ASSUME Inv, Next
    PROVE  RowStep
<1>1. RowType /\ \A r \in Rems : RowInv(r)
  BY RowInvDef DEF Inv, TypeOK, RowType
<1>2. ASSUME NEW p \in Replicas, Serve(p) PROVE RowStep
  <2>1. call[p] \in Calls
    BY DEF Inv, TypeOK
  <2>2. ASSUME NEW r \in Rems, Propose(p, r) PROVE Move(r)
    BY <2>2 DEF Propose, Move
  <2>3. CASE RequestApproval(p)
    <3>1. call[p].rem \in Rems
      BY <2>1, <2>3 DEF RequestApproval, Calls
    <3>2. CASE request[call[p].rem] # "none"
      BY <2>3, <3>2 DEF RequestApproval, RowStep, rowVars
    <3>3. CASE request[call[p].rem] = "none"
      <4>1. now + Timeout \in Nat /\ now + EscalateAfter \in Nat
        BY ApprovalsAssumption DEF Inv, TypeOK
      <4>2. Create(call[p].rem)
        <5>1. status[call[p].rem] = "awaiting_approval"
          BY <1>1, <2>3, <3>1, <3>3 DEF RequestApproval, Inv, CallInv, RowInv
        <5> QED
          BY <5>1, <2>3, <3>1, <3>3, <4>1 DEF RequestApproval, Create
      <4> QED
        BY <3>1, <4>2 DEF RowStep
    <3> QED
      BY <3>2, <3>3
  <2>4. CASE Decide(p)
    <3> DEFINE r == call[p].rem
    <3>1. /\ r \in Rems /\ call[p].actor \in Actors /\ call[p].started \in Nat
          /\ call[p].decision \in Decisions
      BY <2>1, <2>4 DEF Decide, Calls
    <3>2. validateSeparation(r, call[p].actor)
      BY <2>4 DEF Decide, Inv, CallInv
    <3>3. CASE UNCHANGED rowVars
      BY <3>3 DEF RowStep
    <3>4. CASE request[r] = "pending" /\ Expire(r)
      BY <1>1, <3>1, <3>4, ExpireStep DEF RowStep
    <3>5. CASE request[r] = "pending" /\ call[p].started < expiresAt[r] /\ Record(p, r, call[p])
      <4>1. CASE status[r] # "awaiting_approval"
        BY <3>5, <4>1 DEF Record, RowStep
      <4>2. CASE status[r] = "awaiting_approval" /\ call[p].decision = "approve"
        BY <3>1, <3>2, <3>5, <4>2 DEF Record, Approve, Settle, RowStep
      <4>3. CASE status[r] = "awaiting_approval" /\ call[p].decision # "approve"
        BY <3>1, <3>5, <4>3 DEF Record, Deny, Settle, RowStep
      <4> QED
        BY <4>1, <4>2, <4>3
    <3> QED
      BY <2>4, <3>3, <3>4, <3>5 DEF Decide
  <2>5. CASE CancelByRemediation(p)
    <3>1. call[p].rem \in Rems
      BY <2>1, <2>5 DEF CancelByRemediation, Calls
    <3> QED
      BY <2>5, <3>1 DEF CancelByRemediation, Cancel, Settle, RowStep, Inv, TypeOK
  <2>6. ASSUME NEW r \in Rems, NEW a \in Actors, NEW d \in Decisions,
               BeginDecide(p, r, a, d) \/ BeginCancel(p, r) \/ Fail(p)
        PROVE  UNCHANGED rowVars
    BY <2>6 DEF BeginDecide, BeginCancel, Fail
  <2>7. CASE Fail(p) \/ \E r \in Rems : BeginCancel(p, r)
    BY <2>7 DEF BeginCancel, Fail, RowStep
  <2> QED
    BY <1>2, <2>2, <2>3, <2>4, <2>5, <2>6, <2>7 DEF Serve, RowStep
<1>3. ASSUME NEW p \in Replicas, processDue(p) PROVE RowStep
  <2>1. sweep[p] \in Sweeps
    BY DEF Inv, TypeOK
  <2>2. ASSUME NEW r \in Rems, ExpireDue(p, r) PROVE RowStep
    BY <1>1, <2>2, ExpireStep DEF ExpireDue, RowStep
  <2>3. CASE MarkEscalated(p)
    <3>1. sweep[p].rem \in Rems
      BY <2>1, <2>3 DEF MarkEscalated, Sweeps
    <3>2. (escalated[sweep[p].rem] \/ request[sweep[p].rem] = "pending") \in BOOLEAN
      OBVIOUS
    <3>3. Mark(sweep[p].rem)
      BY <2>3, <3>1, <3>2 DEF MarkEscalated, Mark
    <3> QED
      BY <3>1, <3>3 DEF RowStep
  <2>4. CASE StartSweep(p) \/ DueEscalations(p) \/ EndSweep(p) \/ \E r \in Rems : Notify(p, r)
    BY <2>4 DEF StartSweep, DueEscalations, EndSweep, Notify, RowStep
  <2> QED
    BY <1>3, <2>2, <2>3, <2>4 DEF processDue
<1>4. ASSUME NEW r \in Rems, Progress(r) PROVE Move(r)
  BY <1>4, ProgressUpdate DEF Move
<1>5. ASSUME NEW p \in Replicas, Restart(p) \/ Tick PROVE UNCHANGED rowVars
  BY <1>5 DEF Restart, Tick
<1>6. CASE Tick
  BY <1>6 DEF Tick, RowStep
<1> QED
  BY <1>2, <1>3, <1>4, <1>5, <1>6 DEF Next, RowStep

\* What one step does to the calls in flight.
LEMMA NextCall ==
    ASSUME Inv, Next, NEW p \in Replicas
    PROVE  call'[p] \in Calls /\ CallInv(p)'
<1>1. RowType /\ RowStep
  BY NextRow DEF Inv, TypeOK, RowType
<1>2. call \in [Replicas -> Calls] /\ Idle \in Calls
  BY DEF Inv, TypeOK, Idle, Calls
<1>3. ASSUME call'[p] = Idle PROVE call'[p] \in Calls /\ CallInv(p)'
  BY <1>2, <1>3 DEF CallInv, Idle
<1>4. ASSUME call'[p] = call[p] PROVE call'[p] \in Calls /\ CallInv(p)'
  <2>1. CASE call[p].pc \in {"request", "decide"}
    <3>1. call[p].rem \in Rems
      BY <1>2, <2>1 DEF Calls
    <3> QED
      BY <1>1, <1>2, <1>4, <3>1, RowStepMade DEF Inv, CallInv, validateSeparation
  <2>2. CASE call[p].pc \notin {"request", "decide"}
    BY <1>2, <1>4, <2>2 DEF CallInv
  <2> QED
    BY <2>1, <2>2
<1>5. ASSUME NEW r \in Rems, Propose(p, r) PROVE call'[p] \in Calls /\ CallInv(p)'
  BY <1>2, <1>5 DEF Propose, Begin, CallInv, Calls, Inv, TypeOK
<1>6. ASSUME NEW r \in Rems, BeginCancel(p, r) PROVE call'[p] \in Calls /\ CallInv(p)'
  BY <1>2, <1>6 DEF BeginCancel, Begin, CallInv, Calls
<1>7. ASSUME NEW r \in Rems, NEW a \in Actors, NEW d \in Decisions, BeginDecide(p, r, a, d)
      PROVE  call'[p] \in Calls /\ CallInv(p)'
  <2> DEFINE c == [pc |-> "decide", rem |-> r, actor |-> a, decision |-> d, started |-> now]
  <2>1. c \in Calls
    BY DEF Calls, Inv, TypeOK
  <2>2. call'[p] = c /\ validateSeparation(r, a) /\ UNCHANGED proposedBy
    BY <1>2, <1>7 DEF BeginDecide, Begin, rowVars
  <2> QED
    BY <2>1, <2>2 DEF CallInv, validateSeparation
<1>8. ASSUME NEW q \in Replicas, Serve(q) PROVE call'[p] \in Calls /\ CallInv(p)'
  <2>1. CASE q # p
    <3>1. call'[p] = call[p]
      BY <1>8, <2>1, <1>2 DEF Serve, Propose, BeginCancel, BeginDecide, Begin, RequestApproval, Decide,
                         CancelByRemediation, Fail, Return
    <3> QED
      BY <3>1, <1>4, SMTT(30)
  <2>2. CASE q = p
    <3>1. CASE RequestApproval(p) \/ Decide(p) \/ CancelByRemediation(p) \/ Fail(p)
      BY <1>2, <1>3, <3>1 DEF RequestApproval, Decide, CancelByRemediation, Fail, Return
    <3> QED
      BY <1>8, <2>2, <3>1, <1>5, <1>6, <1>7 DEF Serve
  <2> QED
    BY <2>1, <2>2
<1>9. ASSUME NEW q \in Replicas, Restart(q) PROVE call'[p] \in {Idle, call[p]}
  BY <1>2, <1>9, SMTT(30) DEF Restart
<1>10. ASSUME NEW q \in Replicas, processDue(q) PROVE UNCHANGED call
  BY <1>10 DEF processDue, StartSweep, ExpireDue, DueEscalations, Notify, MarkEscalated, EndSweep
<1>11. CASE Tick \/ \E r \in Rems : Progress(r)
  BY <1>11, <1>4, ProgressUpdate DEF Tick
<1> QED
  BY <1>3, <1>4, <1>8, <1>9, <1>10, <1>11 DEF Next

\* The calls stay a function on the replicas.
LEMMA NextCallType ==
    ASSUME Inv, Next
    PROVE  call' \in [Replicas -> Calls]
<1>1. call \in [Replicas -> Calls] /\ \A p \in Replicas : call'[p] \in Calls
  BY NextCall DEF Inv, TypeOK
<1>2. ASSUME NEW p \in Replicas, NEW c, call' = [call EXCEPT ![p] = c] PROVE call' \in [Replicas -> Calls]
  BY <1>1, <1>2
<1>3. ASSUME NEW p \in Replicas, NEW r \in Rems, Propose(p, r) \/ BeginCancel(p, r)
      PROVE  call' \in [Replicas -> Calls]
  BY <1>2, <1>3 DEF Propose, BeginCancel, Begin
<1>4. ASSUME NEW p \in Replicas, NEW r \in Rems, NEW a \in Actors, NEW d \in Decisions, BeginDecide(p, r, a, d)
      PROVE  call' \in [Replicas -> Calls]
  BY <1>2, <1>4 DEF BeginDecide, Begin
<1>5. ASSUME NEW p \in Replicas,
             RequestApproval(p) \/ Decide(p) \/ CancelByRemediation(p) \/ Fail(p) \/ Restart(p)
      PROVE  call' \in [Replicas -> Calls]
  <2>1. call' = [call EXCEPT ![p] = Idle]
    BY <1>5, SMTT(30) DEF RequestApproval, Decide, CancelByRemediation, Fail, Return, Restart
  <2> QED
    BY <1>2, <2>1
<1>6. ASSUME NEW p \in Replicas, processDue(p) PROVE UNCHANGED call
  BY <1>6 DEF processDue, StartSweep, ExpireDue, DueEscalations, Notify, MarkEscalated, EndSweep
<1>7. CASE Tick \/ \E r \in Rems : Progress(r)
  BY <1>1, <1>7, ProgressUpdate DEF Tick
<1> QED
  BY <1>1, <1>3, <1>4, <1>5, <1>6, <1>7 DEF Next, Serve

\* What one step does to the sweeps.
LEMMA NextSweep ==
    ASSUME Inv, Next
    PROVE  sweep' \in [Replicas -> Sweeps]
<1>1. sweep \in [Replicas -> Sweeps] /\ now \in Nat /\ Idle \in Sweeps
  BY DEF Inv, TypeOK, Idle, Sweeps
<1>2. ASSUME NEW p \in Replicas, NEW s \in Sweeps, Sweep(p, s) PROVE sweep' \in [Replicas -> Sweeps]
  BY <1>1, <1>2 DEF Sweep
<1>3. ASSUME NEW p \in Replicas, StartSweep(p) PROVE sweep' \in [Replicas -> Sweeps]
  <2> DEFINE s == [pc |-> "expire", now |-> now, expired |-> 0,
                   due |-> {r \in Pending : expiresAt[r] <= now}]
  <2>1. s \in Sweeps
    BY <1>1 DEF Sweeps, Pending
  <2>2. Sweep(p, s)
    BY <1>3 DEF StartSweep
  <2> HIDE DEF s
  <2> QED
    BY <1>2, <2>1, <2>2
<1>4. ASSUME NEW p \in Replicas, NEW r \in Rems, ExpireDue(p, r) PROVE sweep' \in [Replicas -> Sweeps]
  <2>1. sweep[p] \in [pc: {"expire"}, now: Nat, due: SUBSET Rems, expired: Nat]
    BY <1>1, <1>4 DEF ExpireDue, Sweeps
  <2> DEFINE s == [sweep[p] EXCEPT !.due = @ \ {r}, !.expired = @ + 1]
             t == [sweep[p] EXCEPT !.due = @ \ {r}]
  <2>2. sweep[p].expired + 1 \in Nat
    BY <2>1
  <2>3. s \in Sweeps /\ t \in Sweeps
    BY <2>1, <2>2 DEF Sweeps
  <2>4. Sweep(p, s) \/ Sweep(p, t)
    BY <1>4 DEF ExpireDue
  <2> HIDE DEF s, t
  <2> QED
    BY <1>2, <2>3, <2>4
<1>5. ASSUME NEW p \in Replicas, DueEscalations(p) PROVE sweep' \in [Replicas -> Sweeps]
  <2> DEFINE s == [pc |-> "escalate",
                   due |-> {r \in Pending : ~escalated[r] /\ escalatesAt[r] <= sweep[p].now}]
  <2>1. s \in Sweeps
    BY DEF Sweeps, Pending
  <2>2. Sweep(p, s)
    BY <1>5 DEF DueEscalations
  <2> HIDE DEF s
  <2> QED
    BY <1>2, <2>1, <2>2
<1>6. ASSUME NEW p \in Replicas, NEW r \in Rems, Notify(p, r) PROVE sweep' \in [Replicas -> Sweeps]
  <2>1. sweep[p] \in [pc: {"escalate"}, due: SUBSET Rems]
    BY <1>1, <1>6 DEF Notify, Sweeps
  <2> DEFINE s == [pc |-> "mark", due |-> sweep[p].due \ {r}, rem |-> r]
             t == [sweep[p] EXCEPT !.due = @ \ {r}]
  <2>2. s \in Sweeps /\ t \in Sweeps
    BY <2>1 DEF Sweeps
  <2>3. Sweep(p, s) \/ Sweep(p, t)
    BY <1>6 DEF Notify
  <2> HIDE DEF s, t
  <2> QED
    BY <1>2, <2>2, <2>3
<1>7. ASSUME NEW p \in Replicas, MarkEscalated(p) PROVE sweep' \in [Replicas -> Sweeps]
  <2>1. [pc |-> "escalate", due |-> sweep[p].due] \in Sweeps
    BY <1>1, <1>7 DEF MarkEscalated, Sweeps
  <2> QED
    BY <1>2, <1>7, <2>1 DEF MarkEscalated
<1>8. ASSUME NEW p \in Replicas, EndSweep(p) \/ Restart(p) PROVE sweep' \in [Replicas -> Sweeps]
  BY <1>1, <1>2, <1>8, SMTT(30) DEF EndSweep, Restart
<1>9. ASSUME NEW p \in Replicas, Serve(p) PROVE UNCHANGED sweep
  BY <1>9 DEF Serve, Propose, BeginCancel, BeginDecide, RequestApproval, Decide, CancelByRemediation, Fail
<1>10. CASE Tick \/ \E r \in Rems : Progress(r)
  BY <1>1, <1>10, ProgressUpdate DEF Tick
<1> QED
  BY <1>1, <1>3, <1>4, <1>5, <1>6, <1>7, <1>8, <1>9, <1>10 DEF Next, processDue

\* What one step does to the clock, the notifications and the gauges.
LEMMA NextCounters ==
    ASSUME Inv, Next
    PROVE  now' \in Nat /\ notices' \in [Rems -> 0..2] /\ gauge' \in [Replicas -> Int]
<1>1. now \in Nat /\ notices \in [Rems -> 0..2] /\ gauge \in [Replicas -> Int]
  BY DEF Inv, TypeOK
<1>2. ASSUME NEW p \in Replicas, NEW n \in Int, Count(p, n) PROVE gauge' \in [Replicas -> Int]
  BY <1>1, <1>2 DEF Count
<1>3. ASSUME NEW p \in Replicas, Serve(p) PROVE UNCHANGED <<now, notices>> /\ gauge' \in [Replicas -> Int]
  <2>1. UNCHANGED gauge \/ Count(p, 1) \/ Count(p, -1)
    BY <1>3 DEF Serve, Propose, BeginCancel, BeginDecide, RequestApproval, Decide, Record,
                CancelByRemediation, Fail
  <2>2. UNCHANGED <<now, notices>>
    BY <1>3 DEF Serve, Propose, BeginCancel, BeginDecide, RequestApproval, Decide,
                CancelByRemediation, Fail
  <2> QED
    BY <1>1, <1>2, <2>1, <2>2
<1>4. ASSUME NEW p \in Replicas, DueEscalations(p)
      PROVE  UNCHANGED <<now, notices>> /\ gauge' \in [Replicas -> Int]
  <2>1. sweep[p] \in [pc: {"expire"}, now: Nat, due: SUBSET Rems, expired: Nat]
    BY <1>4 DEF DueEscalations, Sweeps, Inv, TypeOK
  <2>2. -sweep[p].expired \in Int
    BY <2>1
  <2> QED
    BY <1>1, <1>2, <1>4, <2>2 DEF DueEscalations
<1>5. ASSUME NEW p \in Replicas, NEW r \in Rems, Notify(p, r)
      PROVE  UNCHANGED <<now, gauge>> /\ notices' \in [Rems -> 0..2]
  BY <1>1, <1>5, SMTT(30) DEF Notify
<1>6. ASSUME NEW p \in Replicas,
             StartSweep(p) \/ MarkEscalated(p) \/ EndSweep(p) \/ \E r \in Rems : ExpireDue(p, r)
      PROVE  UNCHANGED <<now, notices, gauge>>
  BY <1>6 DEF StartSweep, MarkEscalated, EndSweep, ExpireDue
<1>7. ASSUME NEW p \in Replicas, Restart(p)
      PROVE  UNCHANGED <<now, notices>> /\ gauge' \in [Replicas -> Int]
  <2>1. IsFiniteSet(Pending)
    BY ApprovalsAssumption, FS_Subset DEF Pending
  <2>2. Cardinality(Pending) \in Int
    BY <2>1, FS_CardinalityType
  <2> QED
    BY <1>1, <1>7, <2>2 DEF Restart
<1>8. CASE Tick \/ \E r \in Rems : Progress(r)
  BY <1>1, <1>8, ProgressUpdate DEF Tick
<1> QED
  BY <1>1, <1>3, <1>4, <1>5, <1>6, <1>7, <1>8 DEF Next, processDue

\* Nothing has been proposed yet.
LEMMA InitInv == Init => Inv
<1> SUFFICES ASSUME Init PROVE Inv
  OBVIOUS
<1>1. TypeOK
  BY DEF Init, TypeOK, States, Requests, Idle, Calls, Sweeps
<1>2. \A r \in Rems : RowInv(r)
  BY DEF Init, RowInv
<1>3. \A p \in Replicas : CallInv(p)
  BY DEF Init, CallInv, Idle
<1> QED
  BY <1>1, <1>2, <1>3, RowInvDef DEF Inv

\* Every step keeps the invariant.
LEMMA NextInv == Inv /\ [Next]_vars => Inv'
<1> SUFFICES ASSUME Inv, [Next]_vars PROVE Inv'
  OBVIOUS
<1>1. RowType /\ \A r \in Rems : RowInv(r)
  BY RowInvDef DEF Inv, TypeOK, RowType
<1>2. CASE Next
  <2>1. RowType' /\ \A r \in Rems : RowInv(r)'
    BY <1>1, <1>2, NextRow, RowStepInv
  <2>2. ApprovedByAnother' /\ RequestMatchesRemediation'
    BY <2>1 DEF RowInv, ApprovedByAnother, RequestMatchesRemediation
  <2>3. \A p \in Replicas : call'[p] \in Calls /\ CallInv(p)'
    BY <1>2, NextCall
  <2>4. call' \in [Replicas -> Calls]
    BY <1>2, NextCallType
  <2> QED
    BY <1>2, <2>1, <2>2, <2>3, <2>4, NextSweep, NextCounters DEF Inv, TypeOK, RowType
<1>3. CASE UNCHANGED vars
  BY <1>3 DEF vars, rowVars, requestVars, Inv, TypeOK, ApprovedByAnother, RequestMatchesRemediation,
              CallInv, validateSeparation
<1> QED
  BY <1>2, <1>3

-----------------------------------------------------------------------------
(* The theorems.                                                           *)

\* In every reachable state the requests, the remediations and the calls in
\* flight satisfy the inductive invariant.
THEOREM ApprovalsInvariant == Spec => []Inv
BY InitInv, NextInv, PTL DEF Spec

\* Whatever the replicas do from stale reads, a remediation is approved only on
\* the decision of a permitted actor who came in time.
THEOREM ApprovalSafety == Spec => []ApprovedByAnother
<1>1. Inv => ApprovedByAnother
  BY DEF Inv
<1> QED
  BY <1>1, ApprovalsInvariant, PTL

\* The approval request and the remediation never contradict each other.
THEOREM ConsistencySafety == Spec => []RequestMatchesRemediation
<1>1. Inv => RequestMatchesRemediation
  BY DEF Inv
<1> QED
  BY <1>1, ApprovalsInvariant, PTL

\* No racing decision, cancellation or sweep changes a decision.
THEOREM DecisionSafety == Spec => DecidedOnce
<1> DEFINE Kept == \A r \in Rems : request[r] \notin {"none", "pending"} =>
                      /\ request'[r] = request[r]
                      /\ decidedBy'[r] = decidedBy[r]
                      /\ decidedAt'[r] = decidedAt[r]
<1>1. Inv /\ [Next]_vars => [Kept]_vars
  <2> SUFFICES ASSUME Inv, Next PROVE Kept
    OBVIOUS
  <2>1. RowType /\ RowStep
    BY NextRow DEF Inv, TypeOK, RowType
  <2> QED
    BY <2>1, RowStepDecided
<1> QED
  BY <1>1, ApprovalsInvariant, PTL DEF Spec, DecidedOnce

\* The approval workflow, with the execution that follows it, implements the
\* remediation lifecycle: everything it does to a status is a published
\* transition or the release of a reservation.
THEOREM ApprovalsRefinement == Spec => ImplementsLifecycle
<1> DEFINE view == [r \in Rems |-> IF status[r] = "none" THEN "awaiting_approval" ELSE status[r]]
<1>1. Init => Lifecycle!Init
  BY DEF Init, Lifecycle!Init
<1>2. Inv /\ [Next]_vars => [Lifecycle!Next]_(Lifecycle!vars)
  <2> SUFFICES ASSUME Inv, Next
               PROVE  Lifecycle!Next \/ UNCHANGED Lifecycle!vars
    BY DEF vars, rowVars, Lifecycle!vars
  <2>1. RowType /\ RowStep
    BY NextRow DEF Inv, TypeOK, RowType
  <2>2. ASSUME NEW r \in Rems, NEW s \in States, CanTransition(view[r], s),
               status' = [status EXCEPT ![r] = s]
        PROVE  Lifecycle!Next
    <3>1. s \in Lifecycle!States /\ Lifecycle!CanTransition(view[r], s)
      BY <2>2 DEF States, CanTransition, Transitions,
                  Lifecycle!States, Lifecycle!CanTransition, Lifecycle!Transitions
    <3>2. view' = [view EXCEPT ![r] = s]
      BY <2>1, <2>2 DEF RowType, States
    <3> QED
      BY <3>1, <3>2 DEF Lifecycle!Next, Lifecycle!Move
  <2>3. ASSUME NEW r \in Rems, Approve(r) \/ Deny(r) \/ Cancel(r) \/ Close(r) \/ Move(r)
        PROVE  \/ \E s \in States : CanTransition(view[r], s) /\ status' = [status EXCEPT ![r] = s]
               \/ status[r] = "queued" /\ status' = [status EXCEPT ![r] = "approved"]
    <3>1. CASE Approve(r) \/ Deny(r) \/ Cancel(r) \/ Close(r)
      BY <3>1 DEF Approve, Deny, Cancel, Close, Settle, States, CanTransition, Transitions
    <3>2. CASE Move(r)
      BY <3>2 DEF Move, Outcomes, States, CanTransition, Transitions
    <3> QED
      BY <2>3, <3>1, <3>2
  <2>8. ASSUME NEW r \in Rems, status[r] = "queued", status' = [status EXCEPT ![r] = "approved"]
        PROVE  Lifecycle!Next
    <3>1. view[r] = "queued" /\ view' = [view EXCEPT ![r] = "approved"]
      BY <2>1, <2>8 DEF RowType, States
    <3> QED
      BY <3>1 DEF Lifecycle!Next, Lifecycle!Release
  <2>4. ASSUME NEW r \in Rems, Create(r) \/ Mark(r) PROVE UNCHANGED status
    BY <2>4 DEF Create, Mark
  <2>5. CASE UNCHANGED status
    BY <2>5 DEF Lifecycle!vars
  <2>6. CASE UNCHANGED rowVars
    BY <2>5, <2>6 DEF rowVars
  <2>7. CASE \E r \in Rems : Create(r) \/ Approve(r) \/ Deny(r) \/ Cancel(r) \/ Close(r) \/ Move(r) \/ Mark(r)
    <3>1. PICK r \in Rems : Create(r) \/ Approve(r) \/ Deny(r) \/ Cancel(r) \/ Close(r) \/ Move(r) \/ Mark(r)
      BY <2>7
    <3>2. CASE Approve(r) \/ Deny(r) \/ Cancel(r) \/ Close(r) \/ Move(r)
      BY <2>2, <2>3, <2>8, <3>2
    <3>3. CASE Create(r) \/ Mark(r)
      BY <2>4, <2>5, <3>3
    <3> QED
      BY <3>1, <3>2, <3>3
  <2> QED
    BY <2>1, <2>6, <2>7 DEF RowStep
<1> QED
  BY <1>1, <1>2, ApprovalsInvariant, PTL DEF Spec, ImplementsLifecycle, Lifecycle!Spec

=============================================================================

-------------------------- MODULE HeliosExecution ---------------------------
(***************************************************************************)
(* Execution of one remediation by the Helios executor: an API call        *)
(* reserves it, submits a workflow, polls it and records the outcome or    *)
(* releases the reservation; a reconciler, one replica at a time, follows  *)
(* recorded workflows and recovers lost submissions.  Calls to Helios may  *)
(* fail before or after they took effect, and processes may die anywhere.  *)
(* How long a submission takes is not bounded here, so the reconciler may  *)
(* also find one lost that is still going on.  The dry-run mode, on which  *)
(* no step here depends, is left out.                                      *)
(***************************************************************************)
EXTENDS Naturals, Sequences, RemediationStates

CONSTANTS Calls,           \* API calls that may overlap
          MaxReservations, \* bound: how often the remediation is reserved
          MaxWorkflows     \* bound: workflows created in Helios

CONSTANT Reconciler
Procs == Calls \cup {Reconciler}

VARIABLES
    status,        \* remediation_actions.status
    recorded,      \* result.helios_workflow_id: an index of workflows, or 0
    overdue,       \* started_at is longer ago than MaxRuntime
    incident,      \* "open" or "closed"
    workflows,     \* Helios: the workflows labelled with the remediation, oldest first
    proc,          \* per API call, and for the reconciler: where it is
    reservations,  \* how often the remediation was reserved
    asked          \* workflows that Helios was asked to cancel

vars == <<status, recorded, overdue, incident, workflows, proc, reservations, asked>>

\* wf: the workflow dealt with; outcome: the status to record for it.
Idle == [pc |-> "idle", wf |-> 0, outcome |-> "none"]
At(pc, wf, outcome) == [pc |-> pc, wf |-> wf, outcome |-> outcome]
Ended == {"succeeded", "failed", "cancelled"}
Outcomes == {"running", "succeeded", "failed", "timed_out", "cancelled"}

TypeOK ==
    /\ status \in {"approved", "queued"} \cup Outcomes
    /\ overdue \in BOOLEAN
    /\ recorded \in Nat
    /\ incident \in {"open", "closed"}
    /\ workflows \in Seq([state: {"active"} \cup Ended, reservation: Nat])
    /\ proc \in [Procs -> [pc: {"idle", "reserve", "submit", "poll", "record", "release", "get", "cancel", "find"},
                           wf: Nat, outcome: {"none"} \cup Outcomes]]
    /\ reservations \in Nat
    /\ asked \subseteq Nat

Init ==
    /\ status = "approved"
    /\ recorded = 0
    /\ overdue = FALSE
    /\ incident = "open"
    /\ workflows = <<>>
    /\ proc = [p \in Procs |-> Idle]
    /\ reservations = 0
    /\ asked = {}

Goto(p, at) == proc' = [proc EXCEPT ![p] = at]
\* FOR UPDATE: whoever writes the row waits for the reconciler's transaction.
RowFree(p) == p = Reconciler \/ proc[Reconciler].pc = "idle"
ProcOnly == UNCHANGED <<status, recorded, overdue, incident, workflows, reservations, asked>>

-----------------------------------------------------------------------------
(* Service.Execute, up to the submission.                                  *)

\* The checks of the remediation and of its incident.
Execute(p) ==
    /\ proc[p] = Idle /\ reservations < MaxReservations
    /\ incident = "open" /\ status = "approved"
    /\ Goto(p, At("reserve", 0, "none"))
    /\ ProcOnly

\* The status is compared again, the incident is not; the transaction may fail.
MarkRemediationQueued(p) ==
    /\ proc[p].pc = "reserve"
    /\ \/ /\ status = "approved" /\ reservations < MaxReservations
          /\ status' = "queued" /\ reservations' = reservations + 1
          /\ Goto(p, At("submit", 0, "none"))
       \/ Goto(p, Idle) /\ UNCHANGED <<status, reservations>>
    /\ UNCHANGED <<recorded, overdue, incident, workflows, asked>>

-----------------------------------------------------------------------------
(* HeliosExecutor.Execute, called by Service.Execute and the reconciler.   *)

\* An API call releases the reservation, the reconciler leaves the rest to its
\* next pass.
Failed(p) == IF p = Reconciler THEN Idle ELSE At("release", 0, "none")

Created == Append(workflows, [state |-> "active", reservation |-> reservations])

\* The answer may be lost.
Submit(p) ==
    /\ proc[p].pc = "submit" /\ Len(workflows) < MaxWorkflows
    /\ workflows' = Created
    /\ Goto(p, At("poll", Len(Created), "none")) \/ Goto(p, Failed(p))
    /\ UNCHANGED <<status, recorded, overdue, incident, reservations, asked>>

SubmitFails(p) == proc[p].pc = "submit" /\ Goto(p, Failed(p)) /\ ProcOnly

\* Mutant: an ended workflow counts as a success.
OutcomeEnded(state) == IF state = "active" THEN "running" ELSE "succeeded"

\* The remediation status for a workflow state.
Outcome(state) ==
    CASE state = "succeeded" -> "succeeded"
      [] state \in {"failed", "cancelled"} -> "failed"
      [] OTHER -> "running"

\* A workflow that is still active when the poll times out is left running.
pollWorkflow(p) ==
    LET outcome == Outcome(workflows[proc[p].wf].state)
    IN  /\ proc[p].pc = "poll"
        /\ Goto(p, IF outcome = "failed" THEN Failed(p) ELSE At("record", proc[p].wf, outcome))
        /\ ProcOnly

PollFails(p) == proc[p].pc = "poll" /\ Goto(p, Failed(p)) /\ ProcOnly

\* Mutant: whatever the row says by now.
RecordAnyway(p) ==
    /\ proc[p].pc = "record" /\ RowFree(p)
    /\ status' = proc[p].outcome /\ recorded' = proc[p].wf
    /\ Goto(p, Idle)
    /\ UNCHANGED <<overdue, incident, workflows, reservations, asked>>

\* applyQueuedOutcome, and the end of settleHelios: MarkRemediationRunning, or
\* ClaimRemediation and CompleteRemediation.
Record(p) ==
    /\ proc[p].pc = "record" /\ RowFree(p)
    /\ IF Dispatchable(status)
       THEN status' = proc[p].outcome /\ recorded' = proc[p].wf
       ELSE UNCHANGED <<status, recorded>>
    /\ Goto(p, Idle)
    /\ UNCHANGED <<overdue, incident, workflows, reservations, asked>>

ReleaseRemediationQueueReservation(p) ==
    /\ proc[p].pc = "release" /\ RowFree(p)
    /\ status' = IF status = "queued" THEN "approved" ELSE status
    /\ Goto(p, Idle)
    /\ UNCHANGED <<recorded, overdue, incident, workflows, reservations, asked>>

\* The process dies, a transaction fails, or the reconciler's call to Helios does.
Die(p) == proc[p] # Idle /\ Goto(p, Idle) /\ ProcOnly

-----------------------------------------------------------------------------
(* ReconcileHelios.                                                        *)

LockRunning ==
    /\ proc[Reconciler] = Idle
    /\ status = "running" /\ recorded # 0
    /\ Goto(Reconciler, At("get", recorded, "none"))
    /\ ProcOnly

\* settleHelios: the state found decides, or the age of the remediation.
Settle ==
    LET wf == proc[Reconciler].wf
        outcome == Outcome(workflows[wf].state)
    IN  /\ proc[Reconciler].pc = "get"
        /\ Goto(Reconciler, IF outcome # "running" THEN At("record", wf, outcome)
                            ELSE IF overdue THEN At("cancel", wf, "none") ELSE Idle)
        /\ ProcOnly

\* cancelWorkflow only asks: Helios ends the workflow later, or never when it
\* refused or did not get the request.  The remediation is timed out anyway.
CancelWorkflow ==
    LET wf == proc[Reconciler].wf
    IN  /\ proc[Reconciler].pc = "cancel"
        /\ asked' = asked \cup {wf}
        /\ Goto(Reconciler, At("record", wf, "timed_out"))
        /\ UNCHANGED <<status, recorded, overdue, incident, workflows, reservations>>

\* A submission that is queued for SubmitLostAfter.
LockLost ==
    /\ proc[Reconciler] = Idle
    /\ status = "queued"
    /\ Goto(Reconciler, At("find", 0, "none"))
    /\ ProcOnly

\* Mutant: an adopted workflow always counts as running; its id is not kept.
AdoptNothing ==
    /\ proc[Reconciler].pc = "find" /\ workflows # <<>>
    /\ Goto(Reconciler, At("record", 0, "running"))
    /\ ProcOnly

\* The newest workflow is adopted and settled at once.
Adopt ==
    /\ proc[Reconciler].pc = "find" /\ workflows # <<>>
    /\ Goto(Reconciler, At("record", Len(workflows), Outcome(workflows[Len(workflows)].state)))
    /\ ProcOnly

\* No workflow of this remediation is among Helios's newest 500.
FindNothing ==
    /\ proc[Reconciler].pc = "find"
    /\ Goto(Reconciler, IF incident = "closed" THEN At("record", 0, "cancelled") ELSE At("submit", 0, "none"))
    /\ ProcOnly

-----------------------------------------------------------------------------
(* Operators, Helios and time.                                             *)

Cancel ==
    /\ proc[Reconciler] = Idle /\ status # "cancelled" /\ CanTransition(status, "cancelled")
    /\ status' = "cancelled"
    /\ UNCHANGED <<recorded, overdue, incident, workflows, proc, reservations, asked>>

CloseIncident ==
    /\ incident' = "closed"
    /\ UNCHANGED <<status, recorded, overdue, workflows, proc, reservations, asked>>

WorkflowEnds(wf, state) ==
    /\ workflows[wf].state = "active"
    /\ workflows' = [workflows EXCEPT ![wf].state = state]
    /\ UNCHANGED <<status, recorded, overdue, incident, proc, reservations, asked>>

Overdue ==
    /\ status = "running" /\ overdue' = TRUE
    /\ UNCHANGED <<status, recorded, incident, workflows, proc, reservations, asked>>

Executor(p) ==
    \/ Submit(p) \/ SubmitFails(p) \/ pollWorkflow(p) \/ PollFails(p)
    \/ Record(p) \/ ReleaseRemediationQueueReservation(p) \/ Die(p)
Next ==
    \/ \E p \in Calls : Execute(p) \/ MarkRemediationQueued(p)
    \/ \E p \in Procs : Executor(p)
    \/ LockRunning \/ Settle \/ CancelWorkflow \/ LockLost \/ Adopt \/ FindNothing
    \/ Cancel \/ CloseIncident \/ Overdue
    \/ \E wf \in DOMAIN workflows, state \in Ended : WorkflowEnds(wf, state)

Spec == Init /\ [][Next]_vars

\* RunHeliosReconciler starts a pass every Interval for ever; a call to Helios ends,
\* and Helios and the database answer again and again.
Fairness ==
    /\ WF_vars(LockRunning) /\ WF_vars(LockLost) /\ WF_vars(Overdue)
    /\ SF_vars(Settle) /\ SF_vars(CancelWorkflow)
    /\ SF_vars(Adopt) /\ SF_vars(FindNothing)
    /\ WF_vars(SubmitFails(Reconciler))
    /\ SF_vars(Submit(Reconciler)) /\ SF_vars(pollWorkflow(Reconciler)) /\ SF_vars(Record(Reconciler))
FairSpec == Spec /\ Fairness

-----------------------------------------------------------------------------
(* Properties.                                                             *)

\* What a status says of a workflow.
Reflects(s, wf) ==
    /\ s \in {"running", "succeeded", "failed", "timed_out"} => wf \in DOMAIN workflows
    /\ s = "succeeded" => workflows[wf].state = "succeeded"
    /\ s = "failed" => workflows[wf].state \in {"failed", "cancelled"}
    /\ s = "timed_out" => wf \in asked

\* Whoever recorded it, API call or reconciler, the remediation's status is true of
\* the workflow stored with it: a running remediation has one to follow, a
\* succeeded or failed one has ended so in Helios, and Helios was asked to
\* cancel that of a timed-out one.
OutcomeTrue == Reflects(status, recorded)

\* Late outcomes and releases, of API calls and of the reconciler, never change
\* a remediation that ended.
EndIsFinal == [][IsTerminalState(status) => status' = status]_vars

\* A queued or running remediation does not stay so, although calls die, answers
\* get lost and workflows hang.
EventuallySettled == Dispatchable(status) ~> ~Dispatchable(status)

\* A cancel never lands on an action that is already executing.
CancelNotExecuting ==
    [][Cancel => \A wf \in DOMAIN workflows : workflows[wf].state # "active"]_vars

\* When the API died while submitting, the reconciler adopts the workflow that
\* this submission created.
AdoptsLostSubmission ==
    [][Adopt /\ (\A p \in Calls : proc[p] = Idle) => workflows[Len(workflows)].reservation = reservations]_vars

\* What a process is about to record is true of its workflow.
ProcInv(p) ==
    /\ proc[p].pc \in {"poll", "get", "cancel"} => proc[p].wf \in DOMAIN workflows
    /\ proc[p].pc = "record" => proc[p].outcome \in Outcomes /\ Reflects(proc[p].outcome, proc[p].wf)

\* The inductive invariant.
Inv == TypeOK /\ OutcomeTrue /\ \A p \in Procs : ProcInv(p)

=============================================================================

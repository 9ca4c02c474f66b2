-------------------------- MODULE IncidentResponse --------------------------
(***************************************************************************)
(* An incident from its RCA report to the dispatch of its remediations:    *)
(* operators acknowledge and resolve it, API calls generate reports,       *)
(* propose remediations and execute them.  Each call is a sequence of      *)
(* database statements, so calls overlap, and a call may stop after any of *)
(* them (an error, a crash of the replica).                                *)
(*                                                                         *)
(* Every statement names the incident, so one incident stands for all.     *)
(* What approvers, workers and the reconciler do to a remediation is the   *)
(* lifecycle that Approvals and RemediationPipeline are shown to implement *)
(* (RemediationLifecycle).                                                 *)
(***************************************************************************)
EXTENDS Integers, Sequences, FiniteSets, Policy, RemediationStates

CONSTANTS
    Actions,   \* (action_type, target, parameters) of the candidates
    Input,     \* what the policy is told about each, apart from the history
    Calls,     \* API calls in progress at the same time
    MaxRows    \* bound: remediations per action

ASSUME ResponseAssumption ==
    /\ Actions # {}
    /\ Input \in [Actions -> [role: Roles, enabled: BOOLEAN, catalog: {"none", "low", "medium"},
                              requested: Risks \cup {"none"}, valid: BOOLEAN]]
    /\ MaxRows \in Nat

VARIABLES
    incident,  \* incidents.status
    reported,  \* an rca_reports row exists
    rows,      \* remediation_actions per action, oldest first
    aged,      \* how many of them are older than ten minutes
    call       \* the API calls

vars == <<incident, reported, rows, aged, call>>

\* StatusX constants and the transitions map of incidents/service.go.
Statuses ==
    {"detected", "triaged", "investigating", "rca_generated", "remediation_proposed",
     "awaiting_approval", "remediating", "mitigated", "resolved", "failed", "cancelled"}
transitions ==
    [s \in Statuses |->
        CASE s = "detected" -> {"triaged", "investigating", "rca_generated", "resolved", "cancelled"}
          [] s = "triaged" -> {"investigating", "rca_generated", "resolved", "cancelled"}
          [] s = "investigating" -> {"rca_generated", "resolved", "failed"}
          [] s = "rca_generated" -> {"remediation_proposed", "awaiting_approval", "resolved"}
          [] s = "remediation_proposed" -> {"awaiting_approval", "remediating", "resolved"}
          [] s = "awaiting_approval" -> {"remediating", "resolved", "cancelled"}
          [] s = "remediating" -> {"mitigated", "resolved", "failed"}
          [] s = "mitigated" -> {"resolved"}
          [] s = "failed" -> {"investigating", "resolved"}
          [] OTHER -> {}]
IsClosed(s) == s \in {"resolved", "cancelled"}
AllowedFrom(to) == {s \in Statuses : to \in transitions[s]}

Row == [attempt: Nat \ {0}, status: States, human: BOOLEAN]
Active(a) == {i \in DOMAIN rows[a] : ~IsTerminalState(rows[a][i].status)}
Failed(a) == {i \in DOMAIN rows[a] : rows[a][i].status \in {"failed", "timed_out"}}

Idle == [pc |-> "idle"]
Proposing == [pc: {"find", "recent", "failed", "insert"}, todo: SUBSET Actions,
              action: Actions, attempt: Nat, status: States, found: BOOLEAN, awaiting: BOOLEAN]
CallStates ==
    [pc: {"idle"}] \cup [pc: {"save", "advance"}, propose: BOOLEAN]
        \cup Proposing \cup [pc: {"check", "reserve"}, action: Actions, row: Nat]

Init ==
    /\ incident = "detected"
    /\ reported = FALSE
    /\ rows = [a \in Actions |-> <<>>]
    /\ aged = [a \in Actions |-> 0]
    /\ call = [c \in Calls |-> Idle]

-----------------------------------------------------------------------------
(* The incident.                                                           *)

\* TransitionIncident: one conditional statement.
TransitionIncident(s) == IF incident \in AllowedFrom(s) THEN s ELSE incident

\* handleIncidentStateChange: ack and resolve, a conflict otherwise.
StateChange(s) ==
    /\ incident \in AllowedFrom(s)
    /\ incident' = TransitionIncident(s)
    /\ UNCHANGED <<reported, rows, aged, call>>

\* A call whose result is ignored: the transition is made, refused or fails.
Advance(s) == incident' \in {incident, TransitionIncident(s)}

At(c, pc) == call[c].pc = pc
Goto(c, next) == call' = [call EXCEPT ![c] = next]

\* An error is returned, or the replica crashes.
Abort(c) ==
    /\ ~At(c, "idle")
    /\ Goto(c, Idle)
    /\ UNCHANGED <<incident, reported, rows, aged>>

-----------------------------------------------------------------------------
(* Generate and ReportForProposal.                                         *)

StartProposal(c, candidates) ==
    Goto(c, [pc |-> "find", todo |-> candidates, action |-> CHOOSE a \in Actions : TRUE, attempt |-> 0,
             status |-> "proposed", found |-> FALSE, awaiting |-> FALSE])

Generate(c, propose) ==
    /\ At(c, "idle")
    /\ Goto(c, [pc |-> "save", propose |-> propose])
    /\ UNCHANGED <<incident, reported, rows, aged>>

\* The latest report is current: no alert has arrived since.
ReuseReport(c) ==
    /\ At(c, "idle") /\ reported
    /\ \E candidates \in (SUBSET Actions) \ {{}} : StartProposal(c, candidates)
    /\ UNCHANGED <<incident, reported, rows, aged>>

\* Mutant: an error of the insert is ignored.
SaveRCAReportLost(c) ==
    /\ At(c, "save")
    /\ Goto(c, [call[c] EXCEPT !.pc = "advance"])
    /\ UNCHANGED <<incident, reported, rows, aged>>

SaveRCAReport(c) ==
    /\ At(c, "save")
    /\ reported' = TRUE
    /\ Goto(c, [call[c] EXCEPT !.pc = "advance"])
    /\ UNCHANGED <<incident, rows, aged>>

GenerateAdvances(c) ==
    /\ At(c, "advance")
    /\ Advance("rca_generated")
    /\ IF call[c].propose THEN \E candidates \in SUBSET Actions : StartProposal(c, candidates)
                          ELSE Goto(c, Idle)
    /\ UNCHANGED <<reported, rows, aged>>

-----------------------------------------------------------------------------
(* Propose, one candidate after the other.                                 *)

\* FindActiveRemediationByAction: the newest remediation that has not ended is
\* returned instead of a new one.
FindActive(c, a) ==
    /\ At(c, "find") /\ a \in call[c].todo
    /\ IF Active(a) = {}
       THEN Goto(c, [call[c] EXCEPT !.pc = "recent", !.todo = @ \ {a}, !.action = a])
       ELSE LET newest == CHOOSE i \in Active(a) : \A j \in Active(a) : j <= i
            IN  Goto(c, [call[c] EXCEPT !.todo = @ \ {a}, !.found = TRUE,
                             !.awaiting = @ \/ rows[a][newest].status = "awaiting_approval"])
    /\ UNCHANGED <<incident, reported, rows, aged>>

\* CountRecentSimilarRemediations: the attempt is one more.
CountRecent(c) ==
    LET a == call[c].action
    IN  /\ At(c, "recent")
        /\ Goto(c, [call[c] EXCEPT !.pc = "failed", !.attempt = Len(rows[a]) - aged[a] + 1])
        /\ UNCHANGED <<incident, reported, rows, aged>>

\* CountFailedRemediations, and the policy decides.
CountFailed(c) ==
    LET a == call[c].action
        input == Input[a]
        decision == Evaluate([role |-> input.role, enabled |-> input.enabled, catalog |-> input.catalog,
                              requested |-> input.requested, valid |-> input.valid,
                              recent |-> call[c].attempt - 1, failed |-> Cardinality(Failed(a))])
    IN  /\ At(c, "failed")
        /\ Goto(c, [call[c] EXCEPT !.pc = "insert",
                        !.status = CASE ~decision.allow -> "policy_blocked"
                                     [] decision.allow /\ decision.approval -> "awaiting_approval"
                                     [] decision.allow /\ ~decision.approval -> "approved"])
        /\ UNCHANGED <<incident, reported, rows, aged>>

\* Mutant: the idempotency key is not unique.
CreateAgain(c) ==
    LET a == call[c].action
        s == call[c].status
    IN  /\ At(c, "insert") /\ Len(rows[a]) < MaxRows
        /\ rows' = [rows EXCEPT ![a] = Append(@, [attempt |-> call[c].attempt, status |-> s, human |-> FALSE])]
        /\ Goto(c, [call[c] EXCEPT !.pc = "find", !.found = TRUE, !.awaiting = @ \/ s = "awaiting_approval"])
        /\ UNCHANGED <<incident, reported, aged>>

\* CreateRemediation.  The idempotency key names the action and the attempt
\* and is unique: a second insert of it fails, and the call with it.
CreateRemediation(c) ==
    LET a == call[c].action
        n == call[c].attempt
        s == call[c].status
    IN  /\ At(c, "insert") /\ Len(rows[a]) < MaxRows
        /\ IF \E i \in DOMAIN rows[a] : rows[a][i].attempt = n
           THEN Goto(c, Idle) /\ UNCHANGED rows
           ELSE /\ rows' = [rows EXCEPT ![a] = Append(@, [attempt |-> n, status |-> s, human |-> FALSE])]
                /\ Goto(c, [call[c] EXCEPT !.pc = "find", !.found = TRUE,
                                !.awaiting = @ \/ s = "awaiting_approval"])
        /\ UNCHANGED <<incident, reported, aged>>

\* The incident follows its proposals.
ProposeAdvances(c) ==
    /\ At(c, "find") /\ call[c].todo = {}
    /\ IF call[c].found
       THEN Advance(IF call[c].awaiting THEN "awaiting_approval" ELSE "remediation_proposed")
       ELSE UNCHANGED incident
    /\ Goto(c, Idle)
    /\ UNCHANGED <<reported, rows, aged>>

-----------------------------------------------------------------------------
(* Execute: the remediation is read, then the incident, then the           *)
(* reservation is made.                                                    *)

Execute(c, a, i) ==
    /\ At(c, "idle")
    /\ rows[a][i].status = "approved"
    /\ Goto(c, [pc |-> "check", action |-> a, row |-> i])
    /\ UNCHANGED <<incident, reported, rows, aged>>

\* Mutant: a closed incident is no obstacle.
CheckNothing(c) ==
    /\ At(c, "check")
    /\ Goto(c, [call[c] EXCEPT !.pc = "reserve"])
    /\ UNCHANGED <<incident, reported, rows, aged>>

CheckIncident(c) ==
    /\ At(c, "check")
    /\ Goto(c, IF IsClosed(incident) THEN Idle ELSE [call[c] EXCEPT !.pc = "reserve"])
    /\ UNCHANGED <<incident, reported, rows, aged>>

\* MarkRemediationQueued
Reserve(c) ==
    LET a == call[c].action
        i == call[c].row
    IN  /\ At(c, "reserve")
        /\ rows' = IF rows[a][i].status = "approved" THEN [rows EXCEPT ![a][i].status = "queued"] ELSE rows
        /\ Goto(c, Idle)
        /\ UNCHANGED <<incident, reported, aged>>

-----------------------------------------------------------------------------
(* The rest of a remediation's life, and time.                             *)

Moved(row, s) ==
    [row EXCEPT !.status = s, !.human = @ \/ (row.status = "awaiting_approval" /\ s = "approved")]

\* A decision, an expiry, a cancellation, a worker or the reconciler; or Execute
\* gives its reservation back.
Progress(a, i, s) ==
    /\ ~IsTerminalState(rows[a][i].status) /\ s # "queued"
    /\ <<rows[a][i].status, s>> \in Transitions \cup {<<"queued", "approved">>}
    /\ rows' = [rows EXCEPT ![a][i] = Moved(@, s)]
    /\ UNCHANGED <<incident, reported, aged, call>>

\* The oldest remediation of the last ten minutes leaves that window.
Age(a) ==
    /\ aged[a] < Len(rows[a])
    /\ aged' = [aged EXCEPT ![a] = @ + 1]
    /\ UNCHANGED <<incident, reported, rows, call>>

CallStep(c) ==
    \/ \E propose \in BOOLEAN : Generate(c, propose)
    \/ ReuseReport(c) \/ SaveRCAReport(c) \/ GenerateAdvances(c)
    \/ \E a \in Actions : FindActive(c, a)
    \/ CountRecent(c) \/ CountFailed(c) \/ CreateRemediation(c) \/ ProposeAdvances(c)
    \/ \E a \in Actions : \E i \in DOMAIN rows[a] : Execute(c, a, i)
    \/ CheckIncident(c) \/ Reserve(c) \/ Abort(c)

Next ==
    \/ \E s \in {"triaged", "resolved"} : StateChange(s)
    \/ \E c \in Calls : CallStep(c)
    \/ \E a \in Actions : \E i \in DOMAIN rows[a], s \in States : Progress(a, i, s)
    \/ \E a \in Actions : Age(a)

Spec == Init /\ [][Next]_vars

-----------------------------------------------------------------------------
(* Properties.                                                             *)

TypeOK ==
    /\ incident \in Statuses
    /\ reported \in BOOLEAN
    /\ rows \in [Actions -> Seq(Row)]
    /\ aged \in [Actions -> Nat]
    /\ call \in [Calls -> CallStates]

\* The status of an incident is backed by what the replicas stored, although
\* the rows and the status are written by different statements of calls that
\* overlap and stop anywhere.
StatusIsBacked ==
    /\ incident \in {"rca_generated", "remediation_proposed", "awaiting_approval"} => reported
    /\ incident = "remediation_proposed" => \E a \in Actions : rows[a] # <<>>
    /\ incident = "awaiting_approval" =>
           \E a \in Actions : \E i \in DOMAIN rows[a] : rows[a][i].status # "policy_blocked"

\* Automatic steps and operators only move an incident forward; a closed one
\* stays as it is.
Order == <<"detected", "triaged", "rca_generated", "remediation_proposed", "awaiting_approval", "resolved">>
Later(s, t) == \E i, j \in 1..6 : i < j /\ Order[i] = s /\ Order[j] = t
NeverRewinds == [][incident' # incident => Later(incident, incident')]_vars

\* What was approved without a person is low risk in the catalog: a medium
\* risk action gets past awaiting_approval only by a decision.
LowRisk(a) == Input[a].catalog = "low" /\ Input[a].requested \in {"none", "low"}
Unattended(row) == row.status \in {"approved", "queued", "running", "succeeded", "failed"} /\ ~row.human
UnapprovedIsLow ==
    \A a \in Actions : \A i \in DOMAIN rows[a] : Unattended(rows[a][i]) => LowRisk(a)

\* Once an incident is closed and no call is past its check of the incident,
\* nothing is dispatched for it any more.
Quiet == IsClosed(incident) /\ \A c \in Calls : ~At(c, "reserve")
Dispatches == \E a \in Actions : \E i \in DOMAIN rows[a] :
                  rows[a][i].status = "approved" /\ rows'[a][i].status = "queued"
ClosedStaysQuiet == [][Quiet => Quiet' /\ ~Dispatches]_vars

\* However proposals overlap and whenever they come, no more than two
\* remediations of an action are ever let through for an incident: the policy
\* denies a third within ten minutes, and the key of a later one is taken.
TwoAttempts ==
    \A a \in Actions : \A i, j, k \in {x \in DOMAIN rows[a] : rows[a][x].status # "policy_blocked"} :
        i = j \/ i = k \/ j = k

\* The inductive invariant: what a call found, counted and decided holds until
\* it uses it, and rows of one action differ in their attempts.
LetThrough == \E a \in Actions : \E i \in DOMAIN rows[a] : rows[a][i].status # "policy_blocked"
RowsInv(a) ==
    /\ aged[a] <= Len(rows[a])
    /\ \A i \in DOMAIN rows[a] :
          /\ rows[a][i].status # "proposed"
          /\ rows[a][i].status # "policy_blocked" => rows[a][i].attempt <= 2
          /\ Unattended(rows[a][i]) => LowRisk(a)
    /\ \A i, j \in DOMAIN rows[a] : rows[a][i].attempt = rows[a][j].attempt => i = j
CallInv(n) ==
    /\ n.pc = "advance" => reported
    /\ n.pc \in {"find", "recent", "failed", "insert"} =>
          /\ reported
          /\ n.found => \E a \in Actions : rows[a] # <<>>
          /\ n.awaiting => LetThrough
    /\ n.pc \in {"failed", "insert"} => n.attempt > 0
    /\ n.pc = "insert" =>
          /\ n.status \in {"policy_blocked", "awaiting_approval", "approved"}
          /\ n.status # "policy_blocked" => n.attempt <= 2
          /\ n.status = "approved" => LowRisk(n.action)
    /\ n.pc \in {"check", "reserve"} => n.row \in DOMAIN rows[n.action]
Inv ==
    /\ TypeOK
    /\ incident \in {"detected", "triaged", "rca_generated", "remediation_proposed",
                     "awaiting_approval", "resolved"}
    /\ StatusIsBacked
    /\ \A a \in Actions : RowsInv(a)
    /\ \A c \in Calls : CallInv(call[c])

\* As documented: remediation is not dispatched for a closed incident.
DispatchOnlyOpen == [][Dispatches => ~IsClosed(incident)]_vars

\* As documented: duplicate executions of an action are prevented.
NoDuplicateExecution ==
    \A a \in Actions : Cardinality({i \in DOMAIN rows[a] : Dispatchable(rows[a][i].status)}) <= 1

\* As the API tells operators: a remediation that ended can be proposed again.
CanProposeAgain ==
    \A a \in Actions : Active(a) = {} =>
        \A i \in DOMAIN rows[a] : rows[a][i].attempt # Len(rows[a]) - aged[a] + 1

=============================================================================

------------------------ MODULE RemediationLifecycle ------------------------
(***************************************************************************)
(* What the control plane promises about one remediation, whoever moves    *)
(* it: its status follows the published transition table, and its target   *)
(* is changed at most once, only by a remediation a worker has claimed.    *)
(* The table does not have the step back that Service.Execute takes with   *)
(* an executor that reports to it; Release is that step.                   *)
(***************************************************************************)
EXTENDS Integers, RemediationStates

CONSTANTS
    Rems,
    Synchronous  \* the executor may report to the call that reserved (Helios)

VARIABLES
    status,   \* remediation_actions.status
    applied   \* how often the target state was changed

vars == <<status, applied>>

\* The statuses CreateRemediation inserts.
Init ==
    /\ status \in [Rems -> {"policy_blocked", "awaiting_approval", "approved"}]
    /\ applied = [r \in Rems |-> 0]

Move(r, s) ==
    /\ CanTransition(status[r], s)
    /\ status' = [status EXCEPT ![r] = s]
    /\ UNCHANGED applied

\* A failed or timed-out remediation may still take effect: its outcome is
\* unknown to the control plane.
Perform(r) ==
    /\ status[r] \in {"running", "succeeded", "failed", "timed_out"}
    /\ applied[r] = 0
    /\ applied' = [applied EXCEPT ![r] = 1]
    /\ UNCHANGED status

\* The execution failed before it was under way: the reservation is given back.
Release(r) ==
    /\ Synchronous /\ status[r] = "queued"
    /\ status' = [status EXCEPT ![r] = "approved"]
    /\ UNCHANGED applied

Next == \E r \in Rems : Perform(r) \/ Release(r) \/ \E s \in States : Move(r, s)

Spec == Init /\ [][Next]_vars

=============================================================================

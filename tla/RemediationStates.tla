------------------------- MODULE RemediationStates -------------------------
(***************************************************************************)
(* The status column of remediation_actions and the transition table that  *)
(* internal/remediation/states.go publishes for it.                        *)
(***************************************************************************)

States ==
    {"proposed", "policy_blocked", "awaiting_approval", "approved", "rejected",
     "queued", "running", "succeeded", "failed", "timed_out", "cancelled"}

IsTerminalState(s) ==
    s \in {"policy_blocked", "rejected", "succeeded", "failed", "timed_out", "cancelled"}

\* The map in CanTransition, as a relation.
Transitions ==
    ({"proposed"} \X {"policy_blocked", "awaiting_approval", "approved", "cancelled"})
        \cup ({"awaiting_approval"} \X {"approved", "rejected", "timed_out", "cancelled"})
        \cup ({"approved"} \X {"queued", "cancelled"})
        \cup ({"queued"} \X {"running", "succeeded", "failed", "timed_out", "cancelled"})
        \cup ({"running"} \X {"succeeded", "failed", "timed_out"})
        \cup ({"failed"} \X {"approved"})

CanTransition(from, to) == from = to \/ <<from, to>> \in Transitions

\* Statuses for which a job may be sent, claimed or completed.
Dispatchable(s) == s \in {"queued", "running"}

=============================================================================

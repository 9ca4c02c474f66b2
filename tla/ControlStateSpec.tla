------------------------- MODULE ControlStateSpec -------------------------
(***************************************************************************)
(* What the control-state store promises its callers: the desired state of *)
(* an idempotency key is merged into its target in one step, at most once, *)
(* and the receipt of the key holds the target's state before and after.   *)
(***************************************************************************)

CONSTANTS
    Keys,      \* idempotency keys
    Targets,   \* (resource_type, target) pairs
    TargetOf,  \* the target of each key
    Fields,    \* fields of the states
    Values,    \* their values
    Desired    \* the desired state of each key

VARIABLES
    state,     \* remediation_target_states.state, the empty map without a row
    receipts   \* remediation_execution_receipts

vars == <<state, receipts>>

\* JSON objects, as maps from some of the fields.
Maps == UNION {[F -> Values] : F \in SUBSET Fields}
Empty == [f \in {} |-> f]

mergeState(current, desired) ==
    [f \in DOMAIN current \cup DOMAIN desired |->
        IF f \in DOMAIN desired THEN desired[f] ELSE current[f]]

Receipts == [key: Keys, before: Maps, after: Maps]
Receipt(k, current) == [key |-> k, before |-> current, after |-> mergeState(current, Desired[k])]
HasReceipt(k) == \E x \in receipts : x.key = k

Init ==
    /\ state = [t \in Targets |-> Empty]
    /\ receipts = {}

Apply(k) ==
    LET x == Receipt(k, state[TargetOf[k]])
    IN  /\ ~HasReceipt(k)
        /\ state' = [state EXCEPT ![TargetOf[k]] = x.after]
        /\ receipts' = receipts \cup {x}

Next == \E k \in Keys : Apply(k)

Spec == Init /\ [][Next]_vars

=============================================================================

------------------------- MODULE MCIncidentResponse -------------------------
(* Instances of IncidentResponse for TLC. *)
EXTENDS IncidentResponse, TLC

CONSTANTS diagnostics, restart

\* The two kinds of registered actions: low risk, and medium risk whose
\* proposal claims that it is low.
MCInput ==
    [a \in Actions |->
        [role |-> "operator", enabled |-> TRUE, requested |-> "low", valid |-> TRUE,
         catalog |-> IF a = diagnostics THEN "low" ELSE "medium"]]

Symmetry == Permutations(Calls)

=============================================================================

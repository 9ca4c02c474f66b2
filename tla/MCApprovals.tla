---------------------------- MODULE MCApprovals ----------------------------
(* Instances of Approvals for TLC. *)
EXTENDS Approvals, TLC

\* Replicas are interchangeable, and so are operators.
Symmetry == Permutations(Replicas) \cup Permutations(Actors)

=============================================================================

---------------------------- MODULE MCAuditChain ----------------------------
(* Instances of AuditChain for TLC. *)
EXTENDS AuditChain, TLC

CONSTANTS e1, e2

\* An old ledger of two rows, and a new one.
TwoRows == <<e1, e2>>
NoLegacy == <<>>

Symmetry == Permutations(Writers) \cup Permutations(Verifiers)

=============================================================================

----------------------- MODULE MCRemediationPipeline -----------------------
(* Instances of RemediationPipeline for TLC.                               *)
EXTENDS RemediationPipeline, TLC

Symmetry == Permutations(Workers)

=============================================================================

---------------------------- MODULE MCIngestion -----------------------------
(* Instances of Ingestion for TLC. *)
EXTENDS Ingestion, TLC

\* A service and its dependency, found while alerts arrive.
TwoServices == {<<1, "a">>, <<2, "a">>}
Chain == {<<1, 2>>}
NoEdges == {}

\* A service with two dependencies.
OneEach == {<<1, "a">>, <<2, "a">>, <<3, "a">>}
TwoRoots == {<<1, 2>>, <<1, 3>>}

Symmetry == Permutations(Ids) \cup Permutations(Replicas)

=============================================================================

----------------------------- MODULE MCAnalysis -----------------------------
(***************************************************************************)
(* The two pure computations over the alerts of an incident, for TLC: the  *)
(* grouping by topology, over all graphs of a size and all sets of alerted *)
(* services, and the scoring of hypotheses, over all short sequences of   *)
(* alerts and all answers.  The scores do not depend on the graph, only on *)
(* which alerts are on the root, so one of the two inputs grows at a time. *)
(***************************************************************************)
EXTENDS Catalog, Scoring

CONSTANT MaxEdges    \* bound on the dependencies of the catalog

Init == edges = {} /\ NoAlerts

Upsert ==
    /\ Cardinality(edges) < MaxEdges
    /\ \E e \in Services \X Services : UpsertServiceDependency(e[1], e[2])
Next ==
    \/ NoAlerts /\ Upsert /\ UNCHANGED <<signals, results, report>>
    \/ edges = {} /\ Analysis /\ UNCHANGED edges
Spec == Init /\ [][Next]_<<edges, signals, results, report>>

\* Alerts of every rule and of none, one whose label overrides its name, on the
\* root and on a service that depends on it, with targets usable for all actions,
\* for all but the restart of a pod, or for none.
Actions == UNION {DefaultRules[r].remediations : r \in Rules}
AlertKinds ==
    [mode : {"none"}, name : Rules \cup {"none"}, service : {"root", "dependent"},
     accepted : {Actions \ {"restart_pod"}}]
        \cup [mode : {"redis_memory_pressure"}, name : {"nginx_upstream_config"}, service : {"root", "dependent"},
              accepted : {Actions, {}}]

=============================================================================

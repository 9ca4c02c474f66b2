------------------------------ MODULE Catalog -------------------------------
(***************************************************************************)
(* The catalog of service dependencies of one environment, and what the    *)
(* graph made of it promises to the ingestion of alerts.                   *)
(***************************************************************************)
EXTENDS Topology

CONSTANT Services

ASSUME ServicesAssumption == Services \subseteq Nat /\ IsFiniteSet(Services)

VARIABLE edges    \* service_dependencies

UpsertServiceDependency(service, dependency) ==
    /\ service # dependency
    /\ edges' = edges \cup {<<service, dependency>>}

-----------------------------------------------------------------------------
(* The reference: sets that are closed under dependency, and walks.        *)

Closed(X) == \A e \in edges : e[1] \in X => e[2] \in X
Reaches(s, t) == \A X \in SUBSET Services : s \in X /\ Closed(X) => t \in X

Walks(s, t, n) ==
    {w \in [1..n -> Services] : w[1] = s /\ w[n] = t /\ \A i \in 1..(n - 1) : <<w[i], w[i + 1]>> \in edges}
EarlierName(v, w) == \E i \in DOMAIN v : v[i] < w[i] /\ \A j \in 1..(i - 1) : v[j] = w[j]
ShortestFirst(s, t) ==
    LET n == CHOOSE n \in 1..Cardinality(Services) : Walks(s, t, n) # {} /\ \A m \in 1..(n - 1) : Walks(s, t, m) = {}
    IN  CHOOSE w \in Walks(s, t, n) : \A v \in Walks(s, t, n) \ {w} : EarlierName(w, v)

-----------------------------------------------------------------------------
(* Properties.                                                             *)

\* Graph.Path finds a path exactly if there is one, cycles or not, and then the
\* shortest; of several, the first in the order of names.
PathRight ==
    \A s, t \in Services : Path(New(edges), s, t) = IF Reaches(s, t) THEN ShortestFirst(s, t) ELSE NoPath

\* Graph.Groups puts every alerted service into exactly one group, with a root
\* it depends on; a root that alerted is in its own group, so that ingestion
\* finds its alert there.  The roots of one delivery do not depend on each
\* other: no group of it is attached to the incident that another one opens.
GroupsRight ==
    \A alerted \in SUBSET Services :
        LET groups == Groups(New(edges), alerted)
        IN  /\ IsGrouping(New(edges), alerted, groups)
            /\ \A n \in DOMAIN groups :
                  LET a == groups[n]
                  IN  /\ a.members \subseteq alerted
                      /\ \A s \in a.members : Reaches(s, a.root)
                      /\ ~a.inferred <=> a.root \in a.members

\* Alerts that share a reachable upstream dependency become one group.
SharedDependencyOneGroup ==
    \A alerted \in SUBSET Services : \A a, b \in GroupSet(New(edges), alerted) : a # b =>
        \A s \in a.members, t \in b.members, d \in Services : ~(Reaches(s, d) /\ Reaches(t, d))

=============================================================================

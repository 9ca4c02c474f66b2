------------------------------ MODULE Topology ------------------------------
(***************************************************************************)
(* The service graph (topology.Graph): dependency paths and the grouping   *)
(* of alerted services behind a root.  Services are numbers, ordered as    *)
(* their names are; a graph is the set of its edges <<service, dependency>>*)
(***************************************************************************)
EXTENDS Naturals, Sequences, FiniteSets, FiniteSetsExt

New(edges) == {e \in edges : e[1] # e[2]}
services(graph) == {e[1] : e \in graph} \cup {e[2] : e \in graph}
dependencies(graph, service) == {d \in services(graph) : <<service, d>> \in graph}

-----------------------------------------------------------------------------
(* Path: breadth first, dependencies in the order of their names.          *)

NoPath == <<>>

\* Mutant: the search takes the newest path first.
VisitDepthFirst(search, next) ==
    LET path == Append(search.path, next)
    IN  IF search.found # NoPath \/ next \in search.visited THEN search
        ELSE IF next = search.dependency THEN [search EXCEPT !.found = path]
        ELSE [search EXCEPT !.queue = <<path>> \o @, !.visited = @ \cup {next}]

\* One dependency of the service at the end of the current path.
Visit(search, next) ==
    LET path == Append(search.path, next)
    IN  IF search.found # NoPath \/ next \in search.visited THEN search
        ELSE IF next = search.dependency THEN [search EXCEPT !.found = path]
        ELSE [search EXCEPT !.queue = Append(@, path), !.visited = @ \cup {next}]

\* The next path of the queue.  (A fold takes up last what it chooses first.)
Expand(graph, search) ==
    LET path == Head(search.queue)
    IN  IF search.found # NoPath \/ search.queue = <<>> THEN search
        ELSE MapThenFoldSet(LAMBDA next, s : Visit(s, next), [search EXCEPT !.path = path, !.queue = Tail(@)],
                            LAMBDA next : next, Max, dependencies(graph, path[Len(path)]))

\* Every service enters the queue at most once.
Path(graph, service, dependency) ==
    LET start == [dependency |-> dependency, path |-> NoPath, found |-> NoPath,
                  queue |-> <<<<service>>>>, visited |-> {service}]
    IN  IF service = dependency THEN <<service>>
        ELSE FoldSet(LAMBDA n, search : Expand(graph, search), start, 1..Cardinality(services(graph))).found

-----------------------------------------------------------------------------
(* Groups: greedily, the root that explains most of what is left.          *)

rootCandidates(graph, unassigned) ==
    {r \in services(graph) \cup unassigned : \E s \in unassigned : Path(graph, s, r) # NoPath}

\* Mutant: what an earlier group covers is covered again.
CoveredAgain(graph, root, unassigned, alerted) ==
    LET members == {s \in alerted : Path(graph, s, root) # NoPath}
    IN  [root |-> root, members |-> members, inferred |-> root \notin alerted,
         distance |-> MapThenSumSet(LAMBDA s : Len(Path(graph, s, root)) - 1, members)]

covered(graph, root, unassigned, alerted) ==
    LET members == {s \in unassigned : Path(graph, s, root) # NoPath}
    IN  [root |-> root, members |-> members, inferred |-> root \notin alerted,
         distance |-> MapThenSumSet(LAMBDA s : Len(Path(graph, s, root)) - 1, members)]

betterRoot(a, b) ==
    LET n == Cardinality(a.members)
        m == Cardinality(b.members)
    IN  \/ n > m
        \/ n = m /\ a.distance < b.distance
        \/ n = m /\ a.distance = b.distance /\ ~a.inferred /\ b.inferred
        \/ n = m /\ a.distance = b.distance /\ a.inferred = b.inferred /\ a.root < b.root

BestGroup(graph, unassigned, alerted) ==
    LET candidates == {covered(graph, r, unassigned, alerted) : r \in rootCandidates(graph, unassigned)}
    IN  CHOOSE a \in candidates : \A b \in candidates \ {a} : betterRoot(a, b)

GroupSet(graph, alerted) ==
    LET groups[unassigned \in SUBSET alerted] ==
            IF unassigned = {} THEN {}
            ELSE LET best == BestGroup(graph, unassigned, alerted)
                 IN  {best} \cup groups[unassigned \ best.members]
    IN  groups[alerted]
LastByRoot(groups) == CHOOSE a \in groups : \A b \in groups : b.root <= a.root
Groups(graph, alerted) ==
    MapThenFoldSet(LAMBDA group, sorted : Append(sorted, group), <<>>, LAMBDA group : group, LastByRoot,
                   GroupSet(graph, alerted))

\* What the callers of Groups rely on: every alerted service is in exactly one
\* group, no group is empty, and no root depends on another one.
GroupType == [root : Nat, members : SUBSET Nat, inferred : BOOLEAN, distance : Nat]
IsGrouping(graph, alerted, groups) ==
    /\ groups \in Seq(GroupType)
    /\ \A s \in alerted : \E n \in DOMAIN groups : s \in groups[n].members
    /\ \A n \in DOMAIN groups : \E s \in alerted : s \in groups[n].members
    /\ \A m, n \in DOMAIN groups : m # n =>
          /\ \A s \in alerted : ~(s \in groups[m].members /\ s \in groups[n].members)
          /\ Path(graph, groups[m].root, groups[n].root) = NoPath

=============================================================================

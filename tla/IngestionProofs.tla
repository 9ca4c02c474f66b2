-------------------------- MODULE IngestionProofs ---------------------------
(***************************************************************************)
(* What deliveries do to incidents, for any number of replicas, services,  *)
(* alerts and deliveries and for any catalog, cycles included.  Deliveries *)
(* rest on Path and Groups, so these come first: folds over finite sets,   *)
(* whose values are found by induction over sets and not over operators.   *)
(***************************************************************************)
EXTENDS Ingestion, FiniteSetTheorems, WellFoundedInduction, TLAPS

\* Most leaves are first-order; those with arithmetic or sequences cite SMT.
USE Zenon

-----------------------------------------------------------------------------
(* What the proofs about the service graph speak of.                       *)

\* g is defined by recursion on a size of at most N, with values in V.
Recursive(D, V, stop, N, size, rest, base, step) ==
    /\ N \in Nat /\ size \in [D -> 0..N] /\ rest \in [D -> D]
    /\ base \in V /\ step \in [D \X V -> V]
    /\ \A x \in D : x \notin stop => size[rest[x]] < size[x]
Solves(g, D, stop, rest, base, step) ==
    \A x \in D : g[x] = IF x \in stop THEN base ELSE step[<<x, g[rest[x]]>>]

\* U is in G if every proper subset of it is.
Inductive(S, G) == \A U \in SUBSET S : (\A W \in SUBSET U : W # U => W \in G) => U \in G

\* g is defined by recursion on the subsets of S.
SetRecursive(S, V, rest, base, step) ==
    /\ IsFiniteSet(S) /\ rest \in [SUBSET S -> SUBSET S] /\ base \in V /\ step \in [(SUBSET S) \X V -> V]
    /\ \A U \in SUBSET S : U # {} => rest[U] \subseteq U /\ rest[U] # U
SetSolves(g, S, rest, base, step) ==
    \A U \in SUBSET S : g[U] = IF U = {} THEN base ELSE step[<<U, g[rest[U]]>>]

\* The first of a finite set in a total order.
TotalOn(R, S) ==
    /\ \A a, b \in S : a # b => <<a, b>> \in R \/ <<b, a>> \in R
    /\ \A a, b, c \in S : <<a, b>> \in R /\ <<b, c>> \in R => <<a, c>> \in R
First(a, R, S) == a \in S /\ \A b \in S \ {a} : <<a, b>> \in R

\* The graphs of the services.
Graphs == SUBSET (Services \X Services)

\* t is in every set that contains s and is closed under dependency.
ClosedIn(graph, X) == \A e \in graph : e[1] \in X => e[2] \in X
Depends(graph, s, t) == \A X : s \in X /\ ClosedIn(graph, X) => t \in X

\* The last service of a path.
End(path) == path[Len(path)]

\* Shorter paths come first, and of two with the same length the one that has the
\* earlier name where they part.
Before(v, w) == Len(v) < Len(w) \/ (Len(v) = Len(w) /\ EarlierName(v, w))
UpTo(v, w) == v = w \/ Before(v, w)

\* Sequences of services along the edges, from s.
IsWalk(graph, s, w) ==
    /\ w \in Seq(Services) /\ w # <<>> /\ w[1] = s
    /\ \A i \in 1..(Len(w) - 1) : <<w[i], w[i + 1]>> \in graph

\* The first of those with the same end.
Least(graph, s, p) ==
    IsWalk(graph, s, p) /\ \A w \in Seq(Services) : IsWalk(graph, s, w) /\ End(w) = End(p) => UpTo(p, w)
Part(w, j) == [i \in 1..j |-> w[i]]

\* The first path to d; it visits no service twice.
Shortest(graph, s, d, p) == Least(graph, s, p) /\ End(p) = d /\ Len(p) <= Cardinality(Services)

\* The state of a search for d.
Search(d) ==
    [dependency : {d}, path : Seq(Services), found : Seq(Services), queue : Seq(Seq(Services)), visited : SUBSET Services]

\* The dependencies of the service at the end of the path are visited in order.
VisitAll(f, deps, x) == f = [U \in SUBSET deps |-> IF U = {} THEN x ELSE Visit(f[U \ {Max(U)}], Max(U))]

\* A search once its first path is taken up.
Popped(x) == [x EXCEPT !.path = Head(x.queue), !.queue = Tail(x.queue)]

\* What holds when a path is taken up, and is kept by each Visit in the order of
\* the names, holds after the last.
VisitClosed(P, d, deps) ==
    \A U \in SUBSET deps, next \in deps, y \in Search(d) :
        <<U, y>> \in P /\ (\A m \in U : m < next) => <<U \cup {next}, Visit(y, next)>> \in P

\* Everything visited is a dependency.
Sound(graph, s, d, x) ==
    /\ x \in Search(d)
    /\ x.found # NoPath => Depends(graph, s, d) /\ Shortest(graph, s, d, x.found)
    /\ x.found = NoPath => d \notin x.visited
    /\ s \in x.visited /\ \A v \in x.visited : Depends(graph, s, v)
    /\ \A i \in DOMAIN x.queue : x.queue[i] # <<>> /\ End(x.queue[i]) \in x.visited

\* The dependencies of what was visited are, unless it is still in the queue.
Queued(x, v) == \E i \in DOMAIN x.queue : End(x.queue[i]) = v
Complete(graph, x, open) ==
    \A v \in x.visited \ open : Queued(x, v) \/ dependencies(graph, v) \subseteq x.visited

\* n paths were taken from the queue.
Counted(x, n) == n + Len(x.queue) <= Cardinality(x.visited)

\* The queue holds, in order, first paths after the current one: each is one
\* service longer than a path taken up before, or than the current one.
Extends(q, path, U) ==
    \E f \in Seq(Services) : \E a \in Services : q = Append(f, a) /\ UpTo(f, path) /\ (f = path => a \in U)
Ordered(graph, s, U, x) ==
    /\ \A i \in DOMAIN x.queue :
          /\ Least(graph, s, x.queue[i]) /\ Before(x.path, x.queue[i]) /\ Extends(x.queue[i], x.path, U)
          /\ Len(x.queue[i]) <= Cardinality(x.visited)
    /\ \A i, j \in DOMAIN x.queue : i < j => Before(x.queue[i], x.queue[j])

\* While the dependencies of u are visited, those in U were.
Visiting(graph, s, d, u, n, U, x) ==
    /\ Sound(graph, s, d, x)
    /\ x.path # <<>> /\ End(x.path) = u /\ u \in x.visited
    /\ x.found = NoPath =>
          /\ Complete(graph, x, {u}) /\ Counted(x, n) /\ U \subseteq x.visited
          /\ Least(graph, s, x.path) /\ Len(x.path) <= Cardinality(x.visited) /\ Ordered(graph, s, U, x)

\* After n paths.
Searching(graph, s, d, n, x) ==
    /\ Sound(graph, s, d, x)
    /\ x.found = NoPath =>
          Complete(graph, x, {}) /\ (x.queue # <<>> => Counted(x, n)) /\ Ordered(graph, s, Services, x)

\* The paths of the queue are taken up one after the other.
ExpandAll(f, graph, N, start) ==
    f = [U \in SUBSET (1..N) |-> IF U = {} THEN start ELSE Expand(graph, f[U \ {CHOOSE n \in U : TRUE}])]
Start(s, d) ==
    [dependency |-> d, path |-> NoPath, found |-> NoPath, queue |-> <<<<s>>>>, visited |-> {s}]

\* The sum of the distances of S to a root.
SumAll(f, graph, root, S) ==
    f = [T \in SUBSET S |-> IF T = {} THEN 0
                            ELSE (Len(Path(graph, CHOOSE s \in T : TRUE, root)) - 1) + f[T \ {CHOOSE s \in T : TRUE}]]

\* c is the group of a root.
IsCovered(c, graph, root, U, alerted) ==
    /\ c \in [root : {root}, members : SUBSET U, inferred : BOOLEAN, distance : Nat]
    /\ c.members = {s \in U : Depends(graph, s, root)}
    /\ c.inferred <=> root \notin alerted

\* Groups that betterRoot can compare.
Ranked == {a \in GroupType : IsFiniteSet(a.members)}

\* The root of the best group covers at least as much as any other candidate.
IsBest(graph, U, alerted, best) ==
    /\ best \in GroupType /\ best.root \in Services
    /\ best = covered(graph, best.root, U, alerted)
    /\ best.members # {} /\ best.members \subseteq U
    /\ \A s \in U : s \in best.members <=> Depends(graph, s, best.root)
    /\ \A r \in Services, M \in SUBSET U :
          M # {} /\ (\A s \in M : Depends(graph, s, r)) => Cardinality(M) <= Cardinality(best.members)

\* The groups of every set of services.
GroupAll(f, graph, alerted) ==
    f = [U \in SUBSET alerted |-> IF U = {} THEN {} ELSE {BestGroup(graph, U, alerted)}
                                       \cup f[U \ BestGroup(graph, U, alerted).members]]

\* Every service of U is in one group; no root depends on another one.
Apart(graph, a, b) == (\A s \in a.members : s \notin b.members) /\ ~Depends(graph, a.root, b.root)
Grouped(graph, alerted, U, groups) ==
    /\ IsFiniteSet(groups) /\ groups \in SUBSET GroupType
    /\ \A a \in groups :
          /\ a.root \in Services /\ a.members # {} /\ a.members \subseteq U
          /\ a.inferred <=> a.root \notin alerted
          /\ \A s \in a.members : Depends(graph, s, a.root)
    /\ \A s \in U : \E a \in groups : s \in a.members
    /\ \A a, b \in groups : a # b => Apart(graph, a, b)

\* Every set of groups in the order of roots.
SortAll(f, S) == f = [T \in SUBSET S |-> IF T = {} THEN <<>> ELSE Append(f[T \ {LastByRoot(T)}], LastByRoot(T))]

\* q lists the groups of T, each once.
Lists(q, T) ==
    /\ q \in Seq(GroupType)
    /\ \A n \in DOMAIN q : q[n] \in T
    /\ \A a \in T : \E n \in DOMAIN q : q[n] = a
    /\ \A m, n \in DOMAIN q : m # n => q[m] # q[n]

-----------------------------------------------------------------------------
(* The service graph.                                                      *)

\* Depends is reflexive and transitive, and follows the edges.
LEMMA DependsFacts ==
    ASSUME NEW graph
    PROVE  /\ \A s : Depends(graph, s, s)
           /\ \A s, t, u : Depends(graph, s, t) /\ Depends(graph, t, u) => Depends(graph, s, u)
           /\ \A s, t, u : Depends(graph, s, t) /\ <<t, u>> \in graph => Depends(graph, s, u)
<1>1. ASSUME NEW t, NEW u, <<t, u>> \in graph PROVE Depends(graph, t, u)
  <2>1. <<t, u>>[1] = t /\ <<t, u>>[2] = u
    OBVIOUS
  <2> QED BY <1>1, <2>1 DEF Depends, ClosedIn
<1>2. \A s, t, u : Depends(graph, s, t) /\ Depends(graph, t, u) => Depends(graph, s, u)
  BY DEF Depends
<1>3. \A s : Depends(graph, s, s)
  BY DEF Depends
<1> QED BY <1>1, <1>2, <1>3

\* Path returns a path exactly if there is a dependency, and then the one that its
\* reference chooses; Groups returns a grouping, each service with a root that it
\* depends on.  The search takes up paths in order, shorter ones and then earlier
\* names first, so that the one that first reaches a service is the first to it.
LEMMA TopologyFacts ==
    /\ \A graph \in Graphs : \A s, d \in Services :
          Path(graph, s, d) \in Seq(Services) /\ (Path(graph, s, d) # NoPath <=> Depends(graph, s, d))
    /\ \A graph \in Graphs : \A alerted \in SUBSET Services :
          LET groups == Groups(graph, alerted)
          IN  /\ IsGrouping(graph, alerted, groups)
              /\ \A n \in DOMAIN groups :
                    /\ groups[n].root \in Services /\ groups[n].members \subseteq alerted
                    /\ \A s \in groups[n].members : Depends(graph, s, groups[n].root)
    /\ edges \in Graphs => PathRight /\ GroupsRight
\* A set of natural numbers has a least one.
<1>NatLeast.
  ASSUME NEW T, T \subseteq Nat, T # {}
  PROVE  \E n \in T : \A m \in T : n <= m
  <2> USE <1>NatLeast
  <2>1. PICK n \in T : \A y \in T : ~(<<y, n>> \in OpToRel(<, Nat))
    BY NatLessThanWellFounded, WFMin
  <2>2. ASSUME NEW m \in T PROVE n <= m
    <3>1. ~(m < n)
      BY <2>1 DEF OpToRel
    <3> QED BY <3>1, SMT
  <2> QED BY <2>2

\* Induction over the natural numbers, for a set.
<1>NatSet.
  ASSUME NEW S, 0 \in S, \A n \in Nat : n \in S => n + 1 \in S
  PROVE  \A n \in Nat : n \in S
  <2> USE <1>NatSet
  <2> DEFINE T == Nat \ S
  <2> SUFFICES ASSUME T # {} PROVE FALSE
    OBVIOUS
  <2>1. PICK n \in T : \A m \in T : n <= m
    BY <1>NatLeast
  <2>2. n - 1 \in Nat /\ (n - 1) + 1 = n /\ ~(n <= n - 1)
    BY SMT
  <2> QED BY <2>1, <2>2

\* A function that is defined by recursion exists.
<1>Recursion.
  ASSUME NEW D, NEW V, NEW stop, NEW N, NEW size, NEW rest, NEW base, NEW step,
         Recursive(D, V, stop, N, size, rest, base, step)
  PROVE  \E g \in [D -> V] : Solves(g, D, stop, rest, base, step)
  <2> USE <1>Recursion
  <2> USE DEF Recursive, Solves
  <2> DEFINE Eq(g, x) == g[x] = IF x \in stop THEN base ELSE step[<<x, g[rest[x]]>>]
             Up(n) == \E g \in [D -> V] : \A x \in D : size[x] < n => Eq(g, x)
             S == {n \in Nat : Up(n)}
  <2>1. 0 \in S
    <3>1. [x \in D |-> base] \in [D -> V] /\ \A x \in D : ~(size[x] < 0)
      BY SMT
    <3> QED BY <3>1
  <2>2. ASSUME NEW n \in Nat, n \in S PROVE n + 1 \in S
    <3>1. PICK g \in [D -> V] : \A x \in D : size[x] < n => Eq(g, x)
      BY <2>2
    <3> DEFINE h == [x \in D |-> IF x \in stop THEN base ELSE step[<<x, g[rest[x]]>>]]
    <3>2. h \in [D -> V]
      OBVIOUS
    <3>3. ASSUME NEW x \in D, size[x] < n + 1 PROVE Eq(h, x)
      <4>1. CASE x \in stop
        BY <4>1
      <4>2. CASE x \notin stop
        <5>1. size[rest[x]] < n /\ rest[x] \in D
          <6>1. rest[x] \in D /\ size[rest[x]] \in 0..N /\ size[x] \in 0..N /\ size[rest[x]] < size[x]
            BY <4>2
          <6> QED BY <6>1, <3>3, SMT
        <5>2. g[rest[x]] = h[rest[x]]
          BY <5>1, <3>1
        <5> QED BY <4>2, <5>2
      <4> QED BY <4>1, <4>2
    <3>4. n + 1 \in Nat
      BY SMT
    <3> HIDE DEF h, Eq
    <3> QED BY <3>2, <3>3, <3>4
  <2>3. N + 1 \in S
    <3>1. N + 1 \in Nat
      BY SMT
    <3> HIDE DEF S
    <3> QED BY <2>1, <2>2, <3>1, <1>NatSet
  <2>4. \A x \in D : size[x] < N + 1
    BY SMT
  <2> QED BY <2>3, <2>4

\* Induction over a finite set.
<1>SetInduction.
  ASSUME NEW S, IsFiniteSet(S), NEW G, Inductive(S, G)
  PROVE  \A U \in SUBSET S : U \in G
  <2> USE <1>SetInduction
  <2> USE DEF Inductive
  <2> DEFINE T == (SUBSET S) \ G
  <2> SUFFICES ASSUME T # {} PROVE FALSE
    OBVIOUS
  <2>1. IsWellFoundedOn(StrictSubsetOrdering(S), SUBSET S)
    <3>1. FiniteSubsetsOf(S) = SUBSET S
      BY FS_FiniteSubsetsOfFinite
    <3>2. IsWellFoundedOn(StrictSubsetOrdering(S), FiniteSubsetsOf(S))
      BY FS_StrictSubsetOrderingWellFounded
    <3> QED BY <3>1, <3>2
  <2>2. PICK U \in T : \A y \in T : ~(<<y, U>> \in StrictSubsetOrdering(S))
    <3>1. T \subseteq SUBSET S /\ T # {}
      OBVIOUS
    <3> HIDE DEF T
    <3> QED BY <2>1, <3>1, WFMin, SMT
  <2>3. PICK W \in SUBSET U : W # U /\ W \notin G
    BY <2>2
  <2>4. <<W, U>> \in StrictSubsetOrdering(S)
    BY <2>2, <2>3, SMT DEF StrictSubsetOrdering
  <2> QED BY <2>2, <2>3, <2>4

\* A function that is defined by recursion on subsets exists.
<1>SetRecursion.
  ASSUME NEW S, NEW V, NEW rest, NEW base, NEW step, SetRecursive(S, V, rest, base, step)
  PROVE  \E g \in [SUBSET S -> V] : SetSolves(g, S, rest, base, step)
  <2> USE <1>SetRecursion
  <2> USE DEF SetRecursive
  <2> DEFINE N == Cardinality(S)
             size == [U \in SUBSET S |-> Cardinality(U)]
  <2>1. N \in Nat
    BY FS_CardinalityType
  <2>2. ASSUME NEW U \in SUBSET S PROVE IsFiniteSet(U) /\ Cardinality(U) \in 0..N
    <3>1. IsFiniteSet(U) /\ Cardinality(U) <= N /\ Cardinality(U) \in Nat
      BY FS_Subset, FS_CardinalityType
    <3> QED BY <2>1, <3>1, SMT
  <2>3. size \in [SUBSET S -> 0..N]
    BY <2>2
  <2>4. \A U \in SUBSET S : U \notin {{}} => size[rest[U]] < size[U]
    <3> SUFFICES ASSUME NEW U \in SUBSET S, U # {} PROVE Cardinality(rest[U]) < Cardinality(U)
      OBVIOUS
    <3>1. rest[U] \in SUBSET U /\ rest[U] # U /\ IsFiniteSet(U)
      BY <2>2
    <3>2. Cardinality(rest[U]) <= Cardinality(U) /\ Cardinality(rest[U]) # Cardinality(U)
      BY <3>1, FS_Subset
    <3>3. Cardinality(rest[U]) \in Nat /\ Cardinality(U) \in Nat
      BY <3>1, FS_Subset, FS_CardinalityType
    <3> QED BY <3>2, <3>3, SMT
  <2> DEFINE D == SUBSET S
             stop == {{}}
  <2>5. \A U \in D : U \notin stop => size[rest[U]] < size[U]
    BY <2>4
  <2>6. \E g \in [D -> V] : \A U \in D : g[U] = IF U \in stop THEN base ELSE step[<<U, g[rest[U]]>>]
    <3>1. Recursive(D, V, stop, N, size, rest, base, step)
      BY <2>1, <2>3, <2>5 DEF Recursive
    <3> HIDE DEF size, N, D, stop
    <3>2. \E g \in [D -> V] : Solves(g, D, stop, rest, base, step)
      BY <3>1, <1>Recursion
    <3> QED BY <3>2 DEF Solves
  <2> QED BY <2>6 DEF SetSolves

\* A finite set that is totally ordered has a first element.
<1>FiniteFirst.
  ASSUME NEW S, IsFiniteSet(S), S # {}, NEW R, TotalOn(R, S)
  PROVE  \E a \in S : First(a, R, S)
  <2> USE <1>FiniteFirst
  <2> DEFINE G == {U \in SUBSET S : U # {} => \E a \in U : First(a, R, U)}
  <2>1. ASSUME NEW U \in SUBSET S, \A W \in SUBSET U : W # U => W \in G PROVE U \in G
    <3> SUFFICES ASSUME U # {} PROVE \E a \in U : First(a, R, U)
      OBVIOUS
    <3>1. PICK x \in U : TRUE
      OBVIOUS
    <3> DEFINE W == U \ {x}
    <3>2. W \in G
      BY <2>1
    <3>3. CASE W = {}
      BY <3>3 DEF First
    <3>4. CASE W # {}
      <4>1. PICK a \in W : First(a, R, W)
        BY <3>2, <3>4
      <4>2. CASE <<a, x>> \in R
        BY <4>1, <4>2 DEF First
      <4>3. CASE <<a, x>> \notin R
        <5>1. <<x, a>> \in R
          BY <4>3 DEF TotalOn
        <5>2. \A b \in W : <<x, b>> \in R
          BY <4>1, <5>1 DEF TotalOn, First
        <5> QED BY <5>2 DEF First
      <4> QED BY <4>2, <4>3
    <3> QED BY <3>3, <3>4
  <2>2. S \in G
    <3>1. Inductive(S, G)
      BY <2>1 DEF Inductive
    <3> HIDE DEF G
    <3>2. \A U \in SUBSET S : U \in G
      BY <3>1, <1>SetInduction
    <3> QED BY <3>2
  <2> QED BY <2>2

\* The services of a graph, and the dependencies of one of them.
<1>GraphFacts.
  ASSUME NEW graph \in Graphs
  PROVE  /\ services(graph) \subseteq Services /\ IsFiniteSet(services(graph))
         /\ \A s : dependencies(graph, s) \in SUBSET Services /\ IsFiniteSet(dependencies(graph, s))
         /\ \A s, t : t \in dependencies(graph, s) <=> <<s, t>> \in graph
  <2>1. \A e \in graph : e[1] \in Services /\ e[2] \in Services
    BY DEF Graphs
  <2>2. services(graph) \subseteq Services
    BY <2>1 DEF services
  <2>3. IsFiniteSet(services(graph))
    BY <2>2, ServicesAssumption, FS_Subset
  <2>4. ASSUME NEW s, NEW t, <<s, t>> \in graph PROVE t \in services(graph)
    <3>1. <<s, t>>[2] = t
      OBVIOUS
    <3> QED BY <2>4, <3>1 DEF services
  <2>5. \A s : dependencies(graph, s) \in SUBSET services(graph)
    BY DEF dependencies
  <2>6. \A s : IsFiniteSet(dependencies(graph, s))
    BY <2>3, <2>5, FS_Subset
  <2> QED BY <2>2, <2>3, <2>4, <2>5, <2>6 DEF dependencies

\* New drops the edges from a service to itself, which change nothing.
<1>NewFacts.
  ASSUME edges \in Graphs, NEW s \in Services, NEW t
  PROVE  /\ New(edges) \in Graphs /\ New(edges) \subseteq edges
         /\ \A e \in edges : e[1] # e[2] => e \in New(edges)
         /\ Reaches(s, t) <=> Depends(New(edges), s, t)
  <2> USE <1>NewFacts
  <2>1. /\ New(edges) \in Graphs /\ New(edges) \subseteq edges
        /\ \A e \in edges : e[1] # e[2] => e \in New(edges)
    BY DEF New, Graphs
  <2>2. ASSUME Depends(New(edges), s, t), NEW X \in SUBSET Services, s \in X, Closed(X) PROVE t \in X
    <3>1. ClosedIn(New(edges), X)
      BY <2>1, <2>2 DEF ClosedIn, Closed
    <3> QED BY <2>2, <3>1 DEF Depends
  <2>3. ASSUME Reaches(s, t), NEW X, s \in X, ClosedIn(New(edges), X) PROVE t \in X
    <3>1. \A e \in edges : e[2] \in Services
      BY DEF Graphs
    <3>2. Closed(X \cap Services)
      BY <2>1, <2>3, <3>1 DEF ClosedIn, Closed
    <3> QED BY <2>3, <3>2 DEF Reaches
  <2> QED BY <2>1, <2>2, <2>3 DEF Reaches, Depends

\* A sequence with one more element.
<1>AppendFacts.
  ASSUME NEW T, NEW q \in Seq(T), NEW e \in T
  PROVE  /\ Append(q, e) \in Seq(T) /\ Append(q, e) # <<>> /\ Len(Append(q, e)) = Len(q) + 1
         /\ Append(q, e)[Len(q) + 1] = e /\ \A i \in 1..Len(q) : Append(q, e)[i] = q[i]
         /\ End(Append(q, e)) = e /\ DOMAIN Append(q, e) = DOMAIN q \cup {Len(q) + 1}
  <2>1. Append(q, e) \in Seq(T) /\ Len(Append(q, e)) = Len(q) + 1 /\ Len(q) \in Nat
    BY SMT
  <2>2. Len(<<>>) = 0
    BY SMT
  <2>3. Append(q, e) # <<>>
    BY <2>1, <2>2, SMT
  <2>4. Append(q, e)[Len(q) + 1] = e /\ \A i \in 1..Len(q) : Append(q, e)[i] = q[i]
    BY SMT
  <2>5. DOMAIN Append(q, e) = DOMAIN q \cup {Len(q) + 1}
    BY <2>1, SMT
  <2>6. End(Append(q, e)) = e
    BY <2>1, <2>4 DEF End
  <2> QED BY <2>1, <2>3, <2>4, <2>5, <2>6

\* Path: a search keeps Searching until it finds the service or its queue is empty.
<1>PathFacts.
  /\ \A graph \in Graphs : \A s, d \in Services :
        Path(graph, s, d) \in Seq(Services) /\ (Path(graph, s, d) # NoPath <=> Depends(graph, s, d))
  /\ edges \in Graphs => PathRight
  \* The first element of a sequence, and the others.
  <2>HeadTailFacts.
    ASSUME NEW T, NEW q \in Seq(T), q # <<>>
    PROVE  /\ Head(q) = q[1] /\ 1 \in DOMAIN q /\ Len(Tail(q)) = Len(q) - 1 /\ Len(q) \in Nat
           /\ \A i \in DOMAIN Tail(q) : i + 1 \in DOMAIN q /\ Tail(q)[i] = q[i + 1]
           /\ \A i \in DOMAIN q : i = 1 \/ \E j \in DOMAIN Tail(q) : Tail(q)[j] = q[i]
    <3> USE <2>HeadTailFacts
    <3>1. /\ Head(q) = q[1] /\ 1 \in DOMAIN q /\ Len(Tail(q)) = Len(q) - 1 /\ Len(q) \in Nat
          /\ \A i \in DOMAIN Tail(q) : i + 1 \in DOMAIN q /\ Tail(q)[i] = q[i + 1]
          /\ DOMAIN Tail(q) = 1..(Len(q) - 1) /\ DOMAIN q = 1..Len(q)
      BY SMT
    <3>2. ASSUME NEW i \in DOMAIN q, i # 1 PROVE \E j \in DOMAIN Tail(q) : Tail(q)[j] = q[i]
      <4>1. i - 1 \in DOMAIN Tail(q) /\ (i - 1) + 1 = i
        BY <3>1, <3>2, SMT
      <4> QED BY <3>1, <4>1
    <3> QED BY <3>1, <3>2

  \* The greatest of some services is one of them.
  <2>MaxIn.
    ASSUME NEW U \in SUBSET Services, U # {}
    PROVE  Max(U) \in U /\ \A m \in U : Max(U) >= m
    <3> USE <2>MaxIn
    <3> DEFINE R == {p \in Services \X Services : p[1] >= p[2]}
    <3>1. \A a, b \in Services : <<a, b>> \in R <=> a >= b
      OBVIOUS
    <3>2. TotalOn(R, U)
      <4> HIDE DEF R
      <4>1. \A a \in U : a \in Services /\ a \in Nat
        BY ServicesAssumption
      <4> QED BY <4>1, <3>1, SMT DEF TotalOn
    <3>3. IsFiniteSet(U)
      BY ServicesAssumption, FS_Subset
    <3> HIDE DEF R
    <3>4. PICK a \in U : First(a, R, U)
      BY <3>2, <3>3, <1>FiniteFirst
    <3>5. \A b \in U : a >= b
      <4>1. a \in Nat /\ a >= a
        BY ServicesAssumption, SMT
      <4> QED BY <3>1, <3>4, <4>1 DEF First
    <3> QED BY <3>5 DEF Max

  \* Before is a strict order.
  <2>BeforeOrder.
    ASSUME NEW u \in Seq(Services), NEW v \in Seq(Services), NEW w \in Seq(Services)
    PROVE  /\ ~Before(v, v)
           /\ Before(u, v) /\ Before(v, w) => Before(u, w)
    <3> DEFINE At(x, y, i) == x[i] < y[i] /\ \A j \in 1..(i - 1) : x[j] = y[j]
    <3>1. /\ Len(u) \in Nat /\ Len(v) \in Nat /\ Len(w) \in Nat
          /\ DOMAIN u = 1..Len(u) /\ DOMAIN v = 1..Len(v) /\ DOMAIN w = 1..Len(w)
      BY SMT
    <3>2. /\ \A i \in DOMAIN u : u[i] \in Nat
          /\ \A i \in DOMAIN v : v[i] \in Nat
          /\ \A i \in DOMAIN w : w[i] \in Nat
      <4>1. /\ \A i \in DOMAIN u : u[i] \in Services
            /\ \A i \in DOMAIN v : v[i] \in Services
            /\ \A i \in DOMAIN w : w[i] \in Services
        BY SMT
      <4> QED BY <4>1, ServicesAssumption
    <3>3. ~Before(v, v)
      BY <3>1, <3>2, SMT DEF Before, EarlierName
    <3>4. ASSUME Len(u) = Len(v), Len(v) = Len(w), EarlierName(u, v), EarlierName(v, w)
          PROVE  EarlierName(u, w)
      <4>1. PICK i \in DOMAIN u : At(u, v, i)
        BY <3>4 DEF EarlierName
      <4>2. PICK j \in DOMAIN v : At(v, w, j)
        BY <3>4 DEF EarlierName
      <4>3. CASE i <= j
        <5>1. i \in DOMAIN v /\ i \in DOMAIN w /\ \A m \in 1..(i - 1) : m \in 1..(j - 1)
          BY <3>1, <3>4, <4>3, SMT
        <5>2. i = j \/ i \in 1..(j - 1)
          BY <3>1, <4>3, SMT
        <5>3. u[i] < w[i]
          <6>1. v[i] <= w[i] /\ u[i] \in Nat /\ v[i] \in Nat /\ w[i] \in Nat
            BY <3>2, <4>2, <5>1, <5>2, SMT
          <6> QED BY <4>1, <6>1, SMT
        <5> QED BY <4>1, <4>2, <5>1, <5>3 DEF EarlierName
      <4>4. CASE j < i
        <5>1. j \in DOMAIN u /\ j \in 1..(i - 1) /\ \A m \in 1..(j - 1) : m \in 1..(i - 1)
          BY <3>1, <3>4, <4>4, SMT
        <5>2. u[j] < w[j]
          BY <4>1, <4>2, <5>1
        <5> QED BY <4>1, <4>2, <5>1, <5>2 DEF EarlierName
      <4>5. i \in Nat /\ j \in Nat
        BY <3>1, SMT
      <4> QED BY <4>3, <4>4, <4>5, SMT
    <3>5. Before(u, v) /\ Before(v, w) => Before(u, w)
      <4>1. Before(u, v) /\ Before(v, w) => Len(u) < Len(w) \/ (Len(u) = Len(v) /\ Len(v) = Len(w))
        <5>1. \A a, b, c \in Nat : (a < b \/ a = b) /\ (b < c \/ b = c) => a < c \/ (a = b /\ b = c)
          BY SMT
        <5> QED BY <3>1, <5>1 DEF Before
      <4>2. \A n \in Nat : ~(n < n)
        BY SMT
      <4> QED BY <3>1, <3>4, <4>1, <4>2 DEF Before
    <3> QED BY <3>3, <3>5

  \* How one more service changes it.
  <2>BeforeAppend.
    ASSUME NEW v \in Seq(Services), NEW w \in Seq(Services), NEW a \in Services, NEW b \in Services
    PROVE  /\ Before(v, Append(v, a))
           /\ Before(v, w) => Before(Append(v, a), Append(w, b))
           /\ a < b => Before(Append(v, a), Append(v, b))
    <3> DEFINE x == Append(v, a)
               y == Append(w, b)
               z == Append(v, b)
    <3>1. Len(v) \in Nat /\ Len(w) \in Nat /\ DOMAIN v = 1..Len(v) /\ DOMAIN w = 1..Len(w)
      BY SMT
    <3>2. /\ Len(x) = Len(v) + 1 /\ DOMAIN x = DOMAIN v \cup {Len(v) + 1} /\ x[Len(v) + 1] = a
          /\ \A i \in 1..Len(v) : x[i] = v[i]
      BY <1>AppendFacts, SMT
    <3>3. /\ Len(y) = Len(w) + 1 /\ y[Len(w) + 1] = b /\ \A i \in 1..Len(w) : y[i] = w[i]
      BY <1>AppendFacts, SMT
    <3>4. /\ Len(z) = Len(v) + 1 /\ z[Len(v) + 1] = b /\ \A i \in 1..Len(v) : z[i] = v[i]
      BY <1>AppendFacts, SMT
    <3> HIDE DEF x, y, z
    <3>5. Before(v, x)
      <4>1. \A n \in Nat : n < n + 1
        BY SMT
      <4> QED BY <3>1, <3>2, <4>1 DEF Before
    <3>6. a < b => Before(x, z)
      BY <3>1, <3>2, <3>4, SMT DEF Before, EarlierName
    <3>7. ASSUME Len(v) = Len(w), EarlierName(v, w) PROVE EarlierName(x, y)
      <4>1. PICK i \in DOMAIN v : v[i] < w[i] /\ \A j \in 1..(i - 1) : v[j] = w[j]
        BY <3>7 DEF EarlierName
      <4>2. x[i] < y[i] /\ \A j \in 1..(i - 1) : x[j] = y[j]
        BY <3>1, <3>2, <3>3, <3>7, <4>1, SMT
      <4> QED BY <3>2, <4>1, <4>2 DEF EarlierName
    <3>8. Before(v, w) => Before(x, y)
      <4>1. Len(v) < Len(w) => Len(x) < Len(y)
        BY <3>1, <3>2, <3>3, SMT
      <4> QED BY <3>2, <3>3, <3>7, <4>1 DEF Before
    <3> QED BY <3>5, <3>6, <3>8 DEF x, y, z

  \* UpTo and Before compose.
  <2>UpToFacts.
    ASSUME NEW u \in Seq(Services), NEW v \in Seq(Services), NEW w \in Seq(Services)
    PROVE  /\ UpTo(u, v) /\ UpTo(v, w) => UpTo(u, w)
           /\ UpTo(u, v) /\ Before(v, w) => Before(u, w)
           /\ Before(u, v) /\ UpTo(v, w) => Before(u, w)
    BY <2>BeforeOrder DEF UpTo

  \* The first services of a walk are a walk.
  <2>PartFacts.
    ASSUME NEW graph, NEW s, NEW w, IsWalk(graph, s, w), NEW j \in 1..Len(w)
    PROVE  /\ IsWalk(graph, s, Part(w, j)) /\ End(Part(w, j)) = w[j] /\ Len(Part(w, j)) = j
           /\ UpTo(Part(w, j), w)
    <3> USE <2>PartFacts
    <3> DEFINE y == Part(w, j)
    <3>1. w \in Seq(Services) /\ w # <<>> /\ Len(w) \in Nat /\ DOMAIN w = 1..Len(w) /\ j \in Nat /\ j >= 1 /\ j <= Len(w)
      BY SMT DEF IsWalk
    <3>2. y \in Seq(Services) /\ Len(y) = j /\ \A i \in 1..j : y[i] = w[i]
      BY <3>1, SMT DEF Part
    <3> HIDE DEF y
    <3>3. y # <<>> /\ y[1] = s
      BY <3>1, <3>2, SMT DEF IsWalk
    <3>4. \A i \in 1..(Len(y) - 1) : <<y[i], y[i + 1]>> \in graph
      BY <3>1, <3>2, SMT DEF IsWalk
    <3>5. End(y) = w[j]
      BY <3>1, <3>2, SMT DEF End
    <3>6. UpTo(y, w)
      <4>1. CASE j = Len(w)
        BY <3>1, <3>2, <4>1, SMT DEF UpTo
      <4>2. CASE j # Len(w)
        <5>1. \A a, b \in Nat : a <= b /\ a # b => a < b
          BY SMT
        <5>2. j < Len(w)
          BY <3>1, <4>2, <5>1
        <5> QED BY <3>2, <5>2 DEF UpTo, Before
      <4> QED BY <4>1, <4>2
    <3> QED BY <3>2, <3>3, <3>4, <3>5, <3>6 DEF IsWalk, y

  \* The last step of a walk.
  <2>WalkFront.
    ASSUME NEW graph, NEW s, NEW w, IsWalk(graph, s, w), Len(w) # 1
    PROVE  \E y \in Seq(Services) : /\ IsWalk(graph, s, y) /\ w = Append(y, End(w)) /\ End(w) \in Services
                                    /\ <<End(y), End(w)>> \in graph
    <3> USE <2>WalkFront
    <3> DEFINE j == Len(w) - 1
               y == Part(w, j)
    <3>1. /\ w \in Seq(Services) /\ w # <<>> /\ Len(w) \in Nat /\ DOMAIN w = 1..Len(w)
          /\ j \in 1..Len(w) /\ j \in Nat /\ j + 1 = Len(w)
      <4>1. w \in Seq(Services) /\ w # <<>> /\ Len(w) \in Nat /\ DOMAIN w = 1..Len(w) /\ Len(w) # 0
        BY SMT DEF IsWalk
      <4>2. \A n \in Nat : n # 0 /\ n # 1 => n - 1 \in 1..n /\ n - 1 \in Nat /\ (n - 1) + 1 = n
        BY SMT
      <4> QED BY <4>1, <4>2
    <3>2. y \in Seq(Services) /\ Len(y) = j /\ \A i \in 1..j : y[i] = w[i]
      BY <3>1, SMT DEF Part
    <3>3. IsWalk(graph, s, y) /\ End(y) = w[j]
      <4> HIDE DEF j
      <4>1. IsWalk(graph, s, Part(w, j)) /\ End(Part(w, j)) = w[j]
        BY <3>1, <2>PartFacts, SMT
      <4> QED BY <4>1
    <3>4. <<w[j], w[j + 1]>> \in graph
      BY <3>1, SMT DEF IsWalk
    <3>5. End(w) \in Services /\ End(w) = w[j + 1]
      BY <3>1, SMT DEF End
    <3> HIDE DEF y, j
    <3>6. w = Append(y, End(w))
      <4> DEFINE z == Append(y, End(w))
      <4>1. /\ z \in Seq(Services) /\ Len(z) = Len(y) + 1 /\ z[Len(y) + 1] = End(w)
            /\ \A i \in 1..Len(y) : z[i] = y[i]
        BY <3>2, <3>5, <1>AppendFacts, SMT
      <4> HIDE DEF z
      <4>2. Len(z) = Len(w) /\ \A i \in 1..Len(w) : z[i] = w[i]
        <5>1. \A i \in 1..(j + 1) : i = j + 1 \/ i \in 1..j
          BY <3>1, SMT
        <5> QED BY <3>1, <3>2, <3>5, <4>1, <5>1
      <4>3. z = w
        BY <3>1, <4>1, <4>2, SMT
      <4> QED BY <4>3 DEF z
    <3> QED BY <3>2, <3>3, <3>4, <3>5, <3>6

  \* One more step.
  <2>WalkAppend.
    ASSUME NEW graph, NEW s, NEW y, IsWalk(graph, s, y), NEW a \in Services, <<End(y), a>> \in graph
    PROVE  IsWalk(graph, s, Append(y, a))
    <3> USE <2>WalkAppend
    <3> DEFINE w == Append(y, a)
    <3>1. y \in Seq(Services) /\ y # <<>> /\ Len(y) \in Nat /\ Len(y) >= 1
      BY SMT DEF IsWalk
    <3>2. /\ w \in Seq(Services) /\ w # <<>> /\ Len(w) = Len(y) + 1 /\ w[Len(y) + 1] = a
          /\ \A i \in 1..Len(y) : w[i] = y[i]
      <4>1. w # <<>>
        BY <3>1, <1>AppendFacts, SMT
      <4> QED BY <3>1, <4>1, <1>AppendFacts, SMT
    <3> HIDE DEF w
    <3>3. w[1] = s
      BY <3>1, <3>2, SMT DEF IsWalk
    <3>4. \A i \in 1..(Len(w) - 1) : <<w[i], w[i + 1]>> \in graph
      <4> SUFFICES ASSUME NEW i \in 1..(Len(w) - 1) PROVE <<w[i], w[i + 1]>> \in graph
        OBVIOUS
      <4>1. CASE i = Len(y)
        <5>1. i \in 1..Len(y)
          BY <3>1, <4>1, SMT
        <5> QED BY <3>2, <4>1, <5>1 DEF End
      <4>2. CASE i # Len(y)
        <5>1. i \in 1..Len(y) /\ i + 1 \in 1..Len(y) /\ i \in 1..(Len(y) - 1)
          BY <3>1, <3>2, <4>2, SMT
        <5> QED BY <3>2, <5>1 DEF IsWalk
      <4> QED BY <4>1, <4>2
    <3> QED BY <3>2, <3>3, <3>4 DEF IsWalk, w

  \* Visit does nothing, finds the dependency, or queues a longer path.
  <2>VisitFacts.
    ASSUME NEW d \in Services, NEW x \in Search(d), NEW next \in Services
    PROVE  LET y == Visit(x, next)
               path == Append(x.path, next)
           IN  /\ y \in Search(d)
               /\ \/ (x.found # NoPath \/ next \in x.visited) /\ y = x
                  \/ /\ x.found = NoPath /\ next \notin x.visited /\ next = d /\ y.found = path /\ path # NoPath
                     /\ y.path = x.path /\ y.queue = x.queue /\ y.visited = x.visited
                  \/ /\ x.found = NoPath /\ next \notin x.visited /\ next # d /\ y.found = NoPath
                     /\ y.path = x.path /\ y.queue = Append(x.queue, path) /\ y.visited = x.visited \cup {next}
    <3> DEFINE path == Append(x.path, next)
               y == Visit(x, next)
    <3>1. /\ x.path \in Seq(Services) /\ x.queue \in Seq(Seq(Services)) /\ x.found \in Seq(Services)
          /\ x.dependency = d /\ x.visited \in SUBSET Services
          /\ DOMAIN x = {"dependency", "path", "found", "queue", "visited"}
      BY DEF Search
    <3>2. path \in Seq(Services) /\ path # NoPath
      BY <3>1, <1>AppendFacts, SMT DEF NoPath
    <3>3. Append(x.queue, path) \in Seq(Seq(Services))
      BY <3>1, <3>2, <1>AppendFacts
    <3> HIDE DEF path
    <3>4. CASE x.found # NoPath \/ next \in x.visited
      <4>1. y = x
        BY <3>4 DEF Visit
      <4> QED BY <3>4, <4>1 DEF path
    <3>5. CASE x.found = NoPath /\ next \notin x.visited /\ next = d
      <4>1. y = [x EXCEPT !.found = path]
        BY <3>1, <3>5 DEF Visit, path
      <4>2. y \in Search(d)
        BY <3>1, <3>2, <4>1 DEF Search
      <4>3. y.found = path /\ y.path = x.path /\ y.queue = x.queue /\ y.visited = x.visited
        BY <3>1, <4>1
      <4> QED BY <3>2, <3>5, <4>2, <4>3 DEF path
    <3>6. CASE x.found = NoPath /\ next \notin x.visited /\ next # d
      <4>1. y = [x EXCEPT !.queue = Append(@, path), !.visited = @ \cup {next}]
        BY <3>1, <3>6 DEF Visit, path
      <4>2. y \in Search(d)
        BY <3>1, <3>3, <4>1 DEF Search
      <4>3. /\ y.found = x.found /\ y.path = x.path /\ y.queue = Append(x.queue, path)
            /\ y.visited = x.visited \cup {next}
        BY <3>1, <4>1
      <4> QED BY <3>6, <4>2, <4>3 DEF path
    <3> QED BY <3>4, <3>5, <3>6

  \* The fold of Expand over the dependencies is defined.
  <2>VisitAllExists.
    ASSUME NEW d \in Services, NEW x \in Search(d), NEW deps \in SUBSET Services
    PROVE  \E f : VisitAll(f, deps, x)
    <3> DEFINE rest == [U \in SUBSET deps |-> U \ {Max(U)}]
               step == [p \in (SUBSET deps) \X Search(d) |-> IF p[1] = {} THEN p[2] ELSE Visit(p[2], Max(p[1]))]
    <3>1. \A U \in SUBSET deps : U # {} => Max(U) \in U /\ Max(U) \in Services
      BY <2>MaxIn
    <3>2. step \in [(SUBSET deps) \X Search(d) -> Search(d)]
      <4>1. ASSUME NEW p \in (SUBSET deps) \X Search(d), p[1] # {} PROVE Visit(p[2], Max(p[1])) \in Search(d)
        <5>1. p[2] \in Search(d) /\ Max(p[1]) \in Services
          BY <3>1, <4>1
        <5> QED BY <5>1, <2>VisitFacts, SMT
      <4>2. \A p \in (SUBSET deps) \X Search(d) : p[2] \in Search(d)
        OBVIOUS
      <4> HIDE DEF Search
      <4> QED BY <4>1, <4>2
    <3>3. SetRecursive(deps, Search(d), rest, x, step)
      <4>1. IsFiniteSet(deps)
        BY ServicesAssumption, FS_Subset
      <4> HIDE DEF step
      <4> QED BY <3>1, <3>2, <4>1 DEF SetRecursive
    <3>4. PICK g \in [SUBSET deps -> Search(d)] : SetSolves(g, deps, rest, x, step)
      <4> HIDE DEF rest, step
      <4> QED BY <3>3, <1>SetRecursion
    <3>5. ASSUME NEW U \in SUBSET deps PROVE g[U] = IF U = {} THEN x ELSE Visit(g[U \ {Max(U)}], Max(U))
      BY <3>4 DEF SetSolves
    <3>6. g = [U \in SUBSET deps |-> IF U = {} THEN x ELSE Visit(g[U \ {Max(U)}], Max(U))]
      BY <3>5
    <3> QED BY <3>6 DEF VisitAll

  \* Expand does nothing, or visits the dependencies at the end of the first path.
  <2>ExpandFacts.
    ASSUME NEW d \in Services, NEW x \in Search(d), NEW graph \in Graphs
    PROVE  /\ x.found # NoPath \/ x.queue = <<>> => Expand(graph, x) = x
           /\ x.found = NoPath /\ x.queue # <<>> =>
                 LET deps == dependencies(graph, End(Head(x.queue)))
                 IN  Popped(x) \in Search(d)
                     /\ \E f : VisitAll(f, deps, Popped(x)) /\ Expand(graph, x) = f[deps]
    <3>1. x.found # NoPath \/ x.queue = <<>> => Expand(graph, x) = x
      BY DEF Expand
    <3>2. ASSUME x.found = NoPath, x.queue # <<>>
          PROVE  LET deps == dependencies(graph, End(Head(x.queue)))
                 IN  Popped(x) \in Search(d)
                     /\ \E f : VisitAll(f, deps, Popped(x)) /\ Expand(graph, x) = f[deps]
      <4> DEFINE deps == dependencies(graph, End(Head(x.queue)))
                 f == CHOOSE f : VisitAll(f, deps, Popped(x))
      <4>1. Popped(x) \in Search(d)
        <5>1. x.queue \in Seq(Seq(Services))
          BY DEF Search
        <5>2. Head(x.queue) \in Seq(Services) /\ Tail(x.queue) \in Seq(Seq(Services))
          BY <3>2, <5>1, SMT
        <5> QED BY <5>2 DEF Popped, Search
      <4>2. deps \in SUBSET Services
        BY <1>GraphFacts
      <4>3. VisitAll(f, deps, Popped(x))
        <5> HIDE DEF deps
        <5> QED BY <4>1, <4>2, <2>VisitAllExists
      <4>4. Expand(graph, x) = f[deps]
        BY <3>2 DEF Expand, MapThenFoldSet, VisitAll, End, Popped
      <4> QED BY <4>1, <4>3, <4>4
    <3> QED BY <3>1, <3>2

  \* What each Visit keeps, Expand keeps.
  <2>ExpandInduction.
    ASSUME NEW graph \in Graphs, NEW d \in Services, NEW x \in Search(d), x.found = NoPath, x.queue # <<>>,
           NEW deps, deps = dependencies(graph, End(Head(x.queue))), NEW P, <<{}, Popped(x)>> \in P,
           VisitClosed(P, d, deps)
    PROVE  Expand(graph, x) \in Search(d) /\ <<deps, Expand(graph, x)>> \in P
    <3> USE <2>ExpandInduction
    <3>1. Popped(x) \in Search(d) /\ \E f : VisitAll(f, deps, Popped(x)) /\ Expand(graph, x) = f[deps]
      BY <2>ExpandFacts
    <3>2. PICK f : VisitAll(f, deps, Popped(x)) /\ Expand(graph, x) = f[deps]
      BY <3>1
    <3>3. deps \in SUBSET Services /\ IsFiniteSet(deps)
      BY <1>GraphFacts
    <3> DEFINE G == {U \in SUBSET deps : f[U] \in Search(d) /\ <<U, f[U]>> \in P}
    <3>4. ASSUME NEW U \in SUBSET deps, \A W \in SUBSET U : W # U => W \in G PROVE U \in G
      <4>1. CASE U = {}
        BY <3>1, <3>2, <4>1 DEF VisitAll
      <4>2. CASE U # {}
        <5> DEFINE next == Max(U)
                   W == U \ {next}
        <5>1. next \in U /\ next \in Services /\ next \in deps /\ \A m \in U : next >= m
          BY <3>3, <4>2, <2>MaxIn
        <5>2. f[W] \in Search(d) /\ <<W, f[W]>> \in P /\ W \in SUBSET deps
          BY <3>4, <5>1
        <5>3. f[U] = Visit(f[W], next) /\ U = W \cup {next}
          BY <3>2, <4>2, <5>1 DEF VisitAll
        <5> HIDE DEF next
        <5>4. \A m \in W : m < next
          <6>1. \A a, b \in Nat : a >= b /\ b # a => b < a
            BY SMT
          <6>2. next \in Nat /\ \A m \in W : m \in Nat /\ m # next /\ next >= m
            BY <3>3, <5>1, ServicesAssumption
          <6> QED BY <6>1, <6>2
        <5> HIDE DEF W
        <5>5. Visit(f[W], next) \in Search(d)
          BY <5>1, <5>2, <2>VisitFacts, SMT
        <5>6. <<W \cup {next}, Visit(f[W], next)>> \in P
          BY <5>1, <5>2, <5>4 DEF VisitClosed
        <5> QED BY <5>3, <5>5, <5>6
      <4> QED BY <4>1, <4>2
    <3>5. deps \in G
      <4> HIDE DEF G
      <4>1. Inductive(deps, G)
        BY <3>4 DEF Inductive
      <4>2. \A U \in SUBSET deps : U \in G
        BY <3>3, <4>1, <1>SetInduction
      <4> QED BY <4>2
    <3> QED BY <3>2, <3>5

  \* Expand returns a search.
  <2>ExpandType.
    ASSUME NEW graph \in Graphs, NEW d \in Services, NEW x \in Search(d)
    PROVE  Expand(graph, x) \in Search(d)
    <3>1. CASE x.found # NoPath \/ x.queue = <<>>
      BY <3>1, <2>ExpandFacts
    <3>2. CASE x.found = NoPath /\ x.queue # <<>>
      <4> DEFINE deps == dependencies(graph, End(Head(x.queue)))
                 P == (SUBSET deps) \X Search(d)
      <4>1. deps \in SUBSET Services
        BY <1>GraphFacts
      <4>2. <<{}, Popped(x)>> \in P
        BY <3>2, <2>ExpandFacts
      <4> HIDE DEF deps
      <4>3. VisitClosed(P, d, deps)
        <5>1. ASSUME NEW next \in deps, NEW y \in Search(d) PROVE Visit(y, next) \in Search(d)
          BY <4>1, <2>VisitFacts, SMT
        <5> QED BY <5>1 DEF VisitClosed
      <4> HIDE DEF P
      <4> QED BY <3>2, <4>2, <4>3, <2>ExpandInduction DEF deps
    <3> QED BY <3>1, <3>2

  \* A walk that ends where a dependency was not visited comes after the current
  \* path: at its first service that is not done with, that path or one of the
  \* queue ends.
  <2>Frontier.
    ASSUME NEW graph \in Graphs, NEW s \in Services, NEW d \in Services, NEW u, NEW n \in Nat, NEW U, NEW x,
           Visiting(graph, s, d, u, n, U, x), x.found = NoPath,
           NEW w, IsWalk(graph, s, w), ~(dependencies(graph, End(w)) \subseteq x.visited)
    PROVE  UpTo(x.path, w)
    <3> USE <2>Frontier
    <3> DEFINE Done(v) == v \in x.visited /\ v # u /\ ~Queued(x, v)
               T == {j \in 1..Len(w) : ~Done(w[j])}
    <3>1. /\ w \in Seq(Services) /\ Len(w) \in Nat /\ Len(w) \in 1..Len(w) /\ 1 \in 1..Len(w) /\ w[1] = s
      BY SMT DEF IsWalk
    <3>2. x.path \in Seq(Services) /\ x.queue \in Seq(Seq(Services))
      BY DEF Visiting, Sound, Search
    <3>3. \A v : Done(v) => dependencies(graph, v) \subseteq x.visited
      BY DEF Visiting, Complete
    <3>4. Len(w) \in T
      BY <3>1, <3>3 DEF End
    <3>5. PICK j \in T : \A i \in T : j <= i
      <4>1. T \subseteq Nat /\ T # {}
        BY <3>1, <3>4, SMT
      <4> HIDE DEF T
      <4> QED BY <4>1, <1>NatLeast
    <3>6. j \in 1..Len(w) /\ ~Done(w[j])
      BY <3>5
    <3>7. w[j] \in x.visited
      <4>1. CASE j = 1
        BY <3>1, <4>1 DEF Visiting, Sound
      <4>2. CASE j # 1
        <5> DEFINE i == j - 1
        <5>1. i \in 1..Len(w) /\ i \in 1..(Len(w) - 1) /\ i + 1 = j /\ ~(j <= i)
          BY <3>1, <3>6, <4>2, SMT
        <5> HIDE DEF i
        <5>2. Done(w[i])
          BY <3>5, <5>1
        <5>3. <<w[i], w[j]>> \in graph
          BY <5>1 DEF IsWalk
        <5>4. w[j] \in dependencies(graph, w[i])
          BY <5>3, <1>GraphFacts
        <5> QED BY <3>3, <5>2, <5>4
      <4> QED BY <4>1, <4>2
    <3> DEFINE y == Part(w, j)
    <3>8. IsWalk(graph, s, y) /\ End(y) = w[j] /\ UpTo(y, w) /\ y \in Seq(Services)
      <4>1. IsWalk(graph, s, y) /\ End(y) = w[j] /\ UpTo(y, w)
        BY <3>6, <2>PartFacts, SMT
      <4> QED BY <4>1 DEF IsWalk
    <3> HIDE DEF y, T
    <3>9. CASE w[j] = u
      <4>1. UpTo(x.path, y)
        BY <3>8, <3>9 DEF Visiting, Least
      <4> QED BY <3>1, <3>2, <3>8, <4>1, <2>UpToFacts
    <3>10. CASE Queued(x, w[j])
      <4>1. PICK i \in DOMAIN x.queue : End(x.queue[i]) = w[j]
        BY <3>10 DEF Queued
      <4>2. x.queue[i] \in Seq(Services)
        BY <3>2, SMT
      <4>3. Before(x.path, x.queue[i]) /\ Least(graph, s, x.queue[i])
        BY DEF Visiting, Ordered
      <4>4. UpTo(x.queue[i], y)
        BY <3>8, <4>1, <4>3 DEF Least
      <4>5. UpTo(x.queue[i], w)
        BY <3>1, <3>8, <4>2, <4>4, <2>UpToFacts
      <4>6. Before(x.path, w)
        BY <3>1, <3>2, <4>2, <4>3, <4>5, <2>UpToFacts
      <4> QED BY <4>6 DEF UpTo
    <3> QED BY <3>6, <3>7, <3>9, <3>10

  \* The path that first reaches a service is the first one to it.
  <2>NextLeast.
    ASSUME NEW graph \in Graphs, NEW s \in Services, NEW d \in Services, NEW u, NEW n \in Nat, NEW U, NEW x,
           Visiting(graph, s, d, u, n, U, x), x.found = NoPath,
           NEW next \in dependencies(graph, u), next \notin x.visited
    PROVE  Least(graph, s, Append(x.path, next))
    <3> USE <2>NextLeast
    <3> DEFINE p == Append(x.path, next)
    <3>1. x.path \in Seq(Services) /\ next \in Services /\ <<u, next>> \in graph
      BY <1>GraphFacts DEF Visiting, Sound, Search
    <3>2. p \in Seq(Services) /\ End(p) = next
      BY <3>1, <1>AppendFacts, SMT
    <3>3. IsWalk(graph, s, p)
      <4>1. IsWalk(graph, s, x.path) /\ End(x.path) = u
        BY DEF Visiting, Least
      <4> QED BY <3>1, <4>1, <2>WalkAppend
    <3>4. ASSUME NEW w \in Seq(Services), IsWalk(graph, s, w), End(w) = next PROVE UpTo(p, w)
      <4>1. Len(w) # 1
        <5>1. w[1] = s /\ s \in x.visited
          BY <3>4 DEF IsWalk, Visiting, Sound
        <5> QED BY <3>4, <5>1 DEF End
      <4>2. PICK y \in Seq(Services) : IsWalk(graph, s, y) /\ w = Append(y, next) /\ <<End(y), next>> \in graph
        BY <3>4, <4>1, <2>WalkFront
      <4>3. next \in dependencies(graph, End(y))
        BY <4>2, <1>GraphFacts
      <4>4. UpTo(x.path, y)
        BY <4>2, <4>3, <2>Frontier
      <4>5. Before(x.path, y) => Before(p, Append(y, next))
        BY <3>1, <2>BeforeAppend
      <4> QED BY <4>2, <4>4, <4>5 DEF UpTo
    <3> HIDE DEF p
    <3>5. Least(graph, s, p)
      BY <3>2, <3>3, <3>4 DEF Least
    <3> QED BY <3>5 DEF p

  \* Visit keeps what holds while the dependencies of u are visited.
  <2>VisitInv.
    ASSUME NEW graph \in Graphs, NEW s \in Services, NEW d \in Services, NEW u, NEW n \in Nat, NEW U, NEW x,
           Visiting(graph, s, d, u, n, U, x), NEW next \in dependencies(graph, u), \A m \in U : m < next
    PROVE  Visiting(graph, s, d, u, n, U \cup {next}, Visit(x, next))
    <3> USE <2>VisitInv
    <3> DEFINE y == Visit(x, next)
               path == Append(x.path, next)
    <3>1. next \in Services /\ <<u, next>> \in graph
      BY <1>GraphFacts
    <3>2. x \in Search(d) /\ x.path \in Seq(Services) /\ x.queue \in Seq(Seq(Services)) /\ x.visited \in SUBSET Services
      BY DEF Visiting, Sound, Search
    <3>3. /\ y \in Search(d)
          /\ \/ (x.found # NoPath \/ next \in x.visited) /\ y = x
             \/ /\ x.found = NoPath /\ next \notin x.visited /\ next = d /\ y.found = path /\ path # NoPath
                /\ y.path = x.path /\ y.queue = x.queue /\ y.visited = x.visited
             \/ /\ x.found = NoPath /\ next \notin x.visited /\ next # d /\ y.found = NoPath
                /\ y.path = x.path /\ y.queue = Append(x.queue, path) /\ y.visited = x.visited \cup {next}
      BY <3>1, <3>2, <2>VisitFacts, SMT
    <3>4. Depends(graph, s, next)
      BY <3>1, DependsFacts DEF Visiting, Sound
    <3>8. /\ Cardinality(x.visited) \in Nat /\ IsFiniteSet(x.visited) /\ Len(x.path) \in Nat /\ Cardinality(Services) \in Nat
      <4>1. IsFiniteSet(x.visited)
        BY <3>2, ServicesAssumption, FS_Subset
      <4>2. Len(x.path) \in Nat
        BY <3>2, SMT
      <4> QED BY <4>1, <4>2, ServicesAssumption, FS_CardinalityType
    <3>9. path \in Seq(Services) /\ path # <<>> /\ End(path) = next /\ Len(path) = Len(x.path) + 1
      BY <3>1, <3>2, <1>AppendFacts, SMT
    <3>10. ASSUME x.found = NoPath, next \notin x.visited
           PROVE  /\ Least(graph, s, path) /\ IsFiniteSet(x.visited \cup {next}) /\ x.visited \cup {next} \subseteq Services
                  /\ Cardinality(x.visited \cup {next}) = Cardinality(x.visited) + 1
                  /\ Len(path) <= Cardinality(x.visited \cup {next})
      <4>1. Least(graph, s, path)
        BY <3>10, <2>NextLeast
      <4>2. Cardinality(x.visited \cup {next}) = Cardinality(x.visited) + 1 /\ IsFiniteSet(x.visited \cup {next})
        BY <3>8, <3>10, FS_AddElement
      <4>3. Len(x.path) <= Cardinality(x.visited)
        BY <3>10 DEF Visiting
      <4>4. \A a, b \in Nat : a <= b => a + 1 <= b + 1
        BY SMT
      <4> QED BY <3>1, <3>2, <3>8, <3>9, <4>1, <4>2, <4>3, <4>4
    <3> SUFFICES Visiting(graph, s, d, u, n, U \cup {next}, y)
      OBVIOUS
    <3> HIDE DEF y
    <3>5. CASE (x.found # NoPath \/ next \in x.visited) /\ y = x
      <4>1. Ordered(graph, s, U, x) => Ordered(graph, s, U \cup {next}, x)
        BY DEF Ordered, Extends
      <4> QED BY <3>5, <4>1 DEF Visiting
    <3>6. CASE /\ x.found = NoPath /\ next \notin x.visited /\ next = d /\ y.found = path /\ path # NoPath
               /\ y.path = x.path /\ y.queue = x.queue /\ y.visited = x.visited
      <4> HIDE DEF path
      <4>2. Shortest(graph, s, d, path)
        <5>1. Cardinality(x.visited \cup {next}) <= Cardinality(Services) /\ Cardinality(x.visited \cup {next}) \in Nat
          BY <3>6, <3>10, ServicesAssumption, FS_Subset, FS_CardinalityType
        <5>2. \A a, b, c \in Nat : a <= b /\ b <= c => a <= c
          BY SMT
        <5>3. Len(path) \in Nat
          BY <3>9, SMT
        <5>4. Len(path) <= Cardinality(Services)
          BY <3>6, <3>8, <3>10, <5>1, <5>2, <5>3
        <5> QED BY <3>6, <3>9, <3>10, <5>4 DEF Shortest
      <4>1. Sound(graph, s, d, y)
        BY <3>3, <3>4, <3>6, <4>2 DEF Sound, Visiting
      <4> QED BY <4>1, <3>6 DEF Visiting
    <3>7. CASE /\ x.found = NoPath /\ next \notin x.visited /\ next # d /\ y.found = NoPath
               /\ y.path = x.path /\ y.queue = Append(x.queue, path) /\ y.visited = x.visited \cup {next}
      <4>1. /\ path \in Seq(Services) /\ path # <<>> /\ End(path) = next
        BY <3>9
      <4> HIDE DEF path
      <4>2. /\ Len(y.queue) = Len(x.queue) + 1 /\ Len(x.queue) \in Nat
            /\ DOMAIN y.queue = DOMAIN x.queue \cup {Len(x.queue) + 1}
            /\ y.queue[Len(x.queue) + 1] = path /\ \A i \in DOMAIN x.queue : y.queue[i] = x.queue[i]
        BY <3>2, <3>7, <4>1, <1>AppendFacts, SMT
      <4>3. \A i \in DOMAIN y.queue : y.queue[i] # <<>> /\ End(y.queue[i]) \in y.visited
        BY <3>7, <4>1, <4>2 DEF Visiting, Sound
      <4>4. Sound(graph, s, d, y)
        BY <3>3, <3>4, <3>7, <4>3 DEF Sound, Visiting
      <4>5. Complete(graph, y, {u})
        <5>1. Queued(y, next)
          BY <4>1, <4>2 DEF Queued
        <5>2. \A v : Queued(x, v) => Queued(y, v)
          BY <4>2 DEF Queued
        <5> QED BY <3>7, <5>1, <5>2 DEF Complete, Visiting
      <4>6. Counted(y, n)
        <5>2. Cardinality(y.visited) = Cardinality(x.visited) + 1 /\ Cardinality(x.visited) \in Nat
          BY <3>7, <3>8, <3>10
        <5>3. n + Len(x.queue) <= Cardinality(x.visited)
          BY <3>7 DEF Visiting, Counted
        <5> QED BY <4>2, <5>2, <5>3, SMT DEF Counted
      <4>7. Cardinality(x.visited) <= Cardinality(y.visited) /\ Cardinality(y.visited) \in Nat
        BY <3>7, <3>8, <3>10, SMT
      <4>8. \A k \in Nat : k <= Cardinality(x.visited) => k <= Cardinality(y.visited)
        BY <3>8, <4>7, SMT
      <4>9. ASSUME NEW i \in DOMAIN x.queue
            PROVE  /\ Least(graph, s, x.queue[i]) /\ Before(y.path, x.queue[i]) /\ Extends(x.queue[i], y.path, U \cup {next})
                   /\ Len(x.queue[i]) <= Cardinality(y.visited) /\ Before(x.queue[i], path)
        <5>1. /\ Least(graph, s, x.queue[i]) /\ Before(x.path, x.queue[i]) /\ Extends(x.queue[i], x.path, U)
              /\ Len(x.queue[i]) <= Cardinality(x.visited)
          BY <3>7 DEF Visiting, Ordered
        <5>2. Len(x.queue[i]) \in Nat
          BY <3>2, SMT
        <5>3. Extends(x.queue[i], x.path, U \cup {next})
          BY <5>1 DEF Extends
        <5>4. Before(x.queue[i], path)
          <6>1. PICK f \in Seq(Services) : \E a \in Services :
                         x.queue[i] = Append(f, a) /\ UpTo(f, x.path) /\ (f = x.path => a \in U)
            BY <5>1 DEF Extends
          <6>2. PICK a \in Services : x.queue[i] = Append(f, a) /\ UpTo(f, x.path) /\ (f = x.path => a \in U)
            BY <6>1
          <6>3. Before(f, x.path) => Before(Append(f, a), Append(x.path, next))
            BY <3>1, <3>2, <2>BeforeAppend
          <6>4. a < next => Before(Append(x.path, a), Append(x.path, next))
            BY <3>1, <3>2, <2>BeforeAppend
          <6> QED BY <6>2, <6>3, <6>4 DEF UpTo, path
        <5> QED BY <3>7, <4>8, <5>1, <5>2, <5>3, <5>4
      <4>10. /\ Least(graph, s, path) /\ Before(y.path, path) /\ Extends(path, y.path, U \cup {next})
             /\ Len(path) <= Cardinality(y.visited)
        <5>1. Before(x.path, path)
          BY <3>1, <3>2, <2>BeforeAppend DEF path
        <5>2. Extends(path, x.path, U \cup {next})
          BY <3>1, <3>2 DEF Extends, UpTo, path
        <5> QED BY <3>7, <3>10, <5>1, <5>2
      <4>11. \A i, j \in DOMAIN y.queue : i < j => Before(y.queue[i], y.queue[j])
        <5>1. \A i \in DOMAIN x.queue : i \in Nat /\ i <= Len(x.queue)
          BY <3>2, SMT
        <5>2. \A a, b \in Nat : a <= b => ~(b + 1 < a)
          BY SMT
        <5>3. \A a \in Nat : ~(a + 1 < a + 1)
          BY SMT
        <5>4. \A i, j \in DOMAIN x.queue : i < j => Before(x.queue[i], x.queue[j])
          BY <3>7 DEF Visiting, Ordered
        <5> QED BY <4>2, <4>9, <5>1, <5>2, <5>3, <5>4
      <4>12. Ordered(graph, s, U \cup {next}, y)
        BY <4>2, <4>9, <4>10, <4>11 DEF Ordered
      <4>13. Least(graph, s, y.path) /\ Len(y.path) <= Cardinality(y.visited)
        BY <3>7, <3>8, <4>8 DEF Visiting
      <4> QED BY <3>7, <4>4, <4>5, <4>6, <4>12, <4>13 DEF Visiting
    <3> QED BY <3>3, <3>5, <3>6, <3>7

  \* Expand keeps what holds of a search.
  <2>ExpandInv.
    ASSUME NEW graph \in Graphs, NEW s \in Services, NEW d \in Services, NEW n \in Nat, NEW x,
           Searching(graph, s, d, n, x)
    PROVE  Searching(graph, s, d, n + 1, Expand(graph, x))
    <3> USE <2>ExpandInv
    <3>1. x \in Search(d) /\ x.queue \in Seq(Seq(Services)) /\ x.visited \in SUBSET Services
      BY DEF Searching, Sound, Search
    <3>2. CASE x.found # NoPath \/ x.queue = <<>>
      <4>1. Expand(graph, x) = x
        BY <3>1, <3>2, <2>ExpandFacts
      <4> QED BY <3>2, <4>1 DEF Searching
    <3>3. CASE x.found = NoPath /\ x.queue # <<>>
      <4> DEFINE u == End(Head(x.queue))
                 deps == dependencies(graph, u)
                 p == Popped(x)
                 y == Expand(graph, x)
      <4>1. p \in Search(d)
        BY <3>1, <3>3, <2>ExpandFacts
      <4>3. n + 1 \in Nat /\ deps \in SUBSET Services /\ IsFiniteSet(deps)
        BY <1>GraphFacts, FS_Subset, ServicesAssumption, SMT
      <4>4. /\ Head(x.queue) = x.queue[1] /\ 1 \in DOMAIN x.queue
            /\ Len(Tail(x.queue)) = Len(x.queue) - 1 /\ Len(x.queue) \in Nat
            /\ \A i \in DOMAIN Tail(x.queue) : i + 1 \in DOMAIN x.queue /\ Tail(x.queue)[i] = x.queue[i + 1]
            /\ \A i \in DOMAIN x.queue : i = 1 \/ \E j \in DOMAIN Tail(x.queue) : Tail(x.queue)[j] = x.queue[i]
        BY <3>1, <3>3, <2>HeadTailFacts
      <4>5. /\ p.path = x.queue[1] /\ p.queue = Tail(x.queue) /\ p.found = x.found /\ p.visited = x.visited
        BY <3>1, <4>4 DEF Popped, Search
      <4> HIDE DEF y, p
      <4>6. Visiting(graph, s, d, u, n + 1, {}, p)
        <5>1. Sound(graph, s, d, p)
          <6>1. ASSUME NEW i \in DOMAIN p.queue PROVE p.queue[i] # <<>> /\ End(p.queue[i]) \in p.visited
            <7>1. i + 1 \in DOMAIN x.queue /\ p.queue[i] = x.queue[i + 1]
              BY <4>4, <4>5
            <7> QED BY <4>5, <7>1 DEF Searching, Sound
          <6> QED BY <4>1, <4>5, <6>1 DEF Searching, Sound
        <5>2. p.path # <<>> /\ End(p.path) = u /\ u \in p.visited
          BY <4>4, <4>5 DEF Searching, Sound
        <5>3. Complete(graph, p, {u})
          <6> HIDE DEF u
          <6>1. \A v : Queued(x, v) => v = u \/ Queued(p, v)
            <7> SUFFICES ASSUME NEW i \in DOMAIN x.queue, End(x.queue[i]) # u
                         PROVE  \E j \in DOMAIN p.queue : p.queue[j] = x.queue[i]
              BY DEF Queued
            <7>1. i # 1
              BY <4>4 DEF u
            <7>2. PICK j \in DOMAIN Tail(x.queue) : Tail(x.queue)[j] = x.queue[i]
              BY <4>4, <7>1
            <7> QED BY <4>5, <7>2
          <6> QED BY <3>3, <4>5, <6>1 DEF Searching, Complete
        <5>4. Counted(p, n + 1)
          <6>1. n + Len(x.queue) <= Cardinality(x.visited)
            BY <3>3 DEF Searching, Counted
          <6>2. Cardinality(x.visited) \in Nat
            BY <3>1, ServicesAssumption, FS_Subset, FS_CardinalityType
          <6>3. Len(p.queue) = Len(x.queue) - 1 /\ Len(x.queue) \in Nat /\ p.visited = x.visited
            BY <4>4, <4>5
          <6>4. (n + 1) + Len(p.queue) <= Cardinality(p.visited)
            <7>1. \A a, b \in Nat : n + a <= b => (n + 1) + (a - 1) <= b
              BY SMT
            <7> QED BY <6>1, <6>2, <6>3, <7>1
          <6> QED BY <6>4 DEF Counted
        <5>5. Least(graph, s, p.path) /\ Len(p.path) <= Cardinality(p.visited)
          BY <3>3, <4>4, <4>5 DEF Searching, Ordered
        <5>6. ASSUME NEW i \in DOMAIN p.queue
              PROVE  /\ Least(graph, s, p.queue[i]) /\ Before(p.path, p.queue[i]) /\ Extends(p.queue[i], p.path, {})
                     /\ Len(p.queue[i]) <= Cardinality(p.visited)
          <6> DEFINE q == x.queue[i + 1]
          <6>1. i + 1 \in DOMAIN x.queue /\ p.queue[i] = q /\ 1 < i + 1
            <7>1. i \in Nat /\ i >= 1
              BY <3>1, <4>5, SMT
            <7>2. 1 < i + 1
              BY <7>1, SMT
            <7> QED BY <4>4, <4>5, <7>2
          <6> HIDE DEF q
          <6>2. Least(graph, s, q) /\ Extends(q, x.path, Services) /\ Len(q) <= Cardinality(x.visited)
            BY <3>3, <6>1 DEF Searching, Ordered, q
          <6>3. Before(p.path, q) /\ Before(x.path, p.path)
            BY <3>3, <4>4, <4>5, <6>1 DEF Searching, Ordered, q
          <6>4. x.path \in Seq(Services) /\ p.path \in Seq(Services)
            BY <3>1, <4>1 DEF Search
          <6>5. PICK f \in Seq(Services) : \E a \in Services : q = Append(f, a) /\ UpTo(f, x.path)
            BY <6>2 DEF Extends
          <6>6. Before(f, p.path)
            BY <6>3, <6>4, <6>5, <2>UpToFacts
          <6>7. f # p.path
            BY <6>4, <6>6, <2>BeforeOrder
          <6>8. Extends(q, p.path, {})
            BY <6>5, <6>6, <6>7 DEF Extends, UpTo
          <6> QED BY <4>5, <6>1, <6>2, <6>3, <6>8
        <5>7. ASSUME NEW i \in DOMAIN p.queue, NEW j \in DOMAIN p.queue, i < j PROVE Before(p.queue[i], p.queue[j])
          <6>1. /\ i + 1 \in DOMAIN x.queue /\ p.queue[i] = x.queue[i + 1]
                /\ j + 1 \in DOMAIN x.queue /\ p.queue[j] = x.queue[j + 1]
            BY <4>4, <4>5
          <6>2. i + 1 < j + 1
            BY <3>1, <4>5, <5>7, SMT
          <6> QED BY <3>3, <6>1, <6>2 DEF Searching, Ordered
        <5>8. Ordered(graph, s, {}, p)
          BY <5>6, <5>7 DEF Ordered
        <5> QED BY <5>1, <5>2, <5>3, <5>4, <5>5, <5>8 DEF Visiting
      <4> DEFINE P == {q \in (SUBSET deps) \X Search(d) : Visiting(graph, s, d, u, n + 1, q[1], q[2])}
      <4>7. <<{}, p>> \in P
        <5> HIDE DEF deps
        <5> QED BY <4>1, <4>6
      <4>8. VisitClosed(P, d, deps)
        <5> HIDE DEF u
        <5>1. ASSUME NEW U \in SUBSET deps, NEW next \in deps, NEW z \in Search(d), <<U, z>> \in P, \A m \in U : m < next
              PROVE  <<U \cup {next}, Visit(z, next)>> \in P
          <6>1. Visiting(graph, s, d, u, n + 1, U, z)
            BY <5>1
          <6>2. Visiting(graph, s, d, u, n + 1, U \cup {next}, Visit(z, next))
            BY <4>3, <5>1, <6>1, <2>VisitInv
          <6>3. Visit(z, next) \in Search(d)
            BY <6>2 DEF Visiting, Sound
          <6> HIDE DEF deps
          <6> QED BY <6>2, <6>3
        <5> HIDE DEF P, deps
        <5> QED BY <5>1 DEF VisitClosed
      <4>9. Visiting(graph, s, d, u, n + 1, deps, y)
        <5>1. <<deps, y>> \in P
          <6> HIDE DEF P
          <6> QED BY <3>1, <3>3, <4>7, <4>8, <2>ExpandInduction DEF p, y
        <5> HIDE DEF deps, u
        <5> QED BY <5>1
      <4>10. y.found = NoPath => Complete(graph, y, {})
        BY <4>9 DEF Visiting, Complete
      <4>11. Ordered(graph, s, deps, y) => Ordered(graph, s, Services, y)
        BY <4>3 DEF Ordered, Extends
      <4>12. Searching(graph, s, d, n + 1, y)
        BY <4>9, <4>10, <4>11 DEF Searching, Visiting
      <4> QED BY <4>12 DEF y
    <3> QED BY <3>2, <3>3

  \* From s to s, the first path is s alone.
  <2>WalkStart.
    ASSUME NEW graph, NEW s \in Services
    PROVE  Shortest(graph, s, s, <<s>>) /\ Len(<<s>>) = 1 /\ Cardinality(Services) \in Nat
    <3>1. <<s>> \in Seq(Services) /\ Len(<<s>>) = 1 /\ <<s>>[1] = s /\ <<s>> # <<>> /\ \A i \in 1..(1 - 1) : FALSE
      BY SMT
    <3>2. IsWalk(graph, s, <<s>>) /\ End(<<s>>) = s
      BY <3>1 DEF IsWalk, End
    <3>3. ASSUME NEW w \in Seq(Services), IsWalk(graph, s, w) PROVE UpTo(<<s>>, w)
      <4>1. w # <<>> /\ w[1] = s
        BY <3>3 DEF IsWalk
      <4>2. w = <<s>> \/ 1 < Len(w)
        <5>1. Len(w) = 1 => w = <<s>>
          BY <4>1, SMT
        <5>2. Len(w) \in Nat /\ Len(w) # 0
          BY <4>1, SMT
        <5>3. \A n \in Nat : n # 0 /\ n # 1 => 1 < n
          BY SMT
        <5> QED BY <5>1, <5>2, <5>3
      <4> QED BY <3>1, <4>2 DEF UpTo, Before
    <3>4. 1 <= Cardinality(Services) /\ Cardinality(Services) \in Nat
      <4>1. Cardinality(Services) \in Nat /\ Cardinality(Services) # 0
        BY ServicesAssumption, FS_CardinalityType, FS_EmptySet
      <4> QED BY <4>1, SMT
    <3> QED BY <3>1, <3>2, <3>3, <3>4 DEF Shortest, Least

  \* It holds of the search that Path starts with.
  <2>StartFacts.
    ASSUME NEW graph \in Graphs, NEW s \in Services, NEW d \in Services, s # d
    PROVE  Searching(graph, s, d, 0, Start(s, d))
    <3> USE <2>StartFacts
    <3> DEFINE x == Start(s, d)
    <3>1. /\ x.dependency = d /\ x.path = NoPath /\ x.found = NoPath /\ x.queue = <<<<s>>>> /\ x.visited = {s}
      BY DEF Start
    <3>2. /\ <<s>> \in Seq(Services) /\ <<<<s>>>> \in Seq(Seq(Services)) /\ NoPath \in Seq(Services)
          /\ Len(<<<<s>>>>) = 1 /\ DOMAIN <<<<s>>>> = {1} /\ <<<<s>>>>[1] = <<s>> /\ <<s>> # <<>>
          /\ Len(<<s>>) = 1 /\ <<s>>[1] = s
      BY SMT DEF NoPath
    <3>3. x \in Search(d)
      BY <3>2 DEF Search, Start
    <3> HIDE DEF x
    <3>4. Sound(graph, s, d, x)
      BY <3>1, <3>2, <3>3, DependsFacts DEF Sound, End
    <3>5. Complete(graph, x, {})
      BY <3>1, <3>2 DEF Complete, Queued, End
    <3>6. Counted(x, 0)
      <4>1. Cardinality({s}) = 1
        BY FS_Singleton
      <4>2. 0 + 1 <= 1
        BY SMT
      <4> QED BY <3>1, <3>2, <4>1, <4>2 DEF Counted
    <3>7. Ordered(graph, s, Services, x)
      <4>1. Least(graph, s, <<s>>)
        BY <2>WalkStart DEF Shortest
      <4>2. Before(NoPath, <<s>>) /\ NoPath \in Seq(Services) /\ <<s>> = Append(NoPath, s)
        BY SMT DEF Before, NoPath
      <4>3. Extends(<<s>>, NoPath, Services)
        BY <4>2 DEF Extends, UpTo
      <4>4. Len(<<s>>) <= Cardinality({s}) /\ ~(1 < 1)
        <5>1. Cardinality({s}) = 1
          BY FS_Singleton
        <5> QED BY <3>2, <5>1, SMT
      <4> QED BY <3>1, <3>2, <4>1, <4>2, <4>3, <4>4 DEF Ordered
    <3> QED BY <3>4, <3>5, <3>6, <3>7 DEF Searching, x

  \* The fold of Path is defined.
  <2>ExpandAllExists.
    ASSUME NEW graph \in Graphs, NEW s \in Services, NEW d \in Services, s # d, NEW N \in Nat
    PROVE  \E f : ExpandAll(f, graph, N, Start(s, d))
    <3> USE <2>ExpandAllExists
    <3> DEFINE S == 1..N
               one(U) == CHOOSE n \in U : TRUE
               start == Start(s, d)
               rest == [U \in SUBSET S |-> U \ {one(U)}]
               step == [p \in (SUBSET S) \X Search(d) |-> Expand(graph, p[2])]
    <3>1. start \in Search(d)
      BY <2>StartFacts DEF Searching, Sound
    <3>2. step \in [(SUBSET S) \X Search(d) -> Search(d)]
      <4>1. \A p \in (SUBSET S) \X Search(d) : p[2] \in Search(d)
        OBVIOUS
      <4> HIDE DEF S
      <4> QED BY <4>1, <2>ExpandType
    <3>3. IsFiniteSet(S)
      BY FS_Interval, SMT
    <3> HIDE DEF S, start
    <3>4. \A U \in SUBSET S : U # {} => one(U) \in U
      OBVIOUS
    <3>5. SetRecursive(S, Search(d), rest, start, step)
      <4> HIDE DEF step, one
      <4> QED BY <3>1, <3>2, <3>3, <3>4 DEF SetRecursive
    <3>6. PICK g \in [SUBSET S -> Search(d)] : SetSolves(g, S, rest, start, step)
      <4> HIDE DEF rest, step
      <4> QED BY <3>5, <1>SetRecursion
    <3>7. ASSUME NEW U \in SUBSET S PROVE g[U] = IF U = {} THEN start ELSE Expand(graph, g[U \ {one(U)}])
      <4> HIDE DEF one
      <4> QED BY <3>6 DEF SetSolves
    <3>8. g = [U \in SUBSET S |-> IF U = {} THEN start ELSE Expand(graph, g[U \ {one(U)}])]
      <4> HIDE DEF one
      <4> QED BY <3>7
    <3> QED BY <3>8 DEF ExpandAll, S, start

  \* Path returns a path exactly if there is a dependency, since the queue is empty
  \* by the time every service was taken from it, and then the first of them.
  <2>PathFound.
    ASSUME NEW graph \in Graphs, NEW s \in Services, NEW d \in Services
    PROVE  /\ Path(graph, s, d) \in Seq(Services)
           /\ Path(graph, s, d) # NoPath <=> Depends(graph, s, d)
           /\ Path(graph, s, d) # NoPath => Shortest(graph, s, d, Path(graph, s, d))
    <3>1. CASE s = d
      <4>1. Path(graph, s, d) = <<s>>
        BY <3>1 DEF Path
      <4>2. <<s>> \in Seq(Services) /\ <<s>> # NoPath
        BY SMT DEF NoPath
      <4> QED BY <3>1, <4>1, <4>2, DependsFacts, <2>WalkStart
    <3>2. CASE s # d
      <4> DEFINE N == Cardinality(services(graph))
                 S == 1..N
                 start == Start(s, d)
                 f == CHOOSE f : ExpandAll(f, graph, N, start)
                 x == f[S]
      <4>1. N \in Nat
        BY <1>GraphFacts, FS_CardinalityType
      <4>2. ExpandAll(f, graph, N, start)
        <5> HIDE DEF N
        <5> QED BY <3>2, <4>1, <2>ExpandAllExists
      <4>3. Path(graph, s, d) = x.found
        BY <3>2 DEF Path, FoldSet, MapThenFoldSet, ExpandAll, Start
      <4>4. IsFiniteSet(S) /\ Cardinality(S) = N
        <5> HIDE DEF N
        <5>1. 1 \in Int /\ N \in Int /\ (IF 1 > N THEN 0 ELSE N - 1 + 1) = N
          BY <4>1, SMT
        <5>2. Cardinality(1..N) = IF 1 > N THEN 0 ELSE N - 1 + 1
          BY <5>1, FS_Interval
        <5> QED BY <5>1, <5>2, FS_Interval
      <4> HIDE DEF N, f, start
      <4> DEFINE G == {U \in SUBSET S : Searching(graph, s, d, Cardinality(U), f[U])}
      <4>5. ASSUME NEW U \in SUBSET S, \A W \in SUBSET U : W # U => W \in G PROVE U \in G
        <5> HIDE DEF S
        <5>1. CASE U = {}
          <6>1. f[U] = start /\ Cardinality(U) = 0
            BY <4>2, <5>1, FS_EmptySet DEF ExpandAll, S
          <6> QED BY <3>2, <6>1, <2>StartFacts DEF start
        <5>2. CASE U # {}
          <6> DEFINE n == CHOOSE n \in U : TRUE
                     W == U \ {n}
          <6>1. n \in U
            BY <5>2
          <6>2. f[U] = Expand(graph, f[W])
            BY <4>2, <5>2 DEF ExpandAll, S
          <6> HIDE DEF n
          <6>3. IsFiniteSet(U) /\ IsFiniteSet(W)
            BY <4>4, FS_Subset
          <6>4. Cardinality(U) = Cardinality(W) + 1 /\ Cardinality(W) \in Nat
            <7>1. Cardinality(W) = Cardinality(U) - 1
              BY <6>1, <6>3, FS_RemoveElement
            <7>2. Cardinality(W) \in Nat /\ Cardinality(U) \in Nat
              BY <6>3, FS_CardinalityType
            <7> QED BY <7>1, <7>2, SMT
          <6>5. Searching(graph, s, d, Cardinality(W), f[W])
            BY <4>5, <6>1
          <6> HIDE DEF W
          <6>6. Searching(graph, s, d, Cardinality(W) + 1, Expand(graph, f[W]))
            BY <6>4, <6>5, <2>ExpandInv
          <6> QED BY <6>2, <6>4, <6>6
        <5> QED BY <5>1, <5>2
      <4>6. Searching(graph, s, d, N, x)
        <5>1. Inductive(S, G)
          BY <4>5 DEF Inductive
        <5> HIDE DEF S, G
        <5>2. \A U \in SUBSET S : U \in G
          BY <4>4, <5>1, <1>SetInduction
        <5>3. S \in G
          BY <5>2
        <5> QED BY <4>4, <5>3 DEF G
      <4> HIDE DEF x, G
      <4>7. x \in Search(d) /\ x.found \in Seq(Services) /\ x.queue \in Seq(Seq(Services)) /\ x.visited \in SUBSET Services
        BY <4>6 DEF Searching, Sound, Search
      <4>8. ASSUME x.found = NoPath, Depends(graph, s, d) PROVE FALSE
        <5>1. s \in services(graph)
          <6> SUFFICES ASSUME s \notin services(graph) PROVE FALSE
            OBVIOUS
          <6>1. ClosedIn(graph, {s})
            BY DEF ClosedIn, services
          <6> QED BY <3>2, <4>8, <6>1 DEF Depends
        <5>2. x.visited \subseteq services(graph)
          <6>1. ClosedIn(graph, services(graph))
            BY DEF ClosedIn, services
          <6> QED BY <4>6, <5>1, <6>1 DEF Searching, Sound, Depends
        <5>3. x.queue = <<>>
          <6> SUFFICES ASSUME x.queue # <<>> PROVE FALSE
            OBVIOUS
          <6>1. N + Len(x.queue) <= Cardinality(x.visited)
            BY <4>6, <4>8 DEF Searching, Counted
          <6>2. Cardinality(x.visited) <= N /\ Cardinality(x.visited) \in Nat
            BY <5>2, <1>GraphFacts, FS_Subset, FS_CardinalityType DEF N
          <6>3. Len(x.queue) \in Nat /\ Len(x.queue) > 0
            BY <4>7, SMT
          <6>4. \A a, b \in Nat : ~(b > 0 /\ N + b <= a /\ a <= N)
            BY <4>1, SMT
          <6> QED BY <6>1, <6>2, <6>3, <6>4
        <5>4. ClosedIn(graph, x.visited)
          <6>1. \A v : ~Queued(x, v)
            BY <5>3, SMT DEF Queued
          <6>2. \A v \in x.visited : dependencies(graph, v) \subseteq x.visited
            BY <4>6, <4>8, <6>1 DEF Searching, Complete
          <6>3. \A e \in graph : e = <<e[1], e[2]>>
            BY SMT DEF Graphs
          <6> QED BY <6>2, <6>3, <1>GraphFacts DEF ClosedIn
        <5> QED BY <4>6, <4>8, <5>4 DEF Searching, Sound, Depends
      <4>9. x.found # NoPath => Depends(graph, s, d) /\ Shortest(graph, s, d, x.found)
        BY <4>6 DEF Searching, Sound
      <4> QED BY <4>3, <4>7, <4>8, <4>9
    <3> QED BY <3>1, <3>2

  \* A walk without those edges comes no later.
  <2>LoopFree.
    ASSUME edges \in Graphs, NEW s \in Services
    PROVE  \A w : IsWalk(edges, s, w) =>
               \E y \in Seq(Services) : IsWalk(New(edges), s, y) /\ End(y) = End(w) /\ UpTo(y, w)
    <3> USE <2>LoopFree
    <3> DEFINE Has(w) == \E y \in Seq(Services) : IsWalk(New(edges), s, y) /\ End(y) = End(w) /\ UpTo(y, w)
               S == {n \in Nat : \A w \in Seq(Services) : Len(w) = n + 1 /\ IsWalk(edges, s, w) => Has(w)}
    <3>1. 0 \in S
      <4>1. ASSUME NEW w \in Seq(Services), Len(w) = 0 + 1, IsWalk(edges, s, w) PROVE Has(w)
        <5>1. \A i \in 1..(Len(w) - 1) : FALSE
          BY <4>1, SMT
        <5> QED BY <4>1, <5>1 DEF IsWalk, UpTo
      <4> QED BY <4>1
    <3>2. ASSUME NEW n \in Nat, n \in S PROVE n + 1 \in S
      <4>1. ASSUME NEW w \in Seq(Services), Len(w) = (n + 1) + 1, IsWalk(edges, s, w) PROVE Has(w)
        <5>1. Len(w) # 1
          BY <4>1, SMT
        <5>2. PICK v \in Seq(Services) : /\ IsWalk(edges, s, v) /\ w = Append(v, End(w)) /\ End(w) \in Services
                                         /\ <<End(v), End(w)>> \in edges
          BY <4>1, <5>1, <2>WalkFront
        <5>3. Len(v) = n + 1
          <6>1. PICK e \in Services : e = End(w)
            BY <5>2
          <6>2. w = Append(v, e)
            BY <5>2, <6>1
          <6> QED BY <4>1, <6>2, SMT
        <5>4. Has(v)
          BY <3>2, <5>2, <5>3
        <5>5. PICK y \in Seq(Services) : IsWalk(New(edges), s, y) /\ End(y) = End(v) /\ UpTo(y, v)
          BY <5>4
        <5>6. CASE End(v) = End(w)
          <6>1. Before(v, w)
            BY <5>2, <2>BeforeAppend
          <6>2. Before(y, w)
            BY <4>1, <5>2, <5>5, <6>1, <2>UpToFacts
          <6> QED BY <5>5, <5>6, <6>2 DEF UpTo
        <5>7. CASE End(v) # End(w)
          <6> DEFINE z == Append(y, End(w))
          <6>1. <<End(y), End(w)>> \in New(edges)
            BY <5>2, <5>5, <5>7, <1>NewFacts
          <6>2. IsWalk(New(edges), s, z)
            BY <5>2, <5>5, <6>1, <2>WalkAppend
          <6>3. z \in Seq(Services) /\ End(z) = End(w)
            BY <5>2, <5>5, <1>AppendFacts, SMT
          <6>4. Before(y, v) => Before(z, Append(v, End(w)))
            BY <5>2, <5>5, <2>BeforeAppend
          <6>5. UpTo(z, w)
            BY <5>2, <5>5, <6>4 DEF UpTo
          <6> HIDE DEF z
          <6> QED BY <6>2, <6>3, <6>5
        <5> QED BY <5>6, <5>7
      <4> HIDE DEF Has
      <4>2. n + 1 \in Nat
        BY SMT
      <4> QED BY <4>1, <4>2
    <3>3. \A n \in Nat : n \in S
      <4> HIDE DEF S
      <4> QED BY <3>1, <3>2, <1>NatSet
    <3>4. ASSUME NEW w, IsWalk(edges, s, w) PROVE Has(w)
      <4>1. w \in Seq(Services) /\ Len(w) - 1 \in Nat /\ Len(w) = (Len(w) - 1) + 1
        BY <3>4, SMT DEF IsWalk
      <4> HIDE DEF Has
      <4> QED BY <3>3, <3>4, <4>1
    <3> QED BY <3>4

  \* Walks are those of the catalog's edges.
  <2>WalksFacts.
    ASSUME NEW s, NEW t, NEW n \in Nat, n >= 1, NEW w
    PROVE  w \in Walks(s, t, n) <=> IsWalk(edges, s, w) /\ End(w) = t /\ Len(w) = n
    <3> USE <2>WalksFacts
    <3>1. w \in [1..n -> Services] <=> w \in Seq(Services) /\ Len(w) = n
      BY SMT
    <3>2. w \in Seq(Services) /\ Len(w) = n => w # <<>>
      BY SMT
    <3> QED BY <3>1, <3>2 DEF Walks, IsWalk, End

  \* The first walk is the one that ShortestFirst chooses.
  <2>ShortestChosen.
    ASSUME NEW s, NEW t, NEW p, Shortest(edges, s, t, p)
    PROVE  ShortestFirst(s, t) = p
    <3> USE <2>ShortestChosen
    <3> DEFINE N == Len(p)
               Q(n) == Walks(s, t, n) # {} /\ \A m \in 1..(n - 1) : Walks(s, t, m) = {}
               R(w) == \A v \in Walks(s, t, N) \ {w} : EarlierName(w, v)
               C == 1..Cardinality(Services)
    <3>1. /\ p \in Seq(Services) /\ N \in Nat /\ N >= 1 /\ IsWalk(edges, s, p) /\ End(p) = t
      <4>1. IsWalk(edges, s, p) /\ End(p) = t
        BY DEF Shortest, Least
      <4> QED BY <4>1, SMT DEF IsWalk
    <3>2. Cardinality(Services) \in Nat /\ N <= Cardinality(Services)
      BY ServicesAssumption, FS_CardinalityType DEF Shortest
    <3>3. N \in C
      BY <3>1, <3>2, SMT
    <3>4. ASSUME NEW m \in Nat, m >= 1, NEW w \in Walks(s, t, m) PROVE Len(w) = m /\ w \in Seq(Services) /\ UpTo(p, w)
      <4>1. IsWalk(edges, s, w) /\ End(w) = t /\ Len(w) = m
        BY <3>4, <2>WalksFacts
      <4>2. w \in Seq(Services)
        BY <4>1 DEF IsWalk
      <4> QED BY <3>1, <4>1, <4>2 DEF Shortest, Least
    <3>5. p \in Walks(s, t, N)
      BY <3>1, <2>WalksFacts
    <3>6. ASSUME NEW m \in 1..(N - 1) PROVE Walks(s, t, m) = {}
      <4>1. m \in Nat /\ m >= 1 /\ ~(N < m) /\ N # m
        BY <3>1, SMT
      <4>2. ASSUME NEW w \in Walks(s, t, m) PROVE FALSE
        BY <3>4, <4>1, <4>2 DEF UpTo, Before
      <4> QED BY <4>2
    <3>7. Q(N)
      BY <3>5, <3>6
    <3>8. ASSUME NEW n \in C, Q(n) PROVE n = N
      <4>1. n \in 1..(N - 1) => FALSE
        BY <3>6, <3>8
      <4>2. N \in 1..(n - 1) => FALSE
        BY <3>5, <3>8
      <4> QED BY <3>1, <3>2, <4>1, <4>2, SMT
    <3>9. (CHOOSE n \in C : Q(n)) = N
      <4> HIDE DEF C, N, Q
      <4> QED BY <3>3, <3>7, <3>8
    <3>10. ASSUME NEW w \in Walks(s, t, N), w # p PROVE EarlierName(p, w)
      <4>1. ~(N < N)
        BY <3>1, SMT
      <4> QED BY <3>1, <3>4, <3>10, <4>1 DEF UpTo, Before
    <3>11. R(p)
      BY <3>10
    <3>12. ASSUME NEW w \in Walks(s, t, N), R(w) PROVE w = p
      <4> SUFFICES ASSUME w # p PROVE FALSE
        OBVIOUS
      <4>1. EarlierName(p, w) /\ EarlierName(w, p)
        BY <3>5, <3>10, <3>12
      <4>2. Len(w) = N /\ w \in Seq(Services)
        BY <3>1, <3>4
      <4>3. Before(p, w) /\ Before(w, p)
        BY <4>1, <4>2 DEF Before
      <4> QED BY <3>1, <4>2, <4>3, <2>BeforeOrder
    <3>13. (CHOOSE w \in Walks(s, t, N) : R(w)) = p
      <4> HIDE DEF N, R
      <4> QED BY <3>5, <3>11, <3>12
    <3> QED BY <3>9, <3>13 DEF ShortestFirst

  \* Path returns what its reference does.
  <2>CatalogPath.
    ASSUME edges \in Graphs
    PROVE  PathRight
    <3> USE <2>CatalogPath
    <3> SUFFICES ASSUME NEW s \in Services, NEW t \in Services
                 PROVE  Path(New(edges), s, t) = IF Reaches(s, t) THEN ShortestFirst(s, t) ELSE NoPath
      BY DEF PathRight
    <3> DEFINE p == Path(New(edges), s, t)
    <3>1. New(edges) \in Graphs /\ New(edges) \subseteq edges /\ (Reaches(s, t) <=> Depends(New(edges), s, t))
      BY <1>NewFacts
    <3>2. p \in Seq(Services) /\ (p # NoPath <=> Depends(New(edges), s, t)) /\ (p # NoPath => Shortest(New(edges), s, t, p))
      BY <3>1, <2>PathFound
    <3> HIDE DEF p
    <3>3. ASSUME p # NoPath PROVE ShortestFirst(s, t) = p
      <4>1. Shortest(New(edges), s, t, p)
        BY <3>2, <3>3
      <4>2. IsWalk(edges, s, p)
        BY <3>1, <4>1 DEF Shortest, Least, IsWalk
      <4>3. ASSUME NEW w \in Seq(Services), IsWalk(edges, s, w), End(w) = End(p) PROVE UpTo(p, w)
        <5>1. PICK y \in Seq(Services) : IsWalk(New(edges), s, y) /\ End(y) = End(w) /\ UpTo(y, w)
          BY <4>3, <2>LoopFree
        <5>2. UpTo(p, y)
          BY <4>1, <4>3, <5>1 DEF Shortest, Least
        <5> QED BY <3>2, <5>1, <5>2, <2>UpToFacts
      <4>4. Shortest(edges, s, t, p)
        BY <4>1, <4>2, <4>3 DEF Shortest, Least
      <4> QED BY <4>4, <2>ShortestChosen
    <3> QED BY <3>1, <3>2, <3>3 DEF p
  <2> QED BY <2>PathFound, <2>CatalogPath

\* Groups: each takes the best candidate, until every service has one.
<1>GroupsFacts.
  /\ \A graph \in Graphs : \A alerted \in SUBSET Services :
        LET groups == Groups(graph, alerted)
        IN  /\ IsGrouping(graph, alerted, groups)
            /\ \A n \in DOMAIN groups :
                  /\ groups[n].root \in Services /\ groups[n].members \subseteq alerted
                  /\ \A s \in groups[n].members : Depends(graph, s, groups[n].root)
  /\ edges \in Graphs => GroupsRight
  \* The members of the group of a root are what depends on it.
  <2>CoveredFacts.
    ASSUME NEW graph \in Graphs, NEW root \in Services, NEW U \in SUBSET Services, NEW alerted
    PROVE  IsCovered(covered(graph, root, U, alerted), graph, root, U, alerted)
    <3> DEFINE S == {s \in U : Path(graph, s, root) # NoPath}
               one(T) == CHOOSE s \in T : TRUE
               len(s) == Len(Path(graph, s, root)) - 1
               rest == [T \in SUBSET S |-> T \ {one(T)}]
               step == [p \in (SUBSET S) \X Nat |-> IF p[1] = {} THEN 0 ELSE len(one(p[1])) + p[2]]
    <3>1. \A s \in S : len(s) \in Nat
      <4> SUFFICES ASSUME NEW s \in S PROVE len(s) \in Nat
        OBVIOUS
      <4>1. Path(graph, s, root) \in Seq(Services) /\ Path(graph, s, root) # <<>>
        BY <1>PathFacts DEF NoPath
      <4> QED BY <4>1, SMT
    <3>2. S = {s \in U : Depends(graph, s, root)}
      BY <1>PathFacts
    <3>3. S \in SUBSET U /\ IsFiniteSet(S)
      BY ServicesAssumption, FS_Subset
    <3>4. \A T \in SUBSET S : T # {} => one(T) \in T /\ one(T) \in S
      OBVIOUS
    <3> HIDE DEF one, len
    <3>5. step \in [(SUBSET S) \X Nat -> Nat]
      <4>1. ASSUME NEW p \in (SUBSET S) \X Nat, p[1] # {} PROVE len(one(p[1])) + p[2] \in Nat
        <5>1. p[2] \in Nat /\ len(one(p[1])) \in Nat
          BY <3>1, <3>4, <4>1
        <5> QED BY <5>1, SMT
      <4>2. 0 \in Nat
        OBVIOUS
      <4> HIDE DEF S
      <4> QED BY <4>1, <4>2
    <3>6. SetRecursive(S, Nat, rest, 0, step)
      <4>1. 0 \in Nat
        OBVIOUS
      <4> HIDE DEF step, S
      <4> QED BY <3>3, <3>4, <3>5, <4>1 DEF SetRecursive
    <3>7. PICK g \in [SUBSET S -> Nat] : SetSolves(g, S, rest, 0, step)
      <4> HIDE DEF rest, step, S
      <4> QED BY <3>6, <1>SetRecursion
    <3>8. SumAll(g, graph, root, S)
      <4>1. ASSUME NEW T \in SUBSET S PROVE g[T] = IF T = {} THEN 0 ELSE len(one(T)) + g[T \ {one(T)}]
        <5> HIDE DEF S
        <5> QED BY <3>7, <4>1 DEF SetSolves
      <4>2. g = [T \in SUBSET S |-> IF T = {} THEN 0 ELSE len(one(T)) + g[T \ {one(T)}]]
        <5> HIDE DEF S
        <5> QED BY <4>1
      <4> QED BY <4>2 DEF SumAll, len, one
    <3> DEFINE f == CHOOSE f : SumAll(f, graph, root, S)
    <3>9. SumAll(f, graph, root, S)
      BY <3>8
    <3>10. covered(graph, root, U, alerted) =
             [root |-> root, members |-> S, inferred |-> root \notin alerted, distance |-> f[S]]
      BY DEF covered, MapThenSumSet, MapThenFoldSet, SumAll
    <3> HIDE DEF f, S
    <3> DEFINE G == {T \in SUBSET S : f[T] \in Nat}
    <3>11. ASSUME NEW T \in SUBSET S, \A W \in SUBSET T : W # T => W \in G PROVE T \in G
      <4>1. f[T] = IF T = {} THEN 0 ELSE len(one(T)) + f[T \ {one(T)}]
        BY <3>9 DEF SumAll, len, one
      <4>2. CASE T = {}
        <5>1. 0 \in Nat
          OBVIOUS
        <5> QED BY <4>1, <4>2, <5>1
      <4>3. CASE T # {}
        <5>1. f[T \ {one(T)}] \in Nat /\ len(one(T)) \in Nat
          BY <3>1, <3>4, <3>11, <4>3
        <5>2. \A a, b \in Nat : a + b \in Nat
          BY SMT
        <5> QED BY <4>1, <4>3, <5>1, <5>2, ZenonT(30)
      <4> QED BY <4>2, <4>3
    <3>12. f[S] \in Nat
      <4>1. Inductive(S, G)
        BY <3>11 DEF Inductive
      <4>2. \A T \in SUBSET S : T \in G
        <5> HIDE DEF G
        <5> QED BY <3>3, <4>1, <1>SetInduction
      <4> QED BY <4>2
    <3> DEFINE c == covered(graph, root, U, alerted)
    <3> DEFINE inferred == root \notin alerted
    <3>13. inferred \in BOOLEAN
      OBVIOUS
    <3>14. c = [root |-> root, members |-> S, inferred |-> inferred, distance |-> f[S]]
      BY <3>10
    <3> HIDE DEF inferred, c
    <3>15. c \in [root : {root}, members : SUBSET U, inferred : BOOLEAN, distance : Nat]
      BY <3>3, <3>12, <3>13, <3>14
    <3>16. c.members = S /\ c.inferred = inferred
      BY <3>14
    <3>17. IsCovered(c, graph, root, U, alerted)
      BY <3>2, <3>15, <3>16 DEF IsCovered, inferred
    <3> QED BY <3>17 DEF c

  \* betterRoot orders groups with different roots, larger ones first.
  <2>BetterOrder.
    /\ \A a, b \in Ranked : a.root # b.root => betterRoot(a, b) \/ betterRoot(b, a)
    /\ \A a, b, c \in Ranked : betterRoot(a, b) /\ betterRoot(b, c) => betterRoot(a, c)
    /\ \A a, b \in Ranked : betterRoot(a, b) => Cardinality(a.members) >= Cardinality(b.members)
    <3>1. \A a \in Ranked : a.root \in Nat /\ a.inferred \in BOOLEAN /\ a.distance \in Nat /\ Cardinality(a.members) \in Nat
      BY FS_CardinalityType DEF Ranked, GroupType
    <3>2. \A a, b \in Ranked : a.root # b.root => betterRoot(a, b) \/ betterRoot(b, a)
      BY <3>1, SMT DEF betterRoot
    <3>3. \A a, b, c \in Ranked : betterRoot(a, b) /\ betterRoot(b, c) => betterRoot(a, c)
      BY <3>1, SMT DEF betterRoot
    <3>4. \A a, b \in Ranked : betterRoot(a, b) => Cardinality(a.members) >= Cardinality(b.members)
      BY <3>1, SMT DEF betterRoot
    <3> QED BY <3>2, <3>3, <3>4

  \* BestGroup, the first of the candidates, is such a group.
  <2>BestFacts.
    ASSUME NEW graph \in Graphs, NEW U \in SUBSET Services, U # {}, NEW alerted
    PROVE  IsBest(graph, U, alerted, BestGroup(graph, U, alerted))
    <3> USE <2>BestFacts
    <3> DEFINE roots == rootCandidates(graph, U)
               cov(r) == covered(graph, r, U, alerted)
               R == {p \in roots \X roots : betterRoot(cov(p[1]), cov(p[2]))}
    <3>1. roots \in SUBSET Services /\ IsFiniteSet(roots)
      <4>1. roots \in SUBSET Services
        BY <1>GraphFacts DEF rootCandidates
      <4> QED BY <4>1, ServicesAssumption, FS_Subset
    <3>2. ASSUME NEW r \in Services
          PROVE  cov(r) \in Ranked /\ cov(r).root = r /\ cov(r).members = {s \in U : Depends(graph, s, r)}
      <4>1. /\ cov(r) \in [root : {r}, members : SUBSET U, inferred : BOOLEAN, distance : Nat]
            /\ cov(r).root = r /\ cov(r).members = {s \in U : Depends(graph, s, r)}
        <5>1. IsCovered(cov(r), graph, r, U, alerted)
          BY <2>CoveredFacts
        <5> HIDE DEF cov
        <5> QED BY <5>1 DEF IsCovered
      <4>2. r \in Nat /\ U \in SUBSET Nat
        BY ServicesAssumption
      <4>3. IsFiniteSet(U)
        BY ServicesAssumption, FS_Subset
      <4>4. IsFiniteSet(cov(r).members)
        BY <4>1, <4>3, FS_Subset
      <4> HIDE DEF cov
      <4>5. cov(r) \in GroupType
        BY <4>1, <4>2 DEF GroupType
      <4> QED BY <4>1, <4>4, <4>5 DEF Ranked
    <3>3. ASSUME NEW s \in U, NEW r \in Services, Depends(graph, s, r) PROVE r \in roots
      <4>1. s \in Services /\ Path(graph, s, r) # NoPath
        BY <3>3, <1>PathFacts
      <4>2. r \in services(graph) \cup U
        <5>1. ClosedIn(graph, services(graph) \cup U)
          BY DEF ClosedIn, services
        <5> QED BY <3>3, <5>1 DEF Depends
      <4> QED BY <4>1, <4>2 DEF rootCandidates
    <3>4. ASSUME NEW r \in roots PROVE \E s \in U : Depends(graph, s, r)
      <4>1. PICK s \in U : Path(graph, s, r) # NoPath
        BY DEF rootCandidates
      <4>2. s \in Services /\ r \in Services
        BY <3>1
      <4> QED BY <4>1, <4>2, <1>PathFacts
    <3>5. roots # {}
      <4>1. PICK s \in U : TRUE
        OBVIOUS
      <4> QED BY <3>3, <4>1, DependsFacts
    <3> HIDE DEF roots, cov
    <3>6. TotalOn(R, roots)
      <4>1. \A a, b \in roots : <<a, b>> \in R <=> betterRoot(cov(a), cov(b))
        OBVIOUS
      <4>2. \A a \in roots : cov(a) \in Ranked /\ cov(a).root = a
        BY <3>1, <3>2
      <4> HIDE DEF R
      <4> QED BY <4>1, <4>2, <2>BetterOrder DEF TotalOn
    <3>7. PICK a \in roots : First(a, R, roots)
      <4> HIDE DEF R
      <4> QED BY <3>1, <3>5, <3>6, <1>FiniteFirst
    <3>8. \A b \in roots \ {a} : betterRoot(cov(a), cov(b))
      BY <3>7 DEF First
    <3> DEFINE C == {cov(r) : r \in roots}
               best == CHOOSE x \in C : \A y \in C \ {x} : betterRoot(x, y)
    <3>9. cov(a) \in C /\ \A y \in C \ {cov(a)} : betterRoot(cov(a), y)
      BY <3>8
    <3>10. best \in C /\ \A y \in C \ {best} : betterRoot(best, y)
      BY <3>9
    <3>11. BestGroup(graph, U, alerted) = best
      BY DEF BestGroup, roots, cov
    <3> HIDE DEF best
    <3>12. PICK r \in roots : best = cov(r)
      BY <3>10
    <3>13. /\ r \in Services /\ best \in Ranked /\ best.root = r /\ best.members = {s \in U : Depends(graph, s, r)}
      BY <3>1, <3>2, <3>12
    <3>14. best.members # {}
      BY <3>4, <3>13
    <3>15. ASSUME NEW q \in Services, NEW M \in SUBSET U, M # {}, \A s \in M : Depends(graph, s, q)
           PROVE  Cardinality(M) <= Cardinality(best.members)
      <4>1. q \in roots
        BY <3>3, <3>15
      <4>2. cov(q) \in Ranked /\ M \in SUBSET cov(q).members /\ IsFiniteSet(cov(q).members)
        BY <3>2, <3>15 DEF Ranked
      <4>3. Cardinality(M) <= Cardinality(cov(q).members)
        BY <4>2, FS_Subset
      <4>4. Cardinality(cov(q).members) <= Cardinality(best.members)
        <5>1. CASE cov(q) = best
          <6>1. Cardinality(best.members) \in Nat
            BY <3>13, FS_CardinalityType DEF Ranked
          <6>2. \A n \in Nat : n <= n
            BY SMT
          <6> QED BY <5>1, <6>1, <6>2
        <5>2. CASE cov(q) # best
          <6>1. Cardinality(best.members) >= Cardinality(cov(q).members)
            BY <3>10, <3>13, <4>1, <4>2, <5>2, <2>BetterOrder
          <6> QED BY <6>1
        <5> QED BY <5>1, <5>2
      <4>5. Cardinality(M) \in Nat /\ Cardinality(cov(q).members) \in Nat /\ Cardinality(best.members) \in Nat
        BY <3>13, <4>2, FS_Subset, FS_CardinalityType DEF Ranked
      <4>6. \A i, j, k \in Nat : i <= j /\ j <= k => i <= k
        BY SMT
      <4> QED BY <4>3, <4>4, <4>5, <4>6
    <3>16. best = covered(graph, best.root, U, alerted)
      BY <3>12, <3>13 DEF cov
    <3> QED BY <3>11, <3>13, <3>14, <3>15, <3>16 DEF IsBest, Ranked

  \* The recursion of GroupSet is defined: the best group is never empty.
  <2>GroupAllExists.
    ASSUME NEW graph \in Graphs, NEW alerted \in SUBSET Services
    PROVE  \E f : GroupAll(f, graph, alerted)
    <3> DEFINE best(U) == BestGroup(graph, U, alerted)
               V == SUBSET GroupType
               rest == [U \in SUBSET alerted |-> U \ best(U).members]
               step == [p \in (SUBSET alerted) \X V |-> IF p[1] = {} THEN {} ELSE {best(p[1])} \cup p[2]]
    <3>1. ASSUME NEW U \in SUBSET alerted, U # {}
          PROVE  best(U) \in GroupType /\ best(U).members # {} /\ best(U).members \subseteq U
      <4>1. U \in SUBSET Services
        OBVIOUS
      <4> QED BY <3>1, <4>1, <2>BestFacts DEF IsBest
    <3> HIDE DEF best
    <3>2. step \in [(SUBSET alerted) \X V -> V]
      <4>1. ASSUME NEW p \in (SUBSET alerted) \X V, p[1] # {} PROVE {best(p[1])} \cup p[2] \in V
        BY <3>1, <4>1
      <4>2. {} \in V
        OBVIOUS
      <4> HIDE DEF V
      <4> QED BY <4>1, <4>2
    <3>3. SetRecursive(alerted, V, rest, {}, step)
      <4>1. IsFiniteSet(alerted) /\ {} \in V
        BY ServicesAssumption, FS_Subset
      <4>2. ASSUME NEW U \in SUBSET alerted, U # {} PROVE rest[U] \subseteq U /\ rest[U] # U
        <5>1. best(U).members # {} /\ best(U).members \subseteq U
          BY <3>1, <4>2
        <5>2. rest[U] = U \ best(U).members
          OBVIOUS
        <5> QED BY <5>1, <5>2
      <4>3. rest \in [SUBSET alerted -> SUBSET alerted]
        OBVIOUS
      <4> HIDE DEF step, V, rest
      <4> QED BY <3>2, <4>1, <4>2, <4>3 DEF SetRecursive
    <3>4. PICK g \in [SUBSET alerted -> V] : SetSolves(g, alerted, rest, {}, step)
      <4> HIDE DEF rest, step, V
      <4> QED BY <3>3, <1>SetRecursion
    <3>5. ASSUME NEW U \in SUBSET alerted PROVE g[U] = IF U = {} THEN {} ELSE {best(U)} \cup g[U \ best(U).members]
      <4> HIDE DEF V
      <4> QED BY <3>4 DEF SetSolves
    <3>6. g = [U \in SUBSET alerted |-> IF U = {} THEN {} ELSE {best(U)} \cup g[U \ best(U).members]]
      <4> HIDE DEF V
      <4> QED BY <3>5
    <3> QED BY <3>6 DEF GroupAll, best

  \* The best group keeps apart from those of the rest: were its root to depend on
  \* the root of one of them, that root would cover more.
  <2>GroupStep.
    ASSUME NEW graph \in Graphs, NEW alerted \in SUBSET Services, NEW U \in SUBSET alerted, NEW best,
           IsBest(graph, U, alerted, best), NEW groups, Grouped(graph, alerted, U \ best.members, groups)
    PROVE  Grouped(graph, alerted, U, {best} \cup groups)
    <3> USE <2>GroupStep
    <3>1. IsFiniteSet({best} \cup groups)
      BY FS_Singleton, FS_Union DEF Grouped
    <3>2. /\ best \in GroupType /\ best.root \in Services /\ best.members # {} /\ best.members \subseteq U
          /\ \A s \in best.members : Depends(graph, s, best.root)
          /\ best.inferred <=> best.root \notin alerted
      <4>1. U \in SUBSET Services
        OBVIOUS
      <4>2. IsCovered(best, graph, best.root, U, alerted)
        BY <4>1, <2>CoveredFacts DEF IsBest
      <4> QED BY <4>2 DEF IsBest, IsCovered
    <3>3. ASSUME NEW b \in groups PROVE Apart(graph, best, b) /\ Apart(graph, b, best)
      <4>1. /\ b.root \in Services /\ b.members # {} /\ b.members \subseteq U \ best.members
            /\ \A s \in b.members : Depends(graph, s, b.root)
        BY DEF Grouped
      <4>2. PICK t \in b.members : t \in U /\ t \notin best.members
        BY <4>1
      <4>3. ~Depends(graph, b.root, best.root)
        BY <4>1, <4>2, DependsFacts DEF IsBest
      <4>4. ~Depends(graph, best.root, b.root)
        <5> SUFFICES ASSUME Depends(graph, best.root, b.root) PROVE FALSE
          OBVIOUS
        <5> DEFINE M == best.members \cup {t}
        <5>1. M \in SUBSET U /\ M # {}
          BY <3>2, <4>2
        <5>2. \A s \in M : Depends(graph, s, b.root)
          BY <3>2, <4>1, DependsFacts
        <5> HIDE DEF M
        <5>3. Cardinality(M) <= Cardinality(best.members)
          BY <4>1, <5>1, <5>2 DEF IsBest
        <5>4. IsFiniteSet(best.members)
          <6>1. best.members \in SUBSET Services
            BY <3>2
          <6> QED BY <6>1, ServicesAssumption, FS_Subset
        <5>5. Cardinality(M) = Cardinality(best.members) + 1 /\ Cardinality(best.members) \in Nat
          BY <4>2, <5>4, FS_AddElement, FS_CardinalityType DEF M
        <5>6. \A n \in Nat : ~(n + 1 <= n)
          BY SMT
        <5> QED BY <5>3, <5>5, <5>6
      <4> QED BY <4>1, <4>3, <4>4 DEF Apart
    <3>4. \A s \in U : \E a \in {best} \cup groups : s \in a.members
      BY DEF Grouped
    <3> QED BY <3>1, <3>2, <3>3, <3>4 DEF Grouped

  \* GroupSet groups the alerted services.
  <2>GroupSetFacts.
    ASSUME NEW graph \in Graphs, NEW alerted \in SUBSET Services
    PROVE  Grouped(graph, alerted, alerted, GroupSet(graph, alerted))
    <3> DEFINE f == CHOOSE f : GroupAll(f, graph, alerted)
               best(U) == BestGroup(graph, U, alerted)
               G == {U \in SUBSET alerted : Grouped(graph, alerted, U, f[U])}
    <3>1. GroupAll(f, graph, alerted)
      BY <2>GroupAllExists
    <3>2. GroupSet(graph, alerted) = f[alerted]
      BY DEF GroupSet, GroupAll
    <3> HIDE DEF f
    <3>3. ASSUME NEW U \in SUBSET alerted, \A W \in SUBSET U : W # U => W \in G PROVE U \in G
      <4>1. f[U] = IF U = {} THEN {} ELSE {best(U)} \cup f[U \ best(U).members]
        BY <3>1 DEF GroupAll
      <4>2. CASE U = {}
        <5>1. f[U] = {}
          BY <4>1, <4>2
        <5>2. Grouped(graph, alerted, U, {})
          BY <4>2, FS_EmptySet DEF Grouped
        <5> QED BY <5>1, <5>2
      <4>3. CASE U # {}
        <5> DEFINE W == U \ best(U).members
        <5>1. U \in SUBSET Services
          OBVIOUS
        <5>2. IsBest(graph, U, alerted, best(U))
          BY <4>3, <5>1, <2>BestFacts
        <5> HIDE DEF best
        <5>3. W \in SUBSET U /\ W # U
          BY <5>2 DEF IsBest
        <5>4. Grouped(graph, alerted, W, f[W])
          BY <3>3, <5>3
        <5>5. Grouped(graph, alerted, U, {best(U)} \cup f[W])
          BY <5>2, <5>4, <2>GroupStep
        <5> QED BY <4>1, <4>3, <5>5
      <4> QED BY <4>2, <4>3
    <3>4. alerted \in G
      <4>1. Inductive(alerted, G)
        BY <3>3 DEF Inductive
      <4>2. IsFiniteSet(alerted)
        BY ServicesAssumption, FS_Subset
      <4> HIDE DEF G
      <4>3. \A U \in SUBSET alerted : U \in G
        BY <4>1, <4>2, <1>SetInduction
      <4> QED BY <4>3
    <3> QED BY <3>2, <3>4

  \* The last of some groups is one of them.
  <2>LastIn.
    ASSUME NEW T \in SUBSET GroupType, IsFiniteSet(T), T # {}
    PROVE  LastByRoot(T) \in T
    <3> USE <2>LastIn
    <3> DEFINE R == {p \in T \X T : p[2].root <= p[1].root}
    <3>1. \A a, b \in T : <<a, b>> \in R <=> b.root <= a.root
      OBVIOUS
    <3>2. \A a \in T : a.root \in Nat
      BY DEF GroupType
    <3> HIDE DEF R
    <3>3. TotalOn(R, T)
      <4>1. \A i, j, k \in Nat : (i <= j \/ j <= i) /\ (j <= i /\ k <= j => k <= i)
        BY SMT
      <4> QED BY <3>1, <3>2, <4>1 DEF TotalOn
    <3>4. PICK a \in T : First(a, R, T)
      BY <3>3, <1>FiniteFirst
    <3>5. \A b \in T : b.root <= a.root
      <4>1. \A i \in Nat : i <= i
        BY SMT
      <4> QED BY <3>1, <3>2, <3>4, <4>1 DEF First
    <3> QED BY <3>5 DEF LastByRoot

  \* Groups lists what GroupSet returns.
  <2>SortFacts.
    ASSUME NEW graph, NEW alerted, NEW S \in SUBSET GroupType, IsFiniteSet(S), S = GroupSet(graph, alerted)
    PROVE  Lists(Groups(graph, alerted), S)
    <3> USE <2>SortFacts
    <3> DEFINE last(T) == LastByRoot(T)
               V == Seq(GroupType)
               rest == [T \in SUBSET S |-> T \ {last(T)}]
               step == [p \in (SUBSET S) \X V |-> IF p[1] = {} THEN <<>> ELSE Append(p[2], last(p[1]))]
               f == CHOOSE f : SortAll(f, S)
               G == {T \in SUBSET S : Lists(f[T], T)}
    <3>1. ASSUME NEW T \in SUBSET S, T # {} PROVE last(T) \in T /\ last(T) \in GroupType
      <4>1. IsFiniteSet(T) /\ T \in SUBSET GroupType
        BY FS_Subset
      <4> QED BY <3>1, <4>1, <2>LastIn
    <3> HIDE DEF last
    <3>2. <<>> \in V
      BY SMT
    <3>3. step \in [(SUBSET S) \X V -> V]
      <4>1. ASSUME NEW p \in (SUBSET S) \X V, p[1] # {} PROVE Append(p[2], last(p[1])) \in V
        <5>1. p[2] \in Seq(GroupType) /\ last(p[1]) \in GroupType
          BY <3>1, <4>1
        <5> QED BY <5>1, <1>AppendFacts
      <4> HIDE DEF V
      <4> QED BY <3>2, <4>1
    <3>4. SetRecursive(S, V, rest, <<>>, step)
      <4> HIDE DEF step, V
      <4> QED BY <3>1, <3>2, <3>3 DEF SetRecursive
    <3>5. PICK g \in [SUBSET S -> V] : SetSolves(g, S, rest, <<>>, step)
      <4> HIDE DEF rest, step, V
      <4> QED BY <3>4, <1>SetRecursion
    <3>6. ASSUME NEW T \in SUBSET S PROVE g[T] = IF T = {} THEN <<>> ELSE Append(g[T \ {last(T)}], last(T))
      <4> HIDE DEF V
      <4> QED BY <3>5 DEF SetSolves
    <3>7. g = [T \in SUBSET S |-> IF T = {} THEN <<>> ELSE Append(g[T \ {last(T)}], last(T))]
      <4> HIDE DEF V
      <4> QED BY <3>6
    <3>8. SortAll(f, S)
      BY <3>7 DEF SortAll, last
    <3>9. Groups(graph, alerted) = f[S]
      BY DEF Groups, MapThenFoldSet, SortAll
    <3> HIDE DEF f
    <3>10. ASSUME NEW T \in SUBSET S, \A W \in SUBSET T : W # T => W \in G PROVE T \in G
      <4>1. f[T] = IF T = {} THEN <<>> ELSE Append(f[T \ {last(T)}], last(T))
        BY <3>8 DEF SortAll, last
      <4>2. CASE T = {}
        <5>1. f[T] = <<>>
          BY <4>1, <4>2
        <5>2. Lists(<<>>, {})
          BY SMT DEF Lists
        <5> QED BY <4>2, <5>1, <5>2
      <4>3. CASE T # {}
        <5> DEFINE W == T \ {last(T)}
                   q == f[W]
                   e == last(T)
                   r == f[T]
        <5>1. e \in T /\ e \in GroupType /\ e \notin W /\ T = W \cup {e}
          BY <3>1, <4>3
        <5>2. Lists(q, W)
          BY <3>10, <5>1
        <5>3. r = Append(q, e)
          BY <4>1, <4>3
        <5> HIDE DEF W, q, e, r
        <5>4. q \in Seq(GroupType)
          BY <5>2 DEF Lists
        <5>5. /\ r \in Seq(GroupType) /\ DOMAIN r = DOMAIN q \cup {Len(q) + 1} /\ Len(q) + 1 \notin DOMAIN q
              /\ r[Len(q) + 1] = e /\ \A i \in DOMAIN q : r[i] = q[i]
          BY <5>1, <5>3, <5>4, <1>AppendFacts, SMT
        <5>6. Lists(r, T)
          BY <5>1, <5>2, <5>5 DEF Lists
        <5> QED BY <5>6 DEF r
      <4> QED BY <4>2, <4>3
    <3>11. S \in G
      <4>1. Inductive(S, G)
        BY <3>10 DEF Inductive
      <4> HIDE DEF G
      <4>2. \A T \in SUBSET S : T \in G
        BY <4>1, <1>SetInduction
      <4> QED BY <4>2
    <3> QED BY <3>9, <3>11

  \* Groups returns a grouping, each service with a root that it depends on.
  <2>GroupsListed.
    ASSUME NEW graph \in Graphs, NEW alerted \in SUBSET Services
    PROVE  LET groups == Groups(graph, alerted)
           IN  /\ IsGrouping(graph, alerted, groups)
               /\ \A n \in DOMAIN groups :
                     /\ groups[n].root \in Services /\ groups[n].members \subseteq alerted
                     /\ \A s \in groups[n].members : Depends(graph, s, groups[n].root)
                     /\ ~groups[n].inferred <=> groups[n].root \in groups[n].members
    <3> DEFINE groups == Groups(graph, alerted)
               S == GroupSet(graph, alerted)
    <3>1. Grouped(graph, alerted, alerted, S)
      BY <2>GroupSetFacts
    <3>2. Lists(groups, S)
      <4>1. S \in SUBSET GroupType /\ IsFiniteSet(S)
        BY <3>1 DEF Grouped
      <4> QED BY <4>1, <2>SortFacts
    <3> HIDE DEF groups, S
    <3>3. ASSUME NEW n \in DOMAIN groups
          PROVE  /\ groups[n].root \in Services /\ groups[n].members # {} /\ groups[n].members \subseteq alerted
                 /\ groups[n].inferred <=> groups[n].root \notin alerted
                 /\ \A s \in groups[n].members : Depends(graph, s, groups[n].root)
      BY <3>1, <3>2 DEF Grouped, Lists
    <3>4. ASSUME NEW m \in DOMAIN groups, NEW n \in DOMAIN groups, m # n
          PROVE  /\ \A s \in alerted : ~(s \in groups[m].members /\ s \in groups[n].members)
                 /\ ~Depends(graph, groups[m].root, groups[n].root)
      BY <3>1, <3>2, <3>4 DEF Grouped, Lists, Apart
    <3>5. ASSUME NEW s \in alerted PROVE \E n \in DOMAIN groups : s \in groups[n].members
      BY <3>1, <3>2 DEF Grouped, Lists
    <3>6. IsGrouping(graph, alerted, groups)
      <4>1. groups \in Seq(GroupType)
        BY <3>2 DEF Lists
      <4>2. \A m, n \in DOMAIN groups : m # n => Path(graph, groups[m].root, groups[n].root) = NoPath
        BY <3>3, <3>4, <1>PathFacts
      <4>3. \A n \in DOMAIN groups : \E s \in alerted : s \in groups[n].members
        BY <3>3
      <4> QED BY <3>4, <3>5, <4>1, <4>2, <4>3 DEF IsGrouping
    <3>7. ASSUME NEW n \in DOMAIN groups PROVE ~groups[n].inferred <=> groups[n].root \in groups[n].members
      <4>1. CASE groups[n].root \in alerted
        <5>1. PICK m \in DOMAIN groups : groups[n].root \in groups[m].members
          BY <3>5, <4>1
        <5>2. Depends(graph, groups[n].root, groups[m].root)
          BY <3>3, <5>1
        <5>3. m = n
          BY <3>4, <5>2
        <5> QED BY <3>3, <4>1, <5>1, <5>3
      <4>2. CASE groups[n].root \notin alerted
        BY <3>3, <4>2
      <4> QED BY <4>1, <4>2
    <3> QED BY <3>3, <3>6, <3>7 DEF groups

  \* Groups returns what its reference asks for.
  <2>CatalogGroups.
    ASSUME edges \in Graphs
    PROVE  GroupsRight
    <3> USE <2>CatalogGroups
    <3> SUFFICES ASSUME NEW alerted \in SUBSET Services
                 PROVE  LET groups == Groups(New(edges), alerted)
                        IN  /\ IsGrouping(New(edges), alerted, groups)
                            /\ \A n \in DOMAIN groups :
                                  LET a == groups[n]
                                  IN  /\ a.members \subseteq alerted
                                      /\ \A s \in a.members : Reaches(s, a.root)
                                      /\ ~a.inferred <=> a.root \in a.members
      BY DEF GroupsRight
    <3> DEFINE groups == Groups(New(edges), alerted)
    <3>1. New(edges) \in Graphs
      BY DEF New, Graphs
    <3>2. /\ IsGrouping(New(edges), alerted, groups)
          /\ \A n \in DOMAIN groups :
                /\ groups[n].root \in Services /\ groups[n].members \subseteq alerted
                /\ \A s \in groups[n].members : Depends(New(edges), s, groups[n].root)
                /\ ~groups[n].inferred <=> groups[n].root \in groups[n].members
      BY <3>1, <2>GroupsListed
    <3> HIDE DEF groups
    <3>3. \A s \in Services : \A t : Depends(New(edges), s, t) => Reaches(s, t)
      BY <1>NewFacts
    <3>4. \A n \in DOMAIN groups : \A s \in groups[n].members : Reaches(s, groups[n].root)
      BY <3>2, <3>3
    <3> QED BY <3>2, <3>4 DEF groups
  <2> QED BY <2>GroupsListed, <2>CatalogGroups

<1> QED BY <1>PathFacts, <1>GroupsFacts


-----------------------------------------------------------------------------
(* The inductive invariant.                                                *)

IsRow(x) ==
    /\ DOMAIN x = DOMAIN NoRow
    /\ x.seen \in Nat /\ x.cleared \in BOOLEAN
    /\ x.alerts \in [Alerts -> [status : {"none", "firing", "resolved"}, seen : Nat]]

RowInv(i) ==
    /\ status[i] \in {"none", "open", "closed"}
    /\ IsRow(incidents[i]) /\ Consistent(incidents[i])
    /\ status[i] = "none" => incidents[i].alerts = [k \in Alerts |-> Quiet]

\* The delivery left the alert of the row as it was, or resolved it.
ResolvedAt(at) == [status |-> "resolved", seen |-> at]
NotFired(t, i, k) == t.rows[i].alerts[k] \in {incidents[i].alerts[k], ResolvedAt(t.at)}
Member(t, n, k) == k[1] \in t.groups[n].members

TxType(t) ==
    /\ DOMAIN t = DOMAIN Idle
    /\ t.pc \in {"idle", "wait", "resolve", "mark", "group", "attach"}
    /\ t.at \in Nat /\ t.at <= now
    /\ t.firing \subseteq Alerts /\ t.left \subseteq Alerts
    /\ t.open \subseteq Ids /\ DOMAIN t.rows \subseteq Ids
    /\ t.pc \in {"idle", "wait"} => DOMAIN t.rows = {}
    /\ t.pc \in {"mark", "attach"} => t.target \in Ids
    /\ \A i \in DOMAIN t.rows : IsRow(t.rows[i]) /\ Consistent(t.rows[i])

\* Until the groups are known rows only have alerts resolved.
ResolveInv(t) ==
    /\ t.pc = "mark" => t.key \in t.left
    /\ \A i \in DOMAIN t.rows :
          /\ t.rows[i].root = incidents[i].root /\ t.rows[i].seen = t.at
          /\ \A k \in t.firing : NotFired(t, i, k)

\* The groups that are left.
GroupsInv(t) ==
    /\ t.groups \in Seq(GroupType)
    /\ t.pc = "attach" => t.groups # <<>>
    /\ \A n \in DOMAIN t.groups : \E k \in t.firing : Member(t, n, k)
    /\ \A m, n \in DOMAIN t.groups : m # n =>
          /\ \A k \in t.firing : ~(Member(t, m, k) /\ Member(t, n, k))
          /\ Path(t.graph, t.groups[m].root, t.groups[n].root) = NoPath

Listed(t, i) == i \in t.open \/ (t.pc = "attach" /\ i = t.target)
Moved(t, i) == t.rows[i].root # incidents[i].root

\* An open incident that the delivery does not know of has no alert firing.
UnlistedInv(t) ==
    \A j \in Ids : status[j] = "open" /\ ~Listed(t, j) =>
        j \notin DOMAIN t.rows /\ \A k \in Alerts : ~Fresh(incidents[j], k, t.at)
\* No other open incident with the root that a row was given had one firing.
MovedInv(t) ==
    \A i \in DOMAIN t.rows, j \in Ids :
        Moved(t, i) /\ j # i /\ status[j] = "open" /\ incidents[j].root = t.rows[i].root =>
            \A k \in Alerts : ~Fresh(incidents[j], k, t.at)
\* No group that is left has the former root of an incident that was promoted.
FormerInv(t) ==
    \A i \in DOMAIN t.rows, n \in DOMAIN t.groups :
        Moved(t, i) /\ status[i] = "open" /\ (t.pc = "attach" => n # 1) => t.groups[n].root # incidents[i].root
RootsInv(t) == UnlistedInv(t) /\ MovedInv(t) /\ FormerInv(t)

\* An alert is on no row before its group is attached, and on one afterwards.
AttachedOnce(t, k) ==
    \E i \in DOMAIN t.rows \cap t.open :
        /\ t.rows[i].alerts[k] = [status |-> "firing", seen |-> t.at]
        /\ \A j \in DOMAIN t.rows \ {i} : NotFired(t, j, k)
ClosedInv(t) == \A i \in Ids : Listed(t, i) /\ status[i] = "closed" => i \in t.closed
AlertInv(t, k) ==
    IF \E n \in DOMAIN t.groups : Member(t, n, k)
    THEN \A i \in DOMAIN t.rows : NotFired(t, i, k)
    ELSE AttachedOnce(t, k)
AlertsInv(t) == ClosedInv(t) /\ \A k \in t.firing : AlertInv(t, k)

TxInv(t) ==
    /\ TxType(t)
    /\ t.pc \in {"resolve", "mark"} => ResolveInv(t)
    /\ t.pc \in {"group", "attach"} => GroupsInv(t) /\ RootsInv(t) /\ AlertsInv(t)

Locked(t) == t.pc \notin {"idle", "wait"}

Inv ==
    /\ edges \subseteq Services \X Services
    /\ now \in Nat
    /\ DOMAIN incidents = Ids /\ DOMAIN status = Ids /\ DOMAIN tx = Replicas
    /\ \A i \in Ids : RowInv(i)
    /\ \A r \in Replicas : TxInv(tx[r])
    /\ \A r, q \in Replicas : Locked(tx[r]) /\ Locked(tx[q]) => r = q

-----------------------------------------------------------------------------
(* Rows.                                                                   *)

\* A new row and no row at all are consistent.
LEMMA NewRowInv ==
    ASSUME now \in Nat, NEW service, NEW key
    PROVE  /\ IsRow(NewRow(service, key)) /\ Consistent(NewRow(service, key))
           /\ IsRow(NoRow) /\ Consistent(NoRow)
           /\ \A k \in Alerts : NewRow(service, key).alerts[k] = Quiet /\ NoRow.alerts[k] = Quiet
           /\ \A k \in Alerts : ~Firing(NewRow(service, key), k)
BY DEF IsRow, Consistent, NewRow, NoRow, Quiet, Firing, Fresh

\* An alert that is stale stays stale.
LEMMA FreshEarlier ==
    ASSUME NEW x, IsRow(x), NEW k \in Alerts, NEW s \in Nat, NEW t \in Nat, s <= t, Fresh(x, k, t)
    PROVE  Fresh(x, k, s)
<1>1. x.alerts[k].seen \in Nat
  BY DEF IsRow
<1> QED
  BY <1>1, IngestionAssumption, SMT DEF Fresh

\* MarkAlertResolved and MarkAlertsCleared leave a row consistent.
LEMMA MarkedInv ==
    ASSUME NEW x, IsRow(x), Consistent(x), NEW k \in Alerts, NEW at \in Nat, now \in Nat, at <= now
    PROVE  LET new == MarkAlertsCleared(MarkAlertResolved(x, k, at), at)
           IN  /\ IsRow(new) /\ Consistent(new) /\ new.root = x.root /\ new.seen = at
               /\ new.alerts[k] = ResolvedAt(at)
               /\ \A a \in Alerts \ {k} : new.alerts[a] = x.alerts[a]
<1> DEFINE marked == MarkAlertResolved(x, k, at)
           new == MarkAlertsCleared(marked, at)
<1>1. /\ IsRow(marked) /\ marked.root = x.root /\ marked.seen = at /\ marked.cleared = x.cleared
      /\ marked.alerts[k] = ResolvedAt(at) /\ marked.alerts[k].status = "resolved"
      /\ \A a \in Alerts \ {k} : marked.alerts[a] = x.alerts[a]
  BY DEF IsRow, NoRow, MarkAlertResolved, ResolvedAt
<1> HIDE DEF marked
<1>2. /\ IsRow(new) /\ new.root = marked.root /\ new.seen = marked.seen /\ new.alerts = marked.alerts
      /\ new.cleared <=> (marked.cleared \/ \A a \in Alerts : ~Fresh(marked, a, at))
  BY <1>1 DEF IsRow, NoRow, MarkAlertsCleared
<1> HIDE DEF new
<1>3. \A a \in Alerts : Fresh(new, a, now) => Fresh(marked, a, at)
  BY <1>1, <1>2, FreshEarlier, SMT DEF Fresh, Firing
<1>4. ASSUME new.cleared, NEW a \in Alerts PROVE ~Fresh(new, a, now)
  <2>1. CASE \A b \in Alerts : ~Fresh(marked, b, at)
    BY <2>1, <1>3
  <2>2. CASE x.cleared
    <3>1. a # k => (Fresh(new, a, now) => Fresh(x, a, now))
      BY <1>1, <1>2 DEF Fresh, Firing
    <3>2. a # k => (Fresh(x, a, now) => x.alerts[a].status # "none")
      BY DEF Fresh, Firing
    <3>3. a = k => ~Fresh(new, a, now)
      BY <1>1, <1>2 DEF Fresh, Firing
    <3> QED BY <3>1, <3>2, <3>3, <2>2 DEF Consistent
  <2> QED BY <1>4, <1>1, <1>2, <2>1, <2>2
<1>5. ASSUME \A a \in Alerts : new.alerts[a].status # "none" => ~Firing(new, a)
      PROVE  new.cleared
  <2>1. \A a \in Alerts : ~Fresh(marked, a, at)
    BY <1>5, <1>2 DEF Fresh, Firing
  <2> QED BY <2>1, <1>2
<1>6. Consistent(new)
  BY <1>4, <1>5 DEF Consistent
<1> QED BY <1>1, <1>2, <1>6 DEF new, marked

\* MarkAlertFiring leaves a row consistent if there is an alert to mark.
LEMMA FiringInv ==
    ASSUME NEW x, IsRow(x), NEW alerts \in SUBSET Alerts, alerts # {}, NEW at \in Nat
    PROVE  LET new == MarkAlertsFiring(x, alerts, at)
           IN  /\ IsRow(new) /\ Consistent(new) /\ new.root = x.root
               /\ \A k \in alerts : new.alerts[k] = [status |-> "firing", seen |-> at]
               /\ \A k \in Alerts \ alerts : new.alerts[k] = x.alerts[k]
<1> DEFINE new == MarkAlertsFiring(x, alerts, at)
<1>1. /\ DOMAIN new = DOMAIN NoRow /\ new.seen = at /\ new.cleared = FALSE /\ new.root = x.root
      /\ new.alerts = [k \in Alerts |-> IF k \in alerts THEN [status |-> "firing", seen |-> at] ELSE x.alerts[k]]
  BY DEF IsRow, NoRow, MarkAlertsFiring
<1> HIDE DEF new
<1>2. IsRow(new)
  <2> DEFINE AlertType == [status : {"none", "firing", "resolved"}, seen : Nat]
  <2>1. [status |-> "firing", seen |-> at] \in AlertType
    OBVIOUS
  <2>2. x.alerts \in [Alerts -> AlertType]
    BY DEF IsRow
  <2>3. new.alerts \in [Alerts -> AlertType]
    <3> HIDE DEF AlertType
    <3> QED BY <1>1, <2>1, <2>2
  <2> QED BY <1>1, <2>3 DEF IsRow
<1>3. PICK k \in alerts : TRUE
  OBVIOUS
<1>4. k \in Alerts /\ new.alerts[k].status = "firing"
  BY <1>1, <1>3, SMT
<1>5. Consistent(new)
  BY <1>1, <1>4 DEF Consistent, Firing
<1> QED BY <1>1, <1>2, <1>5 DEF new

-----------------------------------------------------------------------------
(* Steps of one delivery that change nothing else.                         *)

\* Nothing a delivery knows of the database changes.
LEMMA SameState ==
    ASSUME UNCHANGED <<incidents, status, now>>, NEW r \in Replicas, TxInv(tx'[r])
    PROVE  TxInv(tx[r])'
<1>1. TxType(tx[r])'
  BY DEF TxInv, TxType, Consistent, Fresh, Firing, IsRow, NoRow, Quiet, Idle
<1>2. tx'[r].pc \in {"resolve", "mark"} => ResolveInv(tx[r])'
  BY DEF TxInv, ResolveInv, NotFired
<1>3. tx'[r].pc \in {"group", "attach"} => GroupsInv(tx[r])'
  BY DEF TxInv, GroupsInv, Member
<1>4. tx'[r].pc \in {"group", "attach"} => RootsInv(tx[r])'
  BY DEF TxInv, RootsInv, UnlistedInv, MovedInv, FormerInv, Listed, Moved, Fresh, Firing
<1>5. tx'[r].pc \in {"group", "attach"} => AlertsInv(tx[r])'
  <2>1. \A i, k : NotFired(tx'[r], i, k) => NotFired(tx[r], i, k)'
    BY DEF NotFired
  <2> QED BY <2>1, SMT DEF TxInv, AlertsInv, ClosedInv, AlertInv, Listed, AttachedOnce, Member
<1> QED BY <1>1, <1>2, <1>3, <1>4, <1>5 DEF TxInv

\* A step of one delivery keeps the invariant if it keeps what is said of this
\* delivery and of the lock.
LEMMA TxStep ==
    ASSUME Inv, NEW r \in Replicas, Goto(r, tx'[r]), UNCHANGED <<edges, incidents, status, now>>,
           TxInv(tx'[r]),
           Locked(tx'[r]) => Locked(tx[r]) \/ \A q \in Replicas : ~Locked(tx[q])
    PROVE  Inv'
<1>1. DOMAIN tx' = Replicas /\ \A q \in Replicas \ {r} : tx'[q] = tx[q]
  BY DEF Inv, Goto
<1>2. \A q \in Replicas : TxInv(tx'[q])
  BY <1>1 DEF Inv
<1>3. \A q \in Replicas : TxInv(tx[q])'
  BY <1>2, SameState
<1>4. \A i \in Ids : RowInv(i)'
  BY SMT DEF Inv, RowInv, IsRow, NoRow, Quiet, Consistent, Fresh, Firing
<1>5. \A q, s \in Replicas : Locked(tx'[q]) /\ Locked(tx'[s]) => q = s
  BY <1>1 DEF Inv
<1> QED BY <1>1, <1>3, <1>4, <1>5 DEF Inv, Locked

\* A delivery that has not begun promises nothing.
LEMMA IdleInv ==
    ASSUME now \in Nat PROVE TxInv(Idle) /\ DOMAIN Idle.rows = {} /\ Idle.pc = "idle"
<1>1. /\ Idle.pc = "idle" /\ Idle.at = 0 /\ Idle.firing = {} /\ Idle.left = {} /\ Idle.open = {}
      /\ Idle.rows = [i \in {} |-> NoRow]
  BY DEF Idle
<1>2. DOMAIN Idle.rows = {}
  BY <1>1
<1>3. TxType(Idle)
  BY <1>1, <1>2, SMT DEF TxType
<1> QED BY <1>1, <1>2, <1>3 DEF TxInv

\* What a delivery reads is a consistent row.
LEMMA RowRead ==
    ASSUME Inv, NEW r \in Replicas, NEW i \in Ids
    PROVE  IsRow(row(r, i)) /\ Consistent(row(r, i))
BY DEF Inv, TxInv, TxType, RowInv, row

\* A delivery that begins has read nothing yet.
LEMMA BeginInv ==
    ASSUME Inv, NEW r \in Replicas, Begin(r)
    PROVE  Inv'
<1>1. PICK firing, resolved \in SUBSET Alerts :
         Goto(r, [Idle EXCEPT !.pc = "wait", !.at = now, !.firing = firing, !.left = resolved])
  BY DEF Begin
<1>2. tx'[r] = [Idle EXCEPT !.pc = "wait", !.at = now, !.firing = firing, !.left = resolved]
  BY <1>1 DEF Goto, Inv
<1>3. now \in Nat
  BY DEF Inv
<1>4. TxType(tx'[r]) /\ tx'[r].pc = "wait"
  BY <1>1, <1>2, <1>3, SMT DEF TxType, Idle
<1>5. TxInv(tx'[r]) /\ ~Locked(tx'[r])
  BY <1>4 DEF TxInv, Locked
<1>6. Goto(r, tx'[r])
  BY <1>1, <1>2 DEF Goto
<1> QED BY <1>5, <1>6, TxStep DEF Begin

\* LockIncidentIngestion: only one delivery is past the lock, and it starts from
\* the committed rows.
LEMMA LockInv ==
    ASSUME Inv, NEW r \in Replicas, LockIncidentIngestion(r)
    PROVE  Inv'
<1> DEFINE t == tx[r]
           u == tx'[r]
<1>1. u = [t EXCEPT !.pc = "resolve"] /\ Goto(r, u)
  BY DEF LockIncidentIngestion, Goto, Inv
<1>2. TxType(t) /\ t.pc = "wait"
  BY DEF Inv, TxInv, LockIncidentIngestion
<1> HIDE DEF t, u
<1>3. /\ DOMAIN u = DOMAIN Idle /\ u.pc = "resolve" /\ u.at = t.at /\ u.firing = t.firing /\ u.left = t.left
      /\ u.open = t.open /\ u.rows = t.rows
  BY <1>1, <1>2 DEF TxType, Idle
<1>4. TxType(u) /\ DOMAIN u.rows = {}
  BY <1>2, <1>3 DEF TxType
<1>5. TxInv(u)
  BY <1>3, <1>4 DEF TxInv, ResolveInv
<1>6. \A q \in Replicas : ~Locked(tx[q])
  BY DEF LockIncidentIngestion, Locked
<1> QED BY <1>1, <1>5, <1>6, TxStep DEF LockIncidentIngestion, TxOnly, u

\* Looking for the incident of a resolved alert writes nothing.
LEMMA FindResolvedInv ==
    ASSUME Inv, NEW r \in Replicas, NEW k \in Alerts, FindResolved(r, k)
    PROVE  Inv'
<1> DEFINE t == tx[r]
           u == tx'[r]
<1>1. \/ u = [t EXCEPT !.left = @ \ {k}] /\ Goto(r, u)
      \/ \E i \in FindIncidentForResolvedAlert(r, k) :
            u = [t EXCEPT !.pc = "mark", !.target = i, !.key = k] /\ Goto(r, u)
  BY DEF FindResolved, Goto, Inv
<1>2. TxType(t) /\ t.pc = "resolve" /\ k \in t.left /\ ResolveInv(t)
  BY DEF Inv, TxInv, FindResolved
<1>3. FindIncidentForResolvedAlert(r, k) \subseteq Ids
  BY DEF FindIncidentForResolvedAlert, MostRecent
<1> HIDE DEF t, u
<1>4. /\ DOMAIN u = DOMAIN Idle /\ u.at = t.at /\ u.firing = t.firing
      /\ u.open = t.open /\ u.rows = t.rows /\ u.left \subseteq t.left
      /\ \/ u.pc = "resolve"
         \/ u.pc = "mark" /\ u.target \in Ids /\ u.key = k /\ u.left = t.left
  <2>1. CASE u = [t EXCEPT !.left = @ \ {k}]
    BY <1>2, <2>1, SMT DEF TxType, Idle
  <2>2. ASSUME NEW i \in FindIncidentForResolvedAlert(r, k), u = [t EXCEPT !.pc = "mark", !.target = i, !.key = k]
        PROVE  /\ DOMAIN u = DOMAIN Idle /\ u.at = t.at /\ u.firing = t.firing /\ u.open = t.open
               /\ u.rows = t.rows /\ u.pc = "mark" /\ u.target = i /\ u.key = k /\ u.left = t.left
    BY <1>2, <2>2, SMT DEF TxType, Idle
  <2> QED BY <1>1, <1>3, <2>1, <2>2
<1>5. TxType(u)
  BY <1>2, <1>4 DEF TxType
<1>6. ResolveInv(u)
  BY <1>2, <1>4, SMT DEF ResolveInv, NotFired
<1>7. TxInv(u)
  BY <1>4, <1>5, <1>6 DEF TxInv
<1>8. Locked(tx[r])
  BY <1>2 DEF Locked, t
<1> QED BY <1>1, <1>7, <1>8, TxStep DEF FindResolved, TxOnly, u

\* MarkAlertResolved and MarkAlertsCleared leave the row consistent.
LEMMA MarkResolvedInv ==
    ASSUME Inv, NEW r \in Replicas, MarkResolved(r)
    PROVE  Inv'
<1> DEFINE t == tx[r]
           u == tx'[r]
           i == t.target
           k == t.key
           x == row(r, i)
           new == MarkAlertsCleared(MarkAlertResolved(x, k, t.at), t.at)
<1>1. /\ u = [t EXCEPT !.pc = "resolve", !.left = @ \ {k}, !.target = None, !.key = None,
                       !.rows = Written(r, i, new)]
      /\ Goto(r, u)
  BY DEF MarkResolved, Goto, Inv
<1>2. TxType(t) /\ t.pc = "mark" /\ ResolveInv(t)
  BY DEF Inv, TxInv, MarkResolved
<1>3. i \in Ids /\ k \in t.left /\ k \in Alerts /\ t.at \in Nat /\ now \in Nat /\ t.at <= now
  BY <1>2 DEF TxType, ResolveInv, Inv
<1>4. IsRow(x) /\ Consistent(x)
  BY <1>3, RowRead
<1>5. /\ IsRow(new) /\ Consistent(new) /\ new.root = x.root /\ new.seen = t.at
      /\ new.alerts[k] = ResolvedAt(t.at)
      /\ \A a \in Alerts \ {k} : new.alerts[a] = x.alerts[a]
  <2> HIDE DEF x, i, k, t
  <2> QED BY <1>3, <1>4, MarkedInv
<1> HIDE DEF new
<1>6. /\ DOMAIN u = DOMAIN Idle /\ u.pc = "resolve" /\ u.at = t.at /\ u.firing = t.firing /\ u.open = t.open
      /\ u.left \subseteq t.left /\ u.rows = Written(r, i, new)
  <2> HIDE DEF t, u, i, k
  <2> QED BY <1>1, <1>2 DEF TxType, Idle
<1>7. /\ DOMAIN u.rows = DOMAIN t.rows \cup {i} /\ u.rows[i] = new
      /\ \A j \in DOMAIN t.rows \ {i} : u.rows[j] = t.rows[j]
  BY <1>6 DEF Written
<1>8. /\ x.root = incidents[i].root
      /\ \A a \in t.firing : x.alerts[a] \in {incidents[i].alerts[a], ResolvedAt(t.at)}
  BY <1>2 DEF row, ResolveInv, NotFired
<1> HIDE DEF t, u, i, k, x
<1>9. TxType(u)
  BY <1>2, <1>3, <1>5, <1>6, <1>7 DEF TxType
<1>10. ResolveInv(u)
  <2>1. t.firing \subseteq Alerts
    BY <1>2 DEF TxType
  <2> QED BY <1>2, <1>5, <1>6, <1>7, <1>8, <2>1, SMT DEF ResolveInv, NotFired
<1>11. TxInv(u)
  BY <1>6, <1>9, <1>10 DEF TxInv
<1>12. Locked(tx[r])
  BY <1>2 DEF Locked, t
<1> QED BY <1>1, <1>11, <1>12, TxStep DEF MarkResolved, TxOnly, u

\* A delivery that fails leaves no trace.
LEMMA RollbackInv ==
    ASSUME Inv, NEW r \in Replicas, Rollback(r)
    PROVE  Inv'
<1>1. tx'[r] = Idle /\ Goto(r, tx'[r])
  BY DEF Rollback, Goto, Inv
<1>2. TxInv(tx'[r]) /\ ~Locked(tx'[r])
  BY <1>1, IdleInv DEF Inv, Locked
<1> QED BY <1>1, <1>2, TxStep DEF Rollback, TxOnly

-----------------------------------------------------------------------------
(* The groups of a delivery.                                               *)

\* The groups of the delivery are those of the graph as it is read here.
LEMMA ListInv ==
    ASSUME Inv, NEW r \in Replicas, List(r)
    PROVE  Inv'
<1> DEFINE t == tx[r]
           u == tx'[r]
           graph == New(edges)
           alerted == {k[1] : k \in t.firing}
           groups == Groups(graph, alerted)
           open == {i \in Ids : activeForGrouping(r, i)}
<1>1. /\ u = [t EXCEPT !.pc = "group", !.graph = graph, !.groups = groups, !.open = open]
      /\ Goto(r, u)
  BY DEF List, Goto, Inv
<1>2. TxType(t) /\ t.pc = "resolve" /\ ResolveInv(t)
  BY DEF Inv, TxInv, List
<1>3. IsGrouping(graph, alerted, groups)
  <2>1. graph \in Graphs
    BY DEF Inv, New, Graphs
  <2>2. alerted \in SUBSET Services
    BY <1>2, IngestionAssumption DEF TxType
  <2> HIDE DEF alerted, graph
  <2> QED BY <2>1, <2>2, TopologyFacts
<1>4. ASSUME NEW j \in Ids, status[j] = "open", j \notin open
      PROVE  j \notin DOMAIN t.rows /\ \A k \in Alerts : ~Fresh(incidents[j], k, t.at)
  <2>1. ~(row(r, j).seen + Window >= t.at) /\ \A k \in Alerts : ~Fresh(row(r, j), k, t.at)
    BY <1>4 DEF activeForGrouping, Exists
  <2>2. j \notin DOMAIN t.rows
    <3> SUFFICES ASSUME j \in DOMAIN t.rows PROVE FALSE
      OBVIOUS
    <3>1. row(r, j).seen = t.at
      BY <1>2 DEF row, ResolveInv
    <3>2. t.at \in Nat
      BY <1>2 DEF TxType
    <3> QED BY <3>1, <3>2, <2>1, IngestionAssumption, SMT
  <2> QED BY <2>1, <2>2 DEF row
<1>5. \A j \in open : j \in Ids /\ status[j] # "closed"
  BY DEF activeForGrouping
<1>6. \A k \in t.firing : k[1] \in alerted
  OBVIOUS
<1>7. \A a \in alerted : \E k \in t.firing : a = k[1]
  OBVIOUS
<1> HIDE DEF t, u, graph, alerted, groups, open
<1>8. /\ DOMAIN u = DOMAIN Idle /\ u.pc = "group" /\ u.at = t.at /\ u.firing = t.firing /\ u.left = t.left
      /\ u.open = open /\ u.rows = t.rows /\ u.groups = groups /\ u.graph = graph
  BY <1>1, <1>2 DEF TxType, Idle
<1>9. TxType(u)
  BY <1>2, <1>5, <1>8 DEF TxType
<1>10. GroupsInv(u)
  <2>1. u.groups \in Seq(GroupType) /\ u.pc # "attach"
    BY <1>3, <1>8 DEF IsGrouping
  <2>2. ASSUME NEW n \in DOMAIN groups PROVE \E k \in t.firing : k[1] \in groups[n].members
    <3>1. PICK s \in alerted : s \in groups[n].members
      BY <1>3 DEF IsGrouping
    <3> QED BY <1>7, <3>1
  <2>3. ASSUME NEW m \in DOMAIN groups, NEW n \in DOMAIN groups, m # n
        PROVE  /\ \A k \in t.firing : ~(k[1] \in groups[m].members /\ k[1] \in groups[n].members)
               /\ Path(graph, groups[m].root, groups[n].root) = NoPath
    BY <1>3, <1>6, <2>3 DEF IsGrouping
  <2> QED BY <1>8, <2>1, <2>2, <2>3 DEF GroupsInv, Member
<1>11. RootsInv(u)
  BY <1>2, <1>4, <1>8, <1>9 DEF RootsInv, UnlistedInv, MovedInv, FormerInv, ResolveInv, Listed, Moved, TxType
<1>12. AlertsInv(u)
  BY <1>2, <1>3, <1>5, <1>6, <1>8, SMT DEF AlertsInv, ClosedInv, AlertInv, ResolveInv, Listed, IsGrouping, Member, NotFired
<1>13. TxInv(u)
  BY <1>8, <1>9, <1>10, <1>11, <1>12 DEF TxInv
<1>14. Locked(tx[r])
  BY <1>2 DEF Locked, t
<1> QED BY <1>1, <1>13, <1>14, TxStep DEF List, TxOnly, u

\* What a delivery that works on a group knows.
LEMMA GroupingFacts ==
    ASSUME Inv, NEW r \in Replicas, Grouping(r)
    PROVE  /\ TxType(tx[r]) /\ tx[r].pc = "group" /\ Locked(tx[r])
           /\ GroupsInv(tx[r]) /\ RootsInv(tx[r]) /\ AlertsInv(tx[r])
           /\ 1 \in DOMAIN tx[r].groups /\ Group(r) = tx[r].groups[1]
<1>1. /\ TxType(tx[r]) /\ tx[r].pc = "group" /\ Locked(tx[r])
      /\ GroupsInv(tx[r]) /\ RootsInv(tx[r]) /\ AlertsInv(tx[r])
  BY DEF Grouping, Inv, TxInv, Locked
<1>2. tx[r].groups \in Seq(GroupType) /\ tx[r].groups # <<>>
  BY <1>1 DEF Grouping, GroupsInv
<1>3. 1 \in DOMAIN tx[r].groups /\ Group(r) = tx[r].groups[1]
  BY <1>2, SMT DEF Group
<1> QED BY <1>1, <1>3

\* A group joins an open incident, whose root stays.
LEMMA JoinInv ==
    ASSUME Inv, NEW r \in Replicas, Join(r)
    PROVE  Inv'
<1> DEFINE t == tx[r]
           u == tx'[r]
<1>1. PICK i : /\ u = [t EXCEPT !.pc = "attach", !.target = i, !.rows = t.rows] /\ Goto(r, u)
               /\ i \in t.open \/ (i \in Ids /\ status[i] # "closed")
  <2>1. PICK k \in rootAlertForGroup(r) :
           \E i \in IF FindOpenByDedupeKey(r, k) # {} THEN FindOpenByDedupeKey(r, k) ELSE Joinable(r) :
               ToAttach(r, i, t.rows)
    BY DEF Join
  <2>2. PICK i : /\ i \in FindOpenByDedupeKey(r, k) \/ i \in Joinable(r)
                 /\ ToAttach(r, i, t.rows)
    BY <2>1
  <2>3. i \in FindOpenByDedupeKey(r, k) => i \in Ids /\ status[i] # "closed"
    BY DEF FindOpenByDedupeKey, MostRecent, activeForGrouping
  <2>4. i \in Joinable(r) => i \in t.open
    BY DEF Joinable, SameRoot, Upstream, Nearest
  <2>5. u = [t EXCEPT !.pc = "attach", !.target = i, !.rows = t.rows] /\ Goto(r, u)
    BY <2>2 DEF ToAttach, Goto, Inv
  <2> QED BY <2>2, <2>3, <2>4, <2>5
<1>2. /\ TxType(t) /\ t.pc = "group" /\ Locked(t) /\ GroupsInv(t) /\ RootsInv(t) /\ AlertsInv(t)
      /\ 1 \in DOMAIN t.groups
  BY GroupingFacts DEF Join
<1> HIDE DEF t, u
<1>3. /\ DOMAIN u = DOMAIN Idle /\ u.pc = "attach" /\ u.at = t.at /\ u.firing = t.firing /\ u.left = t.left
      /\ u.open = t.open /\ u.rows = t.rows /\ u.groups = t.groups /\ u.graph = t.graph /\ u.target = i
      /\ u.closed = t.closed
  BY <1>1, <1>2 DEF TxType, Idle
<1>4. i \in Ids /\ TxType(u)
  BY <1>1, <1>2, <1>3 DEF TxType
<1>5. GroupsInv(u)
  BY <1>2, <1>3, SMTT(30) DEF GroupsInv, Member
<1>6. RootsInv(u)
  BY <1>2, <1>3, SMT DEF RootsInv, UnlistedInv, MovedInv, FormerInv, Listed, Moved
<1>7. AlertsInv(u)
  <2>1. \A j, a : NotFired(t, j, a) => NotFired(u, j, a)
    BY <1>3 DEF NotFired
  <2> QED BY <1>1, <1>2, <1>3, <2>1, SMT DEF AlertsInv, ClosedInv, AlertInv, Listed, Member, AttachedOnce
<1>8. TxInv(u)
  BY <1>3, <1>4, <1>5, <1>6, <1>7 DEF TxInv
<1> QED BY <1>1, <1>2, <1>8, TxStep DEF Join, TxOnly, u, t

\* The next state of a delivery that writes the row new for incident i.
Wrote(t, u, i, new) ==
    /\ u.at = t.at /\ u.firing = t.firing /\ u.left = t.left /\ u.graph = t.graph /\ u.closed = t.closed
    /\ DOMAIN u.rows = DOMAIN t.rows \cup {i} /\ u.rows[i] = new
    /\ \A j \in DOMAIN t.rows \ {i} : u.rows[j] = t.rows[j]
ToTarget(t, u, i) == t.pc = "group" /\ u.pc = "attach" /\ u.target = i /\ u.open = t.open /\ u.groups = t.groups
Read(t, i) == IF i \in DOMAIN t.rows THEN t.rows[i] ELSE incidents[i]

\* A row gets the root of the next group, which no listed incident has.
LEMMA MoveMoved ==
    ASSUME NEW t, NEW u, NEW i \in Ids, NEW new, Wrote(t, u, i, new), ToTarget(t, u, i),
           UnlistedInv(t), MovedInv(t), FormerInv(t), 1 \in DOMAIN t.groups,
           new.root = t.groups[1].root, \A j \in t.open : Read(t, j).root # new.root
    PROVE  MovedInv(u)
<1> SUFFICES ASSUME NEW a \in DOMAIN u.rows, NEW j \in Ids, Moved(u, a), j # a, status[j] = "open",
                    incidents[j].root = u.rows[a].root, NEW k \in Alerts
             PROVE  ~Fresh(incidents[j], k, u.at)
  BY DEF MovedInv
<1>1. CASE a # i
  BY <1>1, SMT DEF Wrote, Moved, MovedInv
<1>2. CASE a = i /\ j \notin t.open
  BY <1>2 DEF Wrote, ToTarget, UnlistedInv, Listed
<1>3. CASE a = i /\ j \in t.open
  <2>1. incidents[j].root = new.root
    BY <1>3 DEF Wrote
  <2>2. j \in DOMAIN t.rows /\ Moved(t, j)
    BY <1>3, <2>1 DEF Read, Moved
  <2>3. t.groups[1].root # incidents[j].root
    BY <2>2 DEF FormerInv, ToTarget
  <2> QED BY <2>1, <2>3
<1> QED BY <1>1, <1>2, <1>3

\* The former root of a row that is promoted depends on the new one, so that no
\* group that is left has it.
LEMMA MoveFormer ==
    ASSUME NEW t, NEW u, NEW i \in Ids, NEW new, Wrote(t, u, i, new), ToTarget(t, u, i),
           GroupsInv(t), FormerInv(t), 1 \in DOMAIN t.groups,
           status[i] = "none" \/ Path(t.graph, Read(t, i).root, t.groups[1].root) # NoPath
    PROVE  FormerInv(u)
<1> SUFFICES ASSUME NEW a \in DOMAIN u.rows, NEW n \in DOMAIN t.groups, Moved(u, a), status[a] = "open", n # 1
             PROVE  t.groups[n].root # incidents[a].root
  BY DEF FormerInv, ToTarget
<1>1. CASE a # i
  BY <1>1, SMT DEF Wrote, Moved, FormerInv, ToTarget
<1>2. CASE a = i /\ i \in DOMAIN t.rows /\ Moved(t, i)
  BY <1>2 DEF FormerInv, ToTarget
<1>3. CASE a = i /\ Read(t, i).root = incidents[i].root
  <2>1. Path(t.graph, t.groups[n].root, t.groups[1].root) = NoPath
    BY DEF GroupsInv
  <2> QED BY <1>3, <2>1
<1> QED BY <1>1, <1>2, <1>3 DEF Read, Moved

\* A row that is written as it was, but for alerts that the delivery does not
\* fire, does not change where its firing alerts are.
LEMMA WriteAlert ==
    ASSUME NEW t, NEW u, NEW i, NEW new, Wrote(t, u, i, new), t.open \subseteq u.open,
           NEW k, new.alerts[k] = Read(t, i).alerts[k]
    PROVE  /\ (\A j \in DOMAIN t.rows : NotFired(t, j, k)) => \A j \in DOMAIN u.rows : NotFired(u, j, k)
           /\ AttachedOnce(t, k) => AttachedOnce(u, k)
<1>1. ASSUME NEW j \in DOMAIN u.rows, j \in DOMAIN t.rows => NotFired(t, j, k)
      PROVE  NotFired(u, j, k)
  BY <1>1 DEF Wrote, NotFired, Read
<1>2. ASSUME AttachedOnce(t, k) PROVE AttachedOnce(u, k)
  <2>1. PICK a \in DOMAIN t.rows \cap t.open :
           /\ t.rows[a].alerts[k] = [status |-> "firing", seen |-> t.at]
           /\ \A j \in DOMAIN t.rows \ {a} : NotFired(t, j, k)
    BY <1>2 DEF AttachedOnce
  <2>2. a \in DOMAIN u.rows \cap u.open /\ u.rows[a].alerts[k] = t.rows[a].alerts[k] /\ u.at = t.at
    BY DEF Wrote, Read
  <2>3. \A j \in DOMAIN u.rows \ {a} : NotFired(u, j, k)
    BY <1>1, <2>1
  <2> QED BY <2>1, <2>2, <2>3 DEF AttachedOnce
<1> QED BY <1>1, <1>2

\* A row gets the root of the group: no listed incident has this root, and the
\* row is new or its root depends on the new one.
LEMMA MoveInv ==
    ASSUME Inv, NEW r \in Replicas, Grouping(r), SameRoot(r) = {}, UNCHANGED <<edges, incidents, status, now>>,
           NEW i \in Ids, NEW new, IsRow(new), Consistent(new),
           new.root = Group(r).root, \A k \in Alerts : new.alerts[k] = row(r, i).alerts[k],
           tx'[r] = [tx[r] EXCEPT !.pc = "attach", !.target = i, !.rows = Written(r, i, new)], Goto(r, tx'[r]),
           status[i] = "none" \/ (i \in tx[r].open /\ Path(tx[r].graph, row(r, i).root, Group(r).root) # NoPath)
    PROVE  Inv'
<1> DEFINE t == tx[r]
           u == tx'[r]
<1>1. /\ TxType(t) /\ t.pc = "group" /\ Locked(t) /\ GroupsInv(t) /\ RootsInv(t) /\ AlertsInv(t)
      /\ 1 \in DOMAIN t.groups /\ new.root = t.groups[1].root
  BY GroupingFacts
<1>2. \A j : Read(t, j) = row(r, j)
  BY DEF Read, row
<1>3. \A j \in t.open : Read(t, j).root # new.root
  BY <1>2 DEF SameRoot
<1>4. status[i] = "none" \/ (i \in t.open /\ Path(t.graph, Read(t, i).root, t.groups[1].root) # NoPath)
  BY <1>1, <1>2
<1>5. /\ DOMAIN u = DOMAIN Idle /\ u.pc = "attach" /\ u.target = i /\ u.open = t.open /\ u.groups = t.groups
      /\ u.at = t.at /\ u.firing = t.firing /\ u.left = t.left /\ u.graph = t.graph /\ u.closed = t.closed
      /\ u.rows = Written(r, i, new)
  BY <1>1, SMT DEF TxType, Idle
<1>6. Wrote(t, u, i, new) /\ ToTarget(t, u, i)
  BY <1>1, <1>5 DEF Wrote, Written, ToTarget
<1>7. \A k \in Alerts : new.alerts[k] = Read(t, i).alerts[k]
  BY <1>2
<1> HIDE DEF t, u
<1>8. TxType(u)
  BY <1>1, <1>5, <1>6, SMT DEF TxType, Wrote
<1>9. GroupsInv(u)
  BY <1>1, <1>5, SMT DEF GroupsInv, Member
<1>10. RootsInv(u)
  <2>1. UnlistedInv(u)
    BY <1>1, <1>6 DEF RootsInv, UnlistedInv, Wrote, ToTarget, Listed
  <2> QED BY <1>1, <1>3, <1>4, <1>6, <2>1, MoveMoved, MoveFormer DEF RootsInv
<1>11. AlertsInv(u)
  <2>1. ClosedInv(u)
    BY <1>1, <1>4, <1>6 DEF AlertsInv, ClosedInv, Wrote, ToTarget, Listed
  <2>2. ASSUME NEW k \in t.firing PROVE AlertInv(u, k)
    <3>1. AlertInv(t, k) /\ k \in Alerts
      BY <1>1 DEF AlertsInv, TxType
    <3>2. /\ (\A j \in DOMAIN t.rows : NotFired(t, j, k)) => \A j \in DOMAIN u.rows : NotFired(u, j, k)
          /\ AttachedOnce(t, k) => AttachedOnce(u, k)
      BY <1>5, <1>6, <1>7, <3>1, WriteAlert, SMT
    <3>3. \A n \in DOMAIN t.groups : Member(u, n, k) <=> Member(t, n, k)
      BY <1>5 DEF Member
    <3> QED BY <1>5, <3>1, <3>2, <3>3 DEF AlertInv
  <2> QED BY <1>5, <2>1, <2>2 DEF AlertsInv
<1>12. TxInv(u)
  BY <1>5, <1>8, <1>9, <1>10, <1>11 DEF TxInv
<1> QED BY <1>1, <1>12, TxStep DEF t, u

\* PromoteIncidentRoot moves the root of one open incident to that of the group.
LEMMA PromoteInv ==
    ASSUME Inv, NEW r \in Replicas, PromoteIncidentRoot(r)
    PROVE  Inv'
<1>1. PICK k \in rootAlertForGroup(r), i \in Downstream(r) :
         ToAttach(r, i, Written(r, i, [row(r, i) EXCEPT !.root = Group(r).root, !.key = k]))
  BY DEF PromoteIncidentRoot
<1> DEFINE new == [row(r, i) EXCEPT !.root = Group(r).root, !.key = k]
<1>2. i \in tx[r].open /\ Len(Path(tx[r].graph, row(r, i).root, Group(r).root)) > 0
  BY <1>1 DEF Downstream, Nearest, Distance
<1>3. Path(tx[r].graph, row(r, i).root, Group(r).root) # NoPath
  BY <1>2, SMT DEF NoPath
<1>4. Grouping(r) /\ SameRoot(r) = {}
  BY DEF PromoteIncidentRoot, Joinable
<1>5. i \in Ids
  BY <1>2, <1>4, GroupingFacts DEF TxType
<1>6. IsRow(row(r, i)) /\ Consistent(row(r, i))
  BY <1>5, RowRead
<1>7. IsRow(new) /\ new.root = Group(r).root /\ new.alerts = row(r, i).alerts /\ new.cleared = row(r, i).cleared
  BY <1>6 DEF IsRow, NoRow
<1>8. tx'[r] = [tx[r] EXCEPT !.pc = "attach", !.target = i, !.rows = Written(r, i, new)] /\ Goto(r, tx'[r])
  BY <1>1 DEF ToAttach, Goto, Inv
<1> HIDE DEF new
<1>9. Consistent(new)
  BY <1>6, <1>7 DEF Consistent, Fresh, Firing
<1>10. UNCHANGED <<edges, incidents, status, now>>
  BY DEF PromoteIncidentRoot, TxOnly
<1> QED BY <1>2, <1>3, <1>4, <1>5, <1>7, <1>8, <1>9, <1>10, MoveInv

\* CreateAlertIncident writes a row that no one has read.
LEMMA CreateInv ==
    ASSUME Inv, NEW r \in Replicas, CreateAlertIncident(r)
    PROVE  Inv'
<1>1. PICK k \in rootAlertForGroup(r), i \in Ids :
         Unused(i) /\ ToAttach(r, i, Written(r, i, NewRow(Group(r).root, k)))
  BY DEF CreateAlertIncident
<1> DEFINE new == NewRow(Group(r).root, k)
<1>2. status[i] = "none" /\ row(r, i) = incidents[i]
  BY <1>1 DEF Unused, row
<1>3. Grouping(r) /\ SameRoot(r) = {}
  BY DEF CreateAlertIncident, Joinable
<1>4. /\ IsRow(new) /\ Consistent(new) /\ new.root = Group(r).root
      /\ \A a \in Alerts : new.alerts[a] = Quiet
  <2>1. new.root = Group(r).root
    BY DEF NewRow
  <2> QED BY <2>1, NewRowInv DEF Inv
<1>5. \A a \in Alerts : row(r, i).alerts[a] = Quiet
  BY <1>2, SMT DEF Inv, RowInv
<1>6. tx'[r] = [tx[r] EXCEPT !.pc = "attach", !.target = i, !.rows = Written(r, i, new)] /\ Goto(r, tx'[r])
  BY <1>1 DEF ToAttach, Goto, Inv
<1> HIDE DEF new
<1>7. UNCHANGED <<edges, incidents, status, now>>
  BY DEF CreateAlertIncident, TxOnly
<1>8. \A a \in Alerts : new.alerts[a] = row(r, i).alerts[a]
  BY <1>4, <1>5
<1> QED BY <1>2, <1>3, <1>4, <1>6, <1>7, <1>8, MoveInv

\* The tail of a sequence.
LEMMA TailFacts ==
    ASSUME NEW S, NEW s \in Seq(S), s # <<>>
    PROVE  /\ Tail(s) \in Seq(S) /\ 1 \in DOMAIN s /\ Head(s) = s[1]
           /\ \A n \in DOMAIN Tail(s) : n + 1 \in DOMAIN s /\ n + 1 # 1 /\ Tail(s)[n] = s[n + 1]
           /\ \A n \in DOMAIN s : n # 1 => n - 1 \in DOMAIN Tail(s) /\ Tail(s)[n - 1] = s[n]
BY SMT

(* The next group is attached to row i.                                    *)

Attached(t, u, i) ==
    /\ t.pc = "attach" /\ t.target = i /\ u.pc = "group" /\ u.open = t.open \cup {i} /\ u.groups = Tail(t.groups)
    /\ t.groups \in Seq(GroupType) /\ t.groups # <<>>

\* The groups that are left are apart, as they were.
LEMMA AttachGroups ==
    ASSUME NEW t, NEW u, NEW i, NEW new, Wrote(t, u, i, new), Attached(t, u, i), GroupsInv(t)
    PROVE  GroupsInv(u)
<1>1. u.groups \in Seq(GroupType) /\ \A n \in DOMAIN u.groups : n \in Nat
  BY TailFacts, SMT DEF Attached
<1>2. \A n \in DOMAIN u.groups : n + 1 \in DOMAIN t.groups /\ u.groups[n] = t.groups[n + 1]
  BY TailFacts, SMT DEF Attached
<1>3. ASSUME NEW n \in DOMAIN u.groups PROVE \E k \in u.firing : Member(u, n, k)
  BY <1>2, SMT DEF GroupsInv, Member, Wrote
<1>4. ASSUME NEW m \in DOMAIN u.groups, NEW n \in DOMAIN u.groups, m # n
      PROVE  /\ \A k \in u.firing : ~(Member(u, m, k) /\ Member(u, n, k))
             /\ Path(u.graph, u.groups[m].root, u.groups[n].root) = NoPath
  <2>1. m + 1 # n + 1
    BY <1>1, <1>4, SMT
  <2>2. /\ \A k \in t.firing : ~(Member(t, m + 1, k) /\ Member(t, n + 1, k))
        /\ Path(t.graph, t.groups[m + 1].root, t.groups[n + 1].root) = NoPath
    BY <1>2, <2>1 DEF GroupsInv
  <2> QED BY <1>2, <2>2 DEF Member, Wrote
<1> QED BY <1>1, <1>3, <1>4 DEF GroupsInv, Attached

\* Attaching alerts moves no root.
LEMMA AttachRoots ==
    ASSUME NEW t, NEW u, NEW i, NEW new, Wrote(t, u, i, new), Attached(t, u, i), RootsInv(t),
           new.root = Read(t, i).root
    PROVE  RootsInv(u)
<1>1. ASSUME NEW a \in DOMAIN u.rows, Moved(u, a)
      PROVE  a \in DOMAIN t.rows /\ Moved(t, a) /\ u.rows[a].root = t.rows[a].root
  BY <1>1 DEF Moved, Wrote, Read
<1>2. UnlistedInv(u)
  BY DEF RootsInv, UnlistedInv, Listed, Wrote, Attached
<1>3. MovedInv(u)
  BY <1>1 DEF RootsInv, MovedInv, Wrote
<1>4. ASSUME NEW a \in DOMAIN u.rows, NEW n \in DOMAIN u.groups, Moved(u, a), status[a] = "open"
      PROVE  u.groups[n].root # incidents[a].root
  <2>1. n + 1 \in DOMAIN t.groups /\ n + 1 # 1 /\ u.groups[n] = t.groups[n + 1]
    BY TailFacts, SMT DEF Attached
  <2> QED BY <1>1, <1>4, <2>1 DEF RootsInv, FormerInv
<1>5. FormerInv(u)
  BY <1>4 DEF FormerInv
<1> QED BY <1>2, <1>3, <1>5 DEF RootsInv

\* An alert fires on one open incident once its group is attached, and on none of
\* the rows of this delivery before.
LEMMA AttachAlert ==
    ASSUME NEW t, NEW u, NEW i, NEW new, Wrote(t, u, i, new), Attached(t, u, i), GroupsInv(t),
           NEW k \in t.firing, AlertInv(t, k),
           Member(t, 1, k) => new.alerts[k] = [status |-> "firing", seen |-> t.at],
           ~Member(t, 1, k) => new.alerts[k] = Read(t, i).alerts[k]
    PROVE  AlertInv(u, k)
<1>1. 1 \in DOMAIN t.groups
  BY TailFacts DEF Attached
<1>2. \A n \in DOMAIN u.groups : n + 1 \in DOMAIN t.groups /\ n + 1 # 1 /\ (Member(u, n, k) <=> Member(t, n + 1, k))
  BY TailFacts, SMT DEF Attached, Member
<1>3. \A n \in DOMAIN t.groups : n # 1 => n - 1 \in DOMAIN u.groups /\ (Member(u, n - 1, k) <=> Member(t, n, k))
  BY TailFacts, SMT DEF Attached, Member
<1>4. CASE Member(t, 1, k)
  <2>1. ~\E n \in DOMAIN u.groups : Member(u, n, k)
    BY <1>1, <1>2, <1>4 DEF GroupsInv
  <2>2. \A j \in DOMAIN t.rows : NotFired(t, j, k)
    BY <1>1, <1>4 DEF AlertInv
  <2>3. \A j \in DOMAIN u.rows \ {i} : NotFired(u, j, k)
    BY <2>2 DEF NotFired, Wrote
  <2>4. i \in DOMAIN u.rows \cap u.open /\ u.rows[i].alerts[k] = [status |-> "firing", seen |-> u.at]
    BY <1>4 DEF Wrote, Attached
  <2> QED BY <2>1, <2>3, <2>4 DEF AlertInv, AttachedOnce
<1>5. CASE ~Member(t, 1, k)
  <2>1. (\E n \in DOMAIN u.groups : Member(u, n, k)) <=> \E n \in DOMAIN t.groups : Member(t, n, k)
    BY <1>2, <1>3, <1>5
  <2>2. /\ (\A j \in DOMAIN t.rows : NotFired(t, j, k)) => \A j \in DOMAIN u.rows : NotFired(u, j, k)
        /\ AttachedOnce(t, k) => AttachedOnce(u, k)
    <3>1. t.open \subseteq u.open
      BY DEF Attached
    <3> QED BY <1>5, <3>1, WriteAlert
  <2> QED BY <2>1, <2>2 DEF AlertInv
<1> QED BY <1>4, <1>5

\* attachTopologyAlerts leaves the row consistent and each alert on one incident.
LEMMA AttachInv ==
    ASSUME Inv, NEW r \in Replicas, attachTopologyAlerts(r)
    PROVE  Inv'
<1> DEFINE t == tx[r]
           u == tx'[r]
           i == t.target
           x == row(r, i)
           alerts == alertsForGroup(r)
           new == MarkAlertsFiring(x, alerts, t.at)
<1>1. /\ u = [t EXCEPT !.pc = "group", !.target = None, !.groups = Tail(@), !.open = @ \cup {i},
                       !.rows = Written(r, i, new)]
      /\ Goto(r, u)
  BY DEF attachTopologyAlerts, Goto, Inv
<1>2. TxType(t) /\ t.pc = "attach" /\ Locked(t) /\ GroupsInv(t) /\ RootsInv(t) /\ AlertsInv(t)
  BY DEF Inv, TxInv, attachTopologyAlerts, Locked
<1>3. i \in Ids /\ t.at \in Nat /\ t.groups \in Seq(GroupType) /\ t.groups # <<>>
  BY <1>2 DEF TxType, GroupsInv
<1>4. 1 \in DOMAIN t.groups /\ Head(t.groups) = t.groups[1]
  <2> HIDE DEF t
  <2> QED BY <1>3, TailFacts
<1>5. alerts = {k \in t.firing : Member(t, 1, k)} /\ x = Read(t, i)
  BY <1>4 DEF alertsForGroup, Group, Member, row, Read
<1>6. alerts # {} /\ alerts \in SUBSET Alerts
  BY <1>2, <1>4, <1>5 DEF GroupsInv, TxType
<1>7. IsRow(x)
  BY <1>3, RowRead
<1>8. /\ IsRow(new) /\ Consistent(new) /\ new.root = x.root
      /\ \A k \in alerts : new.alerts[k] = [status |-> "firing", seen |-> t.at]
      /\ \A k \in Alerts \ alerts : new.alerts[k] = x.alerts[k]
  <2> HIDE DEF x, i, alerts, t
  <2> QED BY <1>3, <1>6, <1>7, FiringInv
<1> HIDE DEF new
<1>9. /\ DOMAIN u = DOMAIN Idle /\ u.pc = "group" /\ u.at = t.at /\ u.firing = t.firing /\ u.left = t.left
      /\ u.open = t.open \cup {i} /\ u.rows = Written(r, i, new) /\ u.groups = Tail(t.groups) /\ u.graph = t.graph
      /\ u.closed = t.closed
  <2> HIDE DEF t, u, i
  <2> QED BY <1>1, <1>2 DEF TxType, Idle
<1>10. Wrote(t, u, i, new) /\ Attached(t, u, i)
  BY <1>2, <1>3, <1>9 DEF Wrote, Written, Attached
<1> HIDE DEF t, u, i, x, alerts
<1>11. TxType(u)
  BY <1>2, <1>3, <1>8, <1>9, <1>10 DEF TxType, Wrote
<1>12. GroupsInv(u) /\ RootsInv(u)
  BY <1>2, <1>5, <1>8, <1>10, AttachGroups, AttachRoots
<1>13. AlertsInv(u)
  <2>1. ClosedInv(u)
    BY <1>2, <1>9, <1>10 DEF AlertsInv, ClosedInv, Listed, Attached
  <2>2. ASSUME NEW k \in t.firing PROVE AlertInv(u, k)
    <3>1. k \in Alerts /\ AlertInv(t, k)
      BY <1>2 DEF AlertsInv, TxType
    <3> QED BY <1>2, <1>5, <1>8, <1>10, <3>1, AttachAlert, SMT
  <2> QED BY <1>9, <2>1, <2>2 DEF AlertsInv
<1>14. TxInv(u)
  BY <1>9, <1>11, <1>12, <1>13 DEF TxInv
<1> QED BY <1>1, <1>2, <1>14, TxStep DEF attachTopologyAlerts, TxOnly, t, u

-----------------------------------------------------------------------------
(* The end of a delivery, and what happens beside it.                      *)

\* What is committed agrees with the rows of the other deliveries, which wait for
\* the lock or have none.
LEMMA CommitInv ==
    ASSUME Inv, NEW r \in Replicas, Commit(r)
    PROVE  Inv'
<1>1. /\ incidents' = [i \in Ids |-> row(r, i)] /\ UNCHANGED <<edges, now>>
      /\ status' = [i \in Ids |-> IF i \in DOMAIN tx[r].rows /\ status[i] = "none" THEN "open" ELSE status[i]]
  BY DEF Commit
<1>2. DOMAIN tx' = Replicas /\ tx'[r] = Idle /\ \A q \in Replicas \ {r} : tx'[q] = tx[q]
  BY DEF Commit, Goto, Inv
<1>3. now \in Nat
  BY DEF Inv
<1>4. ASSUME NEW q \in Replicas
      PROVE  TxType(tx'[q]) /\ ~Locked(tx'[q])
  <2>1. CASE q = r
    BY <1>2, <1>3, <2>1, IdleInv DEF TxInv, Locked
  <2>2. CASE q # r
    BY <1>2, <2>2 DEF Inv, TxInv, Locked, Commit
  <2> QED BY <2>1, <2>2
<1>5. ASSUME NEW q \in Replicas
      PROVE  TxInv(tx[q])' /\ ~Locked(tx[q])'
  <2>1. TxType(tx[q])'
    BY <1>1, <1>4 DEF TxType, Locked, Idle
  <2> QED BY <1>4, <2>1 DEF TxInv, Locked, TxType
<1>6. ASSUME NEW i \in Ids PROVE RowInv(i)'
  <2>1. incidents'[i] = row(r, i) /\ IsRow(row(r, i)) /\ Consistent(row(r, i))
    BY <1>1, RowRead
  <2>2. IsRow(incidents[i])' /\ Consistent(incidents[i])'
    BY <1>1, <2>1 DEF IsRow, NoRow, Quiet, Consistent, Fresh, Firing
  <2>3. status'[i] \in {"none", "open", "closed"} /\ (status'[i] = "none" => status[i] = "none" /\ row(r, i) = incidents[i])
    BY <1>1 DEF Inv, RowInv, row
  <2>4. status'[i] = "none" => incidents'[i].alerts = [k \in Alerts |-> Quiet]
    BY <2>1, <2>3 DEF Inv, RowInv
  <2> QED BY <2>2, <2>3, <2>4 DEF RowInv, Quiet
<1> QED BY <1>1, <1>2, <1>5, <1>6 DEF Inv

(* What others do beside a delivery: its rows stay, no alert starts to fire *)
(* on another incident, and it knows of the incidents that are closed.      *)

SameTx(t, u) ==
    /\ u.pc = t.pc /\ u.at = t.at /\ u.firing = t.firing /\ u.left = t.left /\ u.open = t.open /\ u.rows = t.rows
    /\ u.groups = t.groups /\ u.graph = t.graph /\ u.target = t.target /\ u.key = t.key
RowsStay(t) ==
    \A j \in DOMAIN t.rows : incidents'[j] = incidents[j] /\ (status'[j] = "open" => status[j] = "open")
NoneFires(t) ==
    \A j \in Ids : status'[j] = "open" =>
        \/ status[j] = "open" /\ incidents'[j] = incidents[j]
        \/ j \notin DOMAIN t.rows /\ \A k \in Alerts : ~Firing(incidents'[j], k)

\* Time only makes alerts stale.
LEMMA BesideType ==
    ASSUME NEW r \in Replicas, TxType(tx[r]), SameTx(tx[r], tx'[r]), DOMAIN tx'[r] = DOMAIN Idle,
           now \in Nat, now' \in Nat, now <= now'
    PROVE  TxType(tx[r])'
<1>1. ASSUME NEW i \in DOMAIN tx[r].rows
      PROVE  IsRow(tx[r].rows[i])' /\ Consistent(tx[r].rows[i])'
  <2> DEFINE x == tx[r].rows[i]
  <2>1. IsRow(x) /\ Consistent(x)
    BY DEF TxType
  <2>2. tx'[r].rows[i] = x
    BY DEF SameTx
  <2> HIDE DEF x
  <2>3. \A k \in Alerts : Fresh(x, k, now') => Fresh(x, k, now)
    BY <2>1, FreshEarlier
  <2>4. x.cleared => \A k \in Alerts : x.alerts[k].status # "none" => ~Fresh(x, k, now')
    BY <2>1, <2>3 DEF Consistent
  <2>5. /\ \E k \in Alerts : x.alerts[k].status # "none"
        /\ \A k \in Alerts : x.alerts[k].status # "none" => ~Firing(x, k)
        => x.cleared
    BY <2>1 DEF Consistent
  <2>6. IsRow(tx[r].rows[i])'
    BY <2>1, <2>2 DEF IsRow, NoRow, Quiet
  <2>7. Consistent(tx[r].rows[i])'
    BY <2>2, <2>4, <2>5 DEF Consistent, Fresh, Firing
  <2> QED BY <2>6, <2>7
<1>2. tx'[r].at <= now'
  BY SMT DEF TxType, SameTx
<1> QED BY <1>1, <1>2 DEF TxType, SameTx, Idle, NoRow, Quiet

\* The groups and the alerts to be resolved stay those of the delivery.
LEMMA BesideGroups ==
    ASSUME NEW r \in Replicas, SameTx(tx[r], tx'[r])
    PROVE  /\ GroupsInv(tx[r]) => GroupsInv(tx[r])'
           /\ RowsStay(tx[r]) /\ ResolveInv(tx[r]) => ResolveInv(tx[r])'
<1>1. GroupsInv(tx[r]) => GroupsInv(tx[r])'
  BY SMT DEF SameTx, GroupsInv, Member
<1>2. RowsStay(tx[r]) /\ ResolveInv(tx[r]) => ResolveInv(tx[r])'
  <2> SUFFICES ASSUME RowsStay(tx[r]), ResolveInv(tx[r])
               PROVE  ResolveInv(tx[r])'
    OBVIOUS
  <2>1. /\ tx'[r].rows = tx[r].rows /\ tx'[r].at = tx[r].at /\ tx'[r].firing = tx[r].firing
        /\ tx'[r].pc = tx[r].pc /\ tx'[r].key = tx[r].key /\ tx'[r].left = tx[r].left
    BY DEF SameTx
  <2>2. ASSUME NEW i \in DOMAIN tx[r].rows
        PROVE  /\ tx'[r].rows[i].root = incidents'[i].root /\ tx'[r].rows[i].seen = tx'[r].at
               /\ \A k \in tx[r].firing : NotFired(tx[r], i, k)'
    <3>1. incidents'[i] = incidents[i]
      BY DEF RowsStay
    <3>2. tx[r].rows[i].root = incidents[i].root /\ tx[r].rows[i].seen = tx[r].at
      BY DEF ResolveInv
    <3>3. ASSUME NEW k \in tx[r].firing
          PROVE  NotFired(tx[r], i, k)'
      <4>1. tx[r].rows[i].alerts[k] \in {incidents[i].alerts[k], ResolvedAt(tx[r].at)}
        BY DEF ResolveInv, NotFired
      <4> QED BY <2>1, <3>1, <4>1 DEF NotFired
    <3> QED BY <2>1, <3>1, <3>2, <3>3
  <2>3. tx[r].pc = "mark" => tx[r].key \in tx[r].left
    BY DEF ResolveInv
  <2> QED BY <2>1, <2>2, <2>3 DEF ResolveInv
<1> QED BY <1>1, <1>2

\* Roots stay where the delivery read or put them.
LEMMA BesideRoots ==
    ASSUME NEW r \in Replicas, SameTx(tx[r], tx'[r]), RootsInv(tx[r]), RowsStay(tx[r]), NoneFires(tx[r])
    PROVE  RootsInv(tx[r])'
<1> DEFINE t == tx[r]
<1>1. \A j \in Ids, k \in Alerts : ~Firing(incidents'[j], k) => ~Fresh(incidents'[j], k, t.at)
  BY DEF Fresh
<1>2. UnlistedInv(tx[r])'
  <2>1. ASSUME NEW j \in Ids, status'[j] = "open", ~Listed(t, j)
        PROVE  j \notin DOMAIN t.rows /\ \A k \in Alerts : ~Fresh(incidents'[j], k, t.at)
    BY <1>1, <2>1 DEF RootsInv, UnlistedInv, NoneFires
  <2> QED BY <2>1 DEF UnlistedInv, Listed, Fresh, Firing, SameTx
<1>3. MovedInv(tx[r])'
  <2>1. ASSUME NEW i \in DOMAIN t.rows, NEW j \in Ids, t.rows[i].root # incidents'[i].root, j # i,
               status'[j] = "open", incidents'[j].root = t.rows[i].root
        PROVE  \A k \in Alerts : ~Fresh(incidents'[j], k, t.at)
    BY <1>1, <2>1 DEF RootsInv, MovedInv, Moved, RowsStay, NoneFires
  <2> QED BY <2>1, SMT DEF MovedInv, Moved, Fresh, Firing, SameTx
<1>4. FormerInv(tx[r])'
  BY SMT DEF RootsInv, FormerInv, Moved, RowsStay, SameTx
<1> QED BY <1>2, <1>3, <1>4 DEF RootsInv

\* An incident that is closed beside a delivery is known to be.
LEMMA BesideAlerts ==
    ASSUME NEW r \in Replicas, SameTx(tx[r], tx'[r]), AlertsInv(tx[r]), RowsStay(tx[r]),
           tx[r].closed \subseteq tx'[r].closed,
           \A j \in Ids : status'[j] = "closed" => status[j] = "closed" \/ j \in tx'[r].closed
    PROVE  AlertsInv(tx[r])'
<1>1. ClosedInv(tx[r])'
  BY DEF AlertsInv, ClosedInv, Listed, SameTx
<1>2. ASSUME NEW k \in tx[r].firing PROVE AlertInv(tx[r], k)'
  <2>1. \A i \in DOMAIN tx[r].rows : NotFired(tx[r], i, k)' <=> NotFired(tx[r], i, k)
    BY DEF NotFired, SameTx, RowsStay
  <2>2. \A n \in DOMAIN tx[r].groups : Member(tx[r], n, k)' <=> Member(tx[r], n, k)
    BY DEF Member, SameTx
  <2>3. AttachedOnce(tx[r], k) => AttachedOnce(tx[r], k)'
    BY <2>1 DEF AttachedOnce, SameTx
  <2> QED BY <2>1, <2>2, <2>3 DEF AlertsInv, AlertInv, SameTx
<1> QED BY <1>1, <1>2 DEF AlertsInv, SameTx

\* So what is said of a delivery stays true while others act.
LEMMA BesideInv ==
    ASSUME NEW r \in Replicas, TxInv(tx[r]), now \in Nat, now' \in Nat, now <= now',
           SameTx(tx[r], tx'[r]), DOMAIN tx'[r] = DOMAIN Idle, RowsStay(tx[r]), NoneFires(tx[r]),
           tx[r].pc = "idle" \/
               /\ tx[r].closed \subseteq tx'[r].closed
               /\ \A j \in Ids : status'[j] = "closed" => status[j] = "closed" \/ j \in tx'[r].closed
    PROVE  TxInv(tx[r])' /\ tx'[r].pc = tx[r].pc
<1>1. TxType(tx[r])' /\ tx'[r].pc = tx[r].pc
  BY BesideType DEF TxInv, SameTx
<1>2. tx[r].pc \in {"resolve", "mark"} => ResolveInv(tx[r])'
  BY BesideGroups DEF TxInv
<1>3. tx[r].pc \in {"group", "attach"} => GroupsInv(tx[r])' /\ RootsInv(tx[r])' /\ AlertsInv(tx[r])'
  BY BesideGroups, BesideRoots, BesideAlerts DEF TxInv
<1> QED BY <1>1, <1>2, <1>3 DEF TxInv

\* An operator closes an incident that no delivery has written.
LEMMA TransitionInv ==
    ASSUME Inv, NEW i \in Ids, TransitionIncident(i)
    PROVE  Inv'
<1>1. /\ DOMAIN status' = Ids /\ status'[i] = "closed" /\ \A j \in Ids \ {i} : status'[j] = status[j]
      /\ edges' = edges /\ incidents' = incidents /\ now' = now /\ status[i] = "open"
  BY DEF TransitionIncident, Inv
<1>2. ASSUME NEW j \in Ids PROVE RowInv(j)'
  <2>1. RowInv(j) /\ status'[j] \in {status[j], "closed"}
    BY <1>1 DEF Inv
  <2>2. IsRow(incidents[j])' /\ Consistent(incidents[j])'
    BY <1>1, <2>1 DEF RowInv, IsRow, NoRow, Quiet, Consistent, Fresh, Firing
  <2> QED BY <1>1, <2>1, <2>2 DEF RowInv, Quiet
<1>3. ASSUME NEW r \in Replicas PROVE TxInv(tx[r])' /\ tx'[r].pc = tx[r].pc
  <2>1. TxInv(tx[r]) /\ TxType(tx[r]) /\ now \in Nat
    BY DEF Inv, TxInv
  <2>2. tx'[r] = IF tx[r].pc = "idle" THEN tx[r] ELSE [tx[r] EXCEPT !.closed = @ \cup {i}]
    BY DEF TransitionIncident
  <2>3. DOMAIN tx'[r] = DOMAIN Idle /\ SameTx(tx[r], tx'[r])
    BY <2>1, <2>2, SMT DEF TxType, Idle, SameTx
  <2>4. tx[r].pc # "idle" => tx'[r].closed = tx[r].closed \cup {i}
    BY <2>1, <2>2 DEF TxType, Idle
  <2>5. RowsStay(tx[r]) /\ NoneFires(tx[r])
    BY <1>1, <2>1 DEF TxType, RowsStay, NoneFires
  <2>6. \A j \in Ids : status'[j] = "closed" => status[j] = "closed" \/ j = i
    BY <1>1
  <2> QED BY <1>1, <2>1, <2>3, <2>4, <2>5, <2>6, BesideInv, SMT
<1>4. DOMAIN tx' = Replicas
  BY DEF TransitionIncident
<1> QED BY <1>1, <1>2, <1>3, <1>4 DEF Inv, Locked

\* An operator opens an incident, which has no alerts.
LEMMA CreateManualInv ==
    ASSUME Inv, NEW i \in Ids, NEW service \in ManualServices, CreateManual(i, service)
    PROVE  Inv'
<1> DEFINE new == NewRow(service, Manual(service))
<1>1. /\ DOMAIN status' = Ids /\ status'[i] = "open" /\ \A j \in Ids \ {i} : status'[j] = status[j]
      /\ DOMAIN incidents' = Ids /\ incidents'[i] = new /\ \A j \in Ids \ {i} : incidents'[j] = incidents[j]
      /\ edges' = edges /\ tx' = tx /\ now' = now /\ \A r \in Replicas : i \notin DOMAIN tx[r].rows
  BY DEF CreateManual, Unused, Inv
<1>2. IsRow(new) /\ Consistent(new) /\ \A k \in Alerts : ~Firing(new, k)
  BY NewRowInv DEF Inv
<1> HIDE DEF new
<1>3. ASSUME NEW j \in Ids PROVE RowInv(j)'
  <2>1. IsRow(incidents'[j]) /\ Consistent(incidents'[j])
    BY <1>1, <1>2 DEF Inv, RowInv
  <2>2. IsRow(incidents[j])' /\ Consistent(incidents[j])'
    BY <1>1, <2>1 DEF IsRow, NoRow, Quiet, Consistent, Fresh, Firing
  <2>3. status'[j] \in {"none", "open", "closed"} /\ (status'[j] = "none" => j # i)
    BY <1>1 DEF Inv, RowInv
  <2>4. status'[j] = "none" => incidents'[j].alerts = [k \in Alerts |-> Quiet]
    BY <1>1, <2>3 DEF Inv, RowInv
  <2> QED BY <2>2, <2>3, <2>4 DEF RowInv, Quiet
<1>4. ASSUME NEW r \in Replicas PROVE TxInv(tx[r])'
  <2>1. TxInv(tx[r]) /\ TxType(tx[r]) /\ now \in Nat /\ tx'[r] = tx[r]
    BY <1>1 DEF Inv, TxInv
  <2>2. DOMAIN tx'[r] = DOMAIN Idle /\ SameTx(tx[r], tx'[r]) /\ now' = now
    BY <1>1, <2>1 DEF TxType, SameTx
  <2>3. RowsStay(tx[r])
    BY <1>1, <2>1 DEF TxType, RowsStay
  <2>4. NoneFires(tx[r])
    BY <1>1, <1>2 DEF NoneFires
  <2>5. \A j \in Ids : status'[j] = "closed" => status[j] = "closed"
    BY <1>1
  <2> QED BY <2>1, <2>2, <2>3, <2>4, <2>5, BesideInv, SMT
<1> QED BY <1>1, <1>3, <1>4 DEF Inv, Locked

\* A dependency is upserted; deliveries keep the graph that they read.
LEMMA UpsertInv ==
    ASSUME Inv, Upsert
    PROVE  Inv'
<1>1. PICK e \in Upserts : UpsertServiceDependency(e[1], e[2])
  BY DEF Upsert
<1>2. edges' \subseteq Services \X Services
  <2>1. edges \subseteq Services \X Services /\ e \in Services \X Services
    BY IngestionAssumption DEF Inv
  <2>2. edges' = edges \cup {<<e[1], e[2]>>} /\ e = <<e[1], e[2]>>
    BY <1>1, <2>1, SMT DEF UpsertServiceDependency
  <2> QED BY <2>1, <2>2
<1>3. UNCHANGED <<incidents, status, tx, now>>
  BY DEF Upsert
<1>4. \A i \in Ids : RowInv(i)'
  BY <1>3, SMT DEF Inv, RowInv, IsRow, NoRow, Quiet, Consistent, Fresh, Firing
<1>5. ASSUME NEW r \in Replicas PROVE TxInv(tx[r])'
  BY <1>3, SameState DEF Inv
<1> QED BY <1>2, <1>3, <1>4, <1>5 DEF Inv, Locked

\* Time passes.
LEMMA TickInv ==
    ASSUME Inv, Tick
    PROVE  Inv'
<1>1. now \in Nat /\ now' = now + 1 /\ UNCHANGED <<edges, incidents, status, tx>>
  BY DEF Tick, Inv
<1>2. ASSUME NEW x, IsRow(x), Consistent(x)
      PROVE  Consistent(x)'
  <2>1. \A k \in Alerts : Fresh(x, k, now + 1) => Fresh(x, k, now)
    BY <1>1, <1>2, FreshEarlier, SMT
  <2> QED BY <1>1, <1>2, <2>1 DEF Consistent, Fresh, Firing
<1>3. ASSUME NEW i \in Ids PROVE RowInv(i)'
  <2>1. RowInv(i)
    BY DEF Inv
  <2>2. Consistent(incidents[i])'
    BY <1>1, <1>2, <2>1 DEF RowInv, Consistent, Fresh, Firing
  <2> QED BY <1>1, <2>1, <2>2 DEF RowInv, IsRow, NoRow, Quiet
<1>4. ASSUME NEW r \in Replicas PROVE TxInv(tx[r])'
  <2>1. TxInv(tx[r]) /\ TxType(tx[r]) /\ tx'[r] = tx[r]
    BY <1>1 DEF Inv, TxInv
  <2>2. DOMAIN tx'[r] = DOMAIN Idle /\ SameTx(tx[r], tx'[r])
    BY <2>1 DEF TxType, SameTx
  <2>3. now <= now' /\ now' \in Nat /\ now \in Nat /\ incidents' = incidents /\ status' = status
    BY <1>1, SMT
  <2>4. RowsStay(tx[r]) /\ NoneFires(tx[r])
    BY <2>3 DEF RowsStay, NoneFires
  <2> QED BY <2>1, <2>2, <2>3, <2>4, BesideInv
<1>5. /\ edges' = edges /\ tx' = tx /\ now' \in Nat
      /\ DOMAIN incidents' = DOMAIN incidents /\ DOMAIN status' = DOMAIN status
  BY <1>1, SMT
<1> QED BY <1>3, <1>4, <1>5 DEF Inv, Locked

-----------------------------------------------------------------------------
(* Results.                                                                *)

\* It holds of an empty database.
LEMMA InitInv == Init => Inv
<1> SUFFICES ASSUME Init PROVE Inv
  OBVIOUS
<1>1. now \in Nat
  BY DEF Init
<1>2. \A r \in Replicas : TxInv(tx[r]) /\ ~Locked(tx[r])
  BY <1>1, IdleInv DEF Init, Locked
<1>3. ASSUME NEW i \in Ids PROVE RowInv(i)
  <2>1. incidents[i] = NoRow /\ status[i] = "none"
    BY DEF Init
  <2>2. NoRow.alerts = [k \in Alerts |-> Quiet]
    BY DEF NoRow
  <2> QED BY <1>1, <2>1, <2>2, NewRowInv DEF RowInv
<1>4. edges \subseteq Services \X Services
  BY IngestionAssumption DEF Init
<1> QED BY <1>1, <1>2, <1>3, <1>4 DEF Init, Inv

\* Every step keeps it.
LEMMA NextInv ==
    ASSUME Inv, [Next]_vars
    PROVE  Inv'
<1>1. ASSUME NEW r \in Replicas, Deliver(r) PROVE Inv'
  <2>1. CASE \E k \in Alerts : FindResolved(r, k)
    BY <2>1, FindResolvedInv
  <2> QED BY <1>1, <2>1, BeginInv, LockInv, MarkResolvedInv, ListInv, JoinInv, PromoteInv, CreateInv, AttachInv,
             CommitInv, RollbackInv DEF Deliver
<1>2. ASSUME NEW i \in Ids, TransitionIncident(i) \/ \E service \in ManualServices : CreateManual(i, service)
      PROVE  Inv'
  BY <1>2, TransitionInv, CreateManualInv
<1>3. CASE UNCHANGED vars
  <2>1. UNCHANGED <<edges, incidents, status, tx, now>>
    BY <1>3 DEF vars
  <2>2. \A i \in Ids : RowInv(i)'
    BY <2>1, SMT DEF Inv, RowInv, IsRow, NoRow, Quiet, Consistent, Fresh, Firing
  <2>3. ASSUME NEW r \in Replicas PROVE TxInv(tx[r])'
    BY <2>1, SameState DEF Inv
  <2> QED BY <2>1, <2>2, <2>3 DEF Inv, Locked
<1> QED BY <1>1, <1>2, <1>3, UpsertInv, TickInv DEF Next

\* Whatever replicas, operators and the catalog do, the invariant holds.
THEOREM Invariance ==
    Spec => []Inv
<1>1. Inv /\ [Next]_vars => Inv'
  BY NextInv
<1> QED BY <1>1, InitInv, PTL DEF Spec

\* alerts_cleared_at agrees with the alerts of the incident, in whatever order
\* deliveries of several replicas are applied: every call of MarkAlertResolved,
\* MarkAlertsCleared and MarkAlertFiring leaves it so, and time only makes
\* alerts stale.
THEOREM ClearedSafety ==
    Spec => []ClearedRight
<1>1. Inv => ClearedRight
  BY DEF Inv, RowInv, ClearedRight
<1> QED BY <1>1, Invariance, PTL

\* A delivery opens no second incident for a root that has one with an alert
\* firing, and promotes none to it: the lock keeps what ListOpenIncidents read
\* true of alerts, and no group of a delivery has the root of an incident that
\* an earlier group promoted.
THEOREM SecondIncidentSafety ==
    Spec => NoSecondIncident
<1>1. ASSUME Inv, [Next]_vars, NEW i \in Ids, NEW j \in Ids, NEW k \in Alerts,
             incidents'[i].root # incidents[i].root, incidents'[i].key # Manual(incidents'[i].root),
             j # i, status[j] = "open", incidents[j].root = incidents'[i].root
      PROVE  ~Fresh(incidents[j], k, now)
  <2>1. CASE \E r \in Replicas : Commit(r)
    <3>1. PICK r \in Replicas : Commit(r)
      BY <2>1
    <3>2. /\ TxType(tx[r]) /\ RootsInv(tx[r])
      BY <1>1, <3>1 DEF Commit, Inv, TxInv
    <3>3. incidents'[i] = row(r, i)
      BY <3>1 DEF Commit
    <3>4. i \in DOMAIN tx[r].rows /\ Moved(tx[r], i) /\ incidents[j].root = tx[r].rows[i].root
      BY <1>1, <3>3 DEF row, Moved
    <3>5. ~Fresh(incidents[j], k, tx[r].at)
      BY <1>1, <3>2, <3>4 DEF RootsInv, UnlistedInv, MovedInv, FormerInv
    <3>6. tx[r].at \in Nat /\ now \in Nat /\ tx[r].at <= now /\ IsRow(incidents[j])
      BY <1>1, <3>2 DEF TxType, Inv, RowInv
    <3> QED BY <3>5, <3>6, FreshEarlier
  <2>2. CASE \E m \in Ids : \E service \in ManualServices : CreateManual(m, service)
    <3>1. PICK m \in Ids, service \in ManualServices : CreateManual(m, service)
      BY <2>2
    <3>2. i # m => incidents'[i] = incidents[i]
      BY <1>1, <3>1 DEF CreateManual, Inv
    <3>3. i = m => incidents'[i] = NewRow(service, Manual(service))
      BY <1>1, <3>1 DEF CreateManual, Inv
    <3>4. NewRow(service, Manual(service)).root = service /\ NewRow(service, Manual(service)).key = Manual(service)
      BY DEF NewRow
    <3> QED BY <1>1, <3>2, <3>3, <3>4
  <2>3. CASE incidents' = incidents
    BY <1>1, <2>3
  <2>4. ASSUME NEW r \in Replicas, Deliver(r), ~Commit(r) PROVE incidents' = incidents
    BY <2>4 DEF Deliver, Begin, LockIncidentIngestion, FindResolved, MarkResolved, List, Join, PromoteIncidentRoot,
                CreateAlertIncident, attachTopologyAlerts, Rollback, TxOnly
  <2>5. \/ \E r \in Replicas : Commit(r)
        \/ \E m \in Ids : \E service \in ManualServices : CreateManual(m, service)
        \/ incidents' = incidents
    BY <1>1, <2>4 DEF Next, TransitionIncident, Upsert, Tick, vars
  <2> QED BY <2>1, <2>2, <2>3, <2>5
<1>2. Inv /\ [Next]_vars =>
        [\A i, j \in Ids :
           /\ incidents'[i].root # incidents[i].root
           /\ incidents'[i].key # Manual(incidents'[i].root)
           /\ j # i /\ status[j] = "open" /\ incidents[j].root = incidents'[i].root
           => \A k \in Alerts : ~Fresh(incidents[j], k, now)]_vars
  BY <1>1
<1> QED BY <1>2, Invariance, PTL DEF Spec, NoSecondIncident

\* Commit leaves every firing alert of a delivery firing on one of its rows, which
\* is open unless an operator closed it after the delivery listed it, and has set
\* this alert firing on no other row.
THEOREM AttachedSafety ==
    Spec => AlertsAttached
<1> DEFINE OnOne(r) ==
        \A k \in tx[r].firing : \E i \in DOMAIN tx[r].rows :
            /\ incidents'[i].alerts[k] = [status |-> "firing", seen |-> tx[r].at]
            /\ status'[i] = "open" \/ i \in tx[r].closed
            /\ \A j \in DOMAIN tx[r].rows \ {i} :
                  tx[r].rows[j].alerts[k] \in {incidents[j].alerts[k], [status |-> "resolved", seen |-> tx[r].at]}
<1>1. ASSUME Inv, NEW r \in Replicas, Commit(r) PROVE OnOne(r)
  <2> SUFFICES ASSUME NEW k \in tx[r].firing
               PROVE  \E i \in DOMAIN tx[r].rows :
                         /\ incidents'[i].alerts[k] = [status |-> "firing", seen |-> tx[r].at]
                         /\ status'[i] = "open" \/ i \in tx[r].closed
                         /\ \A j \in DOMAIN tx[r].rows \ {i} :
                               tx[r].rows[j].alerts[k] \in {incidents[j].alerts[k], [status |-> "resolved", seen |-> tx[r].at]}
    OBVIOUS
  <2>1. TxType(tx[r]) /\ AlertsInv(tx[r]) /\ tx[r].groups = <<>>
    BY <1>1 DEF Commit, Inv, TxInv
  <2>2. AttachedOnce(tx[r], k)
    BY <2>1, SMT DEF AlertsInv, ClosedInv, AlertInv
  <2>3. PICK i \in DOMAIN tx[r].rows \cap tx[r].open :
           /\ tx[r].rows[i].alerts[k] = [status |-> "firing", seen |-> tx[r].at]
           /\ \A j \in DOMAIN tx[r].rows \ {i} : NotFired(tx[r], j, k)
    BY <2>2 DEF AttachedOnce
  <2>4. i \in Ids /\ status[i] \in {"none", "open", "closed"} /\ (status[i] = "closed" => i \in tx[r].closed)
    BY <1>1, <2>1, <2>3 DEF TxType, Inv, RowInv, AlertsInv, ClosedInv, AlertInv, Listed
  <2>5. incidents'[i] = tx[r].rows[i]
    BY <1>1, <2>3, <2>4 DEF Commit, row
  <2>6. status'[i] = "open" \/ i \in tx[r].closed
    BY <1>1, <2>3, <2>4 DEF Commit
  <2>7. \A j \in DOMAIN tx[r].rows \ {i} :
           tx[r].rows[j].alerts[k] \in {incidents[j].alerts[k], [status |-> "resolved", seen |-> tx[r].at]}
    BY <2>3 DEF NotFired, ResolvedAt
  <2> QED BY <2>3, <2>5, <2>6, <2>7
<1>2. Inv /\ [Next]_vars => [\A r \in Replicas : Commit(r) => OnOne(r)]_vars
  BY <1>1
<1> QED BY <1>2, Invariance, PTL DEF Spec, AlertsAttached

-----------------------------------------------------------------------------
(* Alerts and roots.                                                       *)

\* What rows and transactions keep of the topology.
Linked(graph, s, t) == Path(graph, s, t) # NoPath
Rooted(graph, x) ==
    /\ x.root \in Services /\ x.key[1] = x.root
    /\ \A k \in Alerts : x.alerts[k].status # "none" => Linked(graph, k[1], x.root)

GraphInv(graph, t) ==
    /\ t.graph \subseteq graph
    /\ \A n \in DOMAIN t.groups :
          /\ t.groups[n].root \in Services
          /\ \A k \in t.firing : Member(t, n, k) => Linked(graph, k[1], t.groups[n].root)

TxRooted(graph, r) ==
    /\ \A i \in DOMAIN tx[r].rows : Rooted(graph, tx[r].rows[i])
    /\ \A i \in tx[r].open : Exists(r, i)
    /\ tx[r].pc \in {"mark", "attach"} => Exists(r, tx[r].target)
    /\ tx[r].pc = "mark" => row(r, tx[r].target).alerts[tx[r].key].status # "none"
    /\ tx[r].pc \in {"group", "attach"} => GraphInv(graph, tx[r])
    /\ tx[r].pc = "attach" => Linked(graph, Group(r).root, row(r, tx[r].target).root)

RootedInv ==
    /\ \A i \in Ids : status[i] # "none" => Rooted(New(edges), incidents[i])
    /\ \A r \in Replicas : TxRooted(New(edges), r)

\* Paths can be put together, and are found in larger graphs too.
LEMMA LinkedFacts ==
    ASSUME NEW graph \in Graphs
    PROVE  /\ \A s \in Services : Linked(graph, s, s)
           /\ \A s, t, u \in Services : Linked(graph, s, t) /\ Linked(graph, t, u) => Linked(graph, s, u)
           /\ \A g \in SUBSET graph : \A s, t \in Services : Linked(g, s, t) => Linked(graph, s, t)
<1>1. ASSUME NEW g \in SUBSET graph, NEW s \in Services, NEW t \in Services
      PROVE  Linked(g, s, t) <=> Depends(g, s, t)
  <2>1. g \in Graphs
    BY DEF Graphs
  <2> QED BY <2>1, TopologyFacts DEF Linked
<1>2. ASSUME NEW g \in SUBSET graph, NEW s, NEW t, Depends(g, s, t) PROVE Depends(graph, s, t)
  BY <1>2 DEF Depends, ClosedIn
<1>3. \A s, t \in Services : Linked(graph, s, t) <=> Depends(graph, s, t)
  BY <1>1
<1> QED BY <1>1, <1>2, <1>3, DependsFacts

\* What a delivery reads of the catalog is a graph of services.
LEMMA CatalogFacts ==
    ASSUME Inv
    PROVE  New(edges) \in Graphs
BY DEF Inv, New, Graphs

\* What is rooted in a graph is in a larger one.
LEMMA RootedLarger ==
    ASSUME NEW graph \in Graphs, NEW g \in SUBSET graph, NEW x, Rooted(g, x)
    PROVE  Rooted(graph, x)
<1>1. \A k \in Alerts : k[1] \in Services
  BY IngestionAssumption
<1> QED BY <1>1, LinkedFacts DEF Rooted

\* A new incident is rooted.
LEMMA NewRowRooted ==
    ASSUME NEW graph, NEW s \in Services, NEW key, key[1] = s
    PROVE  Rooted(graph, NewRow(s, key)) /\ NewRow(s, key).root = s
<1>1. /\ NewRow(s, key).root = s /\ NewRow(s, key).key = key
      /\ \A k \in Alerts : NewRow(s, key).alerts[k].status = "none"
  BY DEF NewRow, Quiet
<1> QED BY <1>1 DEF Rooted

\* A row that a transaction can read is rooted.
LEMMA RowRooted ==
    ASSUME RootedInv, NEW r \in Replicas, NEW i \in Ids, Exists(r, i)
    PROVE  Rooted(New(edges), row(r, i))
BY DEF RootedInv, TxRooted, Exists, row

\* A step of one delivery on its own state.
LEMMA RootedStep ==
    ASSUME Inv, RootedInv, NEW r \in Replicas, NEW u, Goto(r, u), UNCHANGED <<edges, incidents, status>>,
           TxRooted(New(edges), r)'
    PROVE  RootedInv'
<1>1. DOMAIN tx = Replicas /\ tx' = [tx EXCEPT ![r] = u] /\ edges' = edges /\ incidents' = incidents /\ status' = status
  BY DEF Inv, Goto
<1>2. ASSUME NEW q \in Replicas PROVE TxRooted(New(edges), q)'
  <2>1. CASE q = r
    BY <2>1
  <2>2. CASE q # r
    <3>1. tx'[q] = tx[q]
      BY <1>1, <2>2
    <3>2. TxRooted(New(edges), q)
      BY DEF RootedInv
    <3> QED BY <1>1, <3>1, <3>2 DEF TxRooted, Exists, row, Group
  <2> QED BY <2>1, <2>2
<1>3. \A i \in Ids : status'[i] # "none" => Rooted(New(edges), incidents[i])'
  BY <1>1 DEF RootedInv
<1> QED BY <1>2, <1>3 DEF RootedInv

\* A delivery that has read nothing yet.
LEMMA UnreadRooted ==
    ASSUME Inv, RootedInv, NEW r \in Replicas, NEW u, Goto(r, u), UNCHANGED <<edges, incidents, status>>,
           DOMAIN u.rows = {}, u.open = {}, u.pc \in {"idle", "wait"}
    PROVE  RootedInv'
<1>1. tx'[r] = u
  BY DEF Goto, Inv
<1>2. TxRooted(New(edges), r)'
  BY <1>1 DEF TxRooted
<1> QED BY <1>2, RootedStep

\* A delivery that begins or fails writes nothing.
LEMMA BeginRooted ==
    ASSUME Inv, RootedInv, NEW r \in Replicas, Begin(r) \/ Rollback(r)
    PROVE  RootedInv'
<1>1. CASE Begin(r)
  <2>1. PICK firing, resolved \in SUBSET Alerts :
           Goto(r, [Idle EXCEPT !.pc = "wait", !.at = now, !.firing = firing, !.left = resolved])
    BY <1>1 DEF Begin
  <2> DEFINE u == [Idle EXCEPT !.pc = "wait", !.at = now, !.firing = firing, !.left = resolved]
  <2>2. DOMAIN u.rows = {} /\ u.open = {} /\ u.pc = "wait"
    BY DEF Idle
  <2>3. UNCHANGED <<edges, incidents, status>>
    BY <1>1 DEF Begin
  <2> HIDE DEF u
  <2>4. Goto(r, u)
    BY <2>1 DEF u
  <2> QED BY <2>2, <2>3, <2>4, UnreadRooted
<1>2. CASE Rollback(r)
  <2>1. DOMAIN Idle.rows = {} /\ Idle.open = {} /\ Idle.pc = "idle"
    BY DEF Idle
  <2>2. Goto(r, Idle) /\ UNCHANGED <<edges, incidents, status>>
    BY <1>2 DEF Rollback, TxOnly
  <2> QED BY <2>1, <2>2, UnreadRooted
<1> QED BY <1>1, <1>2

\* Nor does one that takes the lock.
LEMMA LockRooted ==
    ASSUME Inv, RootedInv, NEW r \in Replicas, LockIncidentIngestion(r)
    PROVE  RootedInv'
<1> DEFINE t == tx[r]
           u == [t EXCEPT !.pc = "resolve"]
<1>1. Goto(r, u) /\ tx'[r] = u /\ UNCHANGED <<edges, incidents, status>>
  BY DEF LockIncidentIngestion, TxOnly, Goto, Inv
<1>2. DOMAIN t = DOMAIN Idle
  BY DEF Inv, TxInv, TxType
<1>3. u.pc = "resolve" /\ u.rows = t.rows /\ u.open = t.open
  BY <1>2 DEF Idle
<1> HIDE DEF u
<1>4. TxRooted(New(edges), r)'
  BY <1>1, <1>3 DEF TxRooted, Exists, RootedInv
<1> QED BY <1>1, <1>4, RootedStep

\* Nor does one that looks for a resolved alert.
LEMMA FindResolvedRooted ==
    ASSUME Inv, RootedInv, NEW r \in Replicas, NEW k \in Alerts, FindResolved(r, k)
    PROVE  RootedInv'
<1> DEFINE t == tx[r]
<1>1. DOMAIN t = DOMAIN Idle /\ t.pc = "resolve" /\ UNCHANGED <<edges, incidents, status>>
  BY DEF Inv, TxInv, TxType, FindResolved, TxOnly
<1>2. CASE Goto(r, [t EXCEPT !.left = @ \ {k}])
  <2> DEFINE u == [t EXCEPT !.left = @ \ {k}]
  <2>1. Goto(r, u) /\ tx'[r] = u
    BY <1>2 DEF Goto, Inv
  <2>2. u.pc = "resolve" /\ u.rows = t.rows /\ u.open = t.open
    BY <1>1 DEF Idle
  <2> HIDE DEF u
  <2>3. TxRooted(New(edges), r)'
    BY <1>1, <2>1, <2>2 DEF TxRooted, Exists, RootedInv
  <2> QED BY <1>1, <2>1, <2>3, RootedStep
<1>3. ASSUME NEW i \in FindIncidentForResolvedAlert(r, k), Goto(r, [t EXCEPT !.pc = "mark", !.target = i, !.key = k])
      PROVE  RootedInv'
  <2> DEFINE u == [t EXCEPT !.pc = "mark", !.target = i, !.key = k]
  <2>1. Goto(r, u) /\ tx'[r] = u
    BY <1>3 DEF Goto, Inv
  <2>2. u.pc = "mark" /\ u.rows = t.rows /\ u.open = t.open /\ u.target = i /\ u.key = k
    BY <1>1 DEF Idle
  <2>3. i \in Ids /\ status[i] = "open" /\ row(r, i).alerts[k].status = "firing"
    BY DEF FindIncidentForResolvedAlert, MostRecent, Firing
  <2> HIDE DEF u
  <2>4. row(r, i)' = row(r, i)
    BY <1>1, <2>1, <2>2 DEF row
  <2>5. TxRooted(New(edges), r)'
    BY <1>1, <2>1, <2>2, <2>3, <2>4 DEF TxRooted, Exists, RootedInv
  <2> QED BY <1>1, <2>1, <2>5, RootedStep
<1> QED BY <1>2, <1>3 DEF FindResolved

\* What a transaction reads once it wrote row i.
LEMMA WrittenRooted ==
    ASSUME RootedInv, NEW r \in Replicas, NEW i \in Ids, NEW new, Rooted(New(edges), new),
           UNCHANGED <<edges, incidents, status>>, tx'[r].rows = Written(r, i, new)
    PROVE  /\ \A j \in DOMAIN tx'[r].rows : Rooted(New(edges), tx[r].rows[j])'
           /\ \A j : Exists(r, j) => Exists(r, j)'
           /\ Exists(r, i)' /\ row(r, i)' = new
<1>1. /\ DOMAIN tx'[r].rows = DOMAIN tx[r].rows \cup {i} /\ tx'[r].rows[i] = new
      /\ \A j \in DOMAIN tx[r].rows \ {i} : tx'[r].rows[j] = tx[r].rows[j]
  BY DEF Written
<1>2. \A j \in DOMAIN tx[r].rows : Rooted(New(edges), tx[r].rows[j])
  BY DEF RootedInv, TxRooted
<1>3. New(edges') = New(edges)
  OBVIOUS
<1>4. \A j \in DOMAIN tx'[r].rows : Rooted(New(edges'), tx'[r].rows[j])
  BY <1>1, <1>2, <1>3
<1> QED BY <1>1, <1>4 DEF Exists, row

\* Resolving an alert adds none that fires.
LEMMA MarkResolvedRooted ==
    ASSUME Inv, RootedInv, NEW r \in Replicas, MarkResolved(r)
    PROVE  RootedInv'
<1> DEFINE t == tx[r]
           i == t.target
           x == row(r, i)
           new == MarkAlertsCleared(MarkAlertResolved(x, t.key, t.at), t.at)
           u == [t EXCEPT !.pc = "resolve", !.left = @ \ {t.key}, !.target = None, !.key = None, !.rows = Written(r, i, new)]
<1>1. /\ DOMAIN t = DOMAIN Idle /\ t.pc = "mark" /\ i \in Ids /\ t.key \in Alerts
      /\ UNCHANGED <<edges, incidents, status>>
  BY DEF Inv, TxInv, TxType, ResolveInv, MarkResolved, TxOnly
<1>2. Goto(r, u) /\ tx'[r] = u
  BY DEF MarkResolved, Goto, Inv
<1>3. u.pc = "resolve" /\ u.rows = Written(r, i, new) /\ u.open = t.open
  BY <1>1 DEF Idle
<1>4. Exists(r, i) /\ x.alerts[t.key].status # "none"
  BY <1>1 DEF RootedInv, TxRooted
<1>5. IsRow(x)
  BY <1>1 DEF Inv, TxInv, TxType, RowInv, row
<1>6. Rooted(New(edges), new)
  <2>1. Rooted(New(edges), x)
    BY <1>1, <1>4, RowRooted
  <2>2. /\ new.root = x.root /\ new.key = x.key
        /\ \A k \in Alerts \ {t.key} : new.alerts[k] = x.alerts[k]
    <3> HIDE DEF x, t
    <3> QED BY <1>5 DEF MarkAlertsCleared, MarkAlertResolved, IsRow, NoRow
  <2> HIDE DEF new, x
  <2> QED BY <1>4, <2>1, <2>2 DEF Rooted
<1> HIDE DEF u, new, x
<1>7. TxRooted(New(edges), r)'
  BY <1>1, <1>2, <1>3, <1>6, WrittenRooted DEF TxRooted, RootedInv
<1> QED BY <1>1, <1>2, <1>7, RootedStep

\* Groups gives each alert a root that its service depends on.
LEMMA ListRooted ==
    ASSUME Inv, RootedInv, NEW r \in Replicas, List(r)
    PROVE  RootedInv'
<1> DEFINE t == tx[r]
           graph == New(edges)
           alerted == {k[1] : k \in t.firing}
           groups == Groups(graph, alerted)
           open == {i \in Ids : activeForGrouping(r, i)}
           u == [t EXCEPT !.pc = "group", !.graph = graph, !.groups = groups, !.open = open]
<1>1. /\ DOMAIN t = DOMAIN Idle /\ t.firing \subseteq Alerts /\ UNCHANGED <<edges, incidents, status>>
  BY DEF Inv, TxInv, TxType, List, TxOnly
<1>2. Goto(r, u) /\ tx'[r] = u
  BY DEF List, Goto, Inv
<1>3. /\ u.pc = "group" /\ u.rows = t.rows /\ u.open = open /\ u.graph = graph /\ u.groups = groups
      /\ u.firing = t.firing
  BY <1>1 DEF Idle
<1>4. graph \in Graphs
  BY CatalogFacts
<1>5. ASSUME NEW n \in DOMAIN groups
      PROVE  /\ groups[n].root \in Services
             /\ \A k \in t.firing : k[1] \in groups[n].members => Linked(graph, k[1], groups[n].root)
  <2>1. alerted \in SUBSET Services
    BY <1>1, IngestionAssumption
  <2> HIDE DEF graph, alerted
  <2>2. /\ groups[n].root \in Services /\ groups[n].members \subseteq alerted
        /\ \A s \in groups[n].members : Depends(graph, s, groups[n].root)
    BY <1>4, <2>1, TopologyFacts
  <2> HIDE DEF groups
  <2>3. \A s \in groups[n].members : Linked(graph, s, groups[n].root)
    BY <1>4, <2>1, <2>2, TopologyFacts DEF Linked
  <2> QED BY <2>2, <2>3
<1>6. \A i \in open : Exists(r, i)
  BY DEF activeForGrouping
<1>7. New(edges') = graph
  BY <1>1
<1> HIDE DEF u, groups, open, graph
<1>8. GraphInv(graph, u)
  BY <1>3, <1>5 DEF GraphInv, Member
<1>9. TxRooted(New(edges), r)'
  BY <1>1, <1>2, <1>3, <1>6, <1>7, <1>8 DEF TxRooted, Exists, RootedInv, graph
<1> QED BY <1>1, <1>2, <1>9, RootedStep

\* What a delivery that works on a group knows of its root.
LEMMA GroupRooted ==
    ASSUME Inv, RootedInv, NEW r \in Replicas, Grouping(r)
    PROVE  /\ Group(r).root \in Services /\ tx[r].graph \in SUBSET New(edges) /\ tx[r].graph \in Graphs
           /\ \A k \in rootAlertForGroup(r) : k[1] = Group(r).root
           /\ \A i \in tx[r].open : i \in Ids /\ Exists(r, i)
<1>1. tx[r].pc = "group" /\ 1 \in DOMAIN tx[r].groups /\ Group(r) = tx[r].groups[1] /\ TxType(tx[r])
  BY GroupingFacts
<1>2. GraphInv(New(edges), tx[r])
  BY <1>1 DEF RootedInv, TxRooted
<1>3. tx[r].graph \in Graphs
  BY <1>2, CatalogFacts DEF Graphs, GraphInv
<1>4. \A k \in rootAlertForGroup(r) : k[1] = Group(r).root
  <2> DEFINE root == Group(r).root
             observed == {k \in alertsForGroup(r) : k[1] = root}
  <2>1. Inferred(root)[1] = root
    BY DEF Inferred
  <2>2. rootAlertForGroup(r) = IF observed = {} THEN {Inferred(root)} ELSE observed
    BY DEF rootAlertForGroup
  <2>3. \A k \in observed : k[1] = root
    OBVIOUS
  <2> HIDE DEF observed, root
  <2>4. \A k \in rootAlertForGroup(r) : k[1] = root
    BY <2>1, <2>2, <2>3
  <2> QED BY <2>4 DEF root
<1> QED BY <1>1, <1>2, <1>3, <1>4 DEF GraphInv, TxType, RootedInv, TxRooted

\* A group goes to row i, which may be new.
LEMMA ToAttachRooted ==
    ASSUME Inv, RootedInv, NEW r \in Replicas, Grouping(r), NEW i \in Ids, NEW rows, ToAttach(r, i, rows), TxOnly,
           NEW x, Rooted(New(edges), x), Linked(New(edges), Group(r).root, x.root),
           \/ rows = tx[r].rows /\ Exists(r, i) /\ x = row(r, i)
           \/ rows = Written(r, i, x)
    PROVE  RootedInv'
<1> DEFINE t == tx[r]
           u == [t EXCEPT !.pc = "attach", !.target = i, !.rows = rows]
<1>1. DOMAIN t = DOMAIN Idle /\ t.pc = "group" /\ UNCHANGED <<edges, incidents, status>>
  BY GroupingFacts DEF TxType, TxOnly
<1>2. Goto(r, u) /\ tx'[r] = u
  BY DEF ToAttach, Goto, Inv
<1>3. /\ u.pc = "attach" /\ u.rows = rows /\ u.open = t.open /\ u.target = i /\ u.graph = t.graph
      /\ u.groups = t.groups /\ u.firing = t.firing
  BY <1>1 DEF Idle
<1> HIDE DEF u
<1>4. GraphInv(New(edges), u)
  BY <1>1, <1>3 DEF RootedInv, TxRooted, GraphInv, Member
<1>5. Group(r)' = Group(r) /\ New(edges') = New(edges)
  BY <1>1, <1>2, <1>3 DEF Group
<1>6. /\ \A j \in DOMAIN tx'[r].rows : Rooted(New(edges), tx[r].rows[j])'
      /\ \A j : Exists(r, j) => Exists(r, j)'
      /\ Exists(r, i)' /\ row(r, i)' = x
  <2>1. CASE rows = tx[r].rows /\ Exists(r, i) /\ x = row(r, i)
    BY <1>1, <1>2, <1>3, <2>1 DEF Exists, row, RootedInv, TxRooted
  <2>2. CASE rows = Written(r, i, x)
    BY <1>1, <1>2, <1>3, <2>2, WrittenRooted
  <2> QED BY <2>1, <2>2
<1>7. TxRooted(New(edges), r)'
  BY <1>1, <1>2, <1>3, <1>4, <1>5, <1>6 DEF TxRooted, RootedInv
<1> QED BY <1>1, <1>2, <1>7, RootedStep

\* A candidate at some distance is reached along a path.
LEMMA NearestLinked ==
    ASSUME NEW graph \in Graphs, NEW s \in Services, NEW t \in Services, Len(Path(graph, s, t)) > 0
    PROVE  Linked(graph, s, t)
<1>1. Path(graph, s, t) \in Seq(Services)
  BY TopologyFacts
<1> QED BY <1>1, SMT DEF Linked, NoPath

\* The incident that a group joins has a root that its alerts depend on.
LEMMA JoinRooted ==
    ASSUME Inv, RootedInv, NEW r \in Replicas, Join(r)
    PROVE  RootedInv'
<1> DEFINE root == Group(r).root
           graph == New(edges)
<1>1. Grouping(r) /\ TxOnly
  BY DEF Join
<1>2. PICK k \in rootAlertForGroup(r) :
         \E i \in FindOpenByDedupeKey(r, k) \cup SameRoot(r) \cup Upstream(r) : ToAttach(r, i, tx[r].rows)
  BY DEF Join, Joinable
<1> SUFFICES ASSUME NEW i \in FindOpenByDedupeKey(r, k) \cup SameRoot(r) \cup Upstream(r), ToAttach(r, i, tx[r].rows)
             PROVE  RootedInv'
  BY <1>2
<1>3. /\ root \in Services /\ tx[r].graph \in SUBSET graph /\ tx[r].graph \in Graphs /\ graph \in Graphs
      /\ k[1] = root /\ \A j \in tx[r].open : j \in Ids /\ Exists(r, j)
  BY <1>1, GroupRooted, CatalogFacts
<1>4. ASSUME NEW j \in Ids, Exists(r, j) PROVE row(r, j).root \in Services
  BY <1>4, RowRooted DEF Rooted
<1>5. i \in Ids /\ Exists(r, i) /\ Linked(graph, root, row(r, i).root)
  <2>1. CASE i \in FindOpenByDedupeKey(r, k)
    <3>1. i \in Ids /\ Exists(r, i) /\ Carries(row(r, i), k)
      BY <2>1 DEF FindOpenByDedupeKey, MostRecent, activeForGrouping
    <3>2. Rooted(graph, row(r, i))
      BY <3>1, RowRooted
    <3>3. CASE row(r, i).key = k
      BY <1>3, <3>1, <3>2, <3>3, LinkedFacts DEF Rooted
    <3>4. CASE k \in Alerts /\ row(r, i).alerts[k].status # "none"
      BY <1>3, <3>1, <3>2, <3>4 DEF Rooted
    <3> QED BY <3>1, <3>3, <3>4 DEF Carries
  <2>2. CASE i \in SameRoot(r)
    BY <1>3, <2>2, LinkedFacts DEF SameRoot
  <2>3. CASE i \in Upstream(r)
    <3>1. i \in tx[r].open /\ Len(Path(tx[r].graph, root, row(r, i).root)) > 0
      BY <2>3 DEF Upstream, Nearest, Distance
    <3>2. i \in Ids /\ Exists(r, i) /\ row(r, i).root \in Services
      BY <1>3, <1>4, <3>1
    <3> HIDE DEF root, graph
    <3>3. Linked(tx[r].graph, root, row(r, i).root)
      BY <1>3, <3>1, <3>2, NearestLinked
    <3> QED BY <1>3, <3>2, <3>3, LinkedFacts
  <2> QED BY <2>1, <2>2, <2>3
<1>6. Rooted(graph, row(r, i))
  BY <1>5, RowRooted
<1> QED BY <1>1, <1>5, <1>6, ToAttachRooted

\* A promoted incident keeps its alerts: they reach its former root, and this the
\* new one.
LEMMA PromoteRooted ==
    ASSUME Inv, RootedInv, NEW r \in Replicas, PromoteIncidentRoot(r)
    PROVE  RootedInv'
<1> DEFINE root == Group(r).root
           graph == New(edges)
<1>1. Grouping(r) /\ TxOnly
  BY DEF PromoteIncidentRoot
<1>2. PICK k \in rootAlertForGroup(r), i \in Downstream(r) :
         ToAttach(r, i, Written(r, i, [row(r, i) EXCEPT !.root = Group(r).root, !.key = k]))
  BY DEF PromoteIncidentRoot
<1> DEFINE x == row(r, i)
           new == [x EXCEPT !.root = root, !.key = k]
<1>3. /\ root \in Services /\ tx[r].graph \in SUBSET graph /\ tx[r].graph \in Graphs /\ graph \in Graphs
      /\ k[1] = root /\ \A j \in tx[r].open : j \in Ids /\ Exists(r, j)
  BY <1>1, GroupRooted, CatalogFacts
<1>4. i \in tx[r].open /\ Len(Path(tx[r].graph, x.root, root)) > 0
  BY DEF Downstream, Nearest, Distance
<1>5. i \in Ids /\ Exists(r, i) /\ Rooted(graph, x) /\ IsRow(x)
  <2>1. i \in Ids /\ Exists(r, i)
    BY <1>3, <1>4
  <2>2. Rooted(graph, x)
    BY <2>1, RowRooted
  <2>3. IsRow(x)
    BY <2>1 DEF Inv, TxInv, TxType, RowInv, row
  <2> QED BY <2>1, <2>2, <2>3
<1>6. new.root = root /\ new.key = k /\ new.alerts = x.alerts
  <2> HIDE DEF x, root
  <2> QED BY <1>5 DEF IsRow, NoRow
<1>7. ToAttach(r, i, Written(r, i, new))
  BY <1>2
<1> HIDE DEF x, new, root, graph
<1>8. Linked(graph, x.root, root)
  <2>1. x.root \in Services
    BY <1>5 DEF Rooted
  <2>2. Linked(tx[r].graph, x.root, root)
    BY <1>3, <1>4, <2>1, NearestLinked
  <2> QED BY <1>3, <2>1, <2>2, LinkedFacts
<1>9. Rooted(graph, new)
  <2>1. \A k_1 \in Alerts : k_1[1] \in Services
    BY IngestionAssumption
  <2> QED BY <1>3, <1>5, <1>6, <1>8, <2>1, LinkedFacts DEF Rooted
<1>10. Linked(graph, root, new.root)
  BY <1>3, <1>6, LinkedFacts
<1> QED BY <1>1, <1>5, <1>7, <1>9, <1>10, ToAttachRooted DEF root, graph

\* A new incident takes the root of its group.
LEMMA CreateRooted ==
    ASSUME Inv, RootedInv, NEW r \in Replicas, CreateAlertIncident(r)
    PROVE  RootedInv'
<1> DEFINE root == Group(r).root
           graph == New(edges)
<1>1. Grouping(r) /\ TxOnly
  BY DEF CreateAlertIncident
<1>2. PICK k \in rootAlertForGroup(r), i \in Ids : ToAttach(r, i, Written(r, i, NewRow(Group(r).root, k)))
  BY DEF CreateAlertIncident
<1>3. root \in Services /\ graph \in Graphs /\ k[1] = root
  BY <1>1, GroupRooted, CatalogFacts
<1>4. Rooted(graph, NewRow(root, k)) /\ NewRow(root, k).root = root
  BY <1>3, NewRowRooted
<1>5. Linked(graph, root, NewRow(root, k).root)
  BY <1>3, <1>4, LinkedFacts
<1> QED BY <1>1, <1>2, <1>4, <1>5, ToAttachRooted

\* The alerts of a group reach its root, and this the root of the incident.
LEMMA AttachRooted ==
    ASSUME Inv, RootedInv, NEW r \in Replicas, attachTopologyAlerts(r)
    PROVE  RootedInv'
<1> DEFINE t == tx[r]
<1>0. PICK i \in Ids : i = t.target
  BY DEF Inv, TxInv, TxType, attachTopologyAlerts
<1> DEFINE x == row(r, i)
           new == MarkAlertsFiring(x, alertsForGroup(r), t.at)
           u == [t EXCEPT !.pc = "group", !.target = None, !.groups = Tail(@), !.open = @ \cup {i},
                          !.rows = Written(r, i, new)]
           graph == New(edges)
<1>1. /\ DOMAIN t = DOMAIN Idle /\ t.pc = "attach" /\ t.firing \subseteq Alerts
      /\ t.groups \in Seq(GroupType) /\ t.groups # <<>> /\ UNCHANGED <<edges, incidents, status>>
  BY DEF Inv, TxInv, TxType, GroupsInv, attachTopologyAlerts, TxOnly
<1>2. Goto(r, u) /\ tx'[r] = u
  BY <1>0 DEF attachTopologyAlerts, Goto, Inv
<1>3. /\ u.pc = "group" /\ u.rows = Written(r, i, new) /\ u.open = t.open \cup {i} /\ u.groups = Tail(t.groups)
      /\ u.graph = t.graph /\ u.firing = t.firing
  BY <1>1 DEF Idle
<1>4. /\ Tail(t.groups) \in Seq(GroupType) /\ 1 \in DOMAIN t.groups /\ Group(r) = t.groups[1]
      /\ \A n \in DOMAIN Tail(t.groups) : n + 1 \in DOMAIN t.groups /\ Tail(t.groups)[n] = t.groups[n + 1]
  BY <1>1, TailFacts DEF Group
<1>5. Exists(r, i) /\ GraphInv(graph, t) /\ Linked(graph, Group(r).root, x.root)
  BY <1>0, <1>1 DEF RootedInv, TxRooted
<1>6. graph \in Graphs /\ Rooted(graph, x) /\ IsRow(x)
  <2>1. IsRow(x)
    BY <1>1 DEF Inv, TxInv, TxType, RowInv, row
  <2> QED BY <1>1, <1>5, <2>1, RowRooted, CatalogFacts
<1>7. /\ new.root = x.root /\ new.key = x.key
      /\ \A k \in Alerts \ alertsForGroup(r) : new.alerts[k] = x.alerts[k]
  <2> HIDE DEF x, t
  <2> QED BY <1>6 DEF MarkAlertsFiring, IsRow, NoRow
<1>8. ASSUME NEW k \in alertsForGroup(r) PROVE Linked(graph, k[1], Group(r).root)
  BY <1>4, <1>5 DEF alertsForGroup, GraphInv, Member
<1>9. Rooted(graph, new)
  <2>1. /\ x.root \in Services /\ Group(r).root \in Services /\ \A k \in Alerts : k[1] \in Services
    BY <1>4, <1>5, <1>6, IngestionAssumption DEF Rooted, GraphInv
  <2> HIDE DEF new, x, graph
  <2>2. ASSUME NEW k \in Alerts, new.alerts[k].status # "none" PROVE Linked(graph, k[1], x.root)
    <3>1. CASE k \in alertsForGroup(r)
      BY <1>5, <1>6, <1>8, <2>1, <3>1, LinkedFacts
    <3>2. CASE k \notin alertsForGroup(r)
      BY <1>6, <1>7, <2>2, <3>2 DEF Rooted
    <3> QED BY <3>1, <3>2
  <2> QED BY <1>6, <1>7, <2>2 DEF Rooted
<1>10. GraphInv(graph, u)
  <2> HIDE DEF u, graph
  <2> QED BY <1>3, <1>4, <1>5 DEF GraphInv, Member
<1> HIDE DEF u, new, x
<1>11. New(edges') = graph
  BY <1>1
<1>12. TxRooted(New(edges), r)'
  <2>1. Rooted(New(edges), new) /\ tx'[r].rows = Written(r, i, new)
    BY <1>2, <1>3, <1>9
  <2>2. /\ \A j \in DOMAIN tx'[r].rows : Rooted(New(edges), tx[r].rows[j])'
        /\ \A j : Exists(r, j) => Exists(r, j)'
        /\ Exists(r, i)'
    BY <1>1, <2>1, WrittenRooted
  <2>3. \A j \in tx'[r].open : Exists(r, j)'
    BY <1>2, <1>3, <2>2 DEF RootedInv, TxRooted
  <2> HIDE DEF graph
  <2> QED BY <1>2, <1>3, <1>10, <1>11, <2>2, <2>3 DEF TxRooted
<1> QED BY <1>1, <1>2, <1>12, RootedStep

\* A larger catalog, and what other steps do to the rows, change nothing for a
\* delivery.
LEMMA BesideRooted ==
    ASSUME Inv, Inv', RootedInv, NEW q \in Replicas, SameTx(tx[q], tx'[q]), edges \subseteq edges',
           \A i \in Ids : status[i] # "none" => status'[i] # "none" /\ (Locked(tx[q]) => incidents'[i] = incidents[i])
    PROVE  TxRooted(New(edges), q)'
<1> DEFINE t == tx[q]
           u == tx'[q]
           g == New(edges)
           graph == New(edges')
           x == row(q, t.target)
           y == IF u.target \in DOMAIN u.rows THEN u.rows[u.target] ELSE incidents'[u.target]
           root == Head(t.groups).root
<1>1. g \in SUBSET graph /\ graph \in Graphs
  <2>1. graph \in Graphs
    BY DEF Inv, New, Graphs
  <2> QED BY <2>1 DEF New
<1>2. /\ TxRooted(g, q) /\ TxType(t) /\ (t.pc = "attach" => GroupsInv(t))
  BY DEF RootedInv, Inv, TxInv
<1>3. /\ u.pc = t.pc /\ u.rows = t.rows /\ u.open = t.open /\ u.target = t.target /\ u.key = t.key
      /\ u.graph = t.graph /\ u.groups = t.groups /\ u.firing = t.firing
  BY DEF SameTx
<1>4. \A i \in Ids : Exists(q, i) => Exists(q, i)'
  BY <1>3 DEF Exists
<1>5. ASSUME t.pc \in {"mark", "attach"} PROVE t.target \in Ids /\ Exists(q, t.target) /\ Rooted(g, x) /\ y = x
  <2>1. t.target \in Ids /\ Exists(q, t.target) /\ Locked(t)
    BY <1>2, <1>5 DEF TxType, TxRooted, Locked
  <2> QED BY <1>3, <2>1, RowRooted DEF Exists, row
<1>6. \A k \in Alerts : k[1] \in Services
  BY IngestionAssumption
<1>7. t.pc = "mark" => x.alerts[t.key].status # "none"
  BY <1>2 DEF TxRooted
<1>8. ASSUME t.pc \in {"group", "attach"} PROVE GraphInv(graph, u)
  <2>1. GraphInv(g, t) /\ t.firing \subseteq Alerts
    BY <1>2, <1>8 DEF TxRooted, TxType
  <2> HIDE DEF graph, g, t, u
  <2> QED BY <1>1, <1>3, <1>6, <2>1, LinkedFacts, ZenonT(30) DEF GraphInv, Member
<1>9. ASSUME t.pc = "attach" PROVE Linked(graph, root, x.root)
  <2>1. Linked(g, root, x.root) /\ GraphInv(g, t) /\ x.root \in Services
    BY <1>2, <1>5, <1>9 DEF TxRooted, Group, Rooted
  <2>2. t.groups \in Seq(GroupType) /\ t.groups # <<>>
    BY <1>2, <1>9 DEF GroupsInv
  <2>3. root \in Services
    BY <2>1, <2>2, TailFacts, ZenonT(30) DEF GraphInv
  <2> HIDE DEF graph, g, root, x
  <2> QED BY <1>1, <2>1, <2>3, LinkedFacts
<1>10. \A i \in DOMAIN u.rows : Rooted(graph, u.rows[i])
  <2>1. \A i \in DOMAIN t.rows : Rooted(g, t.rows[i])
    BY <1>2 DEF TxRooted
  <2> HIDE DEF graph, g
  <2>2. \A z : Rooted(g, z) => Rooted(graph, z)
    BY <1>1, RootedLarger
  <2> QED BY <1>3, <2>1, <2>2
<1>11. \A i \in u.open : Exists(q, i)'
  BY <1>2, <1>3, <1>4 DEF TxRooted, TxType
<1>12. u.pc \in {"mark", "attach"} => Exists(q, tx[q].target)'
  BY <1>3, <1>5 DEF Exists
<1>13. u.pc = "mark" => y.alerts[u.key].status # "none"
  BY <1>3, <1>5, <1>7
<1>14. u.pc = "attach" => Linked(graph, Head(u.groups).root, y.root)
  BY <1>3, <1>5, <1>9
<1> QED BY <1>3, <1>8, <1>10, <1>11, <1>12, <1>13, <1>14 DEF TxRooted, row, Group

\* What was so for the rows of the delivery is so for those it commits.
LEMMA CommitRooted ==
    ASSUME Inv, Inv', RootedInv, NEW r \in Replicas, Commit(r)
    PROVE  RootedInv'
<1>1. /\ edges' = edges /\ tx' = [tx EXCEPT ![r] = Idle] /\ incidents' = [i \in Ids |-> row(r, i)]
      /\ status' = [i \in Ids |-> IF i \in DOMAIN tx[r].rows /\ status[i] = "none" THEN "open" ELSE status[i]]
      /\ Locked(tx[r]) /\ DOMAIN tx = Replicas
  BY DEF Commit, Goto, Inv, Locked
<1>2. ASSUME NEW i \in Ids, status'[i] # "none" PROVE Rooted(New(edges), incidents[i])'
  <2>1. Exists(r, i)
    BY <1>1, <1>2 DEF Exists
  <2>2. Rooted(New(edges), row(r, i))
    BY <2>1, RowRooted
  <2> QED BY <1>1, <2>2
<1>3. ASSUME NEW q \in Replicas PROVE TxRooted(New(edges), q)'
  <2>1. CASE q = r
    <3>1. DOMAIN Idle.rows = {} /\ Idle.open = {} /\ Idle.pc = "idle"
      BY DEF Idle
    <3>2. tx'[q] = Idle
      BY <1>1, <2>1
    <3> QED BY <3>1, <3>2 DEF TxRooted
  <2>2. CASE q # r
    <3>1. tx'[q] = tx[q] /\ ~Locked(tx[q])
      BY <1>1, <2>2 DEF Inv
    <3>2. SameTx(tx[q], tx'[q])
      BY <3>1 DEF SameTx
    <3>3. \A i \in Ids : status[i] # "none" => status'[i] # "none"
      BY <1>1
    <3> QED BY <1>1, <3>1, <3>2, <3>3, BesideRooted
  <2> QED BY <2>1, <2>2
<1> QED BY <1>2, <1>3 DEF RootedInv

\* Operators, the catalog and time.
LEMMA OtherRooted ==
    ASSUME Inv, Inv', RootedInv, edges \subseteq edges', \A r \in Replicas : SameTx(tx[r], tx'[r]),
           \A i \in Ids : status[i] # "none" => status'[i] # "none" /\ incidents'[i] = incidents[i],
           \A i \in Ids : status[i] = "none" /\ status'[i] # "none" => Rooted(New(edges'), incidents'[i])
    PROVE  RootedInv'
<1>1. \A r \in Replicas : TxRooted(New(edges), r)'
  BY BesideRooted
<1>2. New(edges) \in SUBSET New(edges') /\ New(edges') \in Graphs
  <2>1. New(edges') \in Graphs
    BY DEF Inv, New, Graphs
  <2> QED BY <2>1 DEF New
<1>3. \A i \in Ids : status'[i] # "none" => Rooted(New(edges'), incidents'[i])
  BY <1>2, RootedLarger DEF RootedInv
<1> QED BY <1>1, <1>3 DEF RootedInv

\* Every step keeps alerts linked to the roots of their incidents.
LEMMA NextRooted ==
    ASSUME Inv, Inv', RootedInv, [Next]_vars
    PROVE  RootedInv'
<1>1. ASSUME NEW r \in Replicas, Deliver(r) PROVE RootedInv'
  <2>1. CASE \E k \in Alerts : FindResolved(r, k)
    BY <2>1, FindResolvedRooted
  <2> QED BY <1>1, <2>1, BeginRooted, LockRooted, MarkResolvedRooted, ListRooted, JoinRooted, PromoteRooted,
             CreateRooted, AttachRooted, CommitRooted DEF Deliver
<1>2. ASSUME NEW i \in Ids, TransitionIncident(i) PROVE RootedInv'
  <2>1. /\ edges' = edges /\ incidents' = incidents /\ status' = [status EXCEPT ![i] = "closed"] /\ status[i] = "open"
        /\ tx' = [r \in Replicas |-> IF tx[r].pc = "idle" THEN tx[r] ELSE [tx[r] EXCEPT !.closed = @ \cup {i}]]
    BY <1>2 DEF TransitionIncident
  <2>2. ASSUME NEW r \in Replicas PROVE SameTx(tx[r], tx'[r])
    <3>1. DOMAIN tx[r] = DOMAIN Idle
      BY DEF Inv, TxInv, TxType
    <3> QED BY <2>1, <3>1 DEF SameTx, Idle
  <2>3. \A j \in Ids : (status'[j] # "none" <=> status[j] # "none") /\ incidents'[j] = incidents[j]
    BY <2>1 DEF Inv
  <2> QED BY <2>1, <2>2, <2>3, OtherRooted
<1>3. ASSUME NEW i \in Ids, NEW service \in ManualServices, CreateManual(i, service) PROVE RootedInv'
  <2>1. /\ edges' = edges /\ tx' = tx /\ status[i] = "none"
        /\ incidents' = [incidents EXCEPT ![i] = NewRow(service, Manual(service))]
        /\ status' = [status EXCEPT ![i] = "open"] /\ DOMAIN incidents = Ids /\ DOMAIN status = Ids
    BY <1>3 DEF CreateManual, Unused, Inv
  <2>2. Manual(service)[1] = service /\ service \in Services
    BY IngestionAssumption DEF Manual
  <2>3. Rooted(New(edges'), incidents'[i])
    BY <2>1, <2>2, NewRowRooted
  <2>4. \A j \in Ids \ {i} : status'[j] = status[j] /\ incidents'[j] = incidents[j]
    BY <2>1
  <2>5. \A r \in Replicas : SameTx(tx[r], tx'[r])
    BY <2>1 DEF SameTx
  <2> QED BY <2>1, <2>3, <2>4, <2>5, OtherRooted
<1>4. CASE Upsert \/ Tick \/ UNCHANGED vars
  <2>1. edges \subseteq edges' /\ incidents' = incidents /\ status' = status /\ tx' = tx
    BY <1>4 DEF Upsert, UpsertServiceDependency, Tick, vars
  <2>2. \A r \in Replicas : SameTx(tx[r], tx'[r])
    BY <2>1 DEF SameTx
  <2> QED BY <2>1, <2>2, OtherRooted
<1> QED BY <1>1, <1>2, <1>3, <1>4 DEF Next

\* Every alert of an incident reaches the root of the incident, whatever the
\* deliveries of several replicas promote and however the catalog grows meanwhile:
\* attachTopologyAlerts always finds the path that it records.
THEOREM RootSafety ==
    Spec => []AlertsReachRoot
<1>1. Init => RootedInv
  <2>1. DOMAIN Idle.rows = {} /\ Idle.open = {} /\ Idle.pc = "idle"
    BY DEF Idle
  <2> QED BY <2>1 DEF Init, RootedInv, TxRooted
<1>2. Inv /\ Inv' /\ RootedInv /\ [Next]_vars => RootedInv'
  BY NextRooted
<1>3. ASSUME Inv, RootedInv PROVE AlertsReachRoot
  <2> SUFFICES ASSUME NEW i \in Ids, NEW k \in Alerts, incidents[i].alerts[k].status # "none"
               PROVE  Path(New(edges), k[1], incidents[i].root) # NoPath
    BY DEF AlertsReachRoot
  <2>1. status[i] # "none"
    <3>1. RowInv(i)
      BY <1>3 DEF Inv
    <3>2. [a \in Alerts |-> Quiet][k].status = "none"
      BY DEF Quiet
    <3> QED BY <3>1, <3>2 DEF RowInv
  <2> QED BY <1>3, <2>1 DEF RootedInv, Rooted, Linked
<1> QED BY <1>1, <1>2, <1>3, Invariance, PTL DEF Spec

-----------------------------------------------------------------------------
(* The catalog grows while alerts come in: what Path and Groups promise.   *)

\* Whatever dependencies are upserted, Graph.Path finds the shortest path, of
\* several the first in the order of names, and none only if there is none.
THEOREM PathSafety ==
    Spec => []PathRight
<1>1. Inv => PathRight
  BY TopologyFacts DEF Inv, Graphs
<1> QED BY <1>1, Invariance, PTL

\* Whatever dependencies are upserted, Graph.Groups puts every alerted service
\* into one group whose root it depends on, and no root depends on another.
THEOREM GroupsSafety ==
    Spec => []GroupsRight
<1>1. Inv => GroupsRight
  BY TopologyFacts DEF Inv, Graphs
<1> QED BY <1>1, Invariance, PTL

=============================================================================

----------------------------- MODULE Ingestion ------------------------------
(***************************************************************************)
(* Alert ingestion: Alertmanager deliveries are applied by several API     *)
(* replicas, each in one transaction under an advisory lock, while         *)
(* operators close and create incidents and the catalog grows.  One        *)
(* environment.  An alert is its dedupe key <<service, name>>.             *)
(***************************************************************************)
EXTENDS Catalog

CONSTANTS Alerts, Ids, Replicas,
          ManualServices,    \* services for which operators create incidents
          InitialEdges, Upserts,  \* dependencies known at the start, and found later
          Window,            \* grouping.Window
          StaleAfter,        \* grouping.AlertStaleAfter
          MaxTime,           \* bound on the clock
          MaxDeliveries,     \* bound on the deliveries begun
          MaxAlerts          \* bound on the alerts of a delivery
CONSTANT None

ASSUME IngestionAssumption ==
    /\ ManualServices \cup {k[1] : k \in Alerts} \subseteq Services
    /\ InitialEdges \cup Upserts \subseteq Services \X Services
    /\ Window \in Nat /\ StaleAfter \in Nat

VARIABLES
    incidents,    \* incidents and incident_alerts, as committed
    status,       \* incidents.status: "none" (no such row), "open", "closed"
    tx,           \* per replica: the delivery in progress
    now,          \* the clock
    deliveries

vars == <<edges, incidents, status, tx, now, deliveries>>

Manual(service) == <<service, "manual">>
Inferred(service) == <<service, "topology">>
Quiet == [status |-> "none", seen |-> 0]
NewRow(service, key) ==
    [root |-> service, key |-> key, seen |-> now, cleared |-> FALSE, alerts |-> [k \in Alerts |-> Quiet]]
NoRow == [root |-> None, key |-> None, seen |-> 0, cleared |-> FALSE, alerts |-> [k \in Alerts |-> Quiet]]

\* left: the resolved alerts still to apply; rows: what the transaction has
\* written; closed: the incidents that operators closed while it ran.
Idle == [pc |-> "idle", at |-> 0, firing |-> {}, left |-> {}, graph |-> {}, open |-> {},
         groups |-> <<>>, rows |-> [i \in {} |-> NoRow], target |-> None, key |-> None, closed |-> {}]

Init ==
    /\ edges = InitialEdges
    /\ incidents = [i \in Ids |-> NoRow]
    /\ status = [i \in Ids |-> "none"]
    /\ tx = [r \in Replicas |-> Idle]
    /\ now = 1
    /\ deliveries = 0

-----------------------------------------------------------------------------
(* What a transaction reads: the committed rows under its own.             *)

row(r, i) == IF i \in DOMAIN tx[r].rows THEN tx[r].rows[i] ELSE incidents[i]
Written(r, i, new) == [j \in DOMAIN tx[r].rows \cup {i} |-> IF j = i THEN new ELSE tx[r].rows[j]]
Exists(r, i) == status[i] # "none" \/ i \in DOMAIN tx[r].rows
Unused(i) == status[i] = "none" /\ \A r \in Replicas : i \notin DOMAIN tx[r].rows

Firing(incident, key) == incident.alerts[key].status = "firing"
Fresh(incident, key, at) == Firing(incident, key) /\ incident.alerts[key].seen + StaleAfter >= at

\* Mutant: closed incidents take alerts too.
ActiveWhateverStatus(r, i) ==
    /\ Exists(r, i)
    /\ \/ \E k \in Alerts : Fresh(row(r, i), k, tx[r].at)
       \/ row(r, i).seen + Window >= tx[r].at

activeForGrouping(r, i) ==
    /\ Exists(r, i) /\ status[i] # "closed"
    /\ \/ \E k \in Alerts : Fresh(row(r, i), k, tx[r].at)
       \/ row(r, i).seen + Window >= tx[r].at

MostRecent(r, found) == {i \in found : \A j \in found : row(r, i).seen >= row(r, j).seen}
Carries(incident, key) == incident.key = key \/ (key \in Alerts /\ incident.alerts[key].status # "none")
FindOpenByDedupeKey(r, key) ==
    MostRecent(r, {i \in Ids : activeForGrouping(r, i) /\ Carries(row(r, i), key)})
FindIncidentForResolvedAlert(r, key) ==
    MostRecent(r, {i \in Ids : status[i] = "open" /\ Firing(row(r, i), key)})

-----------------------------------------------------------------------------
(* A delivery.  now() is the time the transaction began, which is before   *)
(* it has waited for the lock.                                             *)

Goto(r, fields) == tx' = [tx EXCEPT ![r] = fields]
TxOnly == UNCHANGED <<edges, incidents, status, now, deliveries>>

\* One alert may be in both lists: it is resolved first.
Begin(r) ==
    /\ tx[r].pc = "idle" /\ deliveries < MaxDeliveries
    /\ \E firing, resolved \in SUBSET Alerts :
          /\ Cardinality(firing) + Cardinality(resolved) \in 1..MaxAlerts
          /\ Goto(r, [Idle EXCEPT !.pc = "wait", !.at = now, !.firing = firing, !.left = resolved])
    /\ deliveries' = deliveries + 1
    /\ UNCHANGED <<edges, incidents, status, now>>

\* Mutant: the lock is not taken.
LockNothing(r) ==
    /\ tx[r].pc = "wait"
    /\ Goto(r, [tx[r] EXCEPT !.pc = "resolve"])
    /\ TxOnly

LockIncidentIngestion(r) ==
    /\ tx[r].pc = "wait"
    /\ \A q \in Replicas : tx[q].pc \in {"idle", "wait"}
    /\ Goto(r, [tx[r] EXCEPT !.pc = "resolve"])
    /\ TxOnly

\* resolveAlert, up to the update: the alert may be firing on no open incident.
FindResolved(r, k) ==
    /\ tx[r].pc = "resolve" /\ k \in tx[r].left
    /\ LET found == FindIncidentForResolvedAlert(r, k)
       IN  \/ /\ found = {}
              /\ Goto(r, [tx[r] EXCEPT !.left = @ \ {k}])
           \/ \E i \in found : Goto(r, [tx[r] EXCEPT !.pc = "mark", !.target = i, !.key = k])
    /\ TxOnly

MarkAlertResolved(incident, k, at) ==
    [incident EXCEPT !.alerts[k] = [status |-> "resolved", seen |-> at], !.seen = at]
\* If no alert is left.
MarkAlertsCleared(incident, at) ==
    [incident EXCEPT !.cleared = @ \/ \A k \in Alerts : ~Fresh(incident, k, at)]

MarkResolved(r) ==
    LET i == tx[r].target
        marked == MarkAlertResolved(row(r, i), tx[r].key, tx[r].at)
    IN  /\ tx[r].pc = "mark"
        /\ Goto(r, [tx[r] EXCEPT !.pc = "resolve", !.left = @ \ {tx[r].key}, !.target = None, !.key = None,
                                 !.rows = Written(r, i, MarkAlertsCleared(marked, tx[r].at))])
        /\ TxOnly

\* The dependencies, the groups of the alerts and the incidents they may join.
List(r) ==
    /\ tx[r].pc = "resolve" /\ tx[r].left = {}
    /\ LET graph == New(edges)
           groups == Groups(graph, {k[1] : k \in tx[r].firing})
       IN  Goto(r, [tx[r] EXCEPT !.pc = "group", !.graph = graph, !.groups = groups,
                                 !.open = {i \in Ids : activeForGrouping(r, i)}])
    /\ TxOnly

-----------------------------------------------------------------------------
(* findOrCreateTopologyIncident, for the next group.                       *)

Grouping(r) == tx[r].pc = "group" /\ tx[r].groups # <<>>
Group(r) == Head(tx[r].groups)
alertsForGroup(r) == {k \in tx[r].firing : k[1] \in Group(r).members}
rootAlertForGroup(r) ==
    LET observed == {k \in alertsForGroup(r) : k[1] = Group(r).root}
    IN  IF observed = {} THEN {Inferred(Group(r).root)} ELSE observed

Distance(r, from, to) == Len(Path(tx[r].graph, from, to))
Nearest(distance) ==
    LET found == {i \in DOMAIN distance : distance[i] > 0}
    IN  {i \in found : \A j \in found : distance[i] <= distance[j]}
SameRoot(r) == {i \in tx[r].open : row(r, i).root = Group(r).root}

\* Mutant: the two directions are exchanged.
SwappedUpstream(r) == Nearest([i \in tx[r].open |-> Distance(r, row(r, i).root, Group(r).root)])

\* relatedOpenIncident; which of several at one distance depends on started_at.
Upstream(r) == Nearest([i \in tx[r].open |-> Distance(r, Group(r).root, row(r, i).root)])
Downstream(r) == Nearest([i \in tx[r].open |-> Distance(r, row(r, i).root, Group(r).root)])
Joinable(r) == IF SameRoot(r) # {} THEN SameRoot(r) ELSE Upstream(r)

ToAttach(r, i, rows) == Goto(r, [tx[r] EXCEPT !.pc = "attach", !.target = i, !.rows = rows])

Join(r) ==
    /\ Grouping(r)
    /\ \E k \in rootAlertForGroup(r) :
          LET exact == FindOpenByDedupeKey(r, k)
          IN  \E i \in IF exact # {} THEN exact ELSE Joinable(r) : ToAttach(r, i, tx[r].rows)
    /\ TxOnly

PromoteIncidentRoot(r) ==
    /\ Grouping(r) /\ Joinable(r) = {}
    /\ \E k \in rootAlertForGroup(r) :
          /\ FindOpenByDedupeKey(r, k) = {}
          /\ \E i \in Downstream(r) :
                ToAttach(r, i, Written(r, i, [row(r, i) EXCEPT !.root = Group(r).root, !.key = k]))
    /\ TxOnly

CreateAlertIncident(r) ==
    /\ Grouping(r) /\ Joinable(r) = {} /\ Downstream(r) = {}
    /\ \E k \in rootAlertForGroup(r) :
          /\ FindOpenByDedupeKey(r, k) = {}
          /\ \E i \in Ids : Unused(i) /\ ToAttach(r, i, Written(r, i, NewRow(Group(r).root, k)))
    /\ TxOnly

\* Mutant: the incident stays cleared.
MarkAlertsFiringOnly(incident, alerts, at) ==
    [incident EXCEPT !.seen = at,
                     !.alerts = [k \in Alerts |-> IF k \in alerts THEN [status |-> "firing", seen |-> at] ELSE @[k]]]

\* MarkAlertFiring, for every alert of the group.
MarkAlertsFiring(incident, alerts, at) ==
    [incident EXCEPT !.seen = at, !.cleared = FALSE,
                     !.alerts = [k \in Alerts |-> IF k \in alerts THEN [status |-> "firing", seen |-> at] ELSE @[k]]]

attachTopologyAlerts(r) ==
    LET i == tx[r].target
    IN  /\ tx[r].pc = "attach"
        /\ Goto(r, [tx[r] EXCEPT !.pc = "group", !.target = None, !.groups = Tail(@), !.open = @ \cup {i},
                                 !.rows = Written(r, i, MarkAlertsFiring(row(r, i), alertsForGroup(r), tx[r].at))])
        /\ TxOnly

-----------------------------------------------------------------------------
(* The end of a delivery.                                                  *)

Commit(r) ==
    /\ tx[r].pc = "group" /\ tx[r].groups = <<>>
    /\ incidents' = [i \in Ids |-> row(r, i)]
    /\ status' = [i \in Ids |-> IF i \in DOMAIN tx[r].rows /\ status[i] = "none" THEN "open" ELSE status[i]]
    /\ Goto(r, Idle)
    /\ UNCHANGED <<edges, now, deliveries>>

\* An error, a deadlock victim or a crash.
Rollback(r) == tx[r].pc # "idle" /\ Goto(r, Idle) /\ TxOnly

-----------------------------------------------------------------------------
(* The rest of the API, and time.                                          *)

\* Waits for the row locks of a delivery.
TransitionIncident(i) ==
    /\ status[i] = "open" /\ \A r \in Replicas : i \notin DOMAIN tx[r].rows
    /\ status' = [status EXCEPT ![i] = "closed"]
    /\ tx' = [r \in Replicas |-> IF tx[r].pc = "idle" THEN tx[r] ELSE [tx[r] EXCEPT !.closed = @ \cup {i}]]
    /\ UNCHANGED <<edges, incidents, now, deliveries>>

CreateManual(i, service) ==
    /\ Unused(i)
    /\ incidents' = [incidents EXCEPT ![i] = NewRow(service, Manual(service))]
    /\ status' = [status EXCEPT ![i] = "open"]
    /\ UNCHANGED <<edges, tx, now, deliveries>>

Upsert == \E e \in Upserts : UpsertServiceDependency(e[1], e[2]) /\ UNCHANGED <<incidents, status, tx, now, deliveries>>

Tick == now < MaxTime /\ now' = now + 1 /\ UNCHANGED <<edges, incidents, status, tx, deliveries>>

Deliver(r) ==
    \/ Begin(r) \/ LockIncidentIngestion(r) \/ MarkResolved(r) \/ List(r)
    \/ \E k \in Alerts : FindResolved(r, k)
    \/ Join(r) \/ PromoteIncidentRoot(r) \/ CreateAlertIncident(r) \/ attachTopologyAlerts(r)
    \/ Commit(r) \/ Rollback(r)

Next ==
    \/ \E r \in Replicas : Deliver(r)
    \/ \E i \in Ids : TransitionIncident(i) \/ \E service \in ManualServices : CreateManual(i, service)
    \/ Upsert \/ Tick

Spec == Init /\ [][Next]_vars

-----------------------------------------------------------------------------
(* Properties.                                                             *)

TypeOK ==
    /\ edges \subseteq Services \X Services
    /\ \A i \in Ids : /\ incidents[i].root \in Services \cup {None} /\ incidents[i].seen \in 0..MaxTime
                       /\ status[i] = "none" <=> incidents[i] = NoRow
    /\ now \in 1..MaxTime

Consistent(incident) ==
    LET attached == {k \in Alerts : incident.alerts[k].status # "none"}
    IN  /\ incident.cleared => \A k \in attached : ~Fresh(incident, k, now)
        /\ attached # {} /\ (\A k \in attached : ~Firing(incident, k)) => incident.cleared

\* An incident's alerts_cleared_at says what its alerts say, whatever order
\* firing and resolved notifications are applied in: while it is set no alert
\* that is not stale fires, and it is set once no alert fires any more.
ClearedRight == \A i \in Ids : Consistent(incidents[i])

\* The service of every alert of an incident depends on the incident's root, also
\* after promotions and when an alert is found by its dedupe key: ingest never
\* has to invent a path.
AlertsReachRoot ==
    \A i \in Ids, k \in Alerts :
        incidents[i].alerts[k].status # "none" => Path(New(edges), k[1], incidents[i].root) # NoPath

\* No delivery opens an incident for a root, or promotes one to it, while an open
\* incident with this root has an alert firing that is not stale.
NoSecondIncident ==
    [][\A i, j \in Ids :
          /\ incidents'[i].root # incidents[i].root
          /\ incidents'[i].key # Manual(incidents'[i].root)
          /\ j # i /\ status[j] = "open" /\ incidents[j].root = incidents'[i].root
          => \A k \in Alerts : ~Fresh(incidents[j], k, now)]_vars

\* A delivery leaves each of its firing alerts firing on one incident, and this is
\* open unless an operator closed it while the delivery was applied.  On the
\* other incidents it writes it does not touch this alert, or resolves it.
AlertsAttached ==
    [][\A r \in Replicas : Commit(r) =>
          \A k \in tx[r].firing : \E i \in DOMAIN tx[r].rows :
              /\ incidents'[i].alerts[k] = [status |-> "firing", seen |-> tx[r].at]
              /\ status'[i] = "open" \/ i \in tx[r].closed
              /\ \A j \in DOMAIN tx[r].rows \ {i} :
                    tx[r].rows[j].alerts[k] \in {incidents[j].alerts[k], [status |-> "resolved", seen |-> tx[r].at]}]_vars

\* A resolved notification marks the alert resolved on the open incident where
\* it is firing: it fires on no other one.
ResolvedClears ==
    [][\A r \in Replicas : MarkResolved(r) =>
          \A i \in Ids : status[i] = "open" /\ Firing(row(r, i), tx[r].key) => i = tx[r].target]_vars

\* If an alert fires again within the grouping window the same incident is
\* reused.
RefireReused ==
    [][\A r \in Replicas : Commit(r) =>
          \A k \in tx[r].firing, i \in Ids :
              /\ status[i] = "open" /\ incidents[i].cleared /\ incidents[i].seen + Window >= tx[r].at
              /\ incidents[i].alerts[k].status = "resolved"
              => Firing(incidents'[i], k)]_vars

=============================================================================

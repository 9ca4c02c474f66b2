# Argus in TLA+

Argus is a control plane for incidents: API replicas turn Alertmanager deliveries into incidents, produce root cause
reports, propose remediations, have people approve them, and hand them to workers or to Helios for execution. All
replicas share one PostgreSQL database; jobs travel through NATS JetStream. The project models the parts of Argus in which
several processes act on the same rows and messages, checks them with TLC on small instances, and proves with
TLAPS the results that matter most for every instance.

## 1. The system

| Part | State | Operations | What makes it hard |
|---|---|---|---|
| Remediations (`internal/remediation`) | `remediation_actions`, `remediation_dispatches` (outbox) | propose, execute, cancel, publish, reconcile, redispatch | compare-and-swap on a status that was read earlier; publish and commit are not atomic; re-sends |
| Workers (`internal/workers`) | JetStream consumer, `worker_heartbeats`, job slots | fetch, claim, run, retry, time out, finish | redelivery while a job runs, crashes, handlers that outlive their timeout |
| Control state (`internal/workers/control_state.go`) | `remediation_target_states`, `remediation_execution_receipts` | `ApplyOnce`, `Preview` | two advisory locks per call, hash collisions, lost commit answers |
| Dead letters (`internal/queue`, `internal/api/deadletters.go`) | dead-letter stream | replay, discard | a letter that outlives its replay |
| Helios (`executor.go`, `helios_reconcile.go`) | the row, and workflows in another system | submit, poll, record, release, adopt, resubmit, cancel | lost answers, deaths between call and record, late outcomes |
| Approvals (`internal/approvals`) | `approval_requests` | request, decide, cancel, expire, escalate | every replica sweeps; deadlines race decisions |
| Incidents (`internal/incidents`, `internal/rca`) | `incidents`, `rca_reports` | acknowledge, resolve, analyse, propose | a call is a series of transactions |
| Policy (`internal/policy`, `internal/actions`) | none | evaluate | risk and history limits |
| Ingestion (`internal/incidents`) | `incidents`, `incident_alerts` | deliver, create by hand, close | two replicas, stale reads, order of firing and resolved |
| Topology (`internal/topology`) | none | `Path`, `Groups` | cycles, shared dependencies, greedy choice |
| Root cause scores (`internal/rca`, `internal/correlation`, `internal/evidence`) | none | match, probe, score, rank, render | weights, caps and ranking interact; backends may not answer |
| Migrations (`internal/db`, `migrations`) | `schema_migrations`, the schema, an advisory lock | apply, verify, plan | replicas of two builds start together, and die or lose the lock half way |
| Audit ledger (`internal/audit`) | `audit_logs`, `audit_chain_state`, a gauge | append, verify, migrate | concurrent appends, snapshots, interrupted backfill |

How they interact: ingestion opens the incident; an RCA report and the policy lead to remediation rows; those that
need it get an approval request; execution reserves the row and either writes an outbox job for the workers or
submits a Helios workflow; every one of these writes audit entries in its transaction. The properties that
the parts owe to each other are about the remediation's `status`. It is the interface: `RemediationLifecycle`
specifies it, the pipeline and the approvals are shown to implement it, and `IncidentResponse` uses the same
transition table for what others do to a remediation.

One status change is not in the table of `states.go`: when an executor that reports to its caller fails, `Service.Execute`
releases the reservation (`service.go:341-350`), and the row goes back from queued to approved by an update of its own
(`incidents/store.go:933-943`) that asks nobody. It only happens with Helios. `RemediationLifecycle` therefore has it as an
action of its own, allowed by the constant `Synchronous`: the pipeline, whose workers do not report, implements the lifecycle
without it, `Approvals`, which knows no executor, the one with it.

PROJECT.json lists every component, modelled or not, and the hazards, each at the line where it bites.

## 2. The modules

| Module | Models | Shape |
|---|---|---|
| `RemediationStates` | `states.go` | the transition table and classes of states |
| `RemediationLifecycle` | what `states.go` promises, and the release it lacks | abstract specification: a status follows the table, or goes back from queued to approved with an executor that reports to the call (`Release`); the target changes at most once and only after a claim |
| `RemediationPipeline` | `Service.Execute/Cancel`, `dispatch.go`, `runner.go`, dead-letter API | rows, outbox, stream with consumer state, job slots, receipts; one action per step between two transactions or messages |
| `Approvals` | `approvals/service.go`, `store.go` | a call reads, then runs its transaction; a sweep works through a list it read earlier; what executors do to the remediation meanwhile, statement by statement of the incidents store |
| `ControlStateSpec`, `ControlState` | `control_state.go` | atomic store; and the transaction statement by statement with its locks |
| `Policy`, `IncidentResponse` | `policy/engine.go`, `Propose`, RCA, state changes of incidents | calls as sequences of statements that may stop anywhere |
| `AuditChain` | `audit/*.go`, the verification loop | writers with uncommitted rows, verifiers with a snapshot, the migration |
| `Topology` | `graph.go` | operators on a graph given as its set of edges, and what callers rely on (`IsGrouping`) |
| `Catalog` | `UpsertServiceDependency`, and what the graph of the catalog promises | the edges as they are upserted; reference definitions by sets closed under dependency and by walks |
| `Scoring` | `correlation/*.go`, scoring and rendering in `rca/service.go`, probe outcomes of `evidence.go` | the report as a function of the alerts and of what each probe answered |
| `MCAnalysis` | | composes `Catalog` and `Scoring`: steps through all small graphs, and through all alerts and probe answers |
| `Ingestion` | `Ingest` with all it calls, manual incidents, closing | a delivery is a transaction under a lock, on the graph of the `Catalog` as it reads it; closing and upserts do not take the lock |
| `Migrations` | `db.Run` in both modes, `migrations.go`, what a process does when it fails | processes of several builds, the lock with its FIFO queue, sessions that are lost unnoticed |
| `HeliosExecution` | `HeliosExecutor`, `ReconcileHelios`, the synchronous branch of `Execute` | API calls and the reconciler as processes; Helios as a list of workflows |
| `*Proofs` | | theorems and proofs about the module they extend |
| `MC*` | | instances for TLC |

An action stands for what happens between two points at which others can interfere: one database transaction, one
call to another system, or one statement where the code uses no transaction. A process may stop at each of them.
A definition whose comment says `Mutant` is a plausible mistake in the definition that follows it; it is used by no
specification and only shows that a property would notice.

**Time.** Where a deadline only decides *whether* something is due (job timeouts, AckWait, RedispatchAfter,
RunningStaleAfter, SubmitLostAfter), it may pass at any moment; the model then has every order the clocks allow, and some
they do not. Where two deadlines are compared (approvals, stale alerts), there is a small clock.

**External systems**, modelled from how the code uses them: JetStream stores, may store twice, redelivers,
gives up after MaxDeliver with an advisory and drops by age. PostgreSQL is transactions, row locks and advisory
locks; a transaction's answer may be lost. Helios creates and ends workflows and may fail before or after it acted.

## 3. The runs

Runs that pass:

| Run | Question | Bounds, and why they suffice |
|---|---|---|
| `pipeline_safety` | Who executes, what takes effect and how it ends, and that the pipeline implements the lifecycle | one remediation (rows do not interact), every kind of handler, two slots, two deliveries, one re-send: two executions of the same job overlap, with a retry, a crash and a cancellation |
| `pipeline_liveness` | Does the outbox keep the job, are re-sends bounded, does a queued or running remediation end | one slot, one replay: a count is reset once and has to reach the bound again; one kind of handler, as the kinds differ in what they do to the target and not in how a job ends |
| `approvals_safety` | One decision, by another person, in time, mirrored in the remediation through reservation, release, claim and end; does the remediation follow the lifecycle | two replicas, two people, a clock that passes both deadlines |
| `approvals_liveness` | Does every request end | one replica that may die in any sweep |
| `control_state` | Does `ApplyOnce` implement the atomic store, who waits for whom, does every call end | three calls, two keys with one target and one with another, and the crossing collision: a key with the other's target and that one's key with the first one's |
| `response` | Incident status, policy and limits under overlapping calls | two calls, three rows of one action, one more than the policy lets through; the action is of medium risk and its rule claims it is low |
| `audit` | Migration of an old ledger, appends, verdicts and the alarm | two old rows and two new ones, two writers, two verifiers, so that a stale verdict can come last |
| `analysis` | `Path` and `Groups` against reference definitions; are confidence and candidates of a report backed by its evidence | every graph of four services with up to six edges and every set of alerts; every pair of alerts (one decides the service, two compete for it) and every answer of the backends |
| `ingestion` | Cleared marks, paths, second incidents, and where alerts end up | two replicas, a service and its dependency, two deliveries that overlap or follow each other, each with any of the alerts in one list or in both, and three instants: an alert seen at the first is stale at the third |
| `helios` | Truth and finality of what is recorded, and does a remediation given to Helios get settled | one call at a time beside the reconciler and an operator, two reservations, so that one is released and taken again, and two workflows |
| `migrations` | Is the schema what the table says, is a plan still right when it is carried out, does a process start only on a schema it knows, does every run end | three processes of two builds, the new one with a compatible and a breaking migration; a new database, and one where a file was edited after it was applied |

What the instances leave to the proofs, which hold for all values: jobs that JetStream stores twice (`MaxDuplicates`),
replays beside retries and repeated replays, several actions of one incident, more than three rows, two overlapping calls to Helios, any number of
processes, builds and migrations, of services, alerts and deliveries (with two, an alert does not fire, resolve and fire again).

Symmetry is used only in safety runs, over replicas, slots, calls and ids that the code does not order.
`CHECK_DEADLOCK FALSE` is set for analysis, ingestion and Helios, where a bound or the end of the work stops the
system; in the other passing runs no reachable state is stuck.

`response_again_doc` ends in a violation. Ten minutes after a remediation was created its row no longer counts, the attempt
number and with it the idempotency key repeat, and proposing the action again fails on the UNIQUE constraint. The finding
in PROJECT.json quotes the message that tells operators to propose again.

The modules state more sentences of the documentation that the code does not keep to the letter. They are in no run;
each is refuted by TLC when its name is put into the configuration of the run of its module in place of the properties
there, and `FairSpec` replaced by `Spec` (for `Ingestion`, with `Services = {1, 2, 3}`, `Alerts <- OneEach`,
`InitialEdges <- TwoRoots`, `Window = 1`, three deliveries, no manual incidents and one replica):

| Definition | What the document says | What the code does |
|---|---|---|
| `ReplayOnlyQueued` (with `MaxReplays = 1`) | `docs/remediation-safety.md:25` "replay only re-sends a still-queued remediation" | `Redispatch` also accepts a running one |
| `EveryChangeAudited` | `docs/remediation-safety.md:8` "every state change commits in one transaction with its audit entry" | the claim writes none; `docs/threat-model.md:92` names this exception (what the ledger does say of an end is `EndIsAudited`, proved) |
| `NotifiedOnce` | `docs/remediation-safety.md:15` "pending requests escalate once" | two replicas may both send; `docs/threat-model.md:54` concedes it |
| `GaugeCountsPending` (in `ApprovalsLiveness.cfg`) | `telemetry/metrics.go:139` "Current number of remediation approvals waiting" | a decision that comes too late expires the request without lowering the gauge |
| `DispatchOnlyOpen` | `docs/incident-lifecycle.md:31` "cannot be dispatched for a resolved or cancelled incident" | the incident is read before the reservation, and may be closed in between |
| `NoDuplicateExecution` | `docs/remediation-safety.md:18` "idempotency keys prevent duplicate execution" | overlapping proposals may let the same action through as two attempts |
| `SharedDependencyOneGroup` | `docs/incident-lifecycle.md:43` "Alerts that share a reachable upstream dependency become one topology group" | with 1 -> 2, 1 -> 3 and alerts on all three, 3 is a group of its own |
| `ResolvedClears` | `docs/incident-lifecycle.md:39` resolved "on the open incident where it is firing" | an alert can fire on two open incidents, and is resolved on one |
| `RefireReused` | `docs/incident-lifecycle.md:39` "the same incident is reused" | an alert that fires again with another root opens another incident |
| `CancelNotExecuting` | `incidents/store.go:899` "a cancel can never land on an action that is already executing" | a remediation stays queued while Helios executes it |
| `AdoptsLostSubmission` | `docs/threat-model.md:59` "the reconciler adopts the workflow Helios created" | it may adopt the workflow of an earlier submission, possibly of the other dry-run mode |
| `NeverServesUnknown` | `docs/kubernetes.md:19` "A pod therefore never serves traffic against a schema it does not know" | the schema is checked at the start; a pod that is already serving is not stopped when a newer build applies a breaking migration |

**Fairness.** It is only assumed of what the code repeats for ever: the dispatcher's poll and the reconciler's ticker
(`EventuallyEnds`), restarts of workers by their supervisor, the approval sweep (`RequestEnds`), the verification loop
(`AlarmRaised`), the Helios reconciler (`EventuallySettled`). Strong fairness stands for "a repeated attempt is
not interrupted every time": a replica may die in a sweep, not in all of them. Nothing is assumed of jobs, handlers, people,
Helios workflows or API calls; but Helios is taken to answer, sooner or later, when it is asked about a workflow it created
(`docs/threat-model.md:58`: while it does not, nothing is settled). For `RunEnds` a process that holds the migration lock goes on, and the lock is granted in the
order of the requests, as PostgreSQL's queue does. For `CallEnds` statements finish, and PostgreSQL aborts some transaction of a deadlock.

A consequence seen on the way: `TwoAttempts` together with the reuse of idempotency keys means that the policy's
limit on failed attempts is hardly ever what denies a proposal.

## 4. The proofs

Eight modules hold theorems; all are checked by TLAPS to the last leaf, from the named assumptions on constants
(`PipelineAssumption`, `ApprovalsAssumption`, `ControlStateAssumption`, `ResponseAssumption`, `AuditAssumption`,
`ServicesAssumption`, `IngestionAssumption`, `FilesAssumption`), which say that bounds are natural numbers, sets finite where
counted, deadlines ordered as the configuration demands, and the migrations of a build a sequence. Each follows the same
argument: `Init => Inv`, every action keeps `Inv` (one step per action), `Inv` implies the property. TLC confirms each `Inv`
on the instance of the module's run when it is put into the configuration (those of `Migrations`, `Ingestion` and `Scoring`
are in the proof modules).

* **`RemediationPipelineProofs`.** `CancelledNeverExecutes` is not inductive: a slot that checked the job may claim it later.
  `Inv` adds that a receipt, a late handler or a running handler implies a claim, and a claimed row can neither be
  cancelled nor reserved again; that a slot that saw success has its receipt; that a remediation has one
  `execute` row, and rows are skipped only after its end. From it: `CancelSafety`, `EffectSafety`, `DryRunSafety`,
  `SuccessSafety`, `OutboxSafety`, `AuditSafety`, `EndSafety`, `RedispatchSafety` and `Refinement` (the pipeline implements
  `RemediationLifecycle`). `AuditSafety` is inductive relative to `Inv`. An entry is either written in the transaction of the
  change it is about, or afterwards by a worker that names the status it read and only logs a failure (`Record`); the
  latter may come late or never, so the proof shows that such a status is no end, or the end the remediation is in
  (`RecordStep`, `TransitionStep`), and that ends do not change.
* **`ApprovalsProofs`.** `Inv` adds what calls in flight have already made sure of (separation of proposer and approver).
  `ApprovalSafety`, `ConsistencySafety`, `DecisionSafety`, `ApprovalsRefinement` (for the lifecycle with the release).
* **`ControlStateProofs`.** `Inv` says which locks a transaction holds at each statement and that what it read is still so.
  `AnswerSafety`, `StoreRefinement` (implements the atomic store, collisions included), and `NoDeadlock`: a set of calls
  waits in a circle only if a key of theirs collides with a target of theirs, as every call locks its key before its target.
* **`IncidentResponseProofs`.** `Inv` carries what a call found, counted and decided up to the statement that uses it, and that
  attempts of an action differ. `StatusSafety`, `RiskSafety`, `AttemptSafety`, `IncidentSafety`, `QuietSafety`.
  The module also proves `Scoring`'s properties, for any alerts and any answers. `ReportInv` says that the report is the
  one of the alerts and answers at hand; the rest is about the operators. Some rule ranks before all the others
  (`BestExists`, as `RanksBefore` is a total order on different rules) and that one is reported, with a confidence below its cap;
  `ReportSafety` follows from what a cap needs (`CapBacked`). For `EvidenceSafety` one more answer moves the score of its rule
  only, and in one direction (`ScoreMonotone`), so the best rule can only be overtaken by the corroborated one. That this does
  not lower the score depends on the weights in `DefaultRules`: a rule that overtakes a contradicted one ranks
  first whatever the two scores are, but a contradicted hypothesis never scores above 0.50 (`ContradictedLow`) and one with a
  corroborated probe that is not contradicted never below (`Corroborated`).
* **`AuditChainProofs`.** The committed ledger is valid exactly when it was not altered; whoever holds the head extends it; a
  snapshot is valid exactly when it was taken before an alteration. `VerdictSafety`, `BackfillSafety`, `RewriteSafety`. That
  a commit keeps the rows others committed is no matter of its form (its rows would replace them): it follows from the
  lock on the head, the compare-and-swap that advances it and the unique position.
* **`HeliosExecutionProofs`.** What a process is about to record has to stay true until it records it. It does
  because workflows are only added, an ended one never changes and a request to cancel is never taken back (`Forward`), and
  what a status says of a workflow is stable under that (`ReflectsKeeps`). Of a timed-out remediation it only says that
  Helios was asked to cancel its workflow: the code does not wait for it to end. `OutcomeSafety`, `EndSafety`.
* **`MigrationsProofs`.** `Inv` ties what a process read to the lock that keeps it so, and a plan to the prefix of the build's
  files that is already applied. `SchemaSafety`, `PlanSafety`, `MigratesAlone`, `StartSafety`.
* **`IngestionProofs`.** `Inv` describes a delivery under way: until the groups are known its rows only have alerts resolved;
  then an alert is on none of its rows before its group is attached and on exactly one afterwards (`AlertInv`), an open
  incident it does not know of has no fresh alert (`UnlistedInv`), a row was moved only to a root that no other such incident
  has (`MovedInv`), and no group that is left has a root that was given up (`FormerInv`). What others do meanwhile (operators,
  manual incidents, the clock, the catalog) keeps all this (`BesideInv`). `ClearedSafety`, `SecondIncidentSafety`,
  `AttachedSafety`. For `RootSafety` a second invariant, `RootedInv`, says that every alert of a row depends on the row's root,
  in the catalog or in the graph that the delivery read, which is part of the catalog: edges are only added. It is kept because
  a group joins an incident upstream of its root, or takes one over that is downstream (`NearestLinked`), and dependency is
  transitive. A delivery rests on what `Path` and `Groups` return, so `TopologyFacts` comes first; `PathSafety` and
  `GroupsSafety` follow from it, for every catalog that the upserts lead to.

`TopologyFacts` is about folds over finite sets, for any finite set of services and any edges, with cycles. The library's
induction theorems take an operator as a parameter, which no installed prover can instantiate; the proof therefore speaks of
*sets*: a set of subsets that contains `U` whenever it contains all proper subsets of `U` contains all (`SetInduction`), and a
function that is defined by such a recursion exists (`SetRecursion`), both from the well-foundedness of the natural numbers.
Two invariants carry it:

* The breadth-first search of `Path` takes up paths in order, shorter ones first and among those of one length by names
  (`Before`). While it runs (`Searching`, and `Visiting` within one `Expand`), everything visited is a dependency; the
  dependencies of what was visited are visited, unless it is still in the queue; and the queue holds in order paths that are
  each the first to their end (`Least`), each one step longer than one taken up before. A walk to a service not yet visited
  therefore has a part that comes no earlier than the path taken up (`Frontier`), so the path that first reaches a service is the
  first to it (`NextLeast`). No more paths are taken up than services visited, so the fold over their number is long enough.
* `Groups` takes in each round the candidate that covers most, which covers at least one service; whatever depends on a root
  is in its group, so a root chosen later cannot depend on one chosen earlier, and the earlier one not on the later one, which
  would have covered more (`Grouped`, `GroupStep`).

Only model-checked: liveness, as TLAPS handles neither fairness nor `ENABLED`.

## 5. What is abstracted, and what is not modelled

* Several rows are one where they do not interact; batch limits (50, 100, 500) are not modelled, except that Helios's
  lookup may miss.
* SHA-256 is injective, and `hashtext` is not. A JSON number of an audit entry is assumed to come back from `jsonb` as it was
  written (it does not if it has an exponent).
* Evidence queries and the HTTP clients behind them, the advisory summary of a report and its status, the lint of migration
  files, formatting of notifications, authentication, configuration, metrics that carry no state, the
  command-line tools, the demo and the AI service: pure functions, I/O or wiring. PROJECT.json gives the reason for each.
* A remediation whose approval request was not inserted (the API died in between) waits in `awaiting_approval` until
  somebody proposes again or cancels it; the code has no sweep for it, and no property claims one.
* The head of the audit ledger is one row that every transaction with an entry locks, and ingestion takes its advisory lock
  before; no module composes these locks. Services are ids that exist; `EnsureService`, which inserts them, is left out.
* The entries that a released Helios reservation writes, and the dry-run mode, are not part of `HeliosExecution`.

## 6. What could come next

1. The lock order between ingestion, state changes of incidents and the audit head, and what an aborted transaction leaves.
2. The background summary and its status.
3. An audit ledger in `HeliosExecution` (entries of releases that changed nothing).
4. An abstract specification of ingestion that `Ingestion` implements.

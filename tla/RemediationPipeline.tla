------------------------ MODULE RemediationPipeline ------------------------
(***************************************************************************)
(* Execution of approved remediations by the local executor: the API       *)
(* reserves a remediation and writes its job to the outbox in one          *)
(* transaction, the dispatcher publishes outbox rows to JetStream, worker  *)
(* slots pull, claim, run and complete the jobs, the reconciler re-sends   *)
(* what got stuck, and operators cancel remediations and replay or discard *)
(* dead letters.  Any process may crash between two transactions, database *)
(* calls may fail (before or after they took effect), and JetStream may    *)
(* drop, duplicate or redeliver a message.                                 *)
(*                                                                         *)
(* Ages (RedispatchAfter, RunningStaleAfter, AckWait, JobTimeout, backoff) *)
(* are abstracted: a deadline may pass at any time, so the model has every *)
(* interleaving the clocks allow and more.                                 *)
(***************************************************************************)
EXTENDS Integers, Sequences, FiniteSets, RemediationStates

CONSTANTS
    Rems,             \* remediation_actions rows
    Kinds,            \* what the handler registry makes of their action types
    Workers,          \* job slots of the worker replicas
    MaxDeliver,       \* RunnerConfig.MaxDeliver
    MaxAttempts,      \* remediation_actions.max_attempts
    MaxRedispatches,  \* DispatcherConfig.MaxRedispatches
    MaxReplays,       \* bound: replays of dead letters per remediation
    MaxDuplicates     \* bound: messages JetStream stores a second time

\* "typed" handlers go through ApplyOnce, "static" ones change nothing,
\* "refused" fails Validate and "unhandled" has no handler registered.
HandlerKinds == {"typed", "static", "refused", "unhandled"}

ASSUME PipelineAssumption ==
    /\ Kinds \subseteq HandlerKinds
    /\ MaxDeliver \in Nat \ {0}
    /\ MaxAttempts \in Nat \ {0}
    /\ MaxRedispatches \in Nat \ {0}
    /\ MaxReplays \in Nat
    /\ MaxDuplicates \in Nat

VARIABLES
    kind,        \* action_type: what the workers' handler registry makes of it
    status,      \* remediation_actions.status
    dryRun,      \* remediation_actions.dry_run
    audited,     \* statuses the audit ledger has entries for, per remediation
    dispatch,    \* remediation_dispatches, per remediation in creation order
    stream,      \* ARGUS_REMEDIATION with the durable consumer's view of it
    dlq,         \* ARGUS_DEAD_LETTER: stream sequences of the jobs its letters name
    worker,      \* handleMessage, per job slot
    beat,        \* worker_heartbeats within WorkerLiveWindow
    late,        \* handlers whose transaction outlived their job timeout
    receipt,     \* remediation_execution_receipts
    applied      \* how often the target state was changed

rowVars == <<kind, status, dryRun, audited>>
brokerVars == <<stream, dlq>>
effectVars == <<late, receipt, applied>>
vars == <<rowVars, dispatch, brokerVars, worker, beat, effectVars>>

Rows == [reason: {"execute", "redispatch", "replay"},
         state: {"pending", "published", "skipped"}]
Messages == [rem: Rems, row: Nat, deliveries: Nat,
             state: {"ready", "inflight", "gone"}]
Executing == {"running", "ok", "err", "timedout"}
Slots == [pc: {"down", "idle", "fetched", "checked", "refused"} \cup Executing,
          msg: Nat, delivery: Nat]

Idle == [pc |-> "idle", msg |-> 0, delivery |-> 0]
RemOf(w) == stream[worker[w].msg].rem

TypeOK ==
    /\ kind \in [Rems -> Kinds]
    /\ status \in [Rems -> States]
    /\ dryRun \in [Rems -> BOOLEAN]
    /\ audited \in [Rems -> SUBSET States]
    /\ dispatch \in [Rems -> Seq(Rows)]
    /\ stream \in Seq(Messages)
    /\ dlq \in SUBSET Nat
    /\ worker \in [Workers -> Slots]
    /\ beat \in SUBSET Workers
    /\ late \in SUBSET Rems
    /\ receipt \in [Rems -> BOOLEAN]
    /\ applied \in [Rems -> Nat]

Init ==
    /\ kind \in [Rems -> Kinds]
    /\ status = [r \in Rems |-> "approved"]
    /\ dryRun = [r \in Rems |-> TRUE]
    /\ audited = [r \in Rems |-> {"approved"}]
    /\ dispatch = [r \in Rems |-> <<>>]
    /\ stream = <<>>
    /\ dlq = {}
    /\ worker = [w \in Workers |-> Idle]
    /\ beat = Workers
    /\ late = {}
    /\ receipt = [r \in Rems |-> FALSE]
    /\ applied = [r \in Rems |-> 0]
-----------------------------------------------------------------------------
(* Transactions on a remediation row.                                      *)

\* An audit entry that names a status: WriteTx in the transaction of its step,
\* or Record, whose failure is only logged.
WriteTx(r, s) == audited' = [audited EXCEPT ![r] = @ \cup {s}]
Record(r, s) == WriteTx(r, s) \/ UNCHANGED audited

\* A status change that commits together with its audit entry.
Transition(r, s) ==
    /\ status' = [status EXCEPT ![r] = s]
    /\ WriteTx(r, s)

\* CompleteRemediation and its audit entry: nothing is written when the
\* remediation already left queued and running.
CompleteRemediation(r, s) ==
    IF Dispatchable(status[r])
    THEN Transition(r, s)
    ELSE UNCHANGED <<status, audited>>

Enqueue(r, reason) ==
    dispatch' = [dispatch EXCEPT ![r] = Append(@, [reason |-> reason, state |-> "pending"])]

\* Mutant: the receipt is written but not looked up.
ApplyAgain(r) ==
    /\ receipt' = [receipt EXCEPT ![r] = TRUE]
    /\ applied' = [applied EXCEPT ![r] = @ + 1]

\* ApplyOnce: the receipt, the target state and the lock on the key commit in
\* one transaction; a repeat finds the receipt.
ApplyOnce(r) ==
    /\ receipt' = [receipt EXCEPT ![r] = TRUE]
    /\ applied' = [applied EXCEPT ![r] = IF receipt[r] THEN @ ELSE @ + 1]

-----------------------------------------------------------------------------
(* API.                                                                    *)

\* Mutant: a queued remediation can be reserved again.
ReservableTwice(r) == status[r] \in {"approved", "queued"}

\* MarkRemediationQueued
Reservable(r) == status[r] = "approved"

\* Mutant: the job is left to a later step instead of the outbox.
ExecuteWithoutJob(r, dry) ==
    /\ Reservable(r)
    /\ Transition(r, "queued")
    /\ dryRun' = [dryRun EXCEPT ![r] = dry]
    /\ UNCHANGED <<kind, dispatch, brokerVars, worker, beat, effectVars>>

\* Execute: the reservation, its audit entry and the outbox row commit
\* together.  The status it read earlier is checked again by the update; the
\* incident it read earlier is the subject of IncidentResponse.
Execute(r, dry) ==
    /\ Reservable(r)
    /\ Transition(r, "queued")
    /\ dryRun' = [dryRun EXCEPT ![r] = dry]
    /\ Enqueue(r, "execute")
    /\ UNCHANGED <<kind, brokerVars, worker, beat, effectVars>>

\* Execute finds it reserved, before or when it tries to reserve it.
ExecuteReused(r) ==
    /\ status[r] \in {"queued", "running", "succeeded"}
    /\ Record(r, status[r])
    /\ UNCHANGED <<kind, status, dryRun, dispatch, brokerVars, worker, beat, effectVars>>

\* Mutant: a running remediation can be cancelled.
CancellableRunning(r) == status[r] \in {"approved", "queued", "running", "cancelled"}

\* Cancel reads the status and then swaps exactly the status it read, so the
\* two steps act as one.  (awaiting_approval is cancelled by Approvals.)
Cancellable(r) == status[r] # "awaiting_approval" /\ CanTransition(status[r], "cancelled")

Cancel(r) ==
    /\ Cancellable(r)
    /\ Transition(r, "cancelled")
    /\ UNCHANGED <<kind, dryRun, dispatch, brokerVars, worker, beat, effectVars>>

-----------------------------------------------------------------------------
(* Dispatcher: publish one pending outbox row.                             *)

Copies(r, k) == {m \in DOMAIN stream : stream[m].rem = r /\ stream[m].row = k}
Message(r, k) == [rem |-> r, row |-> k, deliveries |-> 0, state |-> "ready"]

Duplicates == Len(stream) - Cardinality({<<stream[m].rem, stream[m].row>> : m \in DOMAIN stream})

\* JetStream stores the message unless it still remembers its id; a copy is
\* stored again only once the duplicate window has passed.
Stored(r, k) ==
    /\ Copies(r, k) = {} \/ Duplicates < MaxDuplicates
    /\ stream' = Append(stream, Message(r, k))
Deduplicated(r, k) ==
    /\ Copies(r, k) # {}
    /\ stream' = stream

Pending(r, k) == k \in DOMAIN dispatch[r] /\ dispatch[r][k].state = "pending"

PublishSkip(r, k) ==
    /\ Pending(r, k)
    /\ ~Dispatchable(status[r])
    /\ dispatch' = [dispatch EXCEPT ![r][k].state = "skipped"]
    /\ UNCHANGED <<rowVars, brokerVars, worker, beat, effectVars>>

Publish(r, k) ==
    /\ Pending(r, k)
    /\ Dispatchable(status[r])
    /\ Stored(r, k) \/ Deduplicated(r, k)
    /\ dispatch' = [dispatch EXCEPT ![r][k].state = "published"]
    /\ UNCHANGED <<rowVars, dlq, worker, beat, effectVars>>

\* The message is stored but the row stays pending: the publish ack was lost,
\* or the process or its commit failed after the publish.
PublishUnrecorded(r, k) ==
    /\ Pending(r, k)
    /\ Dispatchable(status[r])
    /\ Stored(r, k)
    /\ UNCHANGED <<rowVars, dispatch, dlq, worker, beat, effectVars>>

-----------------------------------------------------------------------------
(* Reconciler and dead letters.                                            *)

\* Redispatches since the last execute or replay.
Redispatches(rows) ==
    Cardinality({k \in DOMAIN rows :
        /\ rows[k].reason = "redispatch"
        /\ \A j \in DOMAIN rows : rows[j].reason # "redispatch" => j < k})

\* A live worker supports the action.
HasWorker(r) == kind[r] # "unhandled" /\ beat # {}

\* Mutant: only queued remediations are reconciled.
StuckQueued(r) ==
    /\ status[r] = "queued"
    /\ \A k \in DOMAIN dispatch[r] : dispatch[r][k].state # "pending"

Stuck(r) ==
    /\ \/ status[r] = "queued"
       \/ status[r] = "running" /\ dispatch[r] # <<>>
    /\ \A k \in DOMAIN dispatch[r] : dispatch[r][k].state # "pending"

\* A new outbox row, and an entry that repeats the status.
redispatchTx(r, reason) == Enqueue(r, reason) /\ WriteTx(r, status[r])

\* Mutant: one re-send too many.
ReconcileOnceMore(r) ==
    /\ Stuck(r)
    /\ HasWorker(r)
    /\ IF Redispatches(dispatch[r]) > MaxRedispatches
       THEN CompleteRemediation(r, "timed_out") /\ UNCHANGED dispatch
       ELSE redispatchTx(r, "redispatch") /\ UNCHANGED status
    /\ UNCHANGED <<kind, dryRun, brokerVars, worker, beat, effectVars>>

Reconcile(r) ==
    /\ Stuck(r)
    /\ HasWorker(r)
    /\ IF Redispatches(dispatch[r]) >= MaxRedispatches
       THEN CompleteRemediation(r, "timed_out") /\ UNCHANGED dispatch
       ELSE redispatchTx(r, "redispatch") /\ UNCHANGED status
    /\ UNCHANGED <<kind, dryRun, brokerVars, worker, beat, effectVars>>

Replays(r) == Cardinality({k \in DOMAIN dispatch[r] : dispatch[r][k].reason = "replay"})

\* replayDeadLetter: the letter stays listed when deleting it fails.  (The
\* advisory of an expired job names no remediation and is refused.)
Replay(l) ==
    /\ LET r == stream[l].rem
       IN  /\ Dispatchable(status[r])
           /\ Replays(r) < MaxReplays
           /\ redispatchTx(r, "replay")
    /\ dlq' \in {dlq, dlq \ {l}}
    /\ UNCHANGED <<kind, status, dryRun, stream, worker, beat, effectVars>>

\* Discarded by an operator, or dropped by DeadLetterRetention.
Discard(l) ==
    /\ dlq' = dlq \ {l}
    /\ UNCHANGED <<rowVars, dispatch, stream, worker, beat, effectVars>>

-----------------------------------------------------------------------------
(* JetStream.                                                              *)

\* The consumer is finished with a message: acked, terminated, given up or
\* expired.  Its delivery count is moot.
Gone(m) == stream' = [stream EXCEPT ![m].state = "gone", ![m].deliveries = 0]

\* A nak or an expired AckWait: deliver again, or give up with an advisory.
Redeliver(m) ==
    IF stream[m].state # "inflight"
    THEN UNCHANGED brokerVars
    ELSE IF stream[m].deliveries < MaxDeliver
    THEN stream' = [stream EXCEPT ![m].state = "ready"] /\ UNCHANGED dlq
    ELSE Gone(m) /\ dlq' = dlq \cup {m}

AckTimeout(m) ==
    /\ stream[m].state = "inflight"
    /\ Redeliver(m)
    /\ UNCHANGED <<rowVars, dispatch, worker, beat, effectVars>>

\* RemediationRetention, or the JetStream node lost the message.
Expire(m) ==
    /\ stream[m].state # "gone"
    /\ Gone(m)
    /\ UNCHANGED <<rowVars, dispatch, dlq, worker, beat, effectVars>>

\* An ack or a term, which may be lost.
Settle(m) == Gone(m) \/ stream' = stream

-----------------------------------------------------------------------------
(* Worker: handleMessage, one database or handler call per step.           *)

Goto(w, pc) == worker' = [worker EXCEPT ![w].pc = pc]
Release(w) == worker' = [worker EXCEPT ![w] = Idle]

Fetch(w, m) ==
    /\ worker[w].pc = "idle"
    /\ stream[m].state = "ready"
    /\ stream' = [stream EXCEPT ![m].state = "inflight", ![m].deliveries = @ + 1]
    /\ worker' = [worker EXCEPT ![w] =
                     [pc |-> "fetched", msg |-> m, delivery |-> stream[m].deliveries + 1]]
    /\ UNCHANGED <<rowVars, dispatch, dlq, beat, effectVars>>

\* Done with the message: ack it and free the slot.
Ack(w) ==
    /\ Settle(worker[w].msg)
    /\ Release(w)
    /\ UNCHANGED dlq

\* retryLater: nak, or on the last delivery dead-letter and terminate.  A
\* failed dead-letter publish is ignored.
RetryLater(w) ==
    /\ IF worker[w].delivery < MaxDeliver
       THEN Redeliver(worker[w].msg)
       ELSE /\ Settle(worker[w].msg)
            /\ dlq' \in {dlq, dlq \cup {worker[w].msg}}
    /\ Release(w)

auditSkip(r) == IF status[r] = "succeeded" THEN UNCHANGED audited ELSE Record(r, status[r])

CheckJob(w) ==
    /\ worker[w].pc = "fetched"
    /\ IF Dispatchable(status[RemOf(w)])
       THEN /\ Goto(w, IF kind[RemOf(w)] \in {"refused", "unhandled"} THEN "refused" ELSE "checked")
            /\ UNCHANGED <<audited, brokerVars>>
       ELSE Ack(w) /\ auditSkip(RemOf(w))
    /\ UNCHANGED <<kind, status, dryRun, dispatch, beat, effectVars>>

\* ClaimRemediation: compare-and-swap, and no audit entry.
Claimable(r) == Dispatchable(status[r])

Claim(w) ==
    /\ worker[w].pc = "checked"
    /\ IF Claimable(RemOf(w))
       THEN /\ status' = [status EXCEPT ![RemOf(w)] = "running"]
            /\ Goto(w, "running")
            /\ UNCHANGED <<audited, brokerVars>>
       ELSE Ack(w) /\ auditSkip(RemOf(w)) /\ UNCHANGED status
    /\ UNCHANGED <<kind, dryRun, dispatch, beat, effectVars>>

\* Whether the handler changes the target: DryRun only previews.
Effective(r) == kind[r] = "typed" /\ ~dryRun[r]

HandlerOk(w) ==
    /\ worker[w].pc = "running"
    /\ Goto(w, "ok")
    /\ IF Effective(RemOf(w)) THEN ApplyOnce(RemOf(w)) ELSE UNCHANGED <<receipt, applied>>
    /\ UNCHANGED <<rowVars, dispatch, brokerVars, beat, late>>

\* The handler reports an error; its transaction may have committed.
HandlerErr(w) ==
    /\ worker[w].pc = "running"
    /\ kind[RemOf(w)] = "typed"
    /\ Goto(w, "err")
    /\ \/ Effective(RemOf(w)) /\ ApplyOnce(RemOf(w))
       \/ UNCHANGED <<receipt, applied>>
    /\ UNCHANGED <<rowVars, dispatch, brokerVars, beat, late>>

\* JobTimeout: the handler is left to finish on its own.
HandlerTimeout(w) ==
    /\ worker[w].pc = "running"
    /\ Goto(w, "timedout")
    /\ late' = IF Effective(RemOf(w)) THEN late \cup {RemOf(w)} ELSE late
    /\ UNCHANGED <<rowVars, dispatch, brokerVars, beat, receipt, applied>>

LateHandler(r) ==
    /\ r \in late
    /\ late' = late \ {r}
    /\ ApplyOnce(r) \/ UNCHANGED <<receipt, applied>>
    /\ UNCHANGED <<rowVars, dispatch, brokerVars, worker, beat>>

Retries(w) == worker[w].delivery < MaxAttempts /\ worker[w].delivery < MaxDeliver

\* The handler failed and attempts are left: nak, the status is not touched.
\* The entry says running, whatever became of the remediation meanwhile.
Retry(w) ==
    /\ worker[w].pc = "err"
    /\ Retries(w)
    /\ Record(RemOf(w), "running")
    /\ Redeliver(worker[w].msg)
    /\ Release(w)
    /\ UNCHANGED <<kind, status, dryRun, dispatch, beat, effectVars>>

\* Mutants: a handler error is taken for a success; a job that fails its
\* validation is reported as rejected.
VerdictOptimistic(pc) == IF pc = "timedout" THEN "timed_out" ELSE "succeeded"
VerdictRejected(pc) ==
    CASE pc = "ok" -> "succeeded" [] pc = "timedout" -> "timed_out"
      [] pc = "refused" -> "rejected" [] OTHER -> "failed"

Verdict(pc) ==
    CASE pc = "ok" -> "succeeded" [] pc = "timedout" -> "timed_out" [] OTHER -> "failed"
Finishing(w) ==
    \/ worker[w].pc \in {"refused", "ok", "timedout"}
    \/ worker[w].pc = "err" /\ ~Retries(w)

Finish(w) ==
    /\ Finishing(w)
    /\ CompleteRemediation(RemOf(w), Verdict(worker[w].pc))
    /\ Ack(w)
    /\ UNCHANGED <<kind, dryRun, dispatch, beat, effectVars>>

\* A database call returned an error, before or after it took effect.
DatabaseError(w) ==
    /\ \/ worker[w].pc \in {"fetched", "checked"} /\ UNCHANGED <<status, audited>>
       \/ /\ worker[w].pc = "checked"
          /\ Claimable(RemOf(w))
          /\ status' = [status EXCEPT ![RemOf(w)] = "running"]
          /\ UNCHANGED audited
       \/ Finishing(w) /\ UNCHANGED <<status, audited>>
       \/ Finishing(w) /\ CompleteRemediation(RemOf(w), Verdict(worker[w].pc))
    /\ RetryLater(w)
    /\ UNCHANGED <<kind, dryRun, dispatch, beat, effectVars>>

Crash(w) ==
    /\ worker[w].pc # "down"
    /\ worker' = [worker EXCEPT ![w] = [Idle EXCEPT !.pc = "down"]]
    /\ UNCHANGED <<rowVars, dispatch, brokerVars, beat, effectVars>>

HeartbeatExpires(w) ==
    /\ worker[w].pc = "down"
    /\ w \in beat
    /\ beat' = beat \ {w}
    /\ UNCHANGED <<rowVars, dispatch, brokerVars, worker, effectVars>>

\* Start writes the first heartbeat at once.
Restart(w) ==
    /\ worker[w].pc = "down"
    /\ Release(w)
    /\ beat' = beat \cup {w}
    /\ UNCHANGED <<rowVars, dispatch, brokerVars, effectVars>>

-----------------------------------------------------------------------------
Operator ==
    \/ \E r \in Rems, dry \in BOOLEAN : Execute(r, dry)
    \/ \E r \in Rems : ExecuteReused(r) \/ Cancel(r)
    \/ \E l \in dlq : Replay(l) \/ Discard(l)
Dispatcher ==
    \E r \in Rems :
        \/ \E k \in DOMAIN dispatch[r] :
              PublishSkip(r, k) \/ Publish(r, k) \/ PublishUnrecorded(r, k)
        \/ Reconcile(r)
Broker == \E m \in DOMAIN stream : AckTimeout(m) \/ Expire(m)
Worker(w) ==
    \/ \E m \in DOMAIN stream : Fetch(w, m)
    \/ CheckJob(w) \/ Claim(w) \/ HandlerOk(w) \/ HandlerErr(w) \/ HandlerTimeout(w)
    \/ Retry(w) \/ Finish(w) \/ DatabaseError(w)
    \/ Crash(w) \/ HeartbeatExpires(w) \/ Restart(w)

Next ==
    \/ Operator
    \/ Dispatcher
    \/ Broker
    \/ \E w \in Workers : Worker(w)
    \/ \E r \in Rems : LateHandler(r)

Spec == Init /\ [][Next]_vars

-----------------------------------------------------------------------------
(* Properties.                                                             *)

\* A cancelled remediation is not being executed by any worker, has no late
\* handler and has not changed its target, whichever of its messages are still
\* queued, redelivered or replayed: Cancel swaps the status it read, Claim only
\* takes queued or running.
CancelledNeverExecutes ==
    \A r \in Rems : status[r] = "cancelled" =>
        /\ applied[r] = 0
        /\ r \notin late
        /\ \A w \in Workers : worker[w].pc \in Executing => RemOf(w) # r

\* Redelivery, redispatch and replay may run a job on several workers at once
\* and after a crash; the execution receipt keeps the change to one.
EffectAtMostOnce == \A r \in Rems : applied[r] <= 1

\* Racing Execute calls with different modes reserve the remediation once, and
\* a remediation reserved as a dry run never changes its target.
DryRunNeverApplies ==
    \A r \in Rems :
        /\ dryRun[r] => applied[r] = 0
        /\ \A j, k \in DOMAIN dispatch[r] :
              dispatch[r][j].reason = "execute" /\ dispatch[r][k].reason = "execute" => j = k

\* A remediation is only reported succeeded when its change is in place.
SuccessMeansApplied ==
    \A r \in Rems : status[r] = "succeeded" /\ Effective(r) => applied[r] = 1

\* A queued or running remediation always has an outbox row that is pending or
\* was published: no crash or JetStream outage strands it without its job.
JobNotStranded ==
    \A r \in Rems : Dispatchable(status[r]) =>
        \E k \in DOMAIN dispatch[r] : dispatch[r][k].state # "skipped"

\* The reconciler gives up after MaxRedispatches re-sends since the last
\* execute or replay.
RedispatchBounded == \A r \in Rems : Redispatches(dispatch[r]) <= MaxRedispatches

\* The ledger tells how a remediation ended, and nothing else about its end: an
\* ended one has an entry with the status it ended in, and no entry, of a
\* worker, the reconciler or a call that acted on a stale read, names an end it
\* did not have.
EndIsAudited ==
    \A r \in Rems :
        {s \in audited[r] : IsTerminalState(s)} = IF IsTerminalState(status[r]) THEN {status[r]} ELSE {}

\* A remediation that ended stays in the status it ended in: a late completion,
\* a second worker or the reconciler loses its compare-and-swap.
EndIsFinal ==
    [][\A r \in Rems : IsTerminalState(status[r]) => status'[r] = status[r]]_vars

\* Documented: "replay only re-sends a still-queued remediation".
ReplayOnlyQueued ==
    [][\A r \in Rems : Replays(r)' > Replays(r) => status[r] = "queued"]_vars

\* Documented: "every state change commits in one transaction with its audit
\* entry", so the ledger always holds the current status.
EveryChangeAudited == \A r \in Rems : status[r] \in audited[r]

\* The inductive invariant behind the properties above.  A receipt, a late
\* handler or a handler that runs shows that the remediation was claimed, and a
\* claimed remediation cannot be cancelled or reserved again; a slot that saw
\* its handler succeed has its receipt; a remediation is reserved once, and its
\* outbox rows are only skipped after it ended.
Claimed(r) == status[r] \in {"running", "succeeded", "failed", "timed_out"}

SlotInv(w) ==
    /\ worker[w].pc \notin {"down", "idle"} => worker[w].msg \in DOMAIN stream
    /\ worker[w].pc \in Executing => Claimed(RemOf(w))
    /\ worker[w].pc = "ok" /\ Effective(RemOf(w)) => receipt[RemOf(w)]

RowInv(r) ==
    /\ r \in late \/ receipt[r] => Claimed(r) /\ Effective(r)
    /\ applied[r] = IF receipt[r] THEN 1 ELSE 0
    /\ status[r] = "succeeded" /\ Effective(r) => receipt[r]

OutboxInv(r) ==
    /\ status[r] = "approved" => dispatch[r] = <<>>
    /\ Dispatchable(status[r]) => dispatch[r] # <<>>
    /\ \A k \in DOMAIN dispatch[r] :
          /\ dispatch[r][k].reason = "execute" => k = 1
          /\ Dispatchable(status[r]) => dispatch[r][k].state # "skipped"

Inv ==
    /\ TypeOK
    /\ dlq \subseteq DOMAIN stream
    /\ \A w \in Workers : SlotInv(w)
    /\ \A r \in Rems : RowInv(r) /\ OutboxInv(r)

\* Jobs go through the outbox; nothing reports to the call that reserved.
Lifecycle == INSTANCE RemediationLifecycle WITH Synchronous <- FALSE

\* The pipeline implements the published lifecycle: status changes follow
\* CanTransition and the target changes at most once, after a claim.
ImplementsLifecycle == Lifecycle!Spec

-----------------------------------------------------------------------------
(* Liveness.  The dispatcher polls and the reconciler runs on a ticker in  *)
(* every API replica, JetStream eventually accepts a publish, and a down   *)
(* worker is restarted.  Nothing is assumed of the jobs themselves.        *)

Fairness ==
    /\ \A r \in Rems :
          /\ WF_vars(\E k \in DOMAIN dispatch[r] : PublishSkip(r, k) \/ Publish(r, k))
          /\ SF_vars(Reconcile(r))
    /\ \A w \in Workers : WF_vars(Restart(w))

FairSpec == Spec /\ Fairness

\* A queued or running remediation whose action some worker supports ends, no
\* matter which jobs crash, hang or are lost: the reconciler re-sends it and
\* finally times it out.
EventuallyEnds ==
    \A r \in Rems :
        Dispatchable(status[r]) /\ kind[r] # "unhandled" ~> IsTerminalState(status[r])

=============================================================================

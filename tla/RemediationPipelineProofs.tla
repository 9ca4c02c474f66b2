--------------------- MODULE RemediationPipelineProofs ---------------------
(* Proofs about RemediationPipeline, for any number of remediations and     *)
(* worker slots and any limits.                                            *)
EXTENDS RemediationPipeline, FiniteSetTheorems, TLAPS

\* Most leaves are first-order; those with arithmetic or sequences cite SMT.
USE Zenon

\* A sequence is a function on 1 .. Len, and only the empty one has length 0.
LEMMA SeqElements ==
    ASSUME NEW S, NEW s \in Seq(S)
    PROVE  /\ Len(s) \in Nat /\ DOMAIN s = 1 .. Len(s) /\ s \in [1 .. Len(s) -> S]
           /\ \A n \in 1 .. Len(s) : s[n] \in S
           /\ s # <<>> => Len(s) # 0
BY SMT

\* Replacing an element of a sequence leaves its length and the others.
LEMMA SeqUpdate ==
    ASSUME NEW S, NEW s \in Seq(S), NEW n \in 1 .. Len(s), NEW e \in S
    PROVE  /\ [s EXCEPT ![n] = e] \in Seq(S) /\ Len([s EXCEPT ![n] = e]) = Len(s)
           /\ \A m \in 1 .. Len(s) : [s EXCEPT ![n] = e][m] = IF m = n THEN e ELSE s[m]
BY SMT

\* Append keeps the elements and adds one at the end.
LEMMA SeqAppend ==
    ASSUME NEW S, NEW s \in Seq(S), NEW e \in S
    PROVE  /\ Append(s, e) \in Seq(S) /\ Len(Append(s, e)) = Len(s) + 1
           /\ \A n \in 1 .. Len(s) : Append(s, e)[n] = s[n]
           /\ Append(s, e)[Len(s) + 1] = e
BY SMT

\* What every step does to the stream: messages are added or change state,
\* and none changes the remediation it names.
StreamStep ==
    /\ stream' \in Seq(Messages)
    /\ DOMAIN stream \subseteq DOMAIN stream'
    /\ \A m \in DOMAIN stream : stream'[m].rem = stream[m].rem

\* Every stored message is well formed.
LEMMA MessageType ==
    ASSUME stream \in Seq(Messages), NEW m \in DOMAIN stream
    PROVE  stream[m] \in Messages
BY SeqElements

\* Updating one message in place is such a step.
LEMMA UpdateStep ==
    ASSUME stream \in Seq(Messages), NEW m \in DOMAIN stream, NEW new \in Messages,
           new.rem = stream[m].rem, stream' = [stream EXCEPT ![m] = new]
    PROVE  StreamStep
BY SeqUpdate, SMT DEF StreamStep

\* Acking, terminating or dropping a message is such a step.
LEMMA GoneStep ==
    ASSUME stream \in Seq(Messages), NEW m \in DOMAIN stream, Gone(m)
    PROVE  StreamStep
<1> DEFINE new == [stream[m] EXCEPT !.state = "gone", !.deliveries = 0]
<1>1. new \in Messages /\ new.rem = stream[m].rem
  BY MessageType DEF Messages
<1>2. stream' = [stream EXCEPT ![m] = new]
  BY DEF Gone
<1> QED
  BY <1>1, <1>2, UpdateStep

\* A nak or an expired AckWait is such a step, and only files a letter for it.
LEMMA RedeliverStep ==
    ASSUME stream \in Seq(Messages), NEW m \in DOMAIN stream, Redeliver(m)
    PROVE  StreamStep /\ dlq' \subseteq dlq \cup {m}
<1> DEFINE new == [stream[m] EXCEPT !.state = "ready"]
<1>1. CASE stream[m].state # "inflight"
  BY <1>1 DEF Redeliver, StreamStep, brokerVars
<1>2. CASE stream[m].state = "inflight" /\ stream[m].deliveries < MaxDeliver
  <2>1. new \in Messages /\ new.rem = stream[m].rem
    BY MessageType DEF Messages
  <2>2. stream' = [stream EXCEPT ![m] = new] /\ dlq' = dlq
    BY <1>2 DEF Redeliver
  <2> QED
    BY <2>1, <2>2, UpdateStep
<1>3. CASE stream[m].state = "inflight" /\ ~(stream[m].deliveries < MaxDeliver)
  BY <1>3, GoneStep DEF Redeliver
<1> QED
  BY <1>1, <1>2, <1>3

\* An ack or a term, lost or not, is such a step.
LEMMA SettleStep ==
    ASSUME stream \in Seq(Messages), NEW m \in DOMAIN stream, Settle(m)
    PROVE  StreamStep
BY GoneStep DEF Settle, StreamStep

\* A slot that does not move keeps its invariant, as long as no remediation is
\* unclaimed, changes its action or mode once claimed, or loses its receipt.
LEMMA SlotStable ==
    ASSUME TypeOK, NEW w \in Workers, SlotInv(w), StreamStep,
           worker'[w] = worker[w],
           \A r \in Rems : Claimed(r) => Claimed(r)' /\ (Effective(r)' => Effective(r)),
           \A r \in Rems : receipt[r] => receipt'[r]
    PROVE  SlotInv(w)'
<1>1. CASE worker[w].pc \in {"down", "idle"}
  BY <1>1 DEF SlotInv, Executing
<1>2. CASE worker[w].pc \notin {"down", "idle"}
  <2>1. worker[w].msg \in DOMAIN stream /\ RemOf(w) \in Rems /\ RemOf(w)' = RemOf(w)
    BY <1>2, MessageType DEF SlotInv, TypeOK, RemOf, StreamStep, Messages
  <2> QED
    BY <1>2, <2>1 DEF SlotInv, StreamStep, Executing
<1> QED
  BY <1>1, <1>2

\* All slots at once.
LEMMA SlotsStable ==
    ASSUME Inv, StreamStep, NEW W \in SUBSET Workers,
           \A w \in W : worker'[w] = worker[w],
           \A r \in Rems : Claimed(r) => Claimed(r)' /\ (Effective(r)' => Effective(r)),
           \A r \in Rems : receipt[r] => receipt'[r]
    PROVE  \A w \in W : SlotInv(w)'
BY SlotStable DEF Inv

\* A new outbox row is pending and last; all other rows stay.
LEMMA EnqueueStep ==
    ASSUME TypeOK, NEW r \in Rems, NEW reason \in {"execute", "redispatch", "replay"},
           Enqueue(r, reason)
    PROVE  /\ dispatch' \in [Rems -> Seq(Rows)]
           /\ \A q \in Rems \ {r} : dispatch'[q] = dispatch[q]
           /\ dispatch'[r] # <<>>
           /\ DOMAIN dispatch'[r] = DOMAIN dispatch[r] \cup {Len(dispatch[r]) + 1}
           /\ \A k \in DOMAIN dispatch[r] : dispatch'[r][k] = dispatch[r][k]
           /\ dispatch'[r][Len(dispatch[r]) + 1].state = "pending"
           /\ dispatch'[r][Len(dispatch[r]) + 1].reason = reason
<1> DEFINE row == [reason |-> reason, state |-> "pending"]
<1>1. /\ row \in Rows /\ row.state = "pending" /\ row.reason = reason
      /\ dispatch[r] \in Seq(Rows)
  BY DEF Rows, TypeOK
<1>2. dispatch' = [dispatch EXCEPT ![r] = Append(dispatch[r], row)]
  BY DEF Enqueue
<1>3. dispatch'[r] = Append(dispatch[r], row)
  BY <1>2 DEF TypeOK
<1> HIDE DEF row
<1>4. /\ dispatch'[r] \in Seq(Rows)
      /\ dispatch'[r] # <<>>
      /\ Len(dispatch'[r]) = Len(dispatch[r]) + 1
      /\ \A k \in 1..Len(dispatch[r]) : dispatch'[r][k] = dispatch[r][k]
      /\ dispatch'[r][Len(dispatch[r]) + 1] = row
  BY <1>1, <1>3, SeqAppend, SMT
<1>5. /\ DOMAIN dispatch[r] = 1..Len(dispatch[r]) /\ Len(dispatch[r]) \in Nat
      /\ DOMAIN dispatch'[r] = 1..Len(dispatch[r]) + 1
  BY <1>1, <1>4, SeqElements
<1>6. dispatch' \in [Rems -> Seq(Rows)] /\ \A q \in Rems \ {r} : dispatch'[q] = dispatch[q]
  BY <1>2, <1>3, <1>4 DEF TypeOK
<1>7. DOMAIN dispatch'[r] = DOMAIN dispatch[r] \cup {Len(dispatch[r]) + 1}
  BY <1>5, SMT
<1> QED
  BY <1>1, <1>4, <1>5, <1>6, <1>7

\* An audit entry names a status, whether it is written or lost.
LEMMA RecordType ==
    ASSUME TypeOK, NEW r \in Rems, NEW s \in States, Record(r, s)
    PROVE  audited' \in [Rems -> SUBSET States]
<1>1. audited[r] \cup {s} \in SUBSET States
  BY DEF TypeOK
<1>2. audited' = [audited EXCEPT ![r] = audited[r] \cup {s}] \/ audited' = audited
  BY DEF Record, WriteTx
<1> QED
  BY <1>1, <1>2 DEF TypeOK

\* A remediation whose row and receipt do not change keeps its invariant.
LEMMA RowStable ==
    ASSUME NEW r \in Rems, RowInv(r),
           kind'[r] = kind[r], status'[r] = status[r], dryRun'[r] = dryRun[r],
           receipt'[r] = receipt[r], applied'[r] = applied[r],
           r \in late' => r \in late
    PROVE  RowInv(r)'
BY DEF RowInv, Claimed, Effective, IsTerminalState

\* Its outbox keeps its invariant unless it becomes approved or dispatchable.
LEMMA OutboxStable ==
    ASSUME NEW r \in Rems, OutboxInv(r), dispatch'[r] = dispatch[r],
           status'[r] = "approved" => status[r] = "approved",
           Dispatchable(status'[r]) => Dispatchable(status[r])
    PROVE  OutboxInv(r)'
BY DEF OutboxInv

\* Execute reserves an approved remediation, which has no rows yet.
LEMMA ExecuteInv ==
    ASSUME Inv, NEW r \in Rems, NEW dry \in BOOLEAN, Execute(r, dry)
    PROVE  Inv'
<1> USE DEF Inv, Execute, Reservable, Transition, rowVars, brokerVars, effectVars
<1>1. dispatch' \in [Rems -> Seq(Rows)]
  BY EnqueueStep
<1>2. TypeOK'
  <2>1. "queued" \in States /\ audited' \in [Rems -> SUBSET States]
    BY RecordType DEF Record, States
  <2> QED
    BY <1>1, <2>1 DEF TypeOK
<1>3. StreamStep
  BY DEF StreamStep, TypeOK
<1>4. \A w \in Workers : SlotInv(w)'
  <2>1. \A q \in Rems : Claimed(q) => Claimed(q)' /\ (Effective(q)' => Effective(q))
    BY DEF Claimed, Effective, TypeOK
  <2> QED
    BY <1>3, <2>1, SlotsStable
<1>5. ASSUME NEW q \in Rems PROVE RowInv(q)'
  BY DEF RowInv, Claimed, Effective, IsTerminalState, TypeOK
<1>6. ASSUME NEW q \in Rems PROVE OutboxInv(q)'
  <2>1. CASE q # r
    <3>1. dispatch'[q] = dispatch[q] /\ status'[q] = status[q]
      BY <2>1, EnqueueStep DEF TypeOK
    <3> QED
      BY <3>1, OutboxStable
  <2>2. CASE q = r
    <3>1. dispatch[r] = <<>> /\ Len(dispatch[r]) = 0 /\ DOMAIN dispatch[r] = {}
      BY SMT DEF OutboxInv
    <3>2. dispatch'[r] # <<>> /\ \A k \in DOMAIN dispatch'[r] : k = 1 /\ dispatch'[r][k].state = "pending"
      BY <3>1, EnqueueStep, SMT
    <3>3. status'[r] = "queued"
      BY DEF TypeOK
    <3> QED
      BY <2>2, <3>2, <3>3 DEF OutboxInv, Dispatchable
  <2> QED
    BY <2>1, <2>2
<1> QED
  BY <1>2, <1>4, <1>5, <1>6

\* Executing again what was reserved before changes no row.
LEMMA ReusedInv ==
    ASSUME Inv, NEW r \in Rems, ExecuteReused(r)
    PROVE  Inv'
<1> USE DEF Inv, ExecuteReused, brokerVars, effectVars
<1>1. audited' \in [Rems -> SUBSET States]
  BY RecordType DEF TypeOK
<1>2. StreamStep
  BY DEF StreamStep, TypeOK
<1>3. \A w \in Workers : SlotInv(w)'
  BY <1>2, SlotsStable DEF Claimed, Effective
<1>4. \A q \in Rems : RowInv(q)' /\ OutboxInv(q)'
  BY RowStable, OutboxStable
<1> QED
  BY <1>1, <1>3, <1>4 DEF TypeOK

\* Re-sending a dispatchable remediation keeps its outbox invariant.
LEMMA EnqueueInv ==
    ASSUME Inv, NEW r \in Rems, NEW reason \in {"redispatch", "replay"},
           Enqueue(r, reason), Dispatchable(status[r]),
           audited' \in [Rems -> SUBSET States],
           UNCHANGED <<kind, status, dryRun, stream, worker, beat, late, receipt, applied>>,
           dlq' \in SUBSET Nat
    PROVE  TypeOK' /\ \A q \in Rems : OutboxInv(q)'
<1> USE DEF Inv
<1>1. TypeOK'
  BY EnqueueStep DEF TypeOK
<1>2. ASSUME NEW q \in Rems PROVE OutboxInv(q)'
  <2>1. CASE q # r
    BY <2>1, EnqueueStep, OutboxStable
  <2>2. CASE q = r
    <3>1. \A k \in DOMAIN dispatch'[r] :
             /\ dispatch'[r][k].reason = "execute" => k = 1
             /\ dispatch'[r][k].state # "skipped"
      BY EnqueueStep, SMT DEF OutboxInv
    <3>2. dispatch'[r] # <<>> /\ status'[r] = status[r] /\ status[r] # "approved"
      BY EnqueueStep DEF Dispatchable
    <3> QED
      BY <2>2, <3>1, <3>2 DEF OutboxInv
  <2> QED
    BY <2>1, <2>2
<1> QED
  BY <1>1, <1>2

\* Ending a remediation (CompleteRemediation, or Cancel before a claim) keeps
\* the invariants of its row and of its outbox.
LEMMA CompleteInv ==
    ASSUME Inv, NEW r \in Rems, NEW s \in {"succeeded", "failed", "timed_out"},
           CompleteRemediation(r, s),
           s = "succeeded" /\ Effective(r) => receipt[r],
           UNCHANGED <<kind, dryRun, dispatch, effectVars>>
    PROVE  /\ status' \in [Rems -> States] /\ audited' \in [Rems -> SUBSET States]
           /\ \A q \in Rems : Claimed(q) => Claimed(q)' /\ (Effective(q)' => Effective(q))
           /\ \A q \in Rems : RowInv(q)' /\ OutboxInv(q)'
<1> USE DEF Inv, CompleteRemediation, Transition, effectVars
<1>1. status' \in [Rems -> States] /\ audited' \in [Rems -> SUBSET States]
  <2>1. s \in States
    BY DEF States
  <2> QED
    BY <2>1, RecordType DEF Record, TypeOK
<1>2. \A q \in Rems : Claimed(q) => Claimed(q)' /\ (Effective(q)' => Effective(q))
  BY DEF TypeOK, Claimed, Effective
<1>3. ASSUME NEW q \in Rems PROVE RowInv(q)'
  BY DEF RowInv, Claimed, Effective, IsTerminalState, TypeOK
<1>4. ASSUME NEW q \in Rems PROVE OutboxInv(q)'
  <2>1. /\ status'[q] = "approved" => status[q] = "approved"
        /\ Dispatchable(status'[q]) => Dispatchable(status[q])
    BY DEF TypeOK, Dispatchable
  <2> QED
    BY <2>1, OutboxStable
<1> QED
  BY <1>1, <1>2, <1>3, <1>4

\* Cancel takes a remediation no worker has claimed.
LEMMA CancelInv ==
    ASSUME Inv, NEW r \in Rems, Cancel(r)
    PROVE  Inv'
<1> USE DEF Inv, Cancel, Transition, brokerVars, effectVars
<1>1. status[r] \in {"proposed", "approved", "queued", "cancelled"}
  BY DEF Cancellable, CanTransition, Transitions
<1>2. TypeOK'
  <2>1. "cancelled" \in States /\ audited' \in [Rems -> SUBSET States]
    BY RecordType DEF Record, States
  <2> QED
    BY <2>1 DEF TypeOK
<1>3. StreamStep
  BY DEF StreamStep, TypeOK
<1>4. \A w \in Workers : SlotInv(w)'
  <2>1. \A q \in Rems : Claimed(q) => Claimed(q)' /\ (Effective(q)' => Effective(q))
    BY <1>1 DEF Claimed, Effective, TypeOK
  <2> QED
    BY <1>3, <2>1, SlotsStable
<1>5. ASSUME NEW q \in Rems PROVE RowInv(q)'
  BY <1>1 DEF RowInv, Claimed, Effective, IsTerminalState, TypeOK
<1>6. ASSUME NEW q \in Rems PROVE OutboxInv(q)'
  <2>1. /\ status'[q] = "approved" => status[q] = "approved"
        /\ Dispatchable(status'[q]) => Dispatchable(status[q])
    BY DEF TypeOK, Dispatchable
  <2> QED
    BY <2>1, OutboxStable
<1> QED
  BY <1>2, <1>4, <1>5, <1>6

\* Reconcile appends a row to, or ends, a dispatchable remediation.
LEMMA ReconcileInv ==
    ASSUME Inv, NEW r \in Rems, Reconcile(r)
    PROVE  Inv'
<1> USE DEF Inv, Reconcile, brokerVars
<1>1. StreamStep
  BY DEF StreamStep, TypeOK
<1>2. CASE Redispatches(dispatch[r]) >= MaxRedispatches
  <2>1. /\ status' \in [Rems -> States] /\ audited' \in [Rems -> SUBSET States]
        /\ \A q \in Rems : Claimed(q) => Claimed(q)' /\ (Effective(q)' => Effective(q))
        /\ \A q \in Rems : RowInv(q)' /\ OutboxInv(q)'
    BY <1>2, CompleteInv
  <2>2. \A w \in Workers : SlotInv(w)'
    BY <1>1, <2>1, SlotsStable DEF effectVars
  <2> QED
    BY <1>2, <2>1, <2>2 DEF TypeOK, effectVars
<1>3. CASE ~(Redispatches(dispatch[r]) >= MaxRedispatches)
  <2>1. /\ Enqueue(r, "redispatch") /\ UNCHANGED status
        /\ audited' \in [Rems -> SUBSET States]
    BY <1>3, RecordType DEF redispatchTx, Record, TypeOK
  <2>2. \A w \in Workers : SlotInv(w)'
    BY <1>1, <2>1, SlotsStable DEF effectVars, Claimed, Effective
  <2>3. Dispatchable(status[r])
    BY DEF Stuck, Dispatchable
  <2>4. TypeOK' /\ \A q \in Rems : OutboxInv(q)'
    BY <2>1, <2>3, EnqueueInv DEF effectVars, TypeOK
  <2>5. \A q \in Rems : RowInv(q)'
    BY <2>1, RowStable DEF effectVars
  <2> QED
    BY <2>2, <2>4, <2>5
<1> QED
  BY <1>2, <1>3

\* Replaying a dead letter appends a row to a dispatchable remediation.
LEMMA ReplayInv ==
    ASSUME Inv, NEW l \in dlq, Replay(l)
    PROVE  Inv'
<1> USE DEF Inv, Replay, rowVars, effectVars
<1> DEFINE r == stream[l].rem
<1>1. r \in Rems
  BY MessageType DEF TypeOK, Messages
<1>2. Enqueue(r, "replay") /\ Dispatchable(status[r]) /\ dlq' \subseteq dlq
  BY DEF redispatchTx
<1>3. audited' \in [Rems -> SUBSET States]
  BY <1>1, RecordType DEF redispatchTx, Record, TypeOK
<1> HIDE DEF r
<1>4. TypeOK' /\ \A q \in Rems : OutboxInv(q)'
  BY <1>1, <1>2, <1>3, EnqueueInv DEF TypeOK
<1>5. StreamStep
  BY DEF StreamStep, TypeOK
<1>6. \A w \in Workers : SlotInv(w)'
  BY <1>5, SlotsStable DEF Claimed, Effective
<1>7. \A q \in Rems : RowInv(q)'
  BY RowStable
<1> QED
  BY <1>2, <1>4, <1>6, <1>7

\* Two outboxes with the same rows in the same order, up to their state.
SameReasons(old, new) ==
    DOMAIN new = DOMAIN old /\ \A k \in DOMAIN old : new[k].reason = old[k].reason

\* Marking an outbox row published, or skipped once its remediation ended.
LEMMA MarkRow ==
    ASSUME Inv, NEW r \in Rems, NEW k, Pending(r, k), NEW s \in {"published", "skipped"},
           dispatch' = [dispatch EXCEPT ![r][k].state = s],
           s = "skipped" => ~Dispatchable(status[r]), UNCHANGED status
    PROVE  /\ dispatch' \in [Rems -> Seq(Rows)]
           /\ \A q \in Rems : OutboxInv(q)'
           /\ \A q \in Rems : SameReasons(dispatch[q], dispatch'[q])
<1> USE DEF Inv, Pending
<1> DEFINE row == [dispatch[r][k] EXCEPT !.state = s]
<1>1. dispatch[r] \in Seq(Rows) /\ DOMAIN dispatch[r] = 1..Len(dispatch[r])
  BY SeqElements DEF TypeOK
<1>2. dispatch[r][k] \in Rows
  BY <1>1, SeqElements
<1>3. row \in Rows /\ row.reason = dispatch[r][k].reason /\ row.state = s
  BY <1>2 DEF Rows
<1>4. dispatch'[r] = [dispatch[r] EXCEPT ![k] = row] /\ \A q \in Rems \ {r} : dispatch'[q] = dispatch[q]
  BY DEF TypeOK
<1> HIDE DEF row
<1>5. /\ dispatch'[r] \in Seq(Rows) /\ Len(dispatch'[r]) = Len(dispatch[r])
      /\ \A j \in 1..Len(dispatch[r]) : dispatch'[r][j] = IF j = k THEN row ELSE dispatch[r][j]
  <2> HIDE DEF Inv, Pending
  <2>1. dispatch[r] \in Seq(Rows) /\ k \in 1..Len(dispatch[r]) /\ row \in Rows
    BY <1>1, <1>3 DEF Pending
  <2> DEFINE new == [dispatch[r] EXCEPT ![k] = row]
  <2>2. /\ new \in Seq(Rows) /\ Len(new) = Len(dispatch[r])
        /\ \A j \in 1..Len(dispatch[r]) : new[j] = IF j = k THEN row ELSE dispatch[r][j]
    BY <2>1, SeqUpdate, SMT
  <2> QED
    BY <1>4, <2>2
<1>6. DOMAIN dispatch'[r] = DOMAIN dispatch[r] /\ dispatch'[r] # <<>> /\ dispatch[r] # <<>>
  BY <1>1, <1>5, SeqElements, SMT
<1>7. OutboxInv(r)'
  BY <1>1, <1>3, <1>5, <1>6, SMT DEF OutboxInv
<1>8. \A q \in Rems \ {r} : OutboxInv(q)'
  BY <1>4, OutboxStable
<1>9. dispatch' \in [Rems -> Seq(Rows)]
  BY <1>4, <1>5 DEF TypeOK
<1>10. \A q \in Rems : SameReasons(dispatch[q], dispatch'[q])
  BY <1>1, <1>3, <1>4, <1>5, <1>6, SMT DEF SameReasons
<1> QED
  BY <1>7, <1>8, <1>9, <1>10

\* Storing a message adds it to the stream.
LEMMA StoredStep ==
    ASSUME Inv, NEW r \in Rems, NEW k \in DOMAIN dispatch[r], Stored(r, k)
    PROVE  StreamStep
<1>1. k \in Nat
  BY SeqElements, SMT DEF Inv, TypeOK
<1>2. Message(r, k) \in Messages
  BY <1>1 DEF Message, Messages
<1>3. stream \in Seq(Messages) /\ stream' = Append(stream, Message(r, k))
  BY DEF Stored, Inv, TypeOK
<1> QED
  BY <1>2, <1>3, SeqAppend, SeqElements, SMT DEF StreamStep

\* The three outcomes of publishing an outbox row.
LEMMA PublishInv ==
    ASSUME Inv, NEW r \in Rems, NEW k \in DOMAIN dispatch[r],
           PublishSkip(r, k) \/ Publish(r, k) \/ PublishUnrecorded(r, k)
    PROVE  Inv'
<1> USE DEF Inv, rowVars, effectVars
<1>1. UNCHANGED <<rowVars, dlq, worker, beat, effectVars>>
  BY DEF PublishSkip, Publish, PublishUnrecorded, brokerVars
<1>2. StreamStep
  <2>1. CASE PublishSkip(r, k)
    BY <2>1 DEF PublishSkip, brokerVars, StreamStep, TypeOK
  <2>2. CASE Publish(r, k)
    BY <2>2, StoredStep DEF Publish, Deduplicated, StreamStep, TypeOK
  <2>3. CASE PublishUnrecorded(r, k)
    BY <2>3, StoredStep DEF PublishUnrecorded
  <2> QED
    BY <2>1, <2>2, <2>3
<1>3. dispatch' \in [Rems -> Seq(Rows)] /\ \A q \in Rems : OutboxInv(q)'
  <2>1. CASE PublishSkip(r, k)
    BY <2>1, <1>1, MarkRow DEF PublishSkip
  <2>2. CASE Publish(r, k)
    BY <2>2, <1>1, MarkRow DEF Publish
  <2>3. CASE PublishUnrecorded(r, k)
    BY <2>3, <1>1, OutboxStable DEF PublishUnrecorded, TypeOK
  <2> QED
    BY <2>1, <2>2, <2>3
<1>4. TypeOK'
  BY <1>1, <1>2, <1>3 DEF TypeOK, StreamStep
<1>5. \A w \in Workers : SlotInv(w)'
  BY <1>1, <1>2, SlotsStable DEF Claimed, Effective
<1>6. \A q \in Rems : RowInv(q)'
  BY <1>1, RowStable
<1>7. (dlq \subseteq DOMAIN stream)'
  BY <1>1, <1>2 DEF StreamStep
<1> QED
  BY <1>3, <1>4, <1>5, <1>6, <1>7

\* The common part of the steps of one worker slot w: what remains to be shown
\* is what the step does to w itself and to the rows.
LEMMA WorkerStep ==
    ASSUME Inv, NEW w \in Workers, StreamStep, dlq' \subseteq dlq \cup DOMAIN stream,
           worker' \in [Workers -> Slots], \A v \in Workers \ {w} : worker'[v] = worker[v],
           SlotInv(w)', beat' \subseteq Workers,
           UNCHANGED <<kind, dryRun, dispatch>>,
           status' \in [Rems -> States], audited' \in [Rems -> SUBSET States],
           late' \in SUBSET Rems, receipt' \in [Rems -> BOOLEAN], applied' \in [Rems -> Nat],
           \A r \in Rems : Claimed(r) => Claimed(r)' /\ (Effective(r)' => Effective(r)),
           \A r \in Rems : receipt[r] => receipt'[r],
           \A r \in Rems : RowInv(r)' /\ OutboxInv(r)'
    PROVE  Inv'
<1>1. DOMAIN stream \subseteq DOMAIN stream' /\ DOMAIN stream' \subseteq Nat
  BY SeqElements, SMT DEF StreamStep
<1>2. (dlq \subseteq DOMAIN stream)'
  BY <1>1 DEF Inv
<1>3. TypeOK'
  BY <1>1, <1>2 DEF Inv, TypeOK, StreamStep
<1>4. \A v \in Workers \ {w} : SlotInv(v)'
  BY SlotsStable
<1> QED
  BY <1>2, <1>3, <1>4 DEF Inv

\* Ack, retryLater and a nak free the slot.
LEMMA ReleaseStep ==
    ASSUME Inv, NEW w \in Workers, worker[w].pc \notin {"down", "idle"},
           Ack(w) \/ RetryLater(w) \/ (Redeliver(worker[w].msg) /\ Release(w))
    PROVE  /\ StreamStep /\ dlq' \subseteq dlq \cup DOMAIN stream
           /\ worker' \in [Workers -> Slots]
           /\ \A v \in Workers \ {w} : worker'[v] = worker[v]
           /\ SlotInv(w)'
<1>1. worker[w].msg \in DOMAIN stream /\ stream \in Seq(Messages)
  BY DEF Inv, SlotInv, TypeOK
<1>2. StreamStep /\ dlq' \subseteq dlq \cup DOMAIN stream
  BY <1>1, SettleStep, RedeliverStep DEF Ack, RetryLater
<1>3. worker' = [worker EXCEPT ![w] = Idle]
  BY DEF Ack, RetryLater, Release
<1>4. Idle \in Slots
  BY DEF Idle, Slots
<1>5. worker' \in [Workers -> Slots] /\ worker'[w] = Idle /\ \A v \in Workers \ {w} : worker'[v] = worker[v]
  BY <1>3, <1>4 DEF Inv, TypeOK
<1>6. SlotInv(w)'
  BY <1>5, SMT DEF SlotInv, Idle, Executing
<1> QED
  BY <1>2, <1>5, <1>6

\* A slot moves to another step of its job.
LEMMA GotoStep ==
    ASSUME Inv, NEW w \in Workers, worker[w].pc \notin {"down", "idle"},
           NEW pc \in {"checked", "refused"} \cup Executing, Goto(w, pc), UNCHANGED brokerVars
    PROVE  /\ StreamStep /\ dlq' \subseteq dlq \cup DOMAIN stream
           /\ worker' \in [Workers -> Slots]
           /\ \A v \in Workers \ {w} : worker'[v] = worker[v]
           /\ worker'[w].pc = pc /\ worker'[w].msg = worker[w].msg
           /\ RemOf(w) \in Rems /\ RemOf(w)' = RemOf(w)
           /\ worker[w].msg \in DOMAIN stream
<1>1. worker[w].msg \in DOMAIN stream /\ stream \in Seq(Messages) /\ stream' = stream /\ dlq' = dlq
  BY DEF Inv, SlotInv, TypeOK, brokerVars
<1>2. stream[worker[w].msg] \in Messages
  BY <1>1, MessageType
<1>3. /\ worker' \in [Workers -> Slots]
      /\ \A v \in Workers \ {w} : worker'[v] = worker[v]
      /\ worker'[w].pc = pc /\ worker'[w].msg = worker[w].msg
  <2> DEFINE new == [worker[w] EXCEPT !.pc = pc]
  <2>1. worker \in [Workers -> Slots] /\ worker[w] \in Slots
    BY DEF Inv, TypeOK
  <2>2. new \in Slots /\ new.pc = pc /\ new.msg = worker[w].msg
    BY <2>1 DEF Slots
  <2>3. worker' = [worker EXCEPT ![w] = new]
    BY DEF Goto
  <2> QED
    BY <2>1, <2>2, <2>3
<1> QED
  BY <1>1, <1>2, <1>3 DEF StreamStep, RemOf, Messages

\* A pulled message only moves its slot.
LEMMA FetchInv ==
    ASSUME Inv, NEW w \in Workers, NEW m \in DOMAIN stream, Fetch(w, m)
    PROVE  Inv'
<1> USE DEF Fetch, rowVars, effectVars
<1> DEFINE new == [stream[m] EXCEPT !.state = "inflight", !.deliveries = @ + 1]
<1> DEFINE slot == [pc |-> "fetched", msg |-> m, delivery |-> stream[m].deliveries + 1]
<1>1. stream \in Seq(Messages) /\ stream[m] \in Messages /\ m \in Nat
  BY MessageType, SeqElements, SMT DEF Inv, TypeOK
<1>2. new \in Messages /\ new.rem = stream[m].rem /\ slot \in Slots
  <2>1. stream[m].deliveries \in Nat /\ stream[m].deliveries + 1 \in Nat
    BY <1>1, SMT DEF Messages
  <2>2. new \in Messages /\ new.rem = stream[m].rem
    <3> DEFINE n == stream[m].deliveries + 1
    <3>1. new = [stream[m] EXCEPT !.state = "inflight", !.deliveries = n]
      OBVIOUS
    <3> HIDE DEF n, new
    <3> QED
      BY <1>1, <2>1, <3>1 DEF Messages, n
  <2>3. slot \in Slots
    BY <1>1, <2>1 DEF Slots
  <2> QED
    BY <2>2, <2>3
<1>3. stream' = [stream EXCEPT ![m] = new] /\ worker' = [worker EXCEPT ![w] = slot]
  OBVIOUS
<1> HIDE DEF new
<1>4. StreamStep
  BY <1>1, <1>2, <1>3, UpdateStep
<1>5. worker' \in [Workers -> Slots] /\ worker'[w] = slot /\ \A v \in Workers \ {w} : worker'[v] = worker[v]
  BY <1>2, <1>3, SMT DEF Inv, TypeOK
<1>6. SlotInv(w)'
  BY <1>4, <1>5 DEF SlotInv, StreamStep, Executing
<1>7. \A r \in Rems : RowInv(r)' /\ OutboxInv(r)'
  BY RowStable, OutboxStable DEF Inv
<1>8. \A r \in Rems : Claimed(r) => Claimed(r)' /\ (Effective(r)' => Effective(r))
  BY DEF Claimed, Effective
<1> QED
  BY <1>4, <1>5, <1>6, <1>7, <1>8, WorkerStep DEF Inv, TypeOK

\* A slot with a job names a remediation.
LEMMA RemOfType ==
    ASSUME Inv, NEW w \in Workers, worker[w].pc \notin {"down", "idle"}
    PROVE  RemOf(w) \in Rems
BY MessageType DEF Inv, TypeOK, SlotInv, RemOf, Messages

\* The entry of a skipped job names a status.
LEMMA SkipType ==
    ASSUME Inv, NEW w \in Workers, worker[w].pc \notin {"down", "idle"},
           auditSkip(RemOf(w)) \/ UNCHANGED audited
    PROVE  audited' \in [Rems -> SUBSET States]
BY RemOfType, RecordType DEF auditSkip, Record, Inv, TypeOK

\* The status check before the claim changes no row.
LEMMA CheckJobInv ==
    ASSUME Inv, NEW w \in Workers, CheckJob(w)
    PROVE  Inv'
<1> USE DEF CheckJob, rowVars, effectVars
<1>1. /\ StreamStep /\ dlq' \subseteq dlq \cup DOMAIN stream
      /\ worker' \in [Workers -> Slots]
      /\ \A v \in Workers \ {w} : worker'[v] = worker[v]
      /\ SlotInv(w)'
  <2>1. CASE Ack(w)
    BY <2>1, ReleaseStep
  <2>2. CASE ~Ack(w)
    <3>1. PICK pc \in {"checked", "refused"} : Goto(w, pc)
      BY <2>2
    <3>2. UNCHANGED brokerVars /\ worker[w].pc \notin {"down", "idle"}
      BY <2>2
    <3> QED
      BY <3>1, <3>2, GotoStep DEF SlotInv, Executing, brokerVars
  <2> QED
    BY <2>1, <2>2
<1>2. \A r \in Rems : RowInv(r)' /\ OutboxInv(r)'
  BY RowStable, OutboxStable DEF Inv
<1>3. \A r \in Rems : Claimed(r) => Claimed(r)' /\ (Effective(r)' => Effective(r))
  BY DEF Claimed, Effective
<1> QED
  BY <1>1, <1>2, <1>3, SkipType, WorkerStep DEF Inv, TypeOK

\* Marking a dispatchable remediation running keeps the row invariants.
LEMMA ClaimRow ==
    ASSUME Inv, NEW r \in Rems, Claimable(r), status' = [status EXCEPT ![r] = "running"],
           UNCHANGED <<kind, dryRun, dispatch, effectVars>>
    PROVE  /\ status' \in [Rems -> States] /\ Claimed(r)'
           /\ \A q \in Rems : Claimed(q) => Claimed(q)' /\ (Effective(q)' => Effective(q))
           /\ \A q \in Rems : RowInv(q)' /\ OutboxInv(q)'
<1> USE DEF Inv, Claimable, effectVars
<1>1. status' \in [Rems -> States] /\ Claimed(r)'
  BY DEF TypeOK, States, Claimed
<1>2. \A q \in Rems : Claimed(q) => Claimed(q)' /\ (Effective(q)' => Effective(q))
  BY DEF TypeOK, Claimed, Effective
<1>3. ASSUME NEW q \in Rems PROVE RowInv(q)'
  BY DEF RowInv, Claimed, Effective, IsTerminalState, TypeOK
<1>4. ASSUME NEW q \in Rems PROVE OutboxInv(q)'
  <2>1. /\ status'[q] = "approved" => status[q] = "approved"
        /\ Dispatchable(status'[q]) => Dispatchable(status[q])
    BY DEF TypeOK, Dispatchable
  <2> QED
    BY <2>1, OutboxStable
<1> QED
  BY <1>1, <1>2, <1>3, <1>4

\* Claim moves the row to running and the slot to its handler, or acks.
LEMMA ClaimInv ==
    ASSUME Inv, NEW w \in Workers, Claim(w)
    PROVE  Inv'
<1> USE DEF Claim, effectVars
<1>1. CASE Claimable(RemOf(w))
  <2>1. RemOf(w) \in Rems
    BY RemOfType
  <2>2. /\ status' \in [Rems -> States] /\ \A r \in Rems : r = RemOf(w) => Claimed(r)'
        /\ \A q \in Rems : Claimed(q) => Claimed(q)' /\ (Effective(q)' => Effective(q))
        /\ \A q \in Rems : RowInv(q)' /\ OutboxInv(q)'
    BY <1>1, <2>1, ClaimRow
  <2>3. /\ StreamStep /\ dlq' \subseteq dlq \cup DOMAIN stream
        /\ worker' \in [Workers -> Slots]
        /\ \A v \in Workers \ {w} : worker'[v] = worker[v]
        /\ worker'[w].pc = "running" /\ worker'[w].msg = worker[w].msg
        /\ RemOf(w)' = RemOf(w) /\ worker[w].msg \in DOMAIN stream
    BY <1>1, GotoStep DEF Executing
  <2>4. SlotInv(w)'
    BY <2>1, <2>2, <2>3 DEF SlotInv, StreamStep
  <2> QED
    BY <1>1, <2>2, <2>3, <2>4, WorkerStep DEF Inv, TypeOK
<1>2. CASE ~Claimable(RemOf(w))
  <2>1. Ack(w) /\ UNCHANGED status /\ audited' \in [Rems -> SUBSET States]
    BY <1>2, SkipType
  <2>2. \A r \in Rems : RowInv(r)' /\ OutboxInv(r)'
    BY <2>1, RowStable, OutboxStable DEF Inv
  <2>3. \A r \in Rems : Claimed(r) => Claimed(r)' /\ (Effective(r)' => Effective(r))
    BY <2>1 DEF Claimed, Effective
  <2> QED
    BY <2>1, <2>2, <2>3, ReleaseStep, WorkerStep DEF Inv, TypeOK
<1> QED
  BY <1>1, <1>2

\* A handler runs to its end, in time or not: the effect, if any, is the one
\* ApplyOnce records, and only for a claimed remediation.
LEMMA EffectRow ==
    ASSUME Inv, NEW r \in Rems, UNCHANGED <<rowVars, dispatch>>,
           Claimed(r), Effective(r), late' \in SUBSET Rems, late' \subseteq late \cup {r},
           ApplyOnce(r) \/ UNCHANGED <<receipt, applied>>
    PROVE  /\ receipt' \in [Rems -> BOOLEAN] /\ applied' \in [Rems -> Nat]
           /\ ApplyOnce(r) => receipt'[r]
           /\ \A q \in Rems : receipt[q] => receipt'[q]
           /\ \A q \in Rems : RowInv(q)' /\ OutboxInv(q)'
<1> USE DEF Inv, rowVars, ApplyOnce
<1>1. /\ receipt' \in [Rems -> BOOLEAN] /\ applied' \in [Rems -> Nat]
      /\ ApplyOnce(r) => receipt'[r]
      /\ \A q \in Rems : receipt[q] => receipt'[q]
  <2>1. receipt \in [Rems -> BOOLEAN] /\ applied \in [Rems -> Nat]
    BY DEF TypeOK
  <2>2. applied' \in [Rems -> Nat]
    <3> DEFINE n == IF receipt[r] THEN applied[r] ELSE applied[r] + 1
    <3>1. n \in Nat
      BY <2>1, SMT
    <3>2. applied' = [applied EXCEPT ![r] = n] \/ applied' = applied
      OBVIOUS
    <3> HIDE DEF n
    <3> QED
      BY <2>1, <3>1, <3>2
  <2>3. receipt' \in [Rems -> BOOLEAN]
    BY <2>1
  <2>4. ApplyOnce(r) => receipt'[r]
    BY <2>1
  <2>5. \A q \in Rems : receipt[q] => receipt'[q]
    BY <2>1
  <2> QED
    BY <2>2, <2>3, <2>4, <2>5
<1>2. ASSUME NEW q \in Rems PROVE RowInv(q)'
  <2>1. CASE q = r
    BY <2>1, SMT DEF RowInv, Claimed, Effective, IsTerminalState, TypeOK
  <2>2. CASE q # r
    BY <2>2 DEF RowInv, Claimed, Effective, IsTerminalState, TypeOK
  <2> QED
    BY <2>1, <2>2
<1>3. ASSUME NEW q \in Rems PROVE OutboxInv(q)'
  BY OutboxStable
<1> QED
  BY <1>1, <1>2, <1>3

\* A slot whose handler runs belongs to a claimed remediation.
LEMMA RunningClaimed ==
    ASSUME Inv, NEW w \in Workers, worker[w].pc \in Executing
    PROVE  RemOf(w) \in Rems /\ Claimed(RemOf(w))
BY RemOfType DEF Inv, SlotInv, Executing

\* The three ways a handler call returns.
LEMMA HandlerInv ==
    ASSUME Inv, NEW w \in Workers, HandlerOk(w) \/ HandlerErr(w) \/ HandlerTimeout(w)
    PROVE  Inv'
<1>1. /\ RemOf(w) \in Rems /\ Claimed(RemOf(w))
      /\ worker[w].pc = "running" /\ UNCHANGED <<rowVars, dispatch, brokerVars, beat>>
  BY RunningClaimed DEF HandlerOk, HandlerErr, HandlerTimeout, Executing
<1>2. PICK pc \in {"ok", "err", "timedout"} : Goto(w, pc) /\ (pc = "ok" => HandlerOk(w))
  BY DEF HandlerOk, HandlerErr, HandlerTimeout
<1>3. /\ StreamStep /\ dlq' \subseteq dlq \cup DOMAIN stream
      /\ worker' \in [Workers -> Slots]
      /\ \A v \in Workers \ {w} : worker'[v] = worker[v]
      /\ worker'[w].pc = pc /\ worker'[w].msg = worker[w].msg
      /\ RemOf(w)' = RemOf(w) /\ worker[w].msg \in DOMAIN stream
  BY <1>1, <1>2, GotoStep DEF Executing
<1>4. \A r \in Rems : /\ Claimed(r) <=> Claimed(r)'
                      /\ Effective(r)' <=> Effective(r)
  BY <1>1 DEF Claimed, Effective, rowVars
<1>5. /\ late' \in SUBSET Rems
      /\ receipt' \in [Rems -> BOOLEAN] /\ applied' \in [Rems -> Nat]
      /\ pc = "ok" /\ Effective(RemOf(w)) => receipt'[RemOf(w)]
      /\ \A q \in Rems : receipt[q] => receipt'[q]
      /\ \A q \in Rems : RowInv(q)' /\ OutboxInv(q)'
  <2>1. CASE Effective(RemOf(w))
    <3>1. /\ late' \in SUBSET Rems /\ late' \subseteq late \cup {RemOf(w)}
          /\ ApplyOnce(RemOf(w)) \/ UNCHANGED <<receipt, applied>>
          /\ pc = "ok" => ApplyOnce(RemOf(w))
      BY <1>1, <1>2, <2>1 DEF HandlerOk, HandlerErr, HandlerTimeout, Inv, TypeOK
    <3> QED
      BY <1>1, <2>1, <3>1, EffectRow
  <2>2. CASE ~Effective(RemOf(w))
    <3>1. UNCHANGED <<rowVars, dispatch, late, receipt, applied>>
      BY <1>1, <2>2 DEF HandlerOk, HandlerErr, HandlerTimeout
    <3> QED
      BY <2>2, <3>1, RowStable, OutboxStable DEF Inv, TypeOK, rowVars
  <2> QED
    BY <2>1, <2>2
<1>6. SlotInv(w)'
  BY <1>1, <1>2, <1>3, <1>4, <1>5 DEF SlotInv, StreamStep
<1> QED
  BY <1>1, <1>3, <1>4, <1>5, <1>6, WorkerStep DEF Inv, TypeOK, rowVars

\* A handler that outlived its timeout ends.
LEMMA LateHandlerInv ==
    ASSUME Inv, NEW r \in Rems, LateHandler(r)
    PROVE  Inv'
<1>1. /\ UNCHANGED <<rowVars, dispatch, brokerVars, worker, beat>>
      /\ late' \in SUBSET Rems /\ late' \subseteq late \cup {r}
      /\ ApplyOnce(r) \/ UNCHANGED <<receipt, applied>>
  BY DEF LateHandler, Inv, TypeOK
<1>2. Claimed(r) /\ Effective(r)
  BY DEF LateHandler, Inv, RowInv
<1>3. /\ receipt' \in [Rems -> BOOLEAN] /\ applied' \in [Rems -> Nat]
      /\ \A q \in Rems : receipt[q] => receipt'[q]
      /\ \A q \in Rems : RowInv(q)' /\ OutboxInv(q)'
  BY <1>1, <1>2, EffectRow
<1>4. StreamStep
  BY <1>1 DEF StreamStep, Inv, TypeOK, brokerVars
<1>5. \A w \in Workers : SlotInv(w)'
  BY <1>1, <1>3, <1>4, SlotsStable DEF Claimed, Effective, rowVars
<1> QED
  BY <1>1, <1>3, <1>5 DEF Inv, TypeOK, rowVars, brokerVars

\* A verdict is one of the final statuses a worker reports, and a success has
\* its receipt.
LEMMA VerdictType ==
    ASSUME Inv, NEW w \in Workers, Finishing(w)
    PROVE  /\ Verdict(worker[w].pc) \in {"succeeded", "failed", "timed_out"}
           /\ Verdict(worker[w].pc) = "succeeded" /\ Effective(RemOf(w)) => receipt[RemOf(w)]
           /\ worker[w].pc \notin {"down", "idle"}
           /\ RemOf(w) \in Rems
BY RemOfType DEF Verdict, Finishing, Inv, SlotInv

\* A step that frees the slot and at most moves the row on.
LEMMA FreeSlot ==
    ASSUME Inv, NEW w \in Workers, worker[w].pc \notin {"down", "idle"},
           Ack(w) \/ RetryLater(w) \/ (Redeliver(worker[w].msg) /\ Release(w)),
           UNCHANGED <<kind, dryRun, dispatch, beat, effectVars>>,
           status' \in [Rems -> States], audited' \in [Rems -> SUBSET States],
           \A q \in Rems : Claimed(q) => Claimed(q)' /\ (Effective(q)' => Effective(q)),
           \A q \in Rems : RowInv(q)' /\ OutboxInv(q)'
    PROVE  Inv'
<1>1. /\ StreamStep /\ dlq' \subseteq dlq \cup DOMAIN stream
      /\ worker' \in [Workers -> Slots]
      /\ \A v \in Workers \ {w} : worker'[v] = worker[v]
      /\ SlotInv(w)'
  BY ReleaseStep
<1> QED
  BY <1>1, WorkerStep DEF Inv, TypeOK, effectVars

\* A database error before or after the call took effect.
LEMMA DatabaseErrorInv ==
    ASSUME Inv, NEW w \in Workers, DatabaseError(w)
    PROVE  Inv'
<1>1. RetryLater(w) /\ UNCHANGED <<kind, dryRun, dispatch, beat, effectVars>>
  BY DEF DatabaseError
<1>2. CASE worker[w].pc \in {"fetched", "checked"} \cup Executing \cup {"refused"} /\ UNCHANGED <<status, audited>>
  <2>1. \A q \in Rems : Claimed(q) => Claimed(q)' /\ (Effective(q)' => Effective(q))
    BY <1>1, <1>2 DEF Claimed, Effective
  <2>2. \A q \in Rems : RowInv(q)' /\ OutboxInv(q)'
    BY <1>1, <1>2, RowStable, OutboxStable DEF Inv, effectVars
  <2> QED
    BY <1>1, <1>2, <2>1, <2>2, FreeSlot DEF Inv, TypeOK, Executing
<1>3. CASE /\ worker[w].pc = "checked" /\ Claimable(RemOf(w))
           /\ status' = [status EXCEPT ![RemOf(w)] = "running"] /\ UNCHANGED audited
  <2>1. RemOf(w) \in Rems
    BY <1>3, RemOfType
  <2>2. /\ status' \in [Rems -> States]
        /\ \A q \in Rems : Claimed(q) => Claimed(q)' /\ (Effective(q)' => Effective(q))
        /\ \A q \in Rems : RowInv(q)' /\ OutboxInv(q)'
    BY <1>1, <1>3, <2>1, ClaimRow
  <2> QED
    BY <1>1, <1>3, <2>2, FreeSlot DEF Inv, TypeOK
<1>4. CASE Finishing(w) /\ CompleteRemediation(RemOf(w), Verdict(worker[w].pc))
  <2>1. /\ status' \in [Rems -> States] /\ audited' \in [Rems -> SUBSET States]
        /\ \A q \in Rems : Claimed(q) => Claimed(q)' /\ (Effective(q)' => Effective(q))
        /\ \A q \in Rems : RowInv(q)' /\ OutboxInv(q)'
    BY <1>1, <1>4, VerdictType, CompleteInv
  <2> QED
    BY <1>1, <1>4, <2>1, VerdictType, FreeSlot
<1> QED
  BY <1>2, <1>3, <1>4 DEF DatabaseError, Finishing, Executing

\* The job ends and reports its verdict, or is naked for another attempt.
LEMMA FinishInv ==
    ASSUME Inv, NEW w \in Workers, Finish(w) \/ Retry(w)
    PROVE  Inv'
<1>1. CASE Finish(w)
  <2>1. /\ status' \in [Rems -> States] /\ audited' \in [Rems -> SUBSET States]
        /\ \A q \in Rems : Claimed(q) => Claimed(q)' /\ (Effective(q)' => Effective(q))
        /\ \A q \in Rems : RowInv(q)' /\ OutboxInv(q)'
    BY <1>1, VerdictType, CompleteInv DEF Finish
  <2> QED
    BY <1>1, <2>1, VerdictType, FreeSlot DEF Finish
<1>2. CASE Retry(w)
  <2> USE DEF Retry, rowVars, effectVars
  <2>1. \A q \in Rems : Claimed(q) => Claimed(q)' /\ (Effective(q)' => Effective(q))
    BY <1>2 DEF Claimed, Effective
  <2>2. \A q \in Rems : RowInv(q)' /\ OutboxInv(q)'
    BY <1>2, RowStable, OutboxStable DEF Inv
  <2>3. audited' \in [Rems -> SUBSET States]
    <3>1. "running" \in States /\ RemOf(w) \in Rems
      BY <1>2, RemOfType DEF States, Finishing
    <3> QED
      BY <1>2, <3>1, RecordType DEF Inv
  <2> QED
    BY <1>2, <2>1, <2>2, <2>3, FreeSlot DEF Inv, TypeOK
<1> QED
  BY <1>1, <1>2

\* A process dies, its heartbeat ages out, it starts again.
LEMMA ProcessInv ==
    ASSUME Inv, NEW w \in Workers, Crash(w) \/ HeartbeatExpires(w) \/ Restart(w)
    PROVE  Inv'
<1> USE DEF Crash, HeartbeatExpires, Restart, rowVars, effectVars, brokerVars
<1>1. StreamStep
  BY DEF StreamStep, Inv, TypeOK
<1>2. \A q \in Rems : Claimed(q) => Claimed(q)' /\ (Effective(q)' => Effective(q))
  BY DEF Claimed, Effective
<1>3. \A q \in Rems : RowInv(q)' /\ OutboxInv(q)'
  BY RowStable, OutboxStable DEF Inv
<1>4. \/ worker' = worker
      \/ worker' = [worker EXCEPT ![w] = Idle]
      \/ worker' = [worker EXCEPT ![w] = [Idle EXCEPT !.pc = "down"]]
  BY DEF Release
<1>5. Idle \in Slots /\ [Idle EXCEPT !.pc = "down"] \in Slots
  BY DEF Idle, Slots
<1>6. worker' \in [Workers -> Slots] /\ \A v \in Workers \ {w} : worker'[v] = worker[v]
  BY <1>4, <1>5 DEF Inv, TypeOK
<1>7. SlotInv(w)'
  <2>1. CASE worker' = worker
    BY <2>1, <1>1, <1>2, SlotStable DEF Inv
  <2>2. CASE worker' # worker
    <3>1. worker'[w].pc \in {"down", "idle"}
      BY <2>2, <1>4, SMT DEF Idle, Inv, TypeOK
    <3> QED
      BY <3>1 DEF SlotInv, Executing
  <2> QED
    BY <2>1, <2>2
<1>8. beat' \subseteq Workers
  BY DEF Inv, TypeOK
<1> QED
  BY <1>1, <1>2, <1>3, <1>6, <1>7, <1>8, WorkerStep DEF Inv, TypeOK

\* JetStream gives up on, redelivers or drops a message; a letter is discarded.
LEMMA BrokerInv ==
    ASSUME Inv,
           \/ \E m \in DOMAIN stream : AckTimeout(m) \/ Expire(m)
           \/ \E l \in dlq : Discard(l)
    PROVE  Inv'
<1>1. UNCHANGED <<rowVars, dispatch, worker, beat, effectVars>>
  BY DEF AckTimeout, Expire, Discard
<1>2. StreamStep /\ dlq' \subseteq dlq \cup DOMAIN stream
  <2>1. ASSUME NEW m \in DOMAIN stream, AckTimeout(m) \/ Expire(m)
        PROVE  StreamStep /\ dlq' \subseteq dlq \cup DOMAIN stream
    BY <2>1, RedeliverStep, GoneStep DEF AckTimeout, Expire, Inv, TypeOK
  <2>2. ASSUME NEW l \in dlq, Discard(l)
        PROVE  StreamStep /\ dlq' \subseteq dlq \cup DOMAIN stream
    BY <2>2 DEF Discard, StreamStep, Inv, TypeOK
  <2> QED
    BY <2>1, <2>2
<1>3. \A w \in Workers : SlotInv(w)'
  BY <1>1, <1>2, SlotsStable DEF Claimed, Effective, rowVars, effectVars
<1>4. \A q \in Rems : RowInv(q)' /\ OutboxInv(q)'
  BY <1>1, RowStable, OutboxStable DEF Inv, rowVars, effectVars
<1>5. DOMAIN stream \subseteq DOMAIN stream' /\ DOMAIN stream' \subseteq Nat
  BY <1>2, SeqElements, SMT DEF StreamStep
<1>6. (dlq \subseteq DOMAIN stream)'
  BY <1>2, <1>5 DEF Inv
<1> QED
  BY <1>1, <1>2, <1>3, <1>4, <1>5, <1>6 DEF Inv, TypeOK, StreamStep, rowVars, effectVars

-----------------------------------------------------------------------------
(* The invariant and its consequences.                                     *)

\* Nothing has happened yet.
LEMMA InitInv == Init => Inv
<1> SUFFICES ASSUME Init PROVE Inv
  OBVIOUS
<1> USE DEF Init
<1>1. TypeOK
  BY SMT DEF TypeOK, States, Idle, Slots
<1>2. \A w \in Workers : SlotInv(w)
  BY DEF SlotInv, Idle, Executing
<1>3. \A r \in Rems : RowInv(r) /\ OutboxInv(r)
  BY SMT DEF RowInv, OutboxInv, IsTerminalState, Dispatchable
<1> QED
  BY <1>1, <1>2, <1>3 DEF Inv

\* Every step keeps the invariant.
LEMMA NextInv == Inv /\ [Next]_vars => Inv'
<1> SUFFICES ASSUME Inv, [Next]_vars PROVE Inv'
  OBVIOUS
<1>1. CASE UNCHANGED vars
  BY <1>1 DEF vars, rowVars, brokerVars, effectVars, Inv, TypeOK, SlotInv, RowInv, OutboxInv,
              Claimed, Effective, RemOf
<1>2. CASE Operator
  BY <1>2, ExecuteInv, ReusedInv, CancelInv, ReplayInv, BrokerInv DEF Operator
<1>3. CASE Dispatcher
  BY <1>3, PublishInv, ReconcileInv DEF Dispatcher
<1>4. CASE Broker
  BY <1>4, BrokerInv DEF Broker
<1>5. ASSUME NEW w \in Workers, Worker(w) PROVE Inv'
  BY <1>5, FetchInv, CheckJobInv, ClaimInv, HandlerInv, FinishInv, DatabaseErrorInv, ProcessInv
     DEF Worker
<1>6. ASSUME NEW r \in Rems, LateHandler(r) PROVE Inv'
  BY <1>6, LateHandlerInv
<1> QED
  BY <1>1, <1>2, <1>3, <1>4, <1>5, <1>6 DEF Next

\* The inductive invariant holds in every reachable state of the pipeline, for
\* any number of remediations and worker slots.
THEOREM PipelineInvariant == Spec => []Inv
BY InitInv, NextInv, PTL DEF Spec

\* A cancelled remediation is never being executed and never took effect: a
\* handler, a late handler or a receipt needs a claim, and Cancel only takes
\* what was never claimed.
THEOREM CancelSafety == Spec => []CancelledNeverExecutes
<1>1. Inv => CancelledNeverExecutes
  <2> SUFFICES ASSUME Inv, NEW r \in Rems, status[r] = "cancelled"
               PROVE  /\ applied[r] = 0
                      /\ r \notin late
                      /\ \A w \in Workers : worker[w].pc \in Executing => RemOf(w) # r
    BY DEF CancelledNeverExecutes
  <2>1. ~Claimed(r)
    BY DEF Claimed
  <2> QED
    BY <2>1 DEF Inv, RowInv, SlotInv
<1> QED
  BY <1>1, PipelineInvariant, PTL

\* The target changes at most once, however often the job is delivered.
THEOREM EffectSafety == Spec => []EffectAtMostOnce
<1>1. Inv => EffectAtMostOnce
  BY SMT DEF Inv, RowInv, EffectAtMostOnce
<1> QED
  BY <1>1, PipelineInvariant, PTL

\* A remediation is reserved once, and one reserved as a dry run changes nothing.
THEOREM DryRunSafety == Spec => []DryRunNeverApplies
<1>1. Inv => DryRunNeverApplies
  BY SMT DEF Inv, RowInv, OutboxInv, DryRunNeverApplies, Effective
<1> QED
  BY <1>1, PipelineInvariant, PTL

\* A remediation reported succeeded has its change in place.
THEOREM SuccessSafety == Spec => []SuccessMeansApplied
<1>1. Inv => SuccessMeansApplied
  BY DEF Inv, RowInv, SuccessMeansApplied
<1> QED
  BY <1>1, PipelineInvariant, PTL

\* A queued or running remediation has an outbox row that carries its job.
THEOREM OutboxSafety == Spec => []JobNotStranded
<1>1. Inv => JobNotStranded
  <2> SUFFICES ASSUME Inv, NEW r \in Rems, Dispatchable(status[r])
               PROVE  \E k \in DOMAIN dispatch[r] : dispatch[r][k].state # "skipped"
    BY DEF JobNotStranded
  <2>1. dispatch[r] \in Seq(Rows) /\ dispatch[r] # <<>>
    BY DEF Inv, TypeOK, OutboxInv
  <2>2. 1 \in DOMAIN dispatch[r]
    BY <2>1, SeqElements, SMT
  <2> QED
    BY <2>2 DEF Inv, OutboxInv
<1> QED
  BY <1>1, PipelineInvariant, PTL

-----------------------------------------------------------------------------
(* Steps.                                                                  *)

\* What a step may do to the status and the effect of remediation r.
StatusStep(r) ==
    /\ UNCHANGED applied
    /\ \E s \in States :
          /\ CanTransition(status[r], s)
          /\ IsTerminalState(status[r]) => s = status[r]
          /\ status' = [status EXCEPT ![r] = s]
EffectStep(r) ==
    /\ Claimed(r)
    /\ applied[r] = 0
    /\ applied' = [applied EXCEPT ![r] = 1]
    /\ UNCHANGED status

\* A completion is such a step.
LEMMA CompleteStep ==
    ASSUME Inv, NEW r \in Rems, NEW s \in {"succeeded", "failed", "timed_out"},
           CompleteRemediation(r, s), UNCHANGED applied
    PROVE  StatusStep(r) \/ UNCHANGED <<status, applied>>
<1>1. CASE Dispatchable(status[r])
  <2>1. s \in States /\ ~IsTerminalState(status[r]) /\ CanTransition(status[r], s)
    BY <1>1 DEF States, IsTerminalState, Dispatchable, CanTransition, Transitions
  <2>2. status' = [status EXCEPT ![r] = s]
    BY <1>1 DEF CompleteRemediation, Transition
  <2> QED
    BY <2>1, <2>2 DEF StatusStep
<1>2. CASE ~Dispatchable(status[r])
  BY <1>2 DEF CompleteRemediation
<1> QED
  BY <1>1, <1>2

\* A claim is such a step.
LEMMA ClaimStep ==
    ASSUME NEW r \in Rems, Claimable(r), status' = [status EXCEPT ![r] = "running"],
           UNCHANGED applied
    PROVE  StatusStep(r)
<1>1. "running" \in States /\ ~IsTerminalState(status[r]) /\ CanTransition(status[r], "running")
  BY DEF Claimable, States, IsTerminalState, Dispatchable, CanTransition, Transitions
<1> QED
  BY <1>1 DEF StatusStep

\* A handler's effect is such a step.
LEMMA ApplyStep ==
    ASSUME Inv, NEW r \in Rems, Claimed(r), ApplyOnce(r), UNCHANGED status
    PROVE  EffectStep(r) \/ UNCHANGED <<status, applied>>
<1>1. applied[r] = (IF receipt[r] THEN 1 ELSE 0) /\ applied \in [Rems -> Nat]
  BY DEF Inv, RowInv, TypeOK
<1>2. CASE receipt[r]
  BY <1>1, <1>2 DEF ApplyOnce
<1>3. CASE ~receipt[r]
  <2>1. applied' = [applied EXCEPT ![r] = applied[r] + 1] /\ applied[r] = 0
    BY <1>1, <1>3 DEF ApplyOnce
  <2>2. applied[r] + 1 = 1
    BY <2>1, SMT
  <2> QED
    BY <2>1, <2>2 DEF EffectStep
<1> QED
  BY <1>2, <1>3

\* Every step moves one remediation along the table, or performs one effect,
\* or does neither.
LEMMA NextStep ==
    ASSUME Inv, Next
    PROVE  (\E r \in Rems : StatusStep(r) \/ EffectStep(r)) \/ UNCHANGED <<status, applied>>
<1> USE DEF rowVars, effectVars
<1>1. ASSUME NEW r \in Rems, NEW dry \in BOOLEAN, Execute(r, dry) PROVE StatusStep(r)
  <2>1. "queued" \in States /\ ~IsTerminalState(status[r]) /\ CanTransition(status[r], "queued")
    BY <1>1 DEF Execute, Reservable, States, IsTerminalState, CanTransition, Transitions
  <2> QED
    BY <1>1, <2>1 DEF Execute, Transition, StatusStep
<1>2. ASSUME NEW r \in Rems, Cancel(r) PROVE StatusStep(r)
  <2>1. /\ "cancelled" \in States /\ CanTransition(status[r], "cancelled")
        /\ IsTerminalState(status[r]) => status[r] = "cancelled"
    BY <1>2 DEF Cancel, Cancellable, States, IsTerminalState, CanTransition, Transitions
  <2> QED
    BY <1>2, <2>1 DEF Cancel, Transition, StatusStep
<1>3. ASSUME \/ \E l \in dlq : Replay(l) \/ Discard(l)
             \/ \E r \in Rems : ExecuteReused(r)
      PROVE  UNCHANGED <<status, applied>>
  BY <1>3 DEF Replay, Discard, ExecuteReused
<1>4. ASSUME NEW r \in Rems, NEW k \in DOMAIN dispatch[r],
             PublishSkip(r, k) \/ Publish(r, k) \/ PublishUnrecorded(r, k)
      PROVE  UNCHANGED <<status, applied>>
  BY <1>4 DEF PublishSkip, Publish, PublishUnrecorded
<1>5. ASSUME NEW r \in Rems, Reconcile(r) PROVE StatusStep(r) \/ UNCHANGED <<status, applied>>
  BY <1>5, CompleteStep DEF Reconcile
<1>6. ASSUME NEW m \in DOMAIN stream, AckTimeout(m) \/ Expire(m) PROVE UNCHANGED <<status, applied>>
  BY <1>6 DEF AckTimeout, Expire
<1>7. ASSUME NEW r \in Rems, LateHandler(r) PROVE EffectStep(r) \/ UNCHANGED <<status, applied>>
  <2>1. Claimed(r) /\ UNCHANGED status /\ (ApplyOnce(r) \/ UNCHANGED applied)
    BY <1>7 DEF LateHandler, Inv, RowInv
  <2> QED
    BY <2>1, ApplyStep
<1>8. ASSUME NEW w \in Workers, Worker(w)
      PROVE  (\E r \in Rems : StatusStep(r) \/ EffectStep(r)) \/ UNCHANGED <<status, applied>>
  <2>1. CASE Claim(w)
    <3>1. RemOf(w) \in Rems
      BY <2>1, RemOfType DEF Claim
    <3> QED
      BY <2>1, <3>1, ClaimStep DEF Claim
  <2>2. CASE HandlerOk(w) \/ HandlerErr(w)
    <3>1. RemOf(w) \in Rems /\ Claimed(RemOf(w))
      BY <2>2, RunningClaimed DEF HandlerOk, HandlerErr, Executing
    <3>2. UNCHANGED status /\ (ApplyOnce(RemOf(w)) \/ UNCHANGED applied)
      BY <2>2 DEF HandlerOk, HandlerErr
    <3> QED
      BY <3>1, <3>2, ApplyStep
  <2>3. CASE Finish(w)
    BY <2>3, VerdictType, CompleteStep DEF Finish
  <2>4. CASE DatabaseError(w)
    <3>1. UNCHANGED applied
      BY <2>4 DEF DatabaseError
    <3>2. CASE UNCHANGED status
      BY <3>1, <3>2
    <3>3. CASE worker[w].pc = "checked" /\ Claimable(RemOf(w)) /\ status' = [status EXCEPT ![RemOf(w)] = "running"]
      <4>1. RemOf(w) \in Rems
        BY <3>3, RemOfType
      <4> QED
        BY <3>1, <3>3, <4>1, ClaimStep
    <3>4. CASE Finishing(w) /\ CompleteRemediation(RemOf(w), Verdict(worker[w].pc))
      BY <3>1, <3>4, VerdictType, CompleteStep
    <3> QED
      BY <2>4, <3>2, <3>3, <3>4 DEF DatabaseError
  <2>5. CASE \/ \E m \in DOMAIN stream : Fetch(w, m)
             \/ CheckJob(w) \/ HandlerTimeout(w) \/ Retry(w)
             \/ Crash(w) \/ HeartbeatExpires(w) \/ Restart(w)
    BY <2>5 DEF Fetch, CheckJob, HandlerTimeout, Retry, Crash, HeartbeatExpires, Restart
  <2> QED
    BY <1>8, <2>1, <2>2, <2>3, <2>4, <2>5 DEF Worker
<1> QED
  BY <1>1, <1>2, <1>3, <1>4, <1>5, <1>6, <1>7, <1>8, SMT DEF Next, Operator, Dispatcher, Broker

\* A remediation that ended keeps its status, for every interleaving of
\* workers, reconciler and operators.
THEOREM EndSafety == Spec => EndIsFinal
<1>1. Inv /\ [Next]_vars => [\A r \in Rems : IsTerminalState(status[r]) => status'[r] = status[r]]_vars
  <2> SUFFICES ASSUME Inv, Next, NEW r \in Rems, IsTerminalState(status[r])
               PROVE  status'[r] = status[r]
    OBVIOUS
  <2> QED
    BY NextStep DEF StatusStep, EffectStep, Inv, TypeOK
<1> QED
  BY <1>1, PipelineInvariant, PTL DEF Spec, EndIsFinal

\* The pipeline implements the lifecycle: each of its steps is a move along the
\* transition table, the one effect of a claimed remediation, or neither.
THEOREM Refinement == Spec => ImplementsLifecycle
<1>1. Init => Lifecycle!Init
  BY DEF Init, Lifecycle!Init
<1>2. Inv /\ [Next]_vars => [Lifecycle!Next]_(Lifecycle!vars)
  <2> SUFFICES ASSUME Inv, Next
               PROVE  Lifecycle!Next \/ UNCHANGED Lifecycle!vars
    BY DEF vars, rowVars, effectVars, Lifecycle!vars
  <2>1. ASSUME NEW r \in Rems, StatusStep(r) PROVE Lifecycle!Next
    <3>1. PICK s \in States : CanTransition(status[r], s) /\ status' = [status EXCEPT ![r] = s]
      BY <2>1 DEF StatusStep
    <3>2. s \in Lifecycle!States /\ Lifecycle!CanTransition(status[r], s)
      BY <3>1 DEF States, CanTransition, Transitions,
                  Lifecycle!States, Lifecycle!CanTransition, Lifecycle!Transitions
    <3> QED
      BY <2>1, <3>1, <3>2 DEF StatusStep, Lifecycle!Next, Lifecycle!Move
  <2>2. ASSUME NEW r \in Rems, EffectStep(r) PROVE Lifecycle!Next
    BY <2>2 DEF EffectStep, Claimed, Lifecycle!Next, Lifecycle!Perform
  <2> QED
    BY <2>1, <2>2, NextStep DEF Lifecycle!vars
<1> QED
  BY <1>1, <1>2, PipelineInvariant, PTL DEF Spec, ImplementsLifecycle, Lifecycle!Spec

-----------------------------------------------------------------------------
(* The ledger.                                                             *)

\* EndIsAudited, of one remediation.
EndAudited(r) ==
    {s \in audited[r] : IsTerminalState(s)} = IF IsTerminalState(status[r]) THEN {status[r]} ELSE {}

\* What a step may do to the entries of remediation r: add some that name no
\* end but the one it is in after the step, and that one if the step ends it.
AuditStep(r) ==
    /\ audited[r] \subseteq audited'[r]
    /\ \A s \in audited'[r] \ audited[r] : IsTerminalState(s) => s = status'[r]
    /\ \/ status'[r] = status[r]
       \/ /\ ~IsTerminalState(status[r])
          /\ IsTerminalState(status'[r]) => status'[r] \in audited'[r]

\* Such a step keeps EndAudited.
LEMMA AuditStable ==
    ASSUME NEW r \in Rems, EndAudited(r), AuditStep(r)
    PROVE  EndAudited(r)'
<1>1. CASE IsTerminalState(status[r])
  <2>1. status'[r] = status[r] /\ status[r] \in audited[r]
    BY <1>1 DEF EndAudited, AuditStep
  <2> QED
    BY <1>1, <2>1 DEF EndAudited, AuditStep, IsTerminalState
<1>2. CASE ~IsTerminalState(status[r]) /\ IsTerminalState(status'[r])
  BY <1>2 DEF EndAudited, AuditStep, IsTerminalState
<1>3. CASE ~IsTerminalState(status[r]) /\ ~IsTerminalState(status'[r])
  BY <1>3 DEF EndAudited, AuditStep, IsTerminalState
<1> QED
  BY <1>1, <1>2, <1>3

\* An entry that repeats the status, or says running, is such a step.
LEMMA RecordStep ==
    ASSUME Inv, NEW r \in Rems, NEW s \in States, s = status[r] \/ ~IsTerminalState(s),
           Record(r, s), UNCHANGED status
    PROVE  \A q \in Rems : AuditStep(q)
<1>1. \/ audited' = audited
      \/ /\ audited'[r] = audited[r] \cup {s}
         /\ \A q \in Rems \ {r} : audited'[q] = audited[q]
  BY DEF Record, WriteTx, Inv, TypeOK
<1>2. AuditStep(r)
  BY <1>1 DEF AuditStep
<1>3. ASSUME NEW q \in Rems \ {r} PROVE AuditStep(q)
  BY <1>1, <1>3 DEF AuditStep
<1> QED
  BY <1>2, <1>3

\* So is a status change with its entry, of a remediation that did not end or
\* that ended in the same status,
LEMMA TransitionStep ==
    ASSUME Inv, NEW r \in Rems, NEW s \in States, Transition(r, s),
           IsTerminalState(status[r]) => s = status[r]
    PROVE  \A q \in Rems : AuditStep(q)
<1>1. /\ audited'[r] = audited[r] \cup {s} /\ status'[r] = s
      /\ \A q \in Rems \ {r} : audited'[q] = audited[q] /\ status'[q] = status[q]
  BY DEF Transition, WriteTx, Inv, TypeOK
<1>2. AuditStep(r)
  BY <1>1 DEF AuditStep
<1>3. ASSUME NEW q \in Rems \ {r} PROVE AuditStep(q)
  BY <1>1, <1>3 DEF AuditStep
<1> QED
  BY <1>2, <1>3

\* a completion,
LEMMA CompleteAudit ==
    ASSUME Inv, NEW r \in Rems, NEW s \in {"succeeded", "failed", "timed_out"},
           CompleteRemediation(r, s)
    PROVE  \A q \in Rems : AuditStep(q)
<1>1. CASE Dispatchable(status[r])
  <2>1. s \in States /\ ~IsTerminalState(status[r]) /\ Transition(r, s)
    BY <1>1 DEF CompleteRemediation, States, Dispatchable, IsTerminalState
  <2> QED
    BY <2>1, TransitionStep
<1>2. CASE ~Dispatchable(status[r])
  BY <1>2 DEF CompleteRemediation, AuditStep
<1> QED
  BY <1>1, <1>2

\* and a claim, which writes no entry.
LEMMA ClaimAudit ==
    ASSUME Inv, NEW r \in Rems, Claimable(r), status' = [status EXCEPT ![r] = "running"],
           UNCHANGED audited
    PROVE  \A q \in Rems : AuditStep(q)
BY DEF AuditStep, Claimable, Dispatchable, IsTerminalState, Inv, TypeOK

\* Every step is.
LEMMA NextAudit ==
    ASSUME Inv, [Next]_vars
    PROVE  \A q \in Rems : AuditStep(q)
<1> USE DEF rowVars
<1>1. CASE UNCHANGED <<status, audited>>
  BY <1>1 DEF AuditStep
<1>2. ASSUME NEW r \in Rems, NEW dry \in BOOLEAN, Execute(r, dry) PROVE \A q \in Rems : AuditStep(q)
  <2>1. "queued" \in States /\ ~IsTerminalState(status[r]) /\ Transition(r, "queued")
    BY <1>2 DEF Execute, Reservable, States, IsTerminalState
  <2> QED
    BY <2>1, TransitionStep
<1>3. ASSUME NEW r \in Rems, ExecuteReused(r) PROVE \A q \in Rems : AuditStep(q)
  BY <1>3, RecordStep DEF ExecuteReused, Inv, TypeOK
<1>4. ASSUME NEW r \in Rems, Cancel(r) PROVE \A q \in Rems : AuditStep(q)
  <2>1. /\ "cancelled" \in States /\ Transition(r, "cancelled")
        /\ IsTerminalState(status[r]) => "cancelled" = status[r]
    BY <1>4 DEF Cancel, Cancellable, States, IsTerminalState, CanTransition, Transitions
  <2> QED
    BY <2>1, TransitionStep
<1>5. ASSUME NEW l \in dlq, Replay(l) PROVE \A q \in Rems : AuditStep(q)
  <2> DEFINE r == stream[l].rem
  <2>1. r \in Rems /\ status[r] \in States
    BY MessageType DEF Inv, TypeOK, Messages
  <2>2. Record(r, status[r]) /\ UNCHANGED status
    BY <1>5 DEF Replay, redispatchTx, Record
  <2> HIDE DEF r
  <2> QED
    BY <2>1, <2>2, RecordStep
<1>6. ASSUME NEW r \in Rems, Reconcile(r) PROVE \A q \in Rems : AuditStep(q)
  <2>1. CASE Redispatches(dispatch[r]) >= MaxRedispatches
    BY <1>6, <2>1, CompleteAudit DEF Reconcile
  <2>2. CASE ~(Redispatches(dispatch[r]) >= MaxRedispatches)
    BY <1>6, <2>2, RecordStep DEF Reconcile, redispatchTx, Record, Inv, TypeOK
  <2> QED
    BY <2>1, <2>2
<1>7. ASSUME NEW w \in Workers, Worker(w) PROVE \A q \in Rems : AuditStep(q)
  <2>1. ASSUME worker[w].pc \notin {"down", "idle"}, auditSkip(RemOf(w)), UNCHANGED status
        PROVE  \A q \in Rems : AuditStep(q)
    BY <2>1, RemOfType, RecordStep DEF auditSkip, Record, Inv, TypeOK
  <2>2. CASE CheckJob(w)
    BY <2>1, <2>2, <1>1 DEF CheckJob
  <2>3. CASE Claim(w)
    <3>1. RemOf(w) \in Rems
      BY <2>3, RemOfType DEF Claim
    <3> QED
      BY <2>1, <2>3, <3>1, ClaimAudit DEF Claim
  <2>4. CASE Retry(w)
    <3>1. "running" \in States /\ ~IsTerminalState("running") /\ RemOf(w) \in Rems
      BY <2>4, RemOfType DEF Retry, States, IsTerminalState
    <3> QED
      BY <2>4, <3>1, RecordStep DEF Retry
  <2>5. CASE Finish(w)
    BY <2>5, VerdictType, CompleteAudit DEF Finish
  <2>6. CASE DatabaseError(w)
    <3>1. CASE worker[w].pc = "checked" /\ Claimable(RemOf(w)) /\ UNCHANGED audited
               /\ status' = [status EXCEPT ![RemOf(w)] = "running"]
      <4>1. RemOf(w) \in Rems
        BY <3>1, RemOfType
      <4> QED
        BY <3>1, <4>1, ClaimAudit
    <3>2. CASE Finishing(w) /\ CompleteRemediation(RemOf(w), Verdict(worker[w].pc))
      BY <3>2, VerdictType, CompleteAudit
    <3> QED
      BY <2>6, <3>1, <3>2, <1>1 DEF DatabaseError
  <2>7. CASE \/ \E m \in DOMAIN stream : Fetch(w, m)
             \/ HandlerOk(w) \/ HandlerErr(w) \/ HandlerTimeout(w)
             \/ Crash(w) \/ HeartbeatExpires(w) \/ Restart(w)
    BY <2>7, <1>1 DEF Fetch, HandlerOk, HandlerErr, HandlerTimeout, Crash, HeartbeatExpires, Restart
  <2> QED
    BY <1>7, <2>2, <2>3, <2>4, <2>5, <2>6, <2>7 DEF Worker
<1>8. CASE \/ UNCHANGED vars \/ Broker
           \/ \E r \in Rems : LateHandler(r)
           \/ \E l \in dlq : Discard(l)
           \/ \E r \in Rems : \E k \in DOMAIN dispatch[r] :
                 PublishSkip(r, k) \/ Publish(r, k) \/ PublishUnrecorded(r, k)
  BY <1>8, <1>1 DEF vars, Broker, AckTimeout, Expire, LateHandler, Discard,
                    PublishSkip, Publish, PublishUnrecorded
<1> QED
  BY <1>2, <1>3, <1>4, <1>5, <1>6, <1>7, <1>8, SMT DEF Next, Operator, Dispatcher

\* The ledger has an entry with the status a remediation ended in and none with
\* another end, although the workers also write entries that name a status
\* they read before (Retry) and whose loss is only logged.
THEOREM AuditSafety == Spec => []EndIsAudited
<1>1. Init => EndIsAudited
  BY DEF Init, EndIsAudited, IsTerminalState
<1>2. Inv /\ EndIsAudited /\ [Next]_vars => EndIsAudited'
  <2> SUFFICES ASSUME Inv, \A r \in Rems : EndAudited(r), [Next]_vars
               PROVE  \A r \in Rems : EndAudited(r)'
    BY DEF EndIsAudited, EndAudited
  <2> QED
    BY NextAudit, AuditStable
<1> QED
  BY <1>1, <1>2, PipelineInvariant, PTL DEF Spec

-----------------------------------------------------------------------------
(* The reconciler's bound.                                                 *)

\* The rows Redispatches counts.
Counted(rows) ==
    {k \in DOMAIN rows :
        /\ rows[k].reason = "redispatch"
        /\ \A j \in DOMAIN rows : rows[j].reason # "redispatch" => j < k}

\* There are finitely many of them.
LEMMA CountedFinite ==
    ASSUME NEW rows \in Seq(Rows)
    PROVE  /\ IsFiniteSet(Counted(rows)) /\ Redispatches(rows) = Cardinality(Counted(rows))
           /\ Redispatches(rows) \in Nat
<1>1. IsFiniteSet(DOMAIN rows)
  BY SeqElements, FS_Interval, SMT
<1>2. IsFiniteSet(Counted(rows))
  BY <1>1, FS_Subset DEF Counted
<1> QED
  BY <1>2, FS_CardinalityType DEF Redispatches, Counted

\* Marking rows does not change the count.
LEMMA SameCount ==
    ASSUME NEW old, NEW new, SameReasons(old, new)
    PROVE  Redispatches(new) = Redispatches(old)
<1>1. Counted(new) = Counted(old)
  BY DEF Counted, SameReasons
<1> QED
  BY <1>1 DEF Redispatches, Counted

\* A re-send adds one; an execute or a replay starts the count again.
LEMMA EnqueueCount ==
    ASSUME TypeOK, NEW r \in Rems, NEW reason \in {"execute", "redispatch", "replay"},
           Enqueue(r, reason)
    PROVE  Redispatches(dispatch'[r]) =
               IF reason = "redispatch" THEN Redispatches(dispatch[r]) + 1 ELSE 0
<1> DEFINE last == Len(dispatch[r]) + 1
<1>1. /\ dispatch'[r] \in Seq(Rows) /\ dispatch[r] \in Seq(Rows)
      /\ DOMAIN dispatch'[r] = DOMAIN dispatch[r] \cup {last}
      /\ \A k \in DOMAIN dispatch[r] : dispatch'[r][k] = dispatch[r][k]
      /\ dispatch'[r][last].reason = reason
  BY EnqueueStep DEF TypeOK
<1>2. last \in Nat /\ DOMAIN dispatch[r] \subseteq Nat /\ \A k \in DOMAIN dispatch[r] : k < last
  BY <1>1, SeqElements, SMT
<1> HIDE DEF last
<1>3. CASE reason = "redispatch"
  <2>1. Counted(dispatch'[r]) = Counted(dispatch[r]) \cup {last}
    BY <1>1, <1>2, <1>3 DEF Counted
  <2>2. last \notin Counted(dispatch[r])
    BY <1>2, SMT DEF Counted
  <2> QED
    BY <1>1, <1>3, <2>1, <2>2, CountedFinite, FS_AddElement, SMT
<1>4. CASE reason # "redispatch"
  <2>1. Counted(dispatch'[r]) = {}
    BY <1>1, <1>2, <1>4, SMT DEF Counted
  <2> QED
    BY <1>1, <1>4, <2>1, CountedFinite, FS_EmptySet
<1> QED
  BY <1>3, <1>4

\* A remediation is re-sent at most MaxRedispatches times since it was last
\* executed or replayed, whatever the crashes and races.
THEOREM RedispatchSafety == Spec => []RedispatchBounded
<1>1. Init => RedispatchBounded
  <2> SUFFICES ASSUME Init PROVE Redispatches(<<>>) <= MaxRedispatches
    BY DEF Init, RedispatchBounded
  <2>1. Counted(<<>>) = {}
    BY SMT DEF Counted
  <2> QED
    BY <2>1, FS_EmptySet, PipelineAssumption, SMT DEF Redispatches, Counted
<1>2. Inv /\ RedispatchBounded /\ [Next]_vars => RedispatchBounded'
  <2> SUFFICES ASSUME Inv, RedispatchBounded, [Next]_vars PROVE RedispatchBounded'
    OBVIOUS
  <2> USE DEF rowVars, effectVars
  <2>1. CASE UNCHANGED dispatch
    BY <2>1 DEF RedispatchBounded
  <2>2. ASSUME NEW r \in Rems, NEW reason \in {"execute", "redispatch", "replay"}, Enqueue(r, reason),
               reason = "redispatch" => Redispatches(dispatch[r]) < MaxRedispatches
        PROVE  RedispatchBounded'
    <3>1. \A q \in Rems \ {r} : dispatch'[q] = dispatch[q]
      BY <2>2, EnqueueStep DEF Inv
    <3>2. dispatch[r] \in Seq(Rows) /\ Redispatches(dispatch[r]) \in Nat
      BY CountedFinite DEF Inv, TypeOK
    <3>3. Redispatches(dispatch'[r]) = IF reason = "redispatch" THEN Redispatches(dispatch[r]) + 1 ELSE 0
      BY <2>2, EnqueueCount DEF Inv
    <3>4. Redispatches(dispatch'[r]) <= MaxRedispatches
      BY <2>2, <3>2, <3>3, PipelineAssumption, SMT
    <3> QED
      BY <3>1, <3>4 DEF RedispatchBounded
  <2>3. ASSUME NEW r \in Rems, NEW k \in DOMAIN dispatch[r],
               PublishSkip(r, k) \/ Publish(r, k) \/ PublishUnrecorded(r, k)
        PROVE  RedispatchBounded'
    <3>1. CASE PublishUnrecorded(r, k)
      BY <3>1, <2>1 DEF PublishUnrecorded
    <3>2. CASE PublishSkip(r, k) \/ Publish(r, k)
      <4>1. \A q \in Rems : SameReasons(dispatch[q], dispatch'[q])
        BY <3>2, MarkRow DEF PublishSkip, Publish
      <4>2. \A q \in Rems : Redispatches(dispatch'[q]) = Redispatches(dispatch[q])
        BY <4>1, SameCount
      <4> QED
        BY <4>2 DEF RedispatchBounded
    <3> QED
      BY <2>3, <3>1, <3>2
  <2>4. ASSUME NEW r \in Rems, Reconcile(r) PROVE RedispatchBounded'
    <3>1. dispatch[r] \in Seq(Rows) /\ Redispatches(dispatch[r]) \in Nat
      BY CountedFinite DEF Inv, TypeOK
    <3>2. CASE Redispatches(dispatch[r]) >= MaxRedispatches
      BY <2>4, <3>2, <2>1 DEF Reconcile
    <3>3. CASE ~(Redispatches(dispatch[r]) >= MaxRedispatches)
      <4>1. Enqueue(r, "redispatch")
        BY <2>4, <3>3 DEF Reconcile, redispatchTx
      <4>2. Redispatches(dispatch[r]) < MaxRedispatches
        BY <3>1, <3>3, PipelineAssumption, SMT
      <4> QED
        BY <4>1, <4>2, <2>2
    <3> QED
      BY <3>2, <3>3
  <2>5. ASSUME NEW l \in dlq, Replay(l) PROVE RedispatchBounded'
    <3>1. stream[l].rem \in Rems
      BY MessageType DEF Inv, TypeOK, Messages
    <3> QED
      BY <2>5, <3>1, <2>2 DEF Replay, redispatchTx
  <2>6. ASSUME NEW r \in Rems, NEW dry \in BOOLEAN, Execute(r, dry) PROVE RedispatchBounded'
    BY <2>6, <2>2 DEF Execute
  <2>7. ASSUME NEW w \in Workers, Worker(w) PROVE UNCHANGED dispatch
    BY <2>7 DEF Worker, Fetch, CheckJob, Claim, HandlerOk, HandlerErr, HandlerTimeout, Retry,
                Finish, DatabaseError, Crash, HeartbeatExpires, Restart
  <2>8. CASE \/ UNCHANGED vars \/ Broker
             \/ \E r \in Rems : ExecuteReused(r) \/ Cancel(r) \/ LateHandler(r)
             \/ \E l \in dlq : Discard(l)
    <3>1. UNCHANGED dispatch
      BY <2>8 DEF vars, Broker, AckTimeout, Expire, ExecuteReused, Cancel, LateHandler, Discard
    <3> QED
      BY <3>1, <2>1
  <2> QED
    BY <2>1, <2>3, <2>4, <2>5, <2>6, <2>7, <2>8 DEF Next, Operator, Dispatcher
<1> QED
  BY <1>1, <1>2, PipelineInvariant, PTL DEF Spec

=============================================================================

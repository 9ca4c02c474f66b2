---------------------------- MODULE ControlState ----------------------------
(***************************************************************************)
(* PostgresControlStateStore.ApplyOnce, statement by statement: several    *)
(* workers run it at once, with the same key (redelivered, redispatched or *)
(* replayed jobs) and with different keys of one target.  A transaction    *)
(* takes the advisory lock of the key and that of the target, both from    *)
(* one space of 32-bit hashes, and PostgreSQL's row locks on the way.      *)
(***************************************************************************)
EXTENDS Integers, FiniteSets

CONSTANTS
    Workers,   \* handlers that run at the same time
    Keys,      \* idempotency keys
    Targets,   \* (resource_type, target) pairs
    TargetOf,  \* the target of each key
    Fields,    \* fields of the states
    Values,    \* their values
    Desired,   \* the desired state of each key
    Hash,      \* hashtext
    None       \* no owner

ASSUME ControlStateAssumption ==
    /\ TargetOf \in [Keys -> Targets]
    /\ Desired \in [Keys -> UNION {[F -> Values] : F \in (SUBSET Fields) \ {{}}}]
    /\ None \notin Workers

VARIABLES
    state,     \* remediation_target_states.state, the empty map without a row
    receipts,  \* remediation_execution_receipts
    tx,        \* the transaction of each worker
    held,      \* the advisory locks each worker holds
    rowLock,   \* the worker that has locked or inserted a target's row
    answers    \* results that ApplyOnce returned

vars == <<state, receipts, tx, held, rowLock, answers>>

Store == INSTANCE ControlStateSpec

Idle == [pc |-> "idle"]
Statements == {"key", "target", "receipt", "read", "write", "insert", "commit"}
Transactions == [pc: {"idle"}] \cup [pc: Statements, key: Keys, before: Store!Maps]
RowExists(t) == state[t] # Store!Empty

Init ==
    /\ state = [t \in Targets |-> Store!Empty]
    /\ receipts = {}
    /\ tx = [w \in Workers |-> Idle]
    /\ held = [w \in Workers |-> {}]
    /\ rowLock = [t \in Targets |-> None]
    /\ answers = {}

-----------------------------------------------------------------------------
At(w, pc) == tx[w].pc = pc
Goto(w, pc) == tx' = [tx EXCEPT ![w].pc = pc]

\* Mutant: session locks instead of transaction locks.
EndKeepsLocks(w) ==
    /\ tx' = [tx EXCEPT ![w] = Idle]
    /\ rowLock' = [t \in Targets |-> IF rowLock[t] = w THEN None ELSE rowLock[t]]
    /\ UNCHANGED held

\* The end of a transaction releases everything it holds.
End(w) ==
    /\ tx' = [tx EXCEPT ![w] = Idle]
    /\ held' = [held EXCEPT ![w] = {}]
    /\ rowLock' = [t \in Targets |-> IF rowLock[t] = w THEN None ELSE rowLock[t]]

Begin(w, k) ==
    /\ At(w, "idle")
    /\ tx' = [tx EXCEPT ![w] = [pc |-> "key", key |-> k, before |-> Store!Empty]]
    /\ UNCHANGED <<state, receipts, held, rowLock, answers>>

\* pg_advisory_xact_lock
Lock(w, h) ==
    /\ \A v \in Workers \ {w} : h \notin held[v]
    /\ held' = [held EXCEPT ![w] = @ \cup {h}]

LockKey(w) ==
    /\ At(w, "key")
    /\ Lock(w, Hash[tx[w].key])
    /\ Goto(w, "target")
    /\ UNCHANGED <<state, receipts, rowLock, answers>>

\* Mutant: the target is not locked.
LockTargetNot(w) ==
    /\ At(w, "target")
    /\ Goto(w, "receipt")
    /\ UNCHANGED <<state, receipts, held, rowLock, answers>>

LockTarget(w) ==
    /\ At(w, "target")
    /\ Lock(w, Hash[TargetOf[tx[w].key]])
    /\ Goto(w, "receipt")
    /\ UNCHANGED <<state, receipts, rowLock, answers>>

\* Mutant: the reused result shows the state the target has now.
ReadReceiptAfresh(w) ==
    /\ At(w, "receipt")
    /\ LET k == tx[w].key
       IN  IF Store!HasReceipt(k)
           THEN /\ answers' = answers \cup {Store!Receipt(k, state[TargetOf[k]])}
                /\ End(w)
           ELSE /\ Goto(w, "read")
                /\ UNCHANGED <<held, rowLock, answers>>
    /\ UNCHANGED <<state, receipts>>

\* The stored result is returned, or the work begins.
ReadReceipt(w) ==
    /\ At(w, "receipt")
    /\ LET k == tx[w].key
       IN  IF Store!HasReceipt(k)
           THEN /\ answers' = answers \cup {x \in receipts : x.key = k}
                /\ End(w)
           ELSE /\ Goto(w, "read")
                /\ UNCHANGED <<held, rowLock, answers>>
    /\ UNCHANGED <<state, receipts>>

\* SELECT ... FOR UPDATE locks the row if there is one.
currentStateTx(w) ==
    LET t == TargetOf[tx[w].key]
    IN  /\ At(w, "read")
        /\ RowExists(t) => rowLock[t] \in {None, w}
        /\ rowLock' = IF RowExists(t) THEN [rowLock EXCEPT ![t] = w] ELSE rowLock
        /\ tx' = [tx EXCEPT ![w].pc = "write", ![w].before = state[t]]
        /\ UNCHANGED <<state, receipts, held, answers>>

\* INSERT ... ON CONFLICT DO UPDATE waits for another writer of the row.
Upsert(w) ==
    LET t == TargetOf[tx[w].key]
    IN  /\ At(w, "write")
        /\ rowLock[t] \in {None, w}
        /\ rowLock' = [rowLock EXCEPT ![t] = w]
        /\ Goto(w, "insert")
        /\ UNCHANGED <<state, receipts, held, answers>>

\* The primary key lets the insert wait for another transaction that inserted
\* the same key, and fail if that committed.
InsertReceipt(w) ==
    /\ At(w, "insert")
    /\ \A v \in Workers \ {w} : At(v, "commit") => tx[v].key # tx[w].key
    /\ ~Store!HasReceipt(tx[w].key)
    /\ Goto(w, "commit")
    /\ UNCHANGED <<state, receipts, held, rowLock, answers>>

\* The commit makes the new state and the receipt visible; its answer may be
\* lost.
Commit(w) ==
    LET x == Store!Receipt(tx[w].key, tx[w].before)
    IN  /\ At(w, "commit")
        /\ state' = [state EXCEPT ![TargetOf[tx[w].key]] = x.after]
        /\ receipts' = receipts \cup {x}
        /\ answers' \in {answers, answers \cup {x}}
        /\ End(w)

\* A statement fails, the job times out, the worker dies, or PostgreSQL picks
\* the transaction as the victim of a deadlock.
Rollback(w) ==
    /\ ~At(w, "idle")
    /\ End(w)
    /\ UNCHANGED <<state, receipts, answers>>

Statement(w) ==
    \/ LockKey(w) \/ LockTarget(w) \/ ReadReceipt(w) \/ currentStateTx(w) \/ Upsert(w)
    \/ InsertReceipt(w) \/ Commit(w)
ApplyOnce(w) == (\E k \in Keys : Begin(w, k)) \/ Statement(w) \/ Rollback(w)

Next == \E w \in Workers : ApplyOnce(w)

Spec == Init /\ [][Next]_vars

-----------------------------------------------------------------------------
(* Properties.                                                             *)

TypeOK ==
    /\ state \in [Targets -> Store!Maps]
    /\ receipts \subseteq Store!Receipts
    /\ tx \in [Workers -> Transactions]
    /\ held \in [Workers -> SUBSET {Hash[x] : x \in Keys \cup Targets}]
    /\ rowLock \in [Targets -> Workers \cup {None}]
    /\ answers \subseteq Store!Receipts

\* However the statements of concurrent transactions interleave, fail and roll
\* back, each commit is one atomic application of a key that was not applied
\* before, and its receipt shows the state it really replaced.
ImplementsStore == Store!Spec

\* Every caller is told the same result for a key, the one in its receipt,
\* whether its own transaction did the work or found it done.
AnswersAgree ==
    /\ answers \subseteq receipts
    /\ \A x, y \in answers : x.key = y.key => x = y

\* The inductive invariant: each transaction holds the locks its statements took
\* and no two hold the same one; so a transaction that found no receipt of its
\* key, and the state of its target, still knows them when it commits.
Working(w) == tx[w].pc \in {"read", "write", "insert", "commit"}
LocksOf(w) ==
    CASE tx[w].pc \in {"idle", "key"} -> {}
      [] tx[w].pc = "target" -> {Hash[tx[w].key]}
      [] OTHER -> {Hash[tx[w].key], Hash[TargetOf[tx[w].key]]}
TxInv(w) ==
    /\ held[w] = LocksOf(w)
    /\ \A v \in Workers \ {w} : held[v] \cap held[w] = {}
    /\ Working(w) => ~Store!HasReceipt(tx[w].key)
    /\ Working(w) /\ tx[w].pc # "read" => tx[w].before = state[TargetOf[tx[w].key]]
    /\ \A t \in Targets : rowLock[t] = w => Working(w) /\ tx[w].pc # "read" /\ TargetOf[tx[w].key] = t
Inv ==
    /\ TypeOK
    /\ \A w \in Workers : TxInv(w)
    /\ \A x, y \in receipts : x.key = y.key => x = y
    /\ answers \subseteq receipts

\* The workers whose locks w waits for.
Holders(w, h) == {v \in Workers \ {w} : h \in held[v]}
WaitsFor(w) ==
    CASE At(w, "key") -> Holders(w, Hash[tx[w].key])
      [] At(w, "target") -> Holders(w, Hash[TargetOf[tx[w].key]])
      [] At(w, "read") /\ RowExists(TargetOf[tx[w].key]) -> {rowLock[TargetOf[tx[w].key]]} \ {None, w}
      [] At(w, "write") -> {rowLock[TargetOf[tx[w].key]]} \ {None, w}
      [] At(w, "insert") -> {v \in Workers \ {w} : At(v, "commit") /\ tx[v].key = tx[w].key}
      [] OTHER -> {}
Cycle(S) == S # {} /\ \A w \in S : WaitsFor(w) \cap S # {}

\* The locks are always taken in the order key, target, row: handlers wait for
\* each other in a circle only if the key of one has the hash of a target of
\* one of them.
NoWaitCycle ==
    \A S \in SUBSET Workers :
        Cycle(S) => \E v, w \in S : Hash[tx[v].key] = Hash[TargetOf[tx[w].key]]

-----------------------------------------------------------------------------
(* Liveness.  PostgreSQL grants a lock in the order of the requests, so a  *)
(* transaction that waits again and again for a lock gets it, and rolls    *)
(* back one transaction of every deadlock.                                 *)

Victim(w) == (\E S \in SUBSET Workers : w \in S /\ Cycle(S)) /\ Rollback(w)
Fairness == \A w \in Workers : SF_vars(Statement(w)) /\ SF_vars(Victim(w))
FairSpec == Spec /\ Fairness

\* A handler never hangs in ApplyOnce, even when a key and a target share a
\* hash.
CallEnds == \A w \in Workers : ~At(w, "idle") ~> At(w, "idle")

=============================================================================

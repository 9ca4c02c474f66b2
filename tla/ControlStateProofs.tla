------------------------- MODULE ControlStateProofs -------------------------
(* Proofs about ControlState, for any workers, keys, targets and hash.     *)
EXTENDS ControlState, TLAPS

\* Merging maps gives a map, which is not empty when something was merged in.
LEMMA MergeType ==
    ASSUME NEW c \in Store!Maps, NEW k \in Keys
    PROVE  /\ Store!Receipt(k, c) \in Store!Receipts
           /\ Store!Receipt(k, c).key = k
           /\ Store!Receipt(k, c).after \in Store!Maps
<1>1. PICK F \in SUBSET Fields : c \in [F -> Values]
  BY DEF Store!Maps
<1>2. PICK G \in SUBSET Fields : Desired[k] \in [G -> Values]
  BY ControlStateAssumption
<1>3. Store!mergeState(c, Desired[k]) \in [F \cup G -> Values]
  BY <1>1, <1>2 DEF Store!mergeState
<1>4. Store!mergeState(c, Desired[k]) \in Store!Maps
  BY <1>1, <1>2, <1>3 DEF Store!Maps
<1> QED
  BY <1>4 DEF Store!Receipt, Store!Receipts

\* The empty map is a map.
LEMMA EmptyType == Store!Empty \in Store!Maps
<1>1. Store!Empty \in [{} -> Values]
  BY DEF Store!Empty
<1> QED
  BY <1>1 DEF Store!Maps

\* A transaction that is not idle has a key and what it read.
LEMMA TxType ==
    ASSUME TypeOK, NEW w \in Workers, tx[w].pc # "idle"
    PROVE  /\ tx[w] \in [pc: Statements, key: Keys, before: Store!Maps]
           /\ tx[w].key \in Keys /\ tx[w].before \in Store!Maps
           /\ TargetOf[tx[w].key] \in Targets
           /\ state[TargetOf[tx[w].key]] \in Store!Maps
BY ControlStateAssumption DEF TypeOK, Transactions

\* Moving a transaction on.
LEMMA GotoStep ==
    ASSUME TypeOK, NEW w \in Workers, tx[w].pc # "idle", NEW pc \in Statements, Goto(w, pc)
    PROVE  /\ tx' \in [Workers -> Transactions]
           /\ tx'[w].pc = pc /\ tx'[w].key = tx[w].key /\ tx'[w].before = tx[w].before
           /\ \A v \in Workers \ {w} : tx'[v] = tx[v]
<1>1. tx[w] \in [pc: Statements, key: Keys, before: Store!Maps]
  BY TxType
<1>2. tx \in [Workers -> Transactions]
  BY DEF TypeOK
<1>3. tx' = [tx EXCEPT ![w] = [tx[w] EXCEPT !.pc = pc]]
  BY DEF Goto
<1>4. [tx[w] EXCEPT !.pc = pc] \in Transactions
  BY <1>1 DEF Transactions
<1> QED
  BY <1>1, <1>2, <1>3, <1>4

-----------------------------------------------------------------------------
(* The invariant, one lemma per statement.                                 *)

\* Begin takes no lock.
LEMMA BeginInv ==
    ASSUME Inv, NEW w \in Workers, NEW k \in Keys, Begin(w, k)
    PROVE  Inv'
<1> DEFINE b == [pc |-> "key", key |-> k, before |-> Store!Empty]
<1>1. b \in Transactions
  BY EmptyType DEF Transactions, Statements
<1>2. tx' = [tx EXCEPT ![w] = b] /\ b.pc = "key" /\ tx[w].pc = "idle"
  BY DEF Begin, At
<1> HIDE DEF b
<1>3. TypeOK'
  BY <1>1, <1>2 DEF Begin, Inv, TypeOK
<1>4. ASSUME NEW v \in Workers PROVE TxInv(v)'
  BY <1>2 DEF Begin, Inv, TypeOK, TxInv, LocksOf, Working, Store!HasReceipt
<1> QED
  BY <1>3, <1>4 DEF Inv, Begin

\* A statement that only moves on and takes an advisory lock.
LEMMA LockInv ==
    ASSUME Inv, NEW w \in Workers, LockKey(w) \/ LockTarget(w)
    PROVE  Inv'
<1>1. tx[w].pc \in {"key", "target"} /\ tx[w].pc # "idle"
  BY DEF LockKey, LockTarget, At
<1>2. tx[w].key \in Keys /\ TargetOf[tx[w].key] \in Targets
  BY <1>1, TxType DEF Inv
<1>3. PICK pc \in Statements, h \in {Hash[x] : x \in Keys \cup Targets} :
          /\ Goto(w, pc) /\ Lock(w, h)
          /\ \/ tx[w].pc = "key" /\ pc = "target" /\ h = Hash[tx[w].key]
             \/ tx[w].pc = "target" /\ pc = "receipt" /\ h = Hash[TargetOf[tx[w].key]]
  BY <1>2 DEF LockKey, LockTarget, At, Statements
<1>4. /\ tx' \in [Workers -> Transactions]
      /\ tx'[w].pc = pc /\ tx'[w].key = tx[w].key /\ tx'[w].before = tx[w].before
      /\ \A v \in Workers \ {w} : tx'[v] = tx[v]
  BY <1>1, <1>3, GotoStep DEF Inv
<1>5. UNCHANGED <<state, receipts, rowLock, answers>>
  BY DEF LockKey, LockTarget
<1>6. /\ held \in [Workers -> SUBSET {Hash[x] : x \in Keys \cup Targets}]
      /\ held' = [held EXCEPT ![w] = @ \cup {h}]
      /\ \A v \in Workers \ {w} : h \notin held[v]
  BY <1>3 DEF Lock, Inv, TypeOK
<1>7. TypeOK'
  BY <1>4, <1>5, <1>6 DEF Inv, TypeOK
<1>8. held'[w] = LocksOf(w)'
  BY <1>3, <1>4, <1>6 DEF Inv, TxInv, LocksOf
<1>9. ASSUME NEW v \in Workers, v # w PROVE held'[v] = LocksOf(v)'
  BY <1>4, <1>6, <1>9 DEF Inv, TxInv, LocksOf
<1>10. \A u, v \in Workers : u # v => held'[u] \cap held'[v] = {}
  BY <1>6 DEF Inv, TxInv
<1>11. \A v \in Workers : Working(v)' => v # w /\ Working(v)
  BY <1>3, <1>4 DEF Working
<1>12. \A t \in Targets : rowLock[t] # w
  BY <1>1 DEF Inv, TxInv, Working
<1>13. ASSUME NEW v \in Workers PROVE TxInv(v)'
  <2>1. Working(v)' => ~Store!HasReceipt(tx[v].key)'
    BY <1>4, <1>5, <1>11 DEF Inv, TxInv, Store!HasReceipt
  <2>2. Working(v)' /\ tx'[v].pc # "read" => tx'[v].before = state'[TargetOf[tx'[v].key]]
    BY <1>4, <1>5, <1>11 DEF Inv, TxInv
  <2>3. \A t \in Targets : rowLock'[t] = v =>
            Working(v)' /\ tx'[v].pc # "read" /\ TargetOf[tx'[v].key] = t
    BY <1>4, <1>5, <1>12 DEF Inv, TxInv, Working
  <2> QED
    BY <1>4, <1>8, <1>9, <1>10, <1>11, <2>1, <2>2, <2>3 DEF TxInv, Store!HasReceipt
<1> QED
  BY <1>5, <1>7, <1>13 DEF Inv

\* A step of another transaction that leaves v its locks, its row and its key.
LEMMA OtherTx ==
    ASSUME Inv, NEW v \in Workers, tx'[v] = tx[v], held'[v] = held[v],
           \A u \in Workers \ {v} : held'[u] \cap held'[v] = {},
           Working(v) => state'[TargetOf[tx[v].key]] = state[TargetOf[tx[v].key]],
           Working(v) => \A x \in receipts' : x.key # tx[v].key,
           \A t \in Targets : rowLock'[t] = v => rowLock[t] = v
    PROVE  TxInv(v)'
<1>1. TxInv(v)
  BY DEF Inv
<1>2. held'[v] = LocksOf(v)'
  BY <1>1 DEF TxInv, LocksOf
<1>3. Working(v)' = Working(v)
  BY DEF Working
<1>4. Working(v)' => ~Store!HasReceipt(tx[v].key)'
  BY <1>3 DEF Store!HasReceipt
<1>5. Working(v)' /\ tx'[v].pc # "read" => tx'[v].before = state'[TargetOf[tx'[v].key]]
  BY <1>1, <1>3 DEF TxInv
<1>6. \A t \in Targets : rowLock'[t] = v =>
          Working(v)' /\ tx'[v].pc # "read" /\ TargetOf[tx'[v].key] = t
  BY <1>1, <1>3 DEF TxInv
<1> QED
  BY <1>2, <1>4, <1>5, <1>6 DEF TxInv

\* A transaction that works has no receipt of its key.
LEMMA NoReceipt ==
    ASSUME Inv, NEW v \in Workers, Working(v)
    PROVE  \A x \in receipts : x.key # tx[v].key
BY DEF Inv, TxInv, Store!HasReceipt

\* The end of a transaction leaves the others as they are.
LEMMA EndStep ==
    ASSUME TypeOK, NEW w \in Workers, End(w)
    PROVE  /\ tx' \in [Workers -> Transactions]
           /\ held' \in [Workers -> SUBSET {Hash[x] : x \in Keys \cup Targets}]
           /\ rowLock' \in [Targets -> Workers \cup {None}]
           /\ tx'[w].pc = "idle" /\ held'[w] = {}
           /\ \A v \in Workers \ {w} : tx'[v] = tx[v] /\ held'[v] = held[v]
           /\ \A t \in Targets : rowLock'[t] # w /\ rowLock'[t] \in {None, rowLock[t]}
<1>1. Idle \in Transactions /\ Idle.pc = "idle"
  BY DEF Idle, Transactions
<1> QED
  BY <1>1, ControlStateAssumption DEF End, TypeOK

\* A rollback, or the commit of a reused result, changes no data.
LEMMA RollbackInv ==
    ASSUME Inv, NEW w \in Workers, End(w), UNCHANGED <<state, receipts>>,
           answers' \subseteq receipts
    PROVE  Inv'
<1>1. TypeOK'
  BY EndStep DEF Inv, TypeOK
<1>2. TxInv(w)'
  BY EndStep DEF Inv, TxInv, LocksOf, Working
<1>3. ASSUME NEW v \in Workers \ {w} PROVE TxInv(v)'
  <2>1. tx'[v] = tx[v] /\ held'[v] = held[v] /\ held'[w] = {}
    BY EndStep DEF Inv
  <2>2. \A u \in Workers \ {v} : held'[u] \cap held'[v] = {}
    BY <2>1, EndStep DEF Inv, TxInv
  <2>3. \A t \in Targets : rowLock'[t] = v => rowLock[t] = v
    BY EndStep, ControlStateAssumption DEF Inv
  <2> QED
    BY <2>1, <2>2, <2>3, NoReceipt, OtherTx
<1> QED
  BY <1>1, <1>2, <1>3 DEF Inv

\* Nothing but the transaction w changes, which keeps its locks.
LEMMA GotoInv ==
    ASSUME Inv, NEW w \in Workers, NEW pc \in Statements, Goto(w, pc),
           UNCHANGED <<state, receipts, held, rowLock, answers>>,
           \/ tx[w].pc = "receipt" /\ pc = "read" /\ ~Store!HasReceipt(tx[w].key)
           \/ tx[w].pc = "insert" /\ pc = "commit"
    PROVE  Inv'
<1>1. /\ tx' \in [Workers -> Transactions]
      /\ tx'[w].pc = pc /\ tx'[w].key = tx[w].key /\ tx'[w].before = tx[w].before
      /\ \A v \in Workers \ {w} : tx'[v] = tx[v]
  BY GotoStep DEF Inv
<1>2. TypeOK'
  BY <1>1 DEF Inv, TypeOK
<1>3. TxInv(w)'
  <2>1. TxInv(w)
    BY DEF Inv
  <2>2. held'[w] = LocksOf(w)' /\ \A v \in Workers \ {w} : held'[v] \cap held'[w] = {}
    BY <1>1, <2>1 DEF TxInv, LocksOf
  <2>3. Working(w)' /\ ~Store!HasReceipt(tx[w].key)'
    BY <1>1, <2>1 DEF TxInv, Working, Store!HasReceipt
  <2>4. tx'[w].pc # "read" => tx'[w].before = state'[TargetOf[tx'[w].key]]
    BY <1>1, <2>1 DEF TxInv, Working
  <2>5. \A t \in Targets : rowLock'[t] = w => tx'[w].pc # "read" /\ TargetOf[tx'[w].key] = t
    BY <1>1, <2>1 DEF TxInv, Working
  <2> QED
    BY <2>2, <2>3, <2>4, <2>5 DEF TxInv
<1>4. ASSUME NEW v \in Workers \ {w} PROVE TxInv(v)'
  <2>1. \A u \in Workers \ {v} : held'[u] \cap held'[v] = {}
    BY DEF Inv, TxInv
  <2> QED
    BY <1>1, <2>1, NoReceipt, OtherTx
<1> QED
  BY <1>2, <1>3, <1>4 DEF Inv

\* Only one transaction works on a target: it holds the lock of the target.
LEMMA OneWorker ==
    ASSUME Inv, NEW v \in Workers, NEW w \in Workers, v # w, Working(v), Working(w)
    PROVE  TargetOf[tx[v].key] # TargetOf[tx[w].key] /\ tx[v].key # tx[w].key
<1>1. TxInv(v) /\ TxInv(w)
  BY DEF Inv
<1>2. Hash[TargetOf[tx[v].key]] \in held[v] /\ Hash[TargetOf[tx[w].key]] \in held[w]
  BY <1>1 DEF TxInv, LocksOf, Working
<1>3. held[v] \cap held[w] = {}
  BY <1>1 DEF TxInv
<1> QED
  BY <1>2, <1>3

\* Reading and writing the row of the target.
LEMMA RowInv ==
    ASSUME Inv, NEW w \in Workers, currentStateTx(w) \/ Upsert(w)
    PROVE  Inv'
<1> DEFINE t == TargetOf[tx[w].key]
<1>1. tx[w].pc \in {"read", "write"} /\ tx[w].pc # "idle" /\ Working(w)
  BY DEF currentStateTx, Upsert, At, Working
<1>2. /\ tx[w] \in [pc: Statements, key: Keys, before: Store!Maps]
      /\ t \in Targets /\ state[t] \in Store!Maps /\ tx[w].key \in Keys
  BY <1>1, TxType DEF Inv
<1> HIDE DEF t
<1>3. UNCHANGED <<state, receipts, held, answers>>
  BY DEF currentStateTx, Upsert
<1>4. rowLock' = rowLock \/ rowLock' = [rowLock EXCEPT ![t] = w]
  BY DEF currentStateTx, Upsert, t
<1>5. /\ tx' \in [Workers -> Transactions]
      /\ tx'[w].pc \in {"write", "insert"} /\ tx'[w].key = tx[w].key
      /\ tx'[w].before = state[t]
      /\ \A v \in Workers \ {w} : tx'[v] = tx[v]
  <2>1. CASE currentStateTx(w)
    <3>1. tx' = [tx EXCEPT ![w] = [tx[w] EXCEPT !.pc = "write", !.before = state[t]]]
      BY <2>1 DEF currentStateTx, t
    <3>2. [tx[w] EXCEPT !.pc = "write", !.before = state[t]] \in Transactions
      BY <1>2 DEF Transactions, Statements
    <3>3. tx \in [Workers -> Transactions]
      BY DEF Inv, TypeOK
    <3> QED
      BY <1>2, <3>1, <3>2, <3>3
  <2>2. CASE Upsert(w)
    <3>1. tx[w].before = state[t]
      BY <1>1, <2>2 DEF Upsert, At, Inv, TxInv, t
    <3>2. Goto(w, "insert") /\ "insert" \in Statements
      BY <2>2 DEF Upsert, Statements
    <3> QED
      BY <1>1, <3>1, <3>2, GotoStep DEF Inv
  <2> QED
    BY <2>1, <2>2
<1>6. TypeOK'
  BY <1>2, <1>3, <1>4, <1>5 DEF Inv, TypeOK
<1>7. TargetOf[tx[w].key] = t
  BY DEF t
<1>8. TxInv(w)'
  BY <1>1, <1>2, <1>3, <1>4, <1>5, <1>7 DEF Inv, TypeOK, TxInv, LocksOf, Working, Store!HasReceipt
<1>9. ASSUME NEW v \in Workers \ {w} PROVE TxInv(v)'
  <2>1. \A u \in Targets : rowLock'[u] = v => rowLock[u] = v
    BY <1>2, <1>4 DEF Inv, TypeOK
  <2>2. \A u \in Workers \ {v} : held'[u] \cap held'[v] = {}
    BY <1>3 DEF Inv, TxInv
  <2> QED
    BY <1>3, <1>5, <2>1, <2>2, NoReceipt, OtherTx
<1> QED
  BY <1>3, <1>6, <1>8, <1>9 DEF Inv

\* The commit: the receipt is the first of its key and nobody else works on the
\* target.
LEMMA CommitInv ==
    ASSUME Inv, NEW w \in Workers, Commit(w)
    PROVE  Inv'
<1> DEFINE t == TargetOf[tx[w].key]
           x == Store!Receipt(tx[w].key, tx[w].before)
<1>1. tx[w].pc = "commit" /\ tx[w].pc # "idle" /\ Working(w) /\ End(w)
  BY DEF Commit, At, Working
<1>2. t \in Targets /\ tx[w].key \in Keys /\ tx[w].before \in Store!Maps
  BY <1>1, TxType DEF Inv
<1>3. x \in Store!Receipts /\ x.after \in Store!Maps /\ x.key = tx[w].key
  BY <1>2, MergeType
<1>4. /\ state' = [state EXCEPT ![t] = x.after]
      /\ receipts' = receipts \cup {x}
      /\ answers' \subseteq answers \cup {x}
  BY DEF Commit
<1> HIDE DEF t, x
<1>5. TypeOK'
  BY <1>1, <1>2, <1>3, <1>4, EndStep DEF Inv, TypeOK
<1>6. TxInv(w)'
  BY <1>1, EndStep DEF Inv, TxInv, LocksOf, Working
<1>7. ASSUME NEW v \in Workers \ {w} PROVE TxInv(v)'
  <2>1. tx'[v] = tx[v] /\ held'[v] = held[v] /\ held'[w] = {}
    BY <1>1, EndStep DEF Inv
  <2>2. \A u \in Workers \ {v} : held'[u] \cap held'[v] = {}
    BY <1>1, <2>1, EndStep DEF Inv, TxInv
  <2>3. \A u \in Targets : rowLock'[u] = v => rowLock[u] = v
    BY <1>1, EndStep, ControlStateAssumption DEF Inv
  <2>4. Working(v) => TargetOf[tx[v].key] # t /\ tx[v].key # tx[w].key
    BY <1>1, OneWorker DEF t
  <2>5. Working(v) => TargetOf[tx[v].key] \in Targets
    BY TxType DEF Working, Inv
  <2>6. Working(v) => state'[TargetOf[tx[v].key]] = state[TargetOf[tx[v].key]]
    BY <1>2, <1>4, <2>4, <2>5 DEF Inv, TypeOK
  <2>7. Working(v) => \A y \in receipts' : y.key # tx[v].key
    BY <1>3, <1>4, <2>4, NoReceipt
  <2> QED
    BY <2>1, <2>2, <2>3, <2>6, <2>7, OtherTx
<1>8. \A y, z \in receipts' : y.key = z.key => y = z
  BY <1>1, <1>3, <1>4 DEF Inv, TxInv, Store!HasReceipt
<1> QED
  BY <1>4, <1>5, <1>6, <1>7, <1>8 DEF Inv

-----------------------------------------------------------------------------
(* The theorems.                                                           *)

LEMMA InitInv == Init => Inv
<1> SUFFICES ASSUME Init PROVE Inv
  OBVIOUS
<1>1. Idle \in Transactions /\ Idle.pc = "idle"
  BY DEF Idle, Transactions
<1>2. TypeOK
  BY <1>1, EmptyType DEF Init, TypeOK
<1>3. ASSUME NEW w \in Workers PROVE TxInv(w)
  BY <1>1, ControlStateAssumption DEF Init, TxInv, LocksOf, Working
<1> QED
  BY <1>2, <1>3 DEF Inv, Init

LEMMA NextInv == Inv /\ [Next]_vars => Inv'
<1> SUFFICES ASSUME Inv, [Next]_vars PROVE Inv'
  OBVIOUS
<1>1. CASE UNCHANGED vars
  BY <1>1 DEF vars, Inv, TypeOK, TxInv, LocksOf, Working, Store!HasReceipt
<1>2. ASSUME NEW w \in Workers, NEW k \in Keys, Begin(w, k) PROVE Inv'
  BY <1>2, BeginInv
<1>3. ASSUME NEW w \in Workers, LockKey(w) \/ LockTarget(w) PROVE Inv'
  BY <1>3, LockInv
<1>4. ASSUME NEW w \in Workers, ReadReceipt(w) PROVE Inv'
  <2>1. CASE Store!HasReceipt(tx[w].key)
    BY <1>4, <2>1, RollbackInv DEF ReadReceipt, Inv
  <2>2. CASE ~Store!HasReceipt(tx[w].key)
    BY <1>4, <2>2, GotoInv DEF ReadReceipt, At, Statements
  <2> QED
    BY <2>1, <2>2
<1>5. ASSUME NEW w \in Workers, currentStateTx(w) \/ Upsert(w) PROVE Inv'
  BY <1>5, RowInv
<1>6. ASSUME NEW w \in Workers, InsertReceipt(w) PROVE Inv'
  BY <1>6, GotoInv DEF InsertReceipt, At, Statements
<1>7. ASSUME NEW w \in Workers, Commit(w) PROVE Inv'
  BY <1>7, CommitInv
<1>8. ASSUME NEW w \in Workers, Rollback(w) PROVE Inv'
  BY <1>8, RollbackInv DEF Rollback, Inv
<1> QED
  BY <1>1, <1>2, <1>3, <1>4, <1>5, <1>6, <1>7, <1>8 DEF Next, ApplyOnce, Statement

\* Each transaction holds the locks its statements took, nobody else holds one
\* of them, and what a transaction has read is still so when it commits.
THEOREM ControlStateInvariant == Spec => []Inv
BY InitInv, NextInv, PTL DEF Spec

\* Every caller of ApplyOnce is told the one result of its key.
THEOREM AnswerSafety == Spec => []AnswersAgree
<1>1. Inv => AnswersAgree
  BY DEF Inv, AnswersAgree
<1> QED
  BY <1>1, ControlStateInvariant, PTL

\* Handlers never wait for each other in a circle unless a key and a target of
\* theirs share a hash: who waits for a key's lock waits for someone past that
\* lock, who waits for a target's lock for someone past that one, and beyond
\* it nobody waits.
THEOREM NoDeadlock == Spec => []NoWaitCycle
<1>1. Inv => NoWaitCycle
  <2> SUFFICES ASSUME Inv, NEW S \in SUBSET Workers, Cycle(S),
                      \A v, w \in S : Hash[tx[v].key] # Hash[TargetOf[tx[w].key]]
               PROVE  FALSE
    BY DEF NoWaitCycle
  <2>1. ASSUME NEW w \in Workers, Working(w) PROVE WaitsFor(w) = {}
    <3>1. tx[w].pc # "idle" /\ TargetOf[tx[w].key] \in Targets
      BY <2>1, TxType DEF Inv, Working
    <3>2. rowLock[TargetOf[tx[w].key]] \in {None, w}
      <4> SUFFICES ASSUME NEW v \in Workers, v # w, rowLock[TargetOf[tx[w].key]] = v PROVE FALSE
        BY <3>1 DEF Inv, TypeOK
      <4>1. Working(v) /\ TargetOf[tx[v].key] = TargetOf[tx[w].key]
        BY <3>1 DEF Inv, TxInv
      <4> QED
        BY <2>1, <4>1, OneWorker
    <3>3. ASSUME NEW v \in Workers \ {w} PROVE ~(At(v, "commit") /\ tx[v].key = tx[w].key)
      BY <2>1, OneWorker DEF Working, At
    <3> QED
      BY <2>1, <3>2, <3>3 DEF WaitsFor, At, Working
  <2>2. ASSUME NEW w \in S, tx[w].pc = "target", NEW v \in S, v \in WaitsFor(w)
        PROVE  tx[v].pc = "receipt" \/ Working(v)
    <3>1. v \in Workers /\ v # w /\ Hash[TargetOf[tx[w].key]] \in held[v]
      BY <2>2 DEF WaitsFor, At, Holders
    <3>2. Hash[tx[v].key] # Hash[TargetOf[tx[w].key]]
      BY <2>2
    <3>3. tx[v].pc \in {"idle", "key"} => held[v] = {}
      BY <3>1 DEF Inv, TxInv, LocksOf
    <3>4. tx[v].pc = "target" => held[v] = {Hash[tx[v].key]}
      BY <3>1 DEF Inv, TxInv, LocksOf
    <3>5. tx[v].pc \in Statements \cup {"idle"}
      BY <3>1 DEF Inv, TypeOK, Transactions
    <3> QED
      BY <3>1, <3>2, <3>3, <3>4, <3>5 DEF Statements, Working
  <2>3. ASSUME NEW w \in Workers, tx[w].pc = "key", NEW v \in WaitsFor(w)
        PROVE  tx[v].pc # "key"
    <3>1. v \in Workers /\ Hash[tx[w].key] \in held[v]
      BY <2>3 DEF WaitsFor, At, Holders
    <3>2. tx[v].pc = "key" => held[v] = {}
      BY <3>1 DEF Inv, TxInv, LocksOf
    <3> QED
      BY <3>1, <3>2
  <2>4. ASSUME NEW w \in S PROVE tx[w].pc \in {"key", "target"}
    <3>1. w \in Workers /\ WaitsFor(w) # {}
      BY <2>4 DEF Cycle
    <3>2. tx[w].pc \in Statements \cup {"idle"}
      BY <3>1 DEF Inv, TypeOK, Transactions
    <3>3. ~Working(w)
      BY <2>1, <3>1
    <3> QED
      BY <3>1, <3>2, <3>3 DEF Statements, Working, WaitsFor, At
  <2>5. ASSUME NEW w \in S PROVE tx[w].pc = "key"
    <3>1. PICK v \in S : v \in WaitsFor(w)
      BY <2>5 DEF Cycle
    <3>2. tx[v].pc \in {"key", "target"} /\ tx[w].pc \in {"key", "target"}
      BY <2>4, <2>5
    <3> QED
      BY <2>2, <2>5, <3>1, <3>2 DEF Working
  <2>6. PICK w \in S : TRUE
    BY DEF Cycle
  <2>7. PICK v \in S : v \in WaitsFor(w)
    BY <2>6 DEF Cycle
  <2> QED
    BY <2>3, <2>5, <2>6, <2>7
<1> QED
  BY <1>1, ControlStateInvariant, PTL

\* ApplyOnce, statement by statement, implements the atomic store.
THEOREM StoreRefinement == Spec => ImplementsStore
<1>1. Init => Store!Init
  BY DEF Init, Store!Init
<1>2. Inv /\ [Next]_vars => [Store!Next]_(Store!vars)
  <2> SUFFICES ASSUME Inv, [Next]_vars PROVE [Store!Next]_(Store!vars)
    OBVIOUS
  <2>1. ASSUME NEW w \in Workers, Commit(w) PROVE Store!Next
    <3>1. tx[w].pc = "commit" /\ tx[w].pc # "idle" /\ Working(w)
      BY <2>1 DEF Commit, At, Working
    <3>2. tx[w].key \in Keys
      BY <3>1, TxType DEF Inv
    <3>3. tx[w].before = state[TargetOf[tx[w].key]] /\ ~Store!HasReceipt(tx[w].key)
      BY <3>1 DEF Inv, TxInv
    <3>4. Store!Apply(tx[w].key)
      BY <2>1, <3>3 DEF Commit, Store!Apply
    <3> QED
      BY <3>2, <3>4 DEF Store!Next
  <2>2. ASSUME NEW w \in Workers, ApplyOnce(w), ~Commit(w) PROVE UNCHANGED Store!vars
    BY <2>2 DEF ApplyOnce, Statement, Begin, LockKey, LockTarget, ReadReceipt, currentStateTx,
                Upsert, InsertReceipt, Rollback, Store!vars
  <2>3. CASE UNCHANGED vars
    BY <2>3 DEF vars, Store!vars
  <2> QED
    BY <2>1, <2>2, <2>3 DEF Next
<1> QED
  BY <1>1, <1>2, ControlStateInvariant, PTL DEF Spec, ImplementsStore, Store!Spec

=============================================================================

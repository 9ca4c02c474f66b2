----------------------------- MODULE AuditChain -----------------------------
(***************************************************************************)
(* The hash-chained audit ledger: writers append inside their own          *)
(* transactions (audit.WriteTx), replicas verify the chain (Verify) and    *)
(* export the verdict, and every start migrates the ledger (MigrateLedger).*)
(* Once, something outside these operations may alter the stored data.     *)
(*                                                                         *)
(* SHA-256 is taken to be injective: a hash is the payload it was computed *)
(* from.  An entry stands for all the fields the payload includes; its     *)
(* JSON is hashed with the keys sorted and every number spelled as it was  *)
(* written, and is assumed to come back from jsonb with the same spelling  *)
(* (an exponent would not).                                                *)
(***************************************************************************)
EXTENDS Integers, Sequences, FiniteSets

CONSTANTS
    Entries,    \* what there is to record
    Legacy,     \* unchained rows of an old ledger, in created_at, id order
    Writers,    \* transactions that write audit entries
    Verifiers,  \* verification loop and requests of the replicas
    MaxLength   \* bound: rows of the ledger

ASSUME AuditAssumption == Legacy \in Seq(Entries) /\ MaxLength \in Nat

VARIABLES
    legacy,     \* audit_logs rows without chain columns
    logs,       \* chained audit_logs rows by chain_position
    head,       \* the audit_chain_state row, or NoHead
    writer,     \* transactions: their step, rows and head not yet committed
    migration,  \* MigrateLedger, one at a time under the migration lock
    verifier,   \* Verify: its step and snapshot
    integrity,  \* the gauge AuditChainIntegrity
    altered     \* history: the stored data was altered

vars == <<legacy, logs, head, writer, migration, verifier, integrity, altered>>

GenesisHash == <<>>
Malformed == <<0>>
calculateHash(position, previous, entry) == <<position, previous, entry>>

NoHead == [position |-> -1, hash |-> GenesisHash]
NoRows == [p \in {} |-> <<>>]
LogRow(position, previous, entry) ==
    [previous |-> previous, entry |-> entry, hash |-> calculateHash(position, previous, entry)]
With(rows, p, row) == [q \in DOMAIN rows \cup {p} |-> IF q = p THEN row ELSE rows[q]]

IdleWriter == [pc |-> "idle", rows |-> NoRows, head |-> NoHead]
IdleMigration == [pc |-> "idle", rows |-> NoRows, head |-> NoHead]
IdleVerifier == [pc |-> "idle", rows |-> NoRows, head |-> NoHead, altered |-> FALSE, result |-> "none"]

Init ==
    /\ legacy = Legacy /\ logs = NoRows /\ head = NoHead
    /\ writer = [w \in Writers |-> IdleWriter]
    /\ migration = IdleMigration
    /\ verifier = [v \in Verifiers |-> IdleVerifier]
    /\ integrity = 0
    /\ altered = FALSE

-----------------------------------------------------------------------------
(* WriteTx, statement by statement.  A transaction may write several       *)
(* entries; the head row stays locked until it ends.                       *)

HoldsHead(w) == writer[w].pc # "idle"
Goto(w, pc, rows, h) ==
    /\ writer' = [writer EXCEPT ![w] = [pc |-> pc, rows |-> rows, head |-> h]]
    /\ UNCHANGED <<legacy, migration, verifier, integrity, altered>>

\* SELECT ... FOR UPDATE waits for the transaction that holds the row and then
\* reads what that one committed.  Without a row the write fails.
LockHead(w) ==
    /\ head # NoHead
    /\ \/ writer[w].pc = "idle" /\ (\A x \in Writers : ~HoldsHead(x)) /\ Goto(w, "insert", NoRows, head)
       \/ writer[w].pc = "written" /\ Goto(w, "insert", writer[w].rows, writer[w].head)
    /\ UNCHANGED <<logs, head>>

\* The unique index on chain_position refuses a position that is taken, and
\* waits for the transaction that is taking it.
Insert(w, entry) ==
    LET t == writer[w]
        p == t.head.position + 1
    IN  /\ t.pc = "insert" /\ migration.pc = "idle"
        /\ p <= MaxLength /\ p \notin DOMAIN logs
        /\ \A x \in Writers \ {w} : p \notin DOMAIN writer[x].rows
        /\ Goto(w, "advance", With(t.rows, p, LogRow(p, t.head.hash, entry)), t.head)
        /\ UNCHANGED <<logs, head>>

\* The UPDATE compares the row with what was read: with the committed row, until
\* the transaction has changed it itself.  If they differ the write fails and
\* the transaction ends in Rollback.
AdvanceHead(w) ==
    LET t == writer[w]
        p == t.head.position + 1
    IN  /\ t.pc = "advance"
        /\ DOMAIN t.rows = {p} => t.head = head
        /\ Goto(w, "written", t.rows, [position |-> p, hash |-> t.rows[p].hash])
        /\ UNCHANGED <<logs, head>>

Commit(w) ==
    LET t == writer[w]
    IN  /\ t.pc = "written"
        /\ logs' = [p \in DOMAIN logs \cup DOMAIN t.rows |-> IF p \in DOMAIN t.rows THEN t.rows[p] ELSE logs[p]]
        /\ head' = t.head
        /\ Goto(w, "idle", NoRows, NoHead)

\* Any statement of the transaction fails, or its process dies.
Rollback(w) ==
    /\ HoldsHead(w)
    /\ Goto(w, "idle", NoRows, NoHead)
    /\ UNCHANGED <<logs, head>>

-----------------------------------------------------------------------------
(* Verify: one repeatable read transaction, so head and rows come from the *)
(* same snapshot.                                                          *)

\* The walk finds positions 1, 2, ..., each linked to the one before and with
\* the hash of its payload, and ends at the head.
Linked(rows, p) ==
    /\ rows[p].previous = IF p = 1 THEN GenesisHash ELSE rows[p - 1].hash
    /\ rows[p].hash = calculateHash(p, rows[p].previous, rows[p].entry)
Valid(rows, h) ==
    /\ DOMAIN rows = 1..h.position
    /\ \A p \in DOMAIN rows : Linked(rows, p)
    /\ h.hash = IF h.position = 0 THEN GenesisHash ELSE rows[h.position].hash

ReadHead(v) ==
    /\ verifier[v].pc = "idle"
    /\ verifier' = [verifier EXCEPT ![v] = [pc |-> "walk", rows |-> logs, head |-> head,
                                            altered |-> altered, result |-> "none"]]
    /\ UNCHANGED <<legacy, logs, head, writer, migration, integrity, altered>>

Report(v, result) ==
    /\ verifier' = [verifier EXCEPT ![v] = [pc |-> "idle", rows |-> NoRows, head |-> NoHead,
                                            altered |-> verifier[v].altered, result |-> result]]
    /\ integrity' = IF result = "valid" THEN 1 ELSE 0
    /\ UNCHANGED <<legacy, logs, head, writer, migration, altered>>

\* Mutant: the rows are read by a transaction of their own.
WalkLater(v) ==
    /\ verifier[v].pc = "walk" /\ migration.pc = "idle"
    /\ Report(v, IF verifier[v].head = NoHead THEN "error"
                 ELSE IF Valid(logs, verifier[v].head) THEN "valid" ELSE "invalid")

Walk(v) ==
    /\ verifier[v].pc = "walk" /\ migration.pc = "idle"
    /\ Report(v, IF verifier[v].head = NoHead THEN "error"
                 ELSE IF Valid(verifier[v].rows, verifier[v].head) THEN "valid" ELSE "invalid")

\* The database fails the verification.
VerifyError(v) == verifier[v].pc = "walk" /\ Report(v, "error")

-----------------------------------------------------------------------------
(* MigrateLedger, one serializable transaction that has the tables to      *)
(* itself: its ALTER TABLE waits for every transaction that used them.     *)

Unused == \A w \in Writers : writer[w].pc \in {"idle", "insert"} /\ writer[w].rows = NoRows

\* Mutants: the head is set up at every start; an empty ledger starts over.
MigrateAfresh ==
    /\ migration.pc = "idle" /\ Unused
    /\ legacy = <<>>
    /\ head' = [position |-> 0, hash |-> GenesisHash]
    /\ UNCHANGED <<legacy, logs, writer, migration, verifier, integrity, altered>>
MigrateEmptyAfresh ==
    /\ migration.pc = "idle" /\ Unused
    /\ legacy = <<>> /\ DOMAIN logs = {}
    /\ head' = [position |-> 0, hash |-> GenesisHash]
    /\ UNCHANGED <<legacy, logs, writer, migration, verifier, integrity, altered>>

\* No rows: the head is created unless there is one.  Nothing but the head is
\* checked when all rows are chained; a missing one is refused.
MigrateEmpty ==
    /\ migration.pc = "idle" /\ Unused
    /\ legacy = <<>> /\ DOMAIN logs = {}
    /\ head' = IF head = NoHead THEN [position |-> 0, hash |-> GenesisHash] ELSE head
    /\ UNCHANGED <<legacy, logs, writer, migration, verifier, integrity, altered>>

\* All rows are unchained: they are chained one by one, unless a head exists.
BeginBackfill ==
    /\ migration.pc = "idle" /\ Unused
    /\ legacy # <<>> /\ DOMAIN logs = {} /\ head = NoHead
    /\ migration' = [pc |-> "backfill", rows |-> NoRows, head |-> [position |-> 0, hash |-> GenesisHash]]
    /\ UNCHANGED <<legacy, logs, head, writer, verifier, integrity, altered>>

BackfillRow ==
    LET p == migration.head.position + 1
        row == LogRow(p, migration.head.hash, legacy[p])
    IN  /\ migration.pc = "backfill" /\ p <= Len(legacy)
        /\ migration' = [pc |-> "backfill", rows |-> With(migration.rows, p, row),
                          head |-> [position |-> p, hash |-> row.hash]]
        /\ UNCHANGED <<legacy, logs, head, writer, verifier, integrity, altered>>

\* Mutant: whatever is done so far is kept.
CommitBackfillEarly ==
    /\ migration.pc = "backfill"
    /\ logs' = migration.rows /\ head' = migration.head
    /\ legacy' = SubSeq(legacy, migration.head.position + 1, Len(legacy))
    /\ migration' = IdleMigration
    /\ UNCHANGED <<writer, verifier, integrity, altered>>

CommitBackfill ==
    /\ migration.pc = "backfill" /\ migration.head.position = Len(legacy)
    /\ logs' = migration.rows /\ head' = migration.head /\ legacy' = <<>>
    /\ migration' = IdleMigration
    /\ UNCHANGED <<writer, verifier, integrity, altered>>

AbortBackfill ==
    /\ migration.pc = "backfill"
    /\ migration' = IdleMigration
    /\ UNCHANGED <<legacy, logs, head, writer, verifier, integrity, altered>>

-----------------------------------------------------------------------------
(* Corruption, by privileged statements or by accident: rows change, go or *)
(* appear, or the head changes, but not all of them together.              *)

AlterRow(p) ==
    /\ \E entry \in Entries, old \in BOOLEAN, forged \in BOOLEAN :
          LET previous == IF old THEN logs[p].previous ELSE Malformed
              hash == IF forged THEN calculateHash(p, previous, entry) ELSE logs[p].hash
              row == [previous |-> previous, entry |-> entry, hash |-> hash]
          IN  row # logs[p] /\ logs' = [logs EXCEPT ![p] = row]
    /\ UNCHANGED head

DeleteRows(P) ==
    /\ P # {}
    /\ logs' = [p \in DOMAIN logs \ P |-> logs[p]]
    /\ UNCHANGED head

\* A direct INSERT; the unique index makes it wait for a writer's.
AddRow(p) ==
    /\ p \notin DOMAIN logs /\ \A w \in Writers : p \notin DOMAIN writer[w].rows
    /\ \E entry \in Entries, linked \in BOOLEAN :
          logs' = With(logs, p, LogRow(p, IF linked THEN head.hash ELSE Malformed, entry))
    /\ UNCHANGED head

\* An UPDATE or DELETE of the head row waits for its lock.
AlterHead ==
    /\ \A w \in Writers : ~HoldsHead(w)
    /\ \E position \in 0..MaxLength, known \in BOOLEAN :
          head' = [position |-> position, hash |-> IF known THEN head.hash ELSE Malformed]
    /\ head' # head
    /\ UNCHANGED logs

\* Without rows, a missing head is no loss: MigrateEmpty creates the same again.
DeleteHead ==
    /\ \A w \in Writers : ~HoldsHead(w)
    /\ DOMAIN logs # {}
    /\ head' = NoHead
    /\ UNCHANGED logs

Corrupt ==
    /\ ~altered /\ migration.pc = "idle" /\ head # NoHead
    /\ \/ \E p \in DOMAIN logs : AlterRow(p)
       \/ \E P \in SUBSET DOMAIN logs : DeleteRows(P)
       \/ \E p \in 1..(MaxLength + 1) : AddRow(p)
       \/ AlterHead
       \/ DeleteHead
    /\ altered' = TRUE
    /\ UNCHANGED <<legacy, writer, migration, verifier, integrity>>

WriterStep(w) ==
    LockHead(w) \/ (\E entry \in Entries : Insert(w, entry)) \/ AdvanceHead(w) \/ Commit(w) \/ Rollback(w)
VerifierStep(v) == ReadHead(v) \/ Walk(v) \/ VerifyError(v)
MigrationStep == MigrateEmpty \/ BeginBackfill \/ BackfillRow \/ CommitBackfill \/ AbortBackfill

Next ==
    \/ \E w \in Writers : WriterStep(w)
    \/ \E v \in Verifiers : VerifierStep(v)
    \/ MigrationStep
    \/ Corrupt

Spec == Init /\ [][Next]_vars

\* The verification loop of a replica runs on.
FairSpec ==
    /\ Spec
    /\ \A v \in Verifiers : WF_vars(ReadHead(v)) /\ WF_vars(Walk(v))

-----------------------------------------------------------------------------
(* Properties.                                                             *)

\* A verdict is right about the moment of its snapshot, whatever writers,
\* restarts and other verifications do meanwhile: no false alarm while data is
\* only appended, and no "valid" ever after it was altered.
VerdictsRight ==
    \A v \in Verifiers :
        /\ verifier[v].result = "valid" => ~verifier[v].altered
        /\ verifier[v].result = "invalid" => verifier[v].altered

\* An interrupted backfill leaves the ledger as it was; a finished one chained
\* every row, in order.
BackfillWhole ==
    \/ legacy = Legacy /\ DOMAIN logs = {} /\ (head = NoHead \/ Legacy = <<>>)
    \/ legacy = <<>> /\ (~altered => \A p \in 1..Len(Legacy) : p \in DOMAIN logs /\ logs[p].entry = Legacy[p])

\* What was committed stays, at its position, and the head never goes back: no
\* restart and no writer starts the chain over, and two transactions never
\* take the same position.
Kept(p) == p \in DOMAIN logs' /\ logs'[p] = logs[p]
NeverRewritten ==
    [][~altered' => /\ \A p \in DOMAIN logs : Kept(p)
                    /\ head'.position >= head.position]_vars

\* Altered data ends in the alarm, for good.
AlarmRaised == altered ~> [](integrity = 0)

\* The inductive invariant: the committed ledger is valid unless it was
\* altered, and then it is not; whoever holds the head extends it.
IsHead(h) == h = [position |-> h.position, hash |-> h.hash] /\ h.position \in Nat
IsTable(rows) ==
    \A p \in DOMAIN rows :
        p \in Nat \ {0} /\ rows[p] = [previous |-> rows[p].previous, entry |-> rows[p].entry, hash |-> rows[p].hash]
TypeOK ==
    /\ legacy \in {Legacy, <<>>}
    /\ IsTable(logs)
    /\ head = NoHead \/ IsHead(head)
    /\ DOMAIN writer = Writers
    /\ \A w \in Writers : writer[w].pc \in {"idle", "insert", "advance", "written"}
    /\ migration.pc \in {"idle", "backfill"}
    /\ DOMAIN verifier = Verifiers
    /\ \A v \in Verifiers : verifier[v].pc \in {"idle", "walk"} /\ verifier[v].altered \in BOOLEAN
    /\ integrity \in {0, 1} /\ altered \in BOOLEAN

\* The rows that continue the chain from h up to a position.
Continues(rows, h, top) ==
    /\ IsTable(rows)
    /\ DOMAIN rows = (h.position + 1)..top
    /\ \A p \in DOMAIN rows :
          /\ rows[p].previous = IF p = h.position + 1 THEN h.hash ELSE rows[p - 1].hash
          /\ rows[p].hash = calculateHash(p, rows[p].previous, rows[p].entry)
HashAt(rows, h, top) == IF top = h.position THEN h.hash ELSE rows[top].hash
WriterInv(w) ==
    LET t == writer[w]
        top == IF t.pc = "advance" THEN t.head.position + 1 ELSE t.head.position
    IN  t.pc # "idle" =>
            /\ IsHead(head) /\ IsHead(t.head) /\ t.head.position >= head.position
            /\ Continues(t.rows, head, top) /\ t.head.hash = HashAt(t.rows, head, t.head.position)
            /\ DOMAIN t.rows \cap DOMAIN logs = {}
            /\ \A x \in Writers : x # w => writer[x].pc = "idle"
MigrationInv ==
    LET m == migration
        start == [position |-> 0, hash |-> GenesisHash]
    IN  m.pc = "backfill" =>
            /\ legacy = Legacy /\ head = NoHead /\ DOMAIN logs = {} /\ ~altered
            /\ IsHead(m.head) /\ m.head.position <= Len(Legacy)
            /\ Continues(m.rows, start, m.head.position) /\ m.head.hash = HashAt(m.rows, start, m.head.position)
            /\ \A p \in DOMAIN m.rows : m.rows[p].entry = Legacy[p]
VerifierInv(v) ==
    /\ verifier[v].pc = "walk" /\ verifier[v].head # NoHead =>
           (Valid(verifier[v].rows, verifier[v].head) <=> ~verifier[v].altered)
    /\ verifier[v].result = "valid" => ~verifier[v].altered
    /\ verifier[v].result = "invalid" => verifier[v].altered
Inv ==
    /\ TypeOK
    /\ ~altered <=> IF head = NoHead THEN DOMAIN logs = {} ELSE Valid(logs, head)
    /\ \A w \in Writers : WriterInv(w)
    /\ MigrationInv
    /\ \A v \in Verifiers : VerifierInv(v)
    /\ BackfillWhole

=============================================================================

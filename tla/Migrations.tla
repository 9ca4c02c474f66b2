----------------------------- MODULE Migrations -----------------------------
(***************************************************************************)
(* The schema step at the start of every process (db.Run): API and worker  *)
(* processes of several builds start, stop and crash, and each applies or  *)
(* verifies the migrations embedded in its build, under one session        *)
(* advisory lock.                                                          *)
(***************************************************************************)
EXTENDS Integers, Sequences, FiniteSets

CONSTANTS Processes, Builds,
          Files,        \* per build: its migrations in version order, [checksum, breaking]
          Released      \* the migrations a database may start with

Migration == [checksum : STRING, breaking : BOOLEAN]

\* Load refuses a build whose versions are not contiguous from 1.
ASSUME FilesAssumption ==
    /\ Builds # {}
    /\ \A b \in Builds : Files[b] \in Seq(Migration)
    /\ Released \subseteq Seq(Migration)

Modes == {"apply", "verify"}
Stages == {"down", "waiting", "prepare", "read", "check", "apply", "ready"}

VARIABLES
    applied,     \* schema_migrations: version -> row
    executed,    \* the SQL files that were committed, in order: <<version, checksum>>
    column,      \* whether schema_migrations has the column breaking
    proc,        \* per process: its stage and what it holds in memory
    lock,        \* per process: how its session holds the migration lock
    queue        \* the sessions waiting for it, in the order they asked

vars == <<applied, executed, column, proc, lock, queue>>

\* seen: the rows read; pending: the versions still to apply; alone: its
\* connection was lost while it went on.
Down == [stage |-> "down", build |-> CHOOSE b \in Builds : TRUE, mode |-> "verify",
         seen |-> <<>>, pending |-> {}, alone |-> FALSE]
Ready(b) == [Down EXCEPT !.stage = "ready", !.build = b]

Init ==
    /\ \E rows \in Released :
          /\ applied = rows
          /\ executed = [v \in DOMAIN rows |-> <<v, rows[v].checksum>>]
    /\ column \in BOOLEAN
    /\ ~column => \A v \in DOMAIN applied : ~applied[v].breaking
    /\ proc = [p \in Processes |-> Down]
    /\ lock = [p \in Processes |-> "none"]
    /\ queue = <<>>

-----------------------------------------------------------------------------

Goto(p, fields) == proc' = [proc EXCEPT ![p] = fields]
Unlock(p) == lock' = [lock EXCEPT ![p] = "none"]
SchemaUnchanged == UNCHANGED <<applied, executed, column>>

Start(p) ==
    /\ proc[p].stage = "down"
    /\ \E b \in Builds, mode \in Modes :
          Goto(p, [Down EXCEPT !.stage = "waiting", !.build = b, !.mode = mode])
    /\ queue' = Append(queue, p)
    /\ UNCHANGED lock /\ SchemaUnchanged

Leave(p) == queue' = SelectSeq(queue, LAMBDA q : q # p)
Ahead(p) == {q \in Processes : \E i, j \in DOMAIN queue : i < j /\ queue[i] = q /\ queue[j] = p}

\* Mutant: the lock is taken in shared mode by everyone.
LockShared(p) ==
    /\ proc[p].stage = "waiting"
    /\ lock' = [lock EXCEPT ![p] = "shared"]
    /\ Goto(p, [proc[p] EXCEPT !.stage = IF proc[p].mode = "apply" THEN "prepare" ELSE "read"])
    /\ Leave(p) /\ SchemaUnchanged

\* pg_advisory_lock, or pg_advisory_lock_shared: a request waits for the holders
\* and for the earlier requests that it conflicts with.
Lock(p) ==
    /\ proc[p].stage = "waiting"
    /\ \/ /\ proc[p].mode = "apply" /\ Ahead(p) = {} /\ \A q \in Processes : lock[q] = "none"
          /\ lock' = [lock EXCEPT ![p] = "exclusive"]
          /\ Goto(p, [proc[p] EXCEPT !.stage = "prepare"])
       \/ /\ proc[p].mode = "verify" /\ \A q \in Ahead(p) : proc[q].mode = "verify"
          /\ \A q \in Processes : lock[q] # "exclusive"
          /\ lock' = [lock EXCEPT ![p] = "shared"]
          /\ Goto(p, [proc[p] EXCEPT !.stage = "read"])
    /\ Leave(p) /\ SchemaUnchanged

\* schemaMigrationsDDL: idempotent, so it does not matter whether the table,
\* or only its column, was missing.
Prepare(p) ==
    /\ proc[p].stage = "prepare"
    /\ column' = TRUE
    /\ Goto(p, [proc[p] EXCEPT !.stage = "read"])
    /\ UNCHANGED <<applied, executed, lock, queue>>

\* A missing table reads as no rows, a missing column as not breaking.
appliedMigrations(p) ==
    /\ proc[p].stage = "read"
    /\ Goto(p, [proc[p] EXCEPT !.stage = "check", !.seen = applied])
    /\ UNCHANGED <<lock, queue>> /\ SchemaUnchanged

-----------------------------------------------------------------------------
(* The verdict on the rows read.                                           *)

known(p) == DOMAIN Files[proc[p].build]
Modified(p) ==
    \E v \in DOMAIN proc[p].seen \cap known(p) : proc[p].seen[v].checksum # Files[proc[p].build][v].checksum

\* Mutant: a migration this build does not know is never fatal.
NewerTolerated(p) == FALSE

Newer(p) == \E v \in DOMAIN proc[p].seen \ known(p) : proc[p].seen[v].breaking

Behind(p) == known(p) \ DOMAIN proc[p].seen

\* ErrMigrationModified, ErrSchemaNewer or ErrSchemaBehind: the process exits.
Refuse(p) ==
    /\ proc[p].stage = "check"
    /\ Modified(p) \/ Newer(p) \/ (proc[p].mode = "verify" /\ Behind(p) # {})
    /\ Goto(p, Down) /\ Unlock(p) /\ UNCHANGED queue /\ SchemaUnchanged

Accept(p) ==
    /\ proc[p].stage = "check" /\ ~Modified(p) /\ ~Newer(p)

\* Mutant: the deferred unlock of a verifying process is forgotten.
VerifiedStillLocked(p) ==
    /\ Accept(p) /\ proc[p].mode = "verify" /\ Behind(p) = {}
    /\ Goto(p, Ready(proc[p].build))
    /\ UNCHANGED <<lock, queue>> /\ SchemaUnchanged

Verified(p) ==
    /\ Accept(p) /\ proc[p].mode = "verify" /\ Behind(p) = {}
    /\ Goto(p, Ready(proc[p].build))
    /\ Unlock(p) /\ UNCHANGED queue /\ SchemaUnchanged

Plan(p) ==
    /\ Accept(p) /\ proc[p].mode = "apply"
    /\ Goto(p, [proc[p] EXCEPT !.stage = "apply", !.pending = Behind(p), !.seen = <<>>])
    /\ UNCHANGED <<lock, queue>> /\ SchemaUnchanged

-----------------------------------------------------------------------------
(* Applying.                                                               *)

Row(p, v) == Files[proc[p].build][v]

\* Mutant: the file runs in a transaction of its own, the process may stop
\* before the row is written, and the next one runs the file again.
applyOneUnrecorded(p) ==
    \E v \in proc[p].pending :
        /\ proc[p].stage = "apply" /\ ~proc[p].alone /\ \A w \in proc[p].pending : v <= w
        /\ column /\ v \notin DOMAIN applied
        /\ executed' = Append(executed, <<v, Row(p, v).checksum>>)
        /\ \/ applied' = [w \in DOMAIN applied \cup {v} |-> IF w = v THEN Row(p, v) ELSE applied[w]]
           \/ UNCHANGED applied
        /\ Goto(p, [proc[p] EXCEPT !.pending = @ \ {v}])
        /\ UNCHANGED <<column, lock, queue>>

\* One file and its row, in one transaction on the connection that holds the
\* lock.
applyOne(p) ==
    \E v \in proc[p].pending :
        /\ proc[p].stage = "apply" /\ ~proc[p].alone /\ \A w \in proc[p].pending : v <= w
        /\ column /\ v \notin DOMAIN applied
        /\ executed' = Append(executed, <<v, Row(p, v).checksum>>)
        /\ applied' = [w \in DOMAIN applied \cup {v} |-> IF w = v THEN Row(p, v) ELSE applied[w]]
        /\ Goto(p, [proc[p] EXCEPT !.pending = @ \ {v}])
        /\ UNCHANGED <<column, lock, queue>>

\* MigrateLedger runs on another connection of the pool; it checks the chain or
\* backfills it once (module AuditChain), and Run returns.
MigrateLedger(p) ==
    /\ proc[p].stage = "apply" /\ proc[p].pending = {}
    /\ Goto(p, Ready(proc[p].build))
    /\ Unlock(p) /\ UNCHANGED queue /\ SchemaUnchanged

\* The session that holds the lock ends: the process notices only when it next
\* uses this connection, and the last use was the read or the last migration.
LoseSession(p) ==
    /\ proc[p].stage \in {"check", "apply"} /\ ~proc[p].alone
    /\ Goto(p, [proc[p] EXCEPT !.alone = TRUE])
    /\ Unlock(p) /\ UNCHANGED queue /\ SchemaUnchanged

ApplyFails(p) ==
    /\ proc[p].stage = "apply" /\ proc[p].alone /\ proc[p].pending # {}
    /\ Goto(p, Down) /\ UNCHANGED <<lock, queue>> /\ SchemaUnchanged

\* An error (a statement fails, the connection is lost, the row exists, the
\* ledger is refused), a crash, the end of `argus-api migrate` or a shutdown.
\* The transaction in progress is rolled back and the session releases the lock.
Stop(p) ==
    /\ proc[p].stage # "down"
    /\ Goto(p, Down) /\ Unlock(p) /\ Leave(p) /\ SchemaUnchanged

-----------------------------------------------------------------------------

Run(p) ==
    \/ Prepare(p) \/ appliedMigrations(p)
    \/ Refuse(p) \/ Verified(p) \/ Plan(p)
    \/ applyOne(p) \/ ApplyFails(p) \/ MigrateLedger(p)

Next == \E p \in Processes : Start(p) \/ Lock(p) \/ Run(p) \/ LoseSession(p) \/ Stop(p)

\* A process that holds the lock goes on, and PostgreSQL grants the lock to a
\* request that nothing is in the way of.
Fairness == \A p \in Processes : WF_vars(Run(p)) /\ WF_vars(Lock(p))

Spec == Init /\ [][Next]_vars /\ Fairness

-----------------------------------------------------------------------------
(* Properties.                                                             *)

\* schema_migrations tells what was done to the schema: every file was executed
\* once, in version order and without a gap, with the checksum recorded,
\* whatever builds ran, in whatever order, and wherever they stopped.
SchemaRecorded ==
    /\ DOMAIN applied = 1..Len(executed)
    /\ \A v \in DOMAIN applied : executed[v] = <<v, applied[v].checksum>>

\* While a process applies migrations under the lock the plan it made stays
\* right: what it has still to apply is what its build has and the database
\* has not, so that no replica fails on what another one applied.
PlanCurrent ==
    \A p \in Processes :
        /\ proc[p].stage = "check" /\ ~proc[p].alone => proc[p].seen = applied
        /\ proc[p].stage = "apply" /\ ~proc[p].alone =>
              column /\ proc[p].pending = known(p) \ DOMAIN applied

Compatible(b, rows) ==
    /\ \A v \in DOMAIN Files[b] : v \in DOMAIN rows /\ rows[v].checksum = Files[b][v].checksum
    /\ \A v \in DOMAIN rows \ DOMAIN Files[b] : ~rows[v].breaking

\* When Run returns without an error the database has every migration of the
\* build, unmodified, and no breaking one that the build does not know; except
\* that a process whose session ended unnoticed may be overtaken by a newer
\* build.
StartsOnKnownSchema ==
    [][\A p \in Processes : proc[p].stage # "ready" /\ proc'[p].stage = "ready" =>
          \/ Compatible(proc[p].build, applied)
          \/ proc[p].alone /\ \A v \in known(p) : v \in DOMAIN applied /\ applied[v].checksum = Row(p, v).checksum]_vars

\* Every process that asks for the migration lock gets it and is started or
\* refused: shared and exclusive holders do not keep each other out.
RunEnds == \A p \in Processes : proc[p].stage = "waiting" ~> proc[p].stage \in {"ready", "down"}

\* "A pod therefore never serves traffic against a schema it does not know":
\* the check is made at the start only.
NeverServesUnknown ==
    \A p \in Processes : proc[p].stage = "ready" =>
        \A v \in DOMAIN applied \ known(p) : ~applied[v].breaking

=============================================================================

-------------------------- MODULE MigrationsProofs --------------------------
(***************************************************************************)
(* For any number of processes and any builds: schema_migrations records   *)
(* what was executed, the plan of a process is current, and a process      *)
(* starts on a schema that its build knows.                                *)
(***************************************************************************)
EXTENDS Migrations, TLAPS

Proc == [stage : Stages, build : Builds, mode : Modes, seen : Seq(Migration), pending : SUBSET Nat, alone : BOOLEAN]
Holds == {"none", "shared", "exclusive"}
HoldOf(mode) == IF mode = "apply" THEN "exclusive" ELSE "shared"

Has(b, v, rows) == v \in DOMAIN rows /\ rows[v].checksum = Files[b][v].checksum
NoneBreaking(b, rows) == \A v \in DOMAIN rows \ DOMAIN Files[b] : ~rows[v].breaking

\* What is true of a process with memory m that holds the lock as h, when the
\* database has these rows and, if col, the column.
ProcInv(m, h, rows, col) ==
    /\ m.stage \in {"down", "waiting", "ready"} => h = "none" /\ ~m.alone
    /\ m.alone => h = "none" /\ m.stage \in {"check", "apply"}
    /\ m.stage \in {"prepare", "read", "check", "apply"} /\ ~m.alone => h = HoldOf(m.mode)
    /\ m.stage \in {"prepare", "apply"} => m.mode = "apply"
    /\ m.stage \in {"read", "check", "apply"} /\ m.mode = "apply" => col
    /\ m.stage = "check" => /\ \A v \in DOMAIN m.seen : v \in DOMAIN rows /\ m.seen[v] = rows[v]
                            /\ ~m.alone => m.seen = rows
    /\ m.stage = "apply" => /\ m.pending \subseteq DOMAIN Files[m.build]
                            /\ \A v \in DOMAIN Files[m.build] \ m.pending : Has(m.build, v, rows)
                            /\ ~m.alone => /\ m.pending = DOMAIN Files[m.build] \ DOMAIN rows
                                           /\ NoneBreaking(m.build, rows)

TypeOK ==
    /\ applied \in Seq(Migration)
    /\ executed \in Seq(Nat \X STRING)
    /\ column \in BOOLEAN
    /\ proc \in [Processes -> Proc]
    /\ lock \in [Processes -> Holds]

\* At most one process migrates, and none verifies meanwhile.
Exclusive == \A p, q \in Processes : p # q /\ lock[p] = "exclusive" => lock[q] = "none"

Inv ==
    /\ TypeOK /\ SchemaRecorded /\ Exclusive
    /\ \A p \in Processes : ProcInv(proc[p], lock[p], applied, column)

-----------------------------------------------------------------------------

LEMMA DownType == Down \in Proc /\ ProcInv(Down, "none", applied, column)
<1>1. (CHOOSE b \in Builds : TRUE) \in Builds
  BY FilesAssumption
<1>2. <<>> \in Seq(Migration)
  OBVIOUS
<1> QED
  BY <1>1, <1>2 DEF Down, Proc, Stages, Modes, ProcInv

LEMMA SeqElement ==
    ASSUME NEW S, NEW s \in Seq(S)
    PROVE  DOMAIN s = 1..Len(s) /\ Len(s) \in Nat /\ \A i \in DOMAIN s : s[i] \in S
OBVIOUS

LEMMA InitInv == Init => Inv
<1> SUFFICES ASSUME Init PROVE Inv
  OBVIOUS
<1>1. PICK rows \in Released : applied = rows /\ executed = [v \in DOMAIN rows |-> <<v, rows[v].checksum>>]
  BY DEF Init
<1>2. applied \in Seq(Migration) /\ DOMAIN applied = 1..Len(applied)
  BY <1>1, FilesAssumption
<1>3. \A v \in DOMAIN applied : applied[v].checksum \in STRING
  <2>1. \A v \in DOMAIN applied : applied[v] \in Migration
    BY <1>2, SeqElement
  <2> QED
    BY <2>1 DEF Migration
<1>4. executed \in Seq(Nat \X STRING) /\ Len(executed) = Len(applied) /\ SchemaRecorded
  <2>1. executed \in [1..Len(applied) -> Nat \X STRING]
    BY <1>1, <1>2, <1>3
  <2>2. executed \in Seq(Nat \X STRING) /\ Len(executed) = Len(applied)
    BY <1>2, <2>1
  <2> QED
    BY <1>1, <1>2, <2>2 DEF SchemaRecorded
<1>5. column \in BOOLEAN /\ proc \in [Processes -> Proc] /\ lock \in [Processes -> Holds]
  BY DownType DEF Init, Holds
<1>6. Exclusive /\ \A p \in Processes : ProcInv(proc[p], lock[p], applied, column)
  BY DownType DEF Init, Exclusive
<1> QED
  BY <1>2, <1>4, <1>5, <1>6 DEF Inv, TypeOK

\* A step of one process that leaves the rows alone.
LEMMA ProcStep ==
    ASSUME Inv, NEW p \in Processes, NEW m \in Proc, NEW h \in Holds,
           Goto(p, m), lock' = [lock EXCEPT ![p] = h],
           UNCHANGED <<applied, executed>>, column' \in BOOLEAN, column => column',
           h = "exclusive" => \A q \in Processes : q # p => lock[q] = "none",
           h = "shared" => \A q \in Processes : q # p => lock[q] # "exclusive",
           ProcInv(m, h, applied, column')
    PROVE  Inv'
<1>1. TypeOK'
  BY DEF Inv, TypeOK, Goto
<1>2. SchemaRecorded'
  BY DEF Inv, SchemaRecorded
<1>3. Exclusive'
  BY DEF Inv, TypeOK, Exclusive, Holds
<1>4. ASSUME NEW q \in Processes PROVE ProcInv(proc'[q], lock'[q], applied, column')
  <2>1. CASE q = p
    BY <2>1 DEF Goto, Inv, TypeOK
  <2>2. CASE q # p
    <3>1. proc'[q] = proc[q] /\ lock'[q] = lock[q] /\ ProcInv(proc[q], lock[q], applied, column)
      BY <2>2 DEF Goto, Inv, TypeOK
    <3> QED
      BY <3>1 DEF ProcInv
  <2> QED
    BY <2>1, <2>2
<1> QED
  BY <1>1, <1>2, <1>3, <1>4 DEF Inv

LEMMA StartInv == ASSUME Inv, NEW p \in Processes, Start(p) PROVE Inv'
<1>1. PICK b \in Builds, mode \in Modes : Goto(p, [Down EXCEPT !.stage = "waiting", !.build = b, !.mode = mode])
  BY DEF Start
<1> DEFINE m == [Down EXCEPT !.stage = "waiting", !.build = b, !.mode = mode]
<1>2. m \in Proc /\ m.stage = "waiting" /\ m.alone = FALSE
  BY DownType DEF Down, Proc, Stages
<1>3. lock[p] = "none"
  BY DEF Inv, ProcInv, Start
<1>4. lock' = [lock EXCEPT ![p] = "none"]
  BY <1>3 DEF Start, Inv, TypeOK
<1>5. ProcInv(m, "none", applied, column)
  BY <1>2 DEF ProcInv
<1> HIDE DEF m
<1>6. Goto(p, m) /\ UNCHANGED <<applied, executed>> /\ column' = column /\ column \in BOOLEAN
  BY <1>1 DEF Start, SchemaUnchanged, m, Inv, TypeOK
<1> QED
  BY <1>2, <1>4, <1>5, <1>6, ProcStep DEF Holds

LEMMA LockInv == ASSUME Inv, NEW p \in Processes, Lock(p) PROVE Inv'
<1>1. proc[p] \in Proc /\ proc[p].stage = "waiting" /\ ProcInv(proc[p], lock[p], applied, column) /\ column \in BOOLEAN
  BY DEF Inv, TypeOK, Lock
<1>2. ~proc[p].alone
  BY <1>1 DEF ProcInv
<1>3. UNCHANGED <<applied, executed, column>>
  BY DEF Lock, SchemaUnchanged
<1>4. CASE proc[p].mode = "apply"
  <2> DEFINE m == [proc[p] EXCEPT !.stage = "prepare"]
  <2>1. Goto(p, m) /\ lock' = [lock EXCEPT ![p] = "exclusive"] /\ \A q \in Processes : lock[q] = "none"
    BY <1>4 DEF Lock
  <2>2. m \in Proc /\ m.stage = "prepare" /\ m.mode = "apply" /\ m.alone = proc[p].alone
    BY <1>1, <1>4 DEF Proc, Stages
  <2> HIDE DEF m
  <2>3. ProcInv(m, "exclusive", applied, column)
    BY <1>2, <2>2 DEF ProcInv, HoldOf
  <2> QED
    BY <1>1, <1>3, <2>1, <2>2, <2>3, ProcStep DEF Holds
<1>5. CASE proc[p].mode = "verify"
  <2> DEFINE m == [proc[p] EXCEPT !.stage = "read"]
  <2>1. Goto(p, m) /\ lock' = [lock EXCEPT ![p] = "shared"] /\ \A q \in Processes : lock[q] # "exclusive"
    BY <1>5 DEF Lock
  <2>2. m \in Proc /\ m.stage = "read" /\ m.mode = "verify" /\ m.alone = proc[p].alone
    BY <1>1, <1>5 DEF Proc, Stages
  <2> HIDE DEF m
  <2>3. ProcInv(m, "shared", applied, column)
    BY <1>2, <2>2 DEF ProcInv, HoldOf
  <2> QED
    BY <1>1, <1>3, <2>1, <2>2, <2>3, ProcStep DEF Holds
<1> QED
  BY <1>1, <1>4, <1>5 DEF Proc, Modes

\* The steps by which a process ends, or waits no more: it goes down and its
\* session releases the lock.
LEMMA DownInv ==
    ASSUME Inv, NEW p \in Processes, Goto(p, Down), Unlock(p), SchemaUnchanged
    PROVE  Inv'
BY DownType, ProcStep DEF Unlock, SchemaUnchanged, Holds, Inv, TypeOK

LEMMA ReadyInv ==
    ASSUME Inv, NEW p \in Processes, Goto(p, Ready(proc[p].build)), Unlock(p), SchemaUnchanged
    PROVE  Inv'
<1> DEFINE m == Ready(proc[p].build)
<1>1. m \in Proc /\ m.stage = "ready" /\ m.alone = FALSE
  BY DownType DEF Inv, TypeOK, Ready, Down, Proc, Stages
<1> HIDE DEF m
<1>2. ProcInv(m, "none", applied, column)
  BY <1>1 DEF ProcInv
<1> QED
  BY <1>1, <1>2, ProcStep DEF Unlock, SchemaUnchanged, Holds, Inv, TypeOK, m

\* The steps of a process that keeps what it holds of the lock.
LEMMA KeepStep ==
    ASSUME Inv, NEW p \in Processes, NEW m \in Proc, Goto(p, m), UNCHANGED <<applied, executed, lock>>,
           column' \in BOOLEAN, column => column', ProcInv(m, lock[p], applied, column')
    PROVE  Inv'
<1>1. lock[p] \in Holds /\ lock' = [lock EXCEPT ![p] = lock[p]]
  BY DEF Inv, TypeOK
<1>2. /\ lock[p] = "exclusive" => \A q \in Processes : q # p => lock[q] = "none"
      /\ lock[p] = "shared" => \A q \in Processes : q # p => lock[q] # "exclusive"
  BY DEF Inv, Exclusive
<1> QED
  BY <1>1, <1>2, ProcStep

LEMMA PrepareInv == ASSUME Inv, NEW p \in Processes, Prepare(p) PROVE Inv'
<1> DEFINE m == [proc[p] EXCEPT !.stage = "read"]
<1>1. proc[p] \in Proc /\ proc[p].stage = "prepare" /\ ProcInv(proc[p], lock[p], applied, column)
  BY DEF Inv, TypeOK, Prepare
<1>2. m \in Proc /\ m.stage = "read" /\ m.mode = proc[p].mode /\ m.alone = proc[p].alone
  BY <1>1 DEF Proc, Stages
<1>3. Goto(p, m) /\ column' = TRUE /\ UNCHANGED <<applied, executed, lock>>
  BY DEF Prepare
<1> HIDE DEF m
<1>4. ProcInv(m, lock[p], applied, TRUE)
  BY <1>1, <1>2 DEF ProcInv
<1> QED
  BY <1>2, <1>3, <1>4, KeepStep

LEMMA ReadInv == ASSUME Inv, NEW p \in Processes, appliedMigrations(p) PROVE Inv'
<1> DEFINE m == [proc[p] EXCEPT !.stage = "check", !.seen = applied]
<1>1. proc[p] \in Proc /\ proc[p].stage = "read" /\ ProcInv(proc[p], lock[p], applied, column)
  BY DEF Inv, TypeOK, appliedMigrations
<1>2. m \in Proc /\ m.stage = "check" /\ m.mode = proc[p].mode /\ m.alone = proc[p].alone /\ m.seen = applied
  BY <1>1 DEF Proc, Stages, Inv, TypeOK
<1>3. Goto(p, m) /\ UNCHANGED <<applied, executed, lock, column>> /\ column \in BOOLEAN
  BY DEF appliedMigrations, SchemaUnchanged, Inv, TypeOK
<1> HIDE DEF m
<1>4. ProcInv(m, lock[p], applied, column)
  BY <1>1, <1>2 DEF ProcInv
<1> QED
  BY <1>2, <1>3, <1>4, KeepStep

\* What Run has found out when it accepts the rows it read.
LEMMA Accepted ==
    ASSUME Inv, NEW p \in Processes, Accept(p)
    PROVE  /\ \A v \in known(p) \ Behind(p) : Has(proc[p].build, v, applied)
           /\ ~proc[p].alone => NoneBreaking(proc[p].build, applied) /\ Behind(p) = known(p) \ DOMAIN applied
<1>1. /\ \A v \in DOMAIN proc[p].seen : v \in DOMAIN applied /\ proc[p].seen[v] = applied[v]
      /\ ~proc[p].alone => proc[p].seen = applied
  BY DEF Inv, ProcInv, Accept
<1>2. \A v \in known(p) \ Behind(p) : Has(proc[p].build, v, applied)
  BY <1>1 DEF Accept, Modified, Behind, Has, known
<1>3. ~proc[p].alone => NoneBreaking(proc[p].build, applied)
  BY <1>1 DEF Accept, Newer, NoneBreaking, known
<1> QED
  BY <1>1, <1>2, <1>3 DEF Behind

LEMMA KnownVersions ==
    ASSUME Inv, NEW p \in Processes
    PROVE  /\ known(p) = 1..Len(Files[proc[p].build]) /\ Len(Files[proc[p].build]) \in Nat
           /\ \A v \in known(p) : Row(p, v) \in Migration
<1>1. Files[proc[p].build] \in Seq(Migration)
  BY FilesAssumption DEF Inv, TypeOK, Proc
<1> QED
  BY <1>1, SeqElement DEF known, Row

LEMMA PlanInv == ASSUME Inv, NEW p \in Processes, Plan(p) PROVE Inv'
<1> DEFINE m == [proc[p] EXCEPT !.stage = "apply", !.pending = Behind(p), !.seen = <<>>]
<1>1. /\ proc[p] \in Proc /\ proc[p].stage = "check" /\ proc[p].mode = "apply"
      /\ ProcInv(proc[p], lock[p], applied, column)
  BY DEF Inv, TypeOK, Plan, Accept
<1>2. Behind(p) \subseteq known(p) /\ Behind(p) \subseteq Nat
  BY KnownVersions DEF Behind
<1>3. /\ m \in Proc /\ m.stage = "apply" /\ m.mode = "apply" /\ m.alone = proc[p].alone
      /\ m.pending = Behind(p) /\ m.build = proc[p].build
  <2>1. <<>> \in Seq(Migration)
    OBVIOUS
  <2> DEFINE empty == <<>>
  <2> HIDE DEF empty
  <2>2. empty \in Seq(Migration)
    BY <2>1 DEF empty
  <2>3. Behind(p) \in SUBSET Nat
    BY <1>2
  <2>4. ASSUME NEW x \in SUBSET Nat
        PROVE  LET n == [proc[p] EXCEPT !.stage = "apply", !.pending = x, !.seen = empty]
               IN  /\ n \in Proc /\ n.stage = "apply" /\ n.mode = "apply" /\ n.alone = proc[p].alone
                   /\ n.pending = x /\ n.build = proc[p].build
    BY <1>1, <2>2 DEF Proc, Stages
  <2> QED
    BY <2>3, <2>4 DEF empty
<1>4. Goto(p, m) /\ UNCHANGED <<applied, executed, lock, column>> /\ column \in BOOLEAN
  BY DEF Plan, SchemaUnchanged, Inv, TypeOK
<1> HIDE DEF m
<1>5. ProcInv(m, lock[p], applied, column)
  BY <1>1, <1>2, <1>3, Accepted DEF Plan, ProcInv, known
<1> QED
  BY <1>3, <1>4, <1>5, KeepStep

LEMMA LoseInv == ASSUME Inv, NEW p \in Processes, LoseSession(p) PROVE Inv'
<1> DEFINE m == [proc[p] EXCEPT !.alone = TRUE]
<1>1. /\ proc[p] \in Proc /\ proc[p].stage \in {"check", "apply"}
      /\ ProcInv(proc[p], lock[p], applied, column)
  BY DEF Inv, TypeOK, LoseSession
<1>2. /\ m \in Proc /\ m.stage = proc[p].stage /\ m.mode = proc[p].mode /\ m.alone = TRUE
      /\ m.pending = proc[p].pending /\ m.build = proc[p].build /\ m.seen = proc[p].seen
  BY <1>1 DEF Proc
<1>3. Goto(p, m) /\ lock' = [lock EXCEPT ![p] = "none"] /\ UNCHANGED <<applied, executed, column>> /\ column \in BOOLEAN
  BY DEF LoseSession, Unlock, SchemaUnchanged, Inv, TypeOK
<1> HIDE DEF m
<1>4. ProcInv(m, "none", applied, column)
  BY <1>1, <1>2 DEF ProcInv
<1> QED
  BY <1>2, <1>3, <1>4, ProcStep DEF Holds

\* The next version is the one after the last that was applied.
LEMMA ApplyInv == ASSUME Inv, NEW p \in Processes, applyOne(p) PROVE Inv'
<1>1. PICK v \in proc[p].pending :
          /\ proc[p].stage = "apply" /\ ~proc[p].alone /\ \A w \in proc[p].pending : v <= w
          /\ executed' = Append(executed, <<v, Row(p, v).checksum>>)
          /\ applied' = [w \in DOMAIN applied \cup {v} |-> IF w = v THEN Row(p, v) ELSE applied[w]]
          /\ Goto(p, [proc[p] EXCEPT !.pending = @ \ {v}])
          /\ UNCHANGED <<column, lock, queue>>
  BY DEF applyOne
<1> DEFINE n == Len(executed)
           m == [proc[p] EXCEPT !.pending = @ \ {v}]
<1>2. proc[p] \in Proc /\ ProcInv(proc[p], lock[p], applied, column)
  BY DEF Inv, TypeOK
<1>3. lock[p] = "exclusive" /\ proc[p].mode = "apply" /\ proc[p].pending = known(p) \ DOMAIN applied
  BY <1>1, <1>2 DEF ProcInv, HoldOf, known
<1>4. n \in Nat /\ DOMAIN applied = 1..n
  BY DEF Inv, TypeOK, SchemaRecorded
<1>5. v = n + 1 /\ v \in known(p) /\ Row(p, v) \in Migration
  <2>1. v \in known(p) /\ v \notin 1..n
    BY <1>1, <1>3, <1>4
  <2>2. v \in Nat /\ v >= n + 1
    BY <1>4, <2>1, KnownVersions
  <2>3. n + 1 \in proc[p].pending
    BY <1>3, <1>4, <2>1, <2>2, KnownVersions
  <2> QED
    BY <1>1, <1>4, <2>1, <2>2, <2>3, KnownVersions
<1>6. /\ DOMAIN applied' = 1..(n + 1) /\ applied'[n + 1] = Row(p, v)
      /\ \A w \in 1..n : applied'[w] = applied[w]
  <2>1. 1..n \cup {n + 1} = 1..(n + 1) /\ n + 1 \notin 1..n
    BY <1>4
  <2> QED
    BY <1>1, <1>4, <1>5, <2>1
<1>7. applied' \in Seq(Migration)
  <2>1. \A w \in 1..n : applied[w] \in Migration
    BY <1>4, SeqElement DEF Inv, TypeOK
  <2>2. applied' = [w \in 1..(n + 1) |-> applied'[w]]
    BY <1>1, <1>6
  <2>3. \A w \in 1..(n + 1) : applied'[w] \in Migration
    BY <1>4, <1>5, <1>6, <2>1
  <2> QED
    BY <1>4, <2>2, <2>3
<1>8. /\ executed' \in Seq(Nat \X STRING) /\ Len(executed') = n + 1
      /\ executed'[n + 1] = <<n + 1, Row(p, v).checksum>>
      /\ \A w \in 1..n : executed'[w] = executed[w]
  <2>1. Row(p, v).checksum \in STRING
    BY <1>5 DEF Migration
  <2>2. <<v, Row(p, v).checksum>> \in Nat \X STRING
    BY <1>4, <1>5, <2>1
  <2> QED
    BY <1>1, <1>4, <1>5, <2>2 DEF Inv, TypeOK
<1>9. SchemaRecorded'
  BY <1>4, <1>5, <1>6, <1>8 DEF Inv, SchemaRecorded
<1>10. /\ m \in Proc /\ m.stage = "apply" /\ m.mode = "apply" /\ m.alone = FALSE
       /\ m.pending = proc[p].pending \ {v} /\ m.build = proc[p].build
  BY <1>1, <1>2, <1>3 DEF Proc
<1> HIDE DEF m
<1>11. TypeOK' /\ Exclusive'
  BY <1>1, <1>7, <1>8, <1>10 DEF Inv, TypeOK, Exclusive, Goto, m
<1>12. ASSUME NEW q \in Processes PROVE ProcInv(proc'[q], lock'[q], applied', column')
  <2>1. CASE q = p
    <3>1. proc'[q] = m /\ lock'[q] = lock[p] /\ column' = column
      BY <1>1, <2>1 DEF Goto, Inv, TypeOK, m
    <3>2. /\ m.pending = DOMAIN Files[m.build] \ DOMAIN applied'
          /\ \A w \in DOMAIN Files[m.build] \ m.pending : Has(m.build, w, applied')
      <4>1. m.pending = DOMAIN Files[m.build] \ DOMAIN applied'
        BY <1>3, <1>4, <1>5, <1>6, <1>10 DEF known
      <4>2. ASSUME NEW w \in DOMAIN Files[m.build] \ m.pending PROVE Has(m.build, w, applied')
        <5>1. CASE w = v
          BY <1>4, <1>5, <1>6, <1>10, <5>1 DEF Has, Row
        <5>2. CASE w # v
          <6>1. Has(m.build, w, applied)
            BY <1>1, <1>2, <1>10, <4>2, <5>2 DEF ProcInv
          <6> QED
            BY <1>4, <1>6, <6>1 DEF Has
        <5> QED
          BY <5>1, <5>2
      <4> QED
        BY <4>1, <4>2
    <3>3. NoneBreaking(m.build, applied')
      BY <1>1, <1>2, <1>4, <1>5, <1>6, <1>10 DEF NoneBreaking, ProcInv, known
    <3>4. column
      BY <1>1, <1>2, <1>3 DEF ProcInv
    <3>5. ProcInv(m, "exclusive", applied', column)
      <4>1. m.pending \subseteq DOMAIN Files[m.build]
        BY <3>2
      <4> QED
        BY <1>10, <3>2, <3>3, <3>4, <4>1 DEF ProcInv, HoldOf
    <3> QED
      BY <1>3, <3>1, <3>5
  <2>2. CASE q # p
    <3>1. /\ proc'[q] = proc[q] /\ lock'[q] = "none" /\ lock[q] = "none" /\ column' = column
          /\ ProcInv(proc[q], lock[q], applied, column) /\ proc[q] \in Proc
      BY <1>1, <1>3, <2>2 DEF Goto, Inv, TypeOK, Exclusive
    <3>2. ~proc[q].alone => proc[q].stage \in {"down", "waiting", "ready"}
      BY <3>1 DEF ProcInv, HoldOf, Proc, Stages
    <3>3. \A b, w : Has(b, w, applied) => Has(b, w, applied')
      BY <1>4, <1>6 DEF Has
    <3>4. \A w \in DOMAIN applied : w \in DOMAIN applied' /\ applied'[w] = applied[w]
      BY <1>4, <1>6
    <3>5. CASE ~proc[q].alone
      BY <3>1, <3>2, <3>5 DEF ProcInv
    <3>6. CASE proc[q].alone
      <4>1. proc[q].stage = "check" \/ proc[q].stage = "apply"
        BY <3>1, <3>6 DEF ProcInv
      <4>2. proc[q].stage = "check" => \A w \in DOMAIN proc[q].seen : w \in DOMAIN applied' /\ proc[q].seen[w] = applied'[w]
        BY <3>1, <3>4 DEF ProcInv
      <4>3. proc[q].stage = "apply" =>
                /\ proc[q].pending \subseteq DOMAIN Files[proc[q].build] /\ proc[q].mode = "apply"
                /\ \A w \in DOMAIN Files[proc[q].build] \ proc[q].pending : Has(proc[q].build, w, applied')
        BY <3>1, <3>3 DEF ProcInv
      <4>4. proc[q].mode = "apply" => column
        BY <3>1, <4>1 DEF ProcInv
      <4> QED
        BY <3>1, <3>6, <4>1, <4>2, <4>3, <4>4 DEF ProcInv
    <3> QED
      BY <3>5, <3>6
  <2> QED
    BY <2>1, <2>2
<1> QED
  BY <1>9, <1>11, <1>12 DEF Inv

LEMMA NextInv == Inv /\ [Next]_vars => Inv'
<1> SUFFICES ASSUME Inv, [Next]_vars PROVE Inv'
  OBVIOUS
<1>1. ASSUME NEW p \in Processes, Start(p) \/ Lock(p) \/ Run(p) \/ LoseSession(p) \/ Stop(p) PROVE Inv'
  <2>1. CASE Start(p)
    BY <2>1, StartInv
  <2>2. CASE Lock(p)
    BY <2>2, LockInv
  <2>3. CASE Prepare(p)
    BY <2>3, PrepareInv
  <2>4. CASE appliedMigrations(p)
    BY <2>4, ReadInv
  <2>5. CASE Refuse(p) \/ Stop(p)
    BY <2>5, DownInv DEF Refuse, Stop
  <2>6. CASE Verified(p) \/ MigrateLedger(p)
    BY <2>6, ReadyInv DEF Verified, MigrateLedger
  <2>7. CASE Plan(p)
    BY <2>7, PlanInv
  <2>8. CASE applyOne(p)
    BY <2>8, ApplyInv
  <2>9. CASE ApplyFails(p)
    <3>1. lock[p] = "none"
      BY <2>9 DEF ApplyFails, Inv, ProcInv
    <3>2. Goto(p, Down) /\ Unlock(p) /\ SchemaUnchanged
      BY <2>9, <3>1 DEF ApplyFails, Unlock, Inv, TypeOK
    <3> QED
      BY <3>2, DownInv
  <2>10. CASE LoseSession(p)
    BY <2>10, LoseInv
  <2> QED
    BY <1>1, <2>1, <2>2, <2>3, <2>4, <2>5, <2>6, <2>7, <2>8, <2>9, <2>10 DEF Run
<1>2. CASE UNCHANGED vars
  BY <1>2 DEF vars, Inv, TypeOK, SchemaRecorded, Exclusive
<1> QED
  BY <1>1, <1>2 DEF Next

\* The inductive invariant of the migration runner.
THEOREM Invariance == Spec => []Inv
<1> QED
  BY InitInv, NextInv, PTL DEF Spec

\* db.Run and applyOne: schema_migrations lists, with its checksum, every file
\* that was executed, once and in version order.
THEOREM SchemaSafety == Spec => []SchemaRecorded
<1>1. Inv => SchemaRecorded
  BY DEF Inv
<1> QED
  BY <1>1, Invariance, PTL

\* The advisory lock of db.Run: what a process read under it, and the plan it
\* made, stay true while it holds it.
THEOREM PlanSafety == Spec => []PlanCurrent
<1>1. Inv => PlanCurrent
  BY DEF Inv, ProcInv, PlanCurrent, known
<1> QED
  BY <1>1, Invariance, PTL

\* At most one process migrates at a time, and none verifies meanwhile.
THEOREM MigratesAlone == Spec => []Exclusive
<1>1. Inv => Exclusive
  BY DEF Inv
<1> QED
  BY <1>1, Invariance, PTL

\* db.Run returns without an error only on a schema that the build knows.
THEOREM StartSafety == Spec => StartsOnKnownSchema
<1> DEFINE Started ==
      \A p \in Processes : proc[p].stage # "ready" /\ proc'[p].stage = "ready" =>
          \/ Compatible(proc[p].build, applied)
          \/ proc[p].alone /\ \A v \in known(p) : v \in DOMAIN applied /\ applied[v].checksum = Row(p, v).checksum
<1>1. Inv /\ [Next]_vars => [Started]_vars
  <2> SUFFICES ASSUME Inv, Next, NEW p \in Processes, proc[p].stage # "ready", proc'[p].stage = "ready"
               PROVE  \/ Compatible(proc[p].build, applied)
                      \/ /\ proc[p].alone
                         /\ \A v \in known(p) : v \in DOMAIN applied /\ applied[v].checksum = Row(p, v).checksum
    BY DEF vars
  <2>1. PICK q \in Processes : Start(q) \/ Lock(q) \/ Run(q) \/ LoseSession(q) \/ Stop(q)
    BY DEF Next
  <2>2. PICK m : Goto(q, m)
    BY <2>1, Zenon DEF Start, Lock, Run, LoseSession, Stop, Prepare, appliedMigrations, Refuse, Verified, Plan, applyOne,
                ApplyFails, MigrateLedger
  <2>3. q = p
    BY <2>2 DEF Goto, Inv, TypeOK
  <2>4. Verified(p) \/ MigrateLedger(p)
    <3>1. Down.stage = "down" /\ proc[p] \in Proc
      BY SMTT(30) DEF Down, Inv, TypeOK
    <3>2. ~Start(p)
      <4>1. ASSUME NEW b, NEW mode, Goto(p, [Down EXCEPT !.stage = "waiting", !.build = b, !.mode = mode]) PROVE FALSE
        BY <4>1 DEF Goto, Down, Inv, TypeOK
      <4> QED
        BY <4>1 DEF Start
    <3>3. ~Lock(p) /\ ~Prepare(p) /\ ~appliedMigrations(p) /\ ~Plan(p) /\ ~LoseSession(p)
      BY <3>1 DEF Lock, Prepare, appliedMigrations, Plan, LoseSession, Goto, Inv, TypeOK, Proc
    <3>4. ~Refuse(p) /\ ~Stop(p) /\ ~ApplyFails(p)
      BY <3>1 DEF Refuse, Stop, ApplyFails, Goto, Inv, TypeOK
    <3>5. ~applyOne(p)
      <4>1. ASSUME NEW x, Goto(p, [proc[p] EXCEPT !.pending = x]) PROVE FALSE
        BY <3>1, <4>1 DEF Goto, Inv, TypeOK, Proc
      <4> QED
        BY <4>1, Zenon DEF applyOne
    <3> QED
      BY <2>1, <2>3, <3>2, <3>3, <3>4, <3>5 DEF Run
  <2>5. CASE Verified(p)
    BY <2>5, Accepted DEF Verified, Compatible, Has, NoneBreaking, known, Row
  <2>6. CASE MigrateLedger(p)
    BY <2>6 DEF MigrateLedger, Inv, ProcInv, Compatible, Has, NoneBreaking, known, Row
  <2> QED
    BY <2>4, <2>5, <2>6
<1>2. Spec => [][Started]_vars
  BY <1>1, Invariance, PTL DEF Spec
<1> QED
  BY <1>2 DEF StartsOnKnownSchema

=============================================================================

-------------------------- MODULE AuditChainProofs --------------------------
(* Proofs about AuditChain, for any entries, writers and verifiers. *)
EXTENDS AuditChain, TLAPS

-----------------------------------------------------------------------------
(* Facts about chains.                                                     *)

\* Appending the rows that continue the chain makes a valid ledger valid, and
\* never makes an invalid one valid.
LEMMA AppendKeeps ==
    ASSUME NEW rows, NEW h, NEW more, NEW g, NEW new,
           IsHead(h), IsHead(g), g.position >= h.position, IsTable(rows),
           Continues(more, h, g.position), g.hash = HashAt(more, h, g.position),
           DOMAIN more \cap DOMAIN rows = {},
           new = [p \in DOMAIN rows \cup DOMAIN more |-> IF p \in DOMAIN more THEN more[p] ELSE rows[p]]
    PROVE  /\ Valid(new, g) <=> Valid(rows, h)
           /\ IsTable(new)
<1> DEFINE k == h.position
           n == g.position
<1>1. k \in Nat /\ n \in Nat /\ n >= k /\ DOMAIN more = (k + 1)..n
  BY DEF IsHead, Continues
<1>2. DOMAIN new = DOMAIN rows \cup DOMAIN more
  OBVIOUS
<1>3. \A p \in DOMAIN rows : new[p] = rows[p] /\ p \in Nat \ {0}
  BY DEF IsTable
<1>4. \A p \in DOMAIN more : new[p] = more[p] /\ p \notin DOMAIN rows
  OBVIOUS
<1>5. IsTable(new)
  BY <1>2, <1>3, <1>4 DEF IsTable, Continues
<1> HIDE DEF k, n
<1>6. DOMAIN new = 1..n <=> DOMAIN rows = 1..k
  <2>1. ASSUME DOMAIN new = 1..n PROVE DOMAIN rows = 1..k
    <3>1. ASSUME NEW p \in DOMAIN rows PROVE p \in 1..k
      <4>1. p \in 1..n /\ p \notin (k + 1)..n
        BY <1>1, <1>2, <1>4, <2>1
      <4> QED
        BY <1>1, <4>1
    <3>2. ASSUME NEW p \in 1..k PROVE p \in DOMAIN rows
      <4>1. p \in 1..n /\ p \notin (k + 1)..n
        BY <1>1
      <4> QED
        BY <1>1, <1>2, <2>1, <4>1
    <3> QED
      BY <3>1, <3>2
  <2>2. ASSUME DOMAIN rows = 1..k PROVE DOMAIN new = 1..n
    BY <1>1, <1>2, <2>2
  <2> QED
    BY <2>1, <2>2
<1>7. ASSUME DOMAIN rows = 1..k, NEW p \in 1..k PROVE Linked(new, p) <=> Linked(rows, p)
  <2>1. new[p] = rows[p] /\ (p # 1 => p - 1 \in 1..k /\ new[p - 1] = rows[p - 1])
    BY <1>1, <1>3, <1>7
  <2> QED
    BY <2>1 DEF Linked
<1>8. ASSUME Valid(new, g) PROVE Valid(rows, h)
  <2>1. DOMAIN rows = 1..k
    BY <1>6, <1>8 DEF Valid, n
  <2>2. \A p \in DOMAIN rows : Linked(rows, p)
    BY <1>2, <1>7, <1>8, <2>1 DEF Valid
  <2>3. h.hash = IF k = 0 THEN GenesisHash ELSE rows[k].hash
    <3>1. CASE n = k
      <4>1. k # 0 => new[k] = rows[k]
        BY <1>1, <1>3, <2>1
      <4> QED
        BY <1>8, <3>1, <4>1 DEF Valid, HashAt, k, n
    <3>2. CASE n # k
      <4>1. k + 1 \in DOMAIN more /\ k + 1 \in DOMAIN new
        BY <1>1, <1>2, <3>2
      <4>2. new[k + 1].previous = h.hash
        BY <1>4, <4>1 DEF Continues, k
      <4>3. new[k + 1].previous = IF k + 1 = 1 THEN GenesisHash ELSE new[(k + 1) - 1].hash
        BY <1>8, <4>1 DEF Valid, Linked
      <4>4. k # 0 => k + 1 # 1 /\ new[(k + 1) - 1] = rows[k]
        BY <1>1, <1>3, <2>1
      <4>5. k = 0 => k + 1 = 1
        OBVIOUS
      <4> QED
        BY <4>2, <4>3, <4>4, <4>5
    <3> QED
      BY <3>1, <3>2
  <2> QED
    BY <2>1, <2>2, <2>3 DEF Valid, k
<1>9. ASSUME Valid(rows, h) PROVE Valid(new, g)
  <2>1. DOMAIN rows = 1..k /\ DOMAIN new = 1..n
    BY <1>6, <1>9 DEF Valid, k
  <2>2. h.hash = IF k = 0 THEN GenesisHash ELSE rows[k].hash
    BY <1>9 DEF Valid, k
  <2>3. ASSUME NEW p \in 1..n PROVE Linked(new, p)
    <3>1. CASE p \in 1..k
      BY <1>7, <1>9, <2>1, <3>1 DEF Valid
    <3>2. CASE p \notin 1..k
      <4>1. p \in DOMAIN more /\ new[p] = more[p]
        BY <1>1, <1>4, <3>2
      <4>2. /\ more[p].previous = IF p = k + 1 THEN h.hash ELSE more[p - 1].hash
            /\ more[p].hash = calculateHash(p, more[p].previous, more[p].entry)
        BY <4>1 DEF Continues, k
      <4>3. CASE p = k + 1
        <5>1. k # 0 => p # 1 /\ p - 1 = k /\ new[k] = rows[k]
          BY <1>1, <1>3, <2>1, <4>3
        <5>2. k = 0 => p = 1
          BY <4>3
        <5> QED
          BY <2>2, <4>1, <4>2, <4>3, <5>1, <5>2 DEF Linked
      <4>4. CASE p # k + 1
        <5>1. p # 1 /\ p - 1 \in DOMAIN more
          BY <1>1, <3>2, <4>4
        <5> QED
          BY <1>4, <4>1, <4>2, <4>4, <5>1 DEF Linked
      <4> QED
        BY <4>3, <4>4
    <3> QED
      BY <3>1, <3>2
  <2>4. g.hash = IF n = 0 THEN GenesisHash ELSE new[n].hash
    <3>1. CASE n = k
      <4>1. k # 0 => new[k] = rows[k]
        BY <1>1, <1>3, <2>1
      <4> QED
        BY <2>2, <3>1, <4>1 DEF HashAt, k, n
    <3>2. CASE n # k
      <4>1. n # 0 /\ n \in DOMAIN more
        BY <1>1, <3>2
      <4> QED
        BY <1>4, <3>2, <4>1 DEF HashAt, k, n
    <3> QED
      BY <3>1, <3>2
  <2> QED
    BY <2>1, <2>3, <2>4 DEF Valid, n
<1> QED
  BY <1>5, <1>8, <1>9

-----------------------------------------------------------------------------
(* Writers.                                                                *)

\* A step of one writer that commits nothing, when no other one is active.
LEMMA WriterFrame ==
    ASSUME Inv, NEW w \in Writers, NEW pc, NEW rows, NEW h, Goto(w, pc, rows, h),
           UNCHANGED <<logs, head>>, pc \in {"idle", "insert", "advance", "written"},
           \A x \in Writers : x # w => writer[x].pc = "idle",
           LET top == IF pc = "advance" THEN h.position + 1 ELSE h.position
           IN  pc # "idle" => /\ IsHead(head) /\ IsHead(h) /\ h.position >= head.position
                              /\ Continues(rows, head, top) /\ h.hash = HashAt(rows, head, h.position)
                              /\ DOMAIN rows \cap DOMAIN logs = {}
    PROVE  Inv'
<1>1. /\ writer' = [writer EXCEPT ![w] = [pc |-> pc, rows |-> rows, head |-> h]] /\ DOMAIN writer = Writers
      /\ UNCHANGED <<legacy, logs, head, migration, verifier, integrity, altered>>
  BY DEF Goto, Inv, TypeOK
<1>2. /\ DOMAIN writer' = Writers /\ writer'[w].pc = pc /\ writer'[w].rows = rows /\ writer'[w].head = h
      /\ \A x \in Writers : x # w => writer'[x].pc = "idle"
  BY <1>1
<1>3. TypeOK'
  BY <1>1, <1>2 DEF Inv, TypeOK, IsTable, IsHead
<1>4. ASSUME NEW x \in Writers PROVE WriterInv(x)'
  <2>1. CASE x # w
    BY <1>2, <2>1 DEF WriterInv
  <2>2. CASE x = w
    BY <1>1, <1>2, <2>2 DEF WriterInv, IsHead, Continues, HashAt, IsTable
  <2> QED
    BY <2>1, <2>2
<1>5. MigrationInv'
  BY <1>1 DEF Inv, MigrationInv, Continues, HashAt, IsHead, IsTable
<1>6. \A v \in Verifiers : VerifierInv(v)'
  BY <1>1 DEF Inv, VerifierInv, Valid, Linked
<1>7. BackfillWhole'
  BY <1>1 DEF Inv, BackfillWhole
<1> QED
  BY <1>1, <1>3, <1>4, <1>5, <1>6, <1>7 DEF Inv, Valid, Linked

LEMMA LockInv ==
    ASSUME Inv, NEW w \in Writers, LockHead(w)
    PROVE  Inv'
<1>1. IsHead(head) /\ UNCHANGED <<logs, head>>
  BY DEF LockHead, Inv, TypeOK
<1>2. CASE writer[w].pc = "idle"
  <2>1. Goto(w, "insert", NoRows, head) /\ \A x \in Writers : x # w => writer[x].pc = "idle"
    BY <1>2 DEF LockHead, HoldsHead
  <2>2. head.position \in Nat /\ DOMAIN NoRows = {} /\ (head.position + 1)..head.position = {}
    BY <1>1 DEF NoRows, IsHead
  <2>3. Continues(NoRows, head, head.position) /\ head.hash = HashAt(NoRows, head, head.position)
    BY <2>2 DEF Continues, HashAt, IsTable
  <2> QED
    BY <1>1, <2>1, <2>2, <2>3, WriterFrame
<1>3. CASE writer[w].pc = "written"
  <2>1. Goto(w, "insert", writer[w].rows, writer[w].head)
    BY <1>3 DEF LockHead
  <2>2. WriterInv(w)
    BY DEF Inv
  <2> QED
    BY <1>1, <1>3, <2>1, <2>2, WriterFrame DEF WriterInv
<1> QED
  BY <1>2, <1>3 DEF LockHead

\* A row that links to the last one continues the chain.
Reaches(rows, h, g) ==
    /\ IsHead(h) /\ IsHead(g) /\ g.position >= h.position
    /\ Continues(rows, h, g.position) /\ g.hash = HashAt(rows, h, g.position)
NextRow(g, entry) == LogRow(g.position + 1, g.hash, entry)
Extended(rows, g, entry) == With(rows, g.position + 1, NextRow(g, entry))
LEMMA RowContinues ==
    ASSUME NEW rows, NEW h, NEW g, NEW entry, Reaches(rows, h, g)
    PROVE  /\ Continues(Extended(rows, g, entry), h, g.position + 1)
           /\ g.hash = HashAt(Extended(rows, g, entry), h, g.position)
<1> DEFINE p == g.position + 1
           row == NextRow(g, entry)
           new == With(rows, p, row)
<1>1. /\ h.position \in Nat /\ g.position \in Nat /\ p \in Nat \ {0}
      /\ DOMAIN rows = (h.position + 1)..g.position
      /\ Continues(rows, h, g.position) /\ g.hash = HashAt(rows, h, g.position) /\ g.position >= h.position
  BY DEF IsHead, Continues, Reaches
<1>2. DOMAIN new = DOMAIN rows \cup {p} /\ new[p] = row /\ \A q \in DOMAIN rows : q # p /\ new[q] = rows[q]
  BY <1>1 DEF With
<1>3. /\ row = [previous |-> row.previous, entry |-> row.entry, hash |-> row.hash]
      /\ row.previous = g.hash /\ row.hash = calculateHash(p, row.previous, row.entry)
  BY DEF LogRow, NextRow
<1> HIDE DEF row, new
<1>4. DOMAIN new = (h.position + 1)..p
  <2>1. \A k, n \in Nat : n >= k => (k + 1)..(n + 1) = ((k + 1)..n) \cup {n + 1}
    OBVIOUS
  <2> QED
    BY <1>1, <1>2, <2>1
<1>5. IsTable(new)
  BY <1>1, <1>2, <1>3 DEF IsTable, Continues
<1>6. ASSUME NEW q \in DOMAIN new
      PROVE  /\ new[q].previous = IF q = h.position + 1 THEN h.hash ELSE new[q - 1].hash
             /\ new[q].hash = calculateHash(q, new[q].previous, new[q].entry)
  <2>1. CASE q # p
    <3>1. q \in DOMAIN rows /\ (q # h.position + 1 => q - 1 \in DOMAIN rows)
      BY <1>1, <1>2, <2>1
    <3> QED
      BY <1>1, <1>2, <3>1 DEF Continues
  <2>2. CASE q = p
    <3>1. CASE g.position = h.position
      BY <1>1, <1>2, <1>3, <2>2, <3>1 DEF HashAt
    <3>2. CASE g.position # h.position
      <4>1. q # h.position + 1 /\ q - 1 = g.position /\ q - 1 \in DOMAIN rows
        BY <1>1, <2>2, <3>2
      <4> QED
        BY <1>1, <1>2, <1>3, <2>2, <3>2, <4>1 DEF HashAt
    <3> QED
      BY <3>1, <3>2
  <2> QED
    BY <2>1, <2>2
<1>7. g.hash = HashAt(new, h, g.position)
  <2>1. g.position # h.position => g.position \in DOMAIN rows
    BY <1>1
  <2> QED
    BY <1>1, <1>2, <2>1 DEF HashAt
<1>8. Continues(new, h, p)
  BY <1>4, <1>5, <1>6 DEF Continues
<1> QED
  BY <1>7, <1>8 DEF new, row, Extended

LEMMA InsertInv ==
    ASSUME Inv, NEW w \in Writers, NEW entry \in Entries, Insert(w, entry)
    PROVE  Inv'
<1> DEFINE t == writer[w]
           p == t.head.position + 1
           rows == Extended(t.rows, t.head, entry)
<1>1. /\ WriterInv(w) /\ t.pc = "insert" /\ p \notin DOMAIN logs /\ UNCHANGED <<logs, head>>
      /\ Goto(w, "advance", rows, t.head)
  BY DEF Inv, Insert, Extended, NextRow
<1>2. /\ IsHead(head) /\ IsHead(t.head) /\ t.head.position >= head.position
      /\ Continues(t.rows, head, t.head.position) /\ t.head.hash = HashAt(t.rows, head, t.head.position)
      /\ DOMAIN t.rows \cap DOMAIN logs = {} /\ \A x \in Writers : x # w => writer[x].pc = "idle"
  BY <1>1 DEF WriterInv
<1>3. /\ Continues(rows, head, p) /\ t.head.hash = HashAt(rows, head, t.head.position)
  <2>1. Reaches(t.rows, head, t.head)
    BY <1>2 DEF Reaches
  <2> HIDE DEF t
  <2> QED
    BY <2>1, RowContinues
<1>3a. DOMAIN rows = DOMAIN t.rows \cup {p}
  BY DEF Extended, With
<1> HIDE DEF t, rows
<1>4. DOMAIN rows \cap DOMAIN logs = {}
  BY <1>1, <1>2, <1>3a
<1> QED
  BY <1>1, <1>2, <1>3, <1>4, WriterFrame

LEMMA AdvanceInv ==
    ASSUME Inv, NEW w \in Writers, AdvanceHead(w)
    PROVE  Inv'
<1> DEFINE t == writer[w]
           p == t.head.position + 1
           h == [position |-> p, hash |-> t.rows[p].hash]
<1>1. WriterInv(w) /\ t.pc = "advance" /\ UNCHANGED <<logs, head>> /\ Goto(w, "written", t.rows, h)
  BY DEF Inv, AdvanceHead
<1>2. /\ IsHead(head) /\ IsHead(t.head) /\ t.head.position >= head.position /\ Continues(t.rows, head, p)
      /\ DOMAIN t.rows \cap DOMAIN logs = {} /\ \A x \in Writers : x # w => writer[x].pc = "idle"
  BY <1>1 DEF WriterInv
<1>3. /\ head.position \in Nat /\ t.head.position \in Nat /\ p \in Nat /\ p # head.position /\ p >= head.position
  BY <1>2 DEF IsHead
<1>4. IsHead(h) /\ h.position = p /\ h.hash = HashAt(t.rows, head, p)
  BY <1>3 DEF IsHead, HashAt
<1> HIDE DEF h, t
<1> QED
  BY <1>1, <1>2, <1>3, <1>4, WriterFrame

LEMMA RollbackInv ==
    ASSUME Inv, NEW w \in Writers, Rollback(w)
    PROVE  Inv'
<1>1. WriterInv(w) /\ writer[w].pc # "idle" /\ UNCHANGED <<logs, head>> /\ Goto(w, "idle", NoRows, NoHead)
  BY DEF Inv, Rollback, HoldsHead
<1> QED
  BY <1>1, WriterFrame DEF WriterInv

LEMMA CommitInv ==
    ASSUME Inv, NEW w \in Writers, Commit(w)
    PROVE  Inv'
<1> DEFINE t == writer[w]
<1>1. /\ WriterInv(w) /\ t.pc = "written" /\ head' = t.head /\ Goto(w, "idle", NoRows, NoHead)
      /\ logs' = [p \in DOMAIN logs \cup DOMAIN t.rows |-> IF p \in DOMAIN t.rows THEN t.rows[p] ELSE logs[p]]
  BY DEF Inv, Commit
<1>2. /\ IsHead(head) /\ IsHead(t.head) /\ t.head.position >= head.position
      /\ Continues(t.rows, head, t.head.position) /\ t.head.hash = HashAt(t.rows, head, t.head.position)
      /\ DOMAIN t.rows \cap DOMAIN logs = {} /\ \A x \in Writers : x # w => writer[x].pc = "idle"
  BY <1>1 DEF WriterInv
<1>3. /\ DOMAIN writer' = Writers /\ \A x \in Writers : writer'[x].pc = "idle"
      /\ UNCHANGED <<legacy, migration, verifier, integrity, altered>>
  BY <1>1, <1>2 DEF Goto, Inv, TypeOK
<1>4. (Valid(logs, head)' <=> Valid(logs, head)) /\ IsTable(logs)'
  <2>1. IsTable(logs)
    BY DEF Inv, TypeOK
  <2>2. (Valid(logs', t.head) <=> Valid(logs, head)) /\ IsTable(logs')
    BY <1>1, <1>2, <2>1, AppendKeeps
  <2>3. (Valid(logs, head)' <=> Valid(logs', head')) /\ (IsTable(logs)' <=> IsTable(logs'))
    BY DEF Valid, Linked, IsTable
  <2>4. head' = t.head
    BY <1>1
  <2> HIDE DEF t
  <2> QED
    BY <2>2, <2>3, <2>4
<1>5. IsHead(head)' /\ head # NoHead /\ head' # NoHead
  BY <1>1, <1>2 DEF IsHead, NoHead
<1>6. TypeOK'
  BY <1>3, <1>4, <1>5 DEF Inv, TypeOK
<1>7. \A x \in Writers : WriterInv(x)'
  BY <1>3 DEF WriterInv
<1>8. migration.pc = "idle" /\ MigrationInv'
  BY <1>3, <1>5 DEF Inv, MigrationInv, TypeOK
<1>9. \A v \in Verifiers : VerifierInv(v)'
  BY <1>3 DEF Inv, VerifierInv, Valid, Linked
<1>10. BackfillWhole'
  <2>1. \A p \in DOMAIN logs : p \in DOMAIN logs' /\ logs'[p] = logs[p]
    BY <1>1, <1>2
  <2>2. legacy = <<>> /\ (~altered => \A p \in 1..Len(Legacy) : p \in DOMAIN logs /\ logs[p].entry = Legacy[p])
    <3>1. CASE Legacy = <<>> /\ legacy = Legacy
      <4>1. 1..Len(Legacy) = {}
        BY <3>1
      <4> QED
        BY <3>1, <4>1
    <3> QED
      BY <1>5, <3>1 DEF Inv, BackfillWhole
  <2> QED
    BY <1>3, <2>1, <2>2 DEF BackfillWhole
<1> QED
  BY <1>3, <1>4, <1>5, <1>6, <1>7, <1>8, <1>9, <1>10 DEF Inv

-----------------------------------------------------------------------------
(* Verification.                                                           *)

LEMMA VerifierInvStep ==
    ASSUME Inv, NEW v \in Verifiers, VerifierStep(v)
    PROVE  Inv'
<1>1. UNCHANGED <<legacy, logs, head, writer, migration, altered>> /\ DOMAIN verifier = Verifiers
  BY DEF VerifierStep, ReadHead, Walk, VerifyError, Report, Inv, TypeOK
<1>2. /\ DOMAIN verifier' = Verifiers /\ \A x \in Verifiers : x # v => verifier'[x] = verifier[x]
      /\ verifier'[v].pc \in {"idle", "walk"} /\ verifier'[v].altered \in BOOLEAN
      /\ integrity' \in {0, 1}
  BY <1>1 DEF VerifierStep, ReadHead, Walk, VerifyError, Report, Inv, TypeOK
<1>3. VerifierInv(v)'
  <2>1. CASE ReadHead(v)
    <3>1. /\ verifier'[v].rows = logs /\ verifier'[v].head = head /\ verifier'[v].altered = altered
          /\ verifier'[v].result = "none"
      BY <1>1, <2>1 DEF ReadHead
    <3> QED
      BY <1>1, <3>1 DEF Inv, VerifierInv, Valid, Linked, TypeOK
  <2>2. CASE Walk(v)
    <3> DEFINE result == IF verifier[v].head = NoHead THEN "error"
                         ELSE IF Valid(verifier[v].rows, verifier[v].head) THEN "valid" ELSE "invalid"
    <3>1. VerifierInv(v) /\ verifier[v].pc = "walk" /\ Report(v, result)
      BY <2>2 DEF Walk, Inv
    <3>2. (result = "valid" => ~verifier[v].altered) /\ (result = "invalid" => verifier[v].altered)
      BY <3>1 DEF VerifierInv
    <3> HIDE DEF result
    <3>3. verifier'[v].pc = "idle" /\ verifier'[v].altered = verifier[v].altered /\ verifier'[v].result = result
      BY <1>1, <3>1 DEF Report
    <3> QED
      BY <3>2, <3>3 DEF VerifierInv
  <2>3. CASE VerifyError(v)
    <3>1. verifier'[v].pc = "idle" /\ verifier'[v].result = "error"
      BY <1>1, <2>3 DEF VerifyError, Report
    <3> QED
      BY <3>1 DEF VerifierInv
  <2> QED
    BY <2>1, <2>2, <2>3 DEF VerifierStep
<1>4. \A x \in Verifiers : VerifierInv(x)'
  BY <1>2, <1>3 DEF Inv, VerifierInv, Valid, Linked
<1>5. TypeOK'
  BY <1>1, <1>2 DEF Inv, TypeOK, IsTable, IsHead
<1>6. ASSUME NEW w \in Writers PROVE WriterInv(w)'
  <2>1. WriterInv(w)
    BY DEF Inv
  <2> QED
    BY <1>1, <2>1, SMTT(30) DEF WriterInv, Continues, HashAt, IsHead, IsTable
<1>7. MigrationInv' /\ BackfillWhole'
  BY <1>1 DEF Inv, MigrationInv, Continues, HashAt, IsHead, IsTable, BackfillWhole
<1> QED
  BY <1>1, <1>4, <1>5, <1>6, <1>7 DEF Inv, Valid, Linked

-----------------------------------------------------------------------------
(* Migration.                                                              *)

LEMMA MigrationStepInv ==
    ASSUME Inv, MigrationStep
    PROVE  Inv'
<1> DEFINE start == [position |-> 0, hash |-> GenesisHash]
           m == migration
<1>1. UNCHANGED <<writer, verifier, integrity, altered>>
  BY DEF MigrationStep, MigrateEmpty, BeginBackfill, BackfillRow, CommitBackfill, AbortBackfill
<1>2. \A v \in Verifiers : VerifierInv(v)'
  BY <1>1 DEF Inv, VerifierInv, Valid, Linked
<1>3. IsHead(start) /\ start # NoHead /\ start.position = 0 /\ start.hash = GenesisHash
  BY DEF IsHead, NoHead
<1>4. ASSUME head = NoHead PROVE \A w \in Writers : writer[w].pc = "idle"
  <2>1. ~IsHead(head)
    BY <1>4 DEF NoHead, IsHead
  <2> QED
    BY <2>1 DEF Inv, WriterInv
<1>6. ASSUME UNCHANGED <<legacy, logs, head>>, migration'.pc \in {"idle", "backfill"}, MigrationInv' PROVE Inv'
  <2>1. TypeOK'
    BY <1>1, <1>6 DEF Inv, TypeOK, IsTable, IsHead
  <2>2. ASSUME NEW w \in Writers PROVE WriterInv(w)'
    <3>1. WriterInv(w)
      BY DEF Inv
    <3> QED
      BY <1>1, <1>6, <3>1 DEF WriterInv, Continues, HashAt, IsHead, IsTable
  <2>3. BackfillWhole'
    BY <1>1, <1>6 DEF Inv, BackfillWhole
  <2> QED
    BY <1>1, <1>2, <1>6, <2>1, <2>2, <2>3 DEF Inv, Valid, Linked
<1>5. CASE MigrateEmpty
  <2>1. /\ UNCHANGED <<legacy, logs, migration>> /\ legacy = <<>> /\ DOMAIN logs = {} /\ migration.pc = "idle"
        /\ head' = IF head = NoHead THEN start ELSE head
    BY <1>5 DEF MigrateEmpty
  <2>2. CASE head # NoHead
    <3>1. UNCHANGED vars
      BY <1>1, <2>1, <2>2 DEF vars
    <3>2. MigrationInv'
      BY <2>1 DEF MigrationInv
    <3> QED
      BY <1>6, <2>1, <2>2, <3>1, <3>2 DEF vars
  <2>3. CASE head = NoHead
    <3>1. head' = start /\ ~altered
      BY <2>1, <2>3 DEF Inv
    <3>2. Valid(logs, head)'
      BY <2>1, <3>1 DEF Valid, GenesisHash
    <3>3. TypeOK'
      BY <1>1, <1>3, <2>1, <3>1 DEF Inv, TypeOK, IsTable, IsHead
    <3>4. \A w \in Writers : WriterInv(w)'
      BY <1>1, <1>4, <2>3 DEF WriterInv
    <3>5. MigrationInv'
      BY <2>1 DEF MigrationInv
    <3>6. BackfillWhole'
      BY <1>1, <2>1 DEF Inv, BackfillWhole
    <3> QED
      BY <1>1, <1>2, <1>3, <3>1, <3>2, <3>3, <3>4, <3>5, <3>6 DEF Inv
  <2> QED
    BY <2>2, <2>3
<1>7. CASE BeginBackfill
  <2>1. /\ UNCHANGED <<legacy, logs, head>> /\ legacy # <<>> /\ DOMAIN logs = {} /\ head = NoHead
        /\ m'.pc = "backfill" /\ m'.rows = NoRows /\ m'.head = start
    BY <1>7 DEF BeginBackfill
  <2>2. legacy = Legacy /\ ~altered /\ 0 <= Len(Legacy)
    BY <2>1, AuditAssumption DEF Inv, TypeOK
  <2>3. DOMAIN NoRows = {} /\ 1..0 = {}
    BY DEF NoRows
  <2>4. Continues(NoRows, start, 0) /\ start.hash = HashAt(NoRows, start, 0)
    BY <2>3 DEF Continues, HashAt, IsTable
  <2>5. MigrationInv'
    BY <1>1, <1>3, <2>1, <2>2, <2>3, <2>4 DEF MigrationInv, Continues, HashAt, IsTable, IsHead
  <2> QED
    BY <1>6, <2>1, <2>5
<1>8. CASE AbortBackfill
  <2>1. m'.pc = "idle" /\ UNCHANGED <<legacy, logs, head>>
    BY <1>8 DEF AbortBackfill, IdleMigration
  <2> QED
    BY <1>6, <2>1 DEF MigrationInv
<1>9. ASSUME m.pc = "backfill"
      PROVE  /\ legacy = Legacy /\ head = NoHead /\ DOMAIN logs = {} /\ ~altered
             /\ IsHead(m.head) /\ m.head.position <= Len(Legacy)
             /\ Continues(m.rows, start, m.head.position) /\ m.head.hash = HashAt(m.rows, start, m.head.position)
             /\ \A p \in DOMAIN m.rows : m.rows[p].entry = Legacy[p]
  BY <1>9 DEF Inv, MigrationInv
<1>10. CASE BackfillRow
  <2> DEFINE p == m.head.position + 1
             row == NextRow(m.head, legacy[p])
             rows == Extended(m.rows, m.head, legacy[p])
             h == [position |-> p, hash |-> row.hash]
  <2>1. /\ m.pc = "backfill" /\ p <= Len(legacy) /\ UNCHANGED <<legacy, logs, head>>
        /\ m' = [pc |-> "backfill", rows |-> rows, head |-> h]
    BY <1>10 DEF BackfillRow, NextRow, Extended
  <2>2. m.head.position \in Nat /\ p \in Nat /\ m.head.position >= start.position
    BY <1>9, <2>1 DEF IsHead
  <2>3. Continues(rows, start, p)
    <3>1. /\ IsHead(start) /\ IsHead(m.head) /\ Continues(m.rows, start, m.head.position)
          /\ m.head.hash = HashAt(m.rows, start, m.head.position)
      BY <1>3, <1>9, <2>1
    <3> HIDE DEF start, m
    <3>2. Reaches(m.rows, start, m.head)
      BY <2>2, <3>1 DEF Reaches
    <3> QED
      BY <3>2, RowContinues
  <2>3a. /\ DOMAIN rows = DOMAIN m.rows \cup {p} /\ rows[p] = row
         /\ \A q \in DOMAIN m.rows : q # p => rows[q] = m.rows[q]
    BY DEF Extended, With
  <2>4. IsHead(h) /\ h.position = p /\ h.hash = HashAt(rows, start, p)
    <3>1. p # start.position
      BY <1>3, <2>2
    <3>2. HashAt(rows, start, p) = row.hash
      BY <2>3a, <3>1 DEF HashAt
    <3> HIDE DEF row
    <3> QED
      BY <2>2, <3>2 DEF IsHead
  <2>5. \A q \in DOMAIN rows : rows[q].entry = Legacy[q]
    <3>1. row.entry = Legacy[p]
      BY <1>9, <2>1 DEF LogRow, NextRow
    <3> HIDE DEF row
    <3> QED
      BY <1>9, <2>1, <2>3a, <3>1
  <2>6. m'.pc = "backfill" /\ m'.rows = rows /\ m'.head = h
    BY <2>1
  <2> HIDE DEF rows, h, row
  <2>7. MigrationInv'
    BY <1>1, <1>9, <2>1, <2>3, <2>4, <2>5, <2>6 DEF MigrationInv, Continues, HashAt, IsTable, IsHead
  <2> QED
    BY <1>6, <2>1, <2>6, <2>7
<1>11. CASE CommitBackfill
  <2>1. /\ m.pc = "backfill" /\ m.head.position = Len(legacy) /\ logs' = m.rows /\ head' = m.head
        /\ legacy' = <<>> /\ migration'.pc = "idle"
    BY <1>11 DEF CommitBackfill, IdleMigration
  <2>2. IsHead(head') /\ head' # NoHead /\ Len(Legacy) \in Nat
    BY <1>9, <2>1, AuditAssumption DEF IsHead, NoHead
  <2>3. /\ IsTable(m.rows) /\ DOMAIN m.rows = 1..m.head.position
        /\ \A p \in DOMAIN m.rows :
              /\ m.rows[p].previous = IF p = 1 THEN GenesisHash ELSE m.rows[p - 1].hash
              /\ m.rows[p].hash = calculateHash(p, m.rows[p].previous, m.rows[p].entry)
    BY <1>3, <1>9, <2>1 DEF Continues
  <2>4. m.head.hash = IF m.head.position = 0 THEN GenesisHash ELSE m.rows[m.head.position].hash
    BY <1>3, <1>9, <2>1 DEF HashAt
  <2>5. Valid(logs', head')
    BY <2>1, <2>3, <2>4 DEF Valid, Linked
  <2>6. TypeOK'
    BY <1>1, <2>1, <2>2, <2>3 DEF Inv, TypeOK, IsTable, IsHead
  <2>7. BackfillWhole'
    BY <1>9, <2>1, <2>3 DEF BackfillWhole
  <2>8. \A w \in Writers : WriterInv(w)'
    BY <1>1, <1>4, <1>9, <2>1 DEF WriterInv
  <2>9. MigrationInv'
    BY <2>1 DEF MigrationInv
  <2>10. Valid(logs, head)'
    BY <2>5 DEF Valid, Linked
  <2> QED
    BY <1>1, <1>2, <1>9, <2>1, <2>2, <2>6, <2>7, <2>8, <2>9, <2>10 DEF Inv
<1> QED
  BY <1>5, <1>7, <1>8, <1>10, <1>11 DEF MigrationStep

-----------------------------------------------------------------------------
(* Corruption leaves no valid ledger: each kind breaks a link, a payload's *)
(* hash, the sequence of positions or the head.                            *)

LEMMA CorruptInvalid ==
    ASSUME Valid(logs, head), IsHead(head), IsTable(logs), head # NoHead, MaxLength \in Nat,
           \/ \E p \in DOMAIN logs : AlterRow(p)
           \/ \E P \in SUBSET DOMAIN logs : DeleteRows(P)
           \/ \E p \in 1..(MaxLength + 1) : AddRow(p)
           \/ AlterHead
           \/ DeleteHead
    PROVE  /\ head' = NoHead \/ IsHead(head')
           /\ IsTable(logs')
           /\ IF head' = NoHead THEN DOMAIN logs' # {} ELSE ~Valid(logs', head')
<1> DEFINE n == head.position
<1>1. /\ n \in Nat /\ DOMAIN logs = 1..n /\ \A p \in DOMAIN logs : Linked(logs, p)
      /\ head.hash = IF n = 0 THEN GenesisHash ELSE logs[n].hash
  BY DEF Valid, IsHead
<1> HIDE DEF n
<1>2. CASE \E p \in DOMAIN logs : AlterRow(p)
  <2>1. PICK p \in DOMAIN logs : AlterRow(p)
    BY <1>2
  <2>2. PICK entry \in Entries, old \in BOOLEAN, forged \in BOOLEAN :
            LET previous == IF old THEN logs[p].previous ELSE Malformed
                hash == IF forged THEN calculateHash(p, previous, entry) ELSE logs[p].hash
                row == [previous |-> previous, entry |-> entry, hash |-> hash]
            IN  row # logs[p] /\ logs' = [logs EXCEPT ![p] = row]
    BY <2>1 DEF AlterRow
  <2>3. PICK row : /\ row = [previous |-> row.previous, entry |-> row.entry, hash |-> row.hash]
                   /\ row # logs[p] /\ logs' = [logs EXCEPT ![p] = row] /\ UNCHANGED head
    BY <2>1, <2>2 DEF AlterRow
  <2>4. /\ DOMAIN logs' = DOMAIN logs /\ logs'[p] = row /\ \A q \in DOMAIN logs : q # p => logs'[q] = logs[q]
    BY <2>3
  <2>5. IsTable(logs')
    BY <2>3, <2>4 DEF IsTable
  <2>6. ASSUME Valid(logs', head') PROVE FALSE
    <3>1. row.hash = logs[p].hash
      <4>1. CASE p = n
        <5>1. n # 0 /\ head.hash = logs'[n].hash
          BY <1>1, <2>3, <2>6, <4>1 DEF Valid, n
        <5> QED
          BY <1>1, <2>4, <4>1, <5>1
      <4>2. CASE p # n
        <5>1. p + 1 \in DOMAIN logs /\ p + 1 # p /\ p + 1 # 1 /\ p + 1 - 1 = p
          BY <1>1, <4>2
        <5>2. logs'[p + 1].previous = logs'[p].hash
          BY <2>4, <2>6, <5>1 DEF Valid, Linked
        <5>3. logs[p + 1].previous = logs[p].hash
          BY <1>1, <5>1 DEF Linked
        <5> QED
          BY <2>4, <5>1, <5>2, <5>3
      <4> QED
        BY <4>1, <4>2
    <3>2. row.hash = calculateHash(p, row.previous, row.entry)
      BY <2>4, <2>6 DEF Valid, Linked
    <3>3. logs[p].hash = calculateHash(p, logs[p].previous, logs[p].entry)
      BY <1>1 DEF Linked
    <3>4. row.previous = logs[p].previous /\ row.entry = logs[p].entry
      <4>1. calculateHash(p, row.previous, row.entry) = calculateHash(p, logs[p].previous, logs[p].entry)
        BY <3>1, <3>2, <3>3
      <4> QED
        BY <4>1 DEF calculateHash
    <3> QED
      BY <2>3, <3>1, <3>4 DEF IsTable
  <2> QED
    BY <2>3, <2>5, <2>6
<1>3. CASE \E P \in SUBSET DOMAIN logs : DeleteRows(P)
  <2>1. PICK P \in SUBSET DOMAIN logs : DeleteRows(P)
    BY <1>3
  <2>2. /\ P # {} /\ head' = head /\ DOMAIN logs' = DOMAIN logs \ P
        /\ \A p \in DOMAIN logs' : logs'[p] = logs[p]
    BY <2>1 DEF DeleteRows
  <2>3. DOMAIN logs' # DOMAIN logs
    BY <2>2
  <2> QED
    BY <1>1, <2>2, <2>3 DEF Valid, IsTable, n
<1>4. CASE \E p \in 1..(MaxLength + 1) : AddRow(p)
  <2>1. PICK p \in 1..(MaxLength + 1) : AddRow(p)
    BY <1>4
  <2>2. PICK previous, entry : p \notin DOMAIN logs /\ head' = head /\ logs' = With(logs, p, LogRow(p, previous, entry))
    BY <2>1 DEF AddRow
  <2>3. DOMAIN logs' = DOMAIN logs \cup {p} /\ p \in Nat \ {0}
    BY <2>2, SMTT(30) DEF With
  <2>4. IsTable(logs')
    BY <2>2, <2>3, SMTT(30) DEF IsTable, With, LogRow
  <2> QED
    BY <1>1, <2>2, <2>3, <2>4 DEF Valid, n
<1>5. CASE AlterHead
  <2>1. PICK position, hash : /\ position \in 0..MaxLength /\ head' = [position |-> position, hash |-> hash]
                              /\ head' # head /\ logs' = logs
    BY <1>5 DEF AlterHead
  <2>2. IsHead(head') /\ head' # NoHead
    BY <2>1 DEF IsHead, NoHead
  <2>3. ASSUME Valid(logs', head') PROVE FALSE
    <3>1. 1..position = 1..n /\ hash = IF position = 0 THEN GenesisHash ELSE logs[position].hash
      BY <1>1, <2>1, <2>3 DEF Valid
    <3>2. position = n
      <4>1. position \in Nat
        BY <2>1
      <4> QED
        BY <1>1, <3>1, <4>1
    <3> QED
      BY <1>1, <2>1, <3>1, <3>2 DEF IsHead, n
  <2> QED
    BY <2>1, <2>2, <2>3 DEF IsTable
<1>6. CASE DeleteHead
  BY <1>6 DEF DeleteHead, IsTable
<1> QED
  BY <1>2, <1>3, <1>4, <1>5, <1>6

LEMMA CorruptInv ==
    ASSUME Inv, Corrupt
    PROVE  Inv'
<1>1. /\ ~altered /\ migration.pc = "idle" /\ head # NoHead /\ altered' = TRUE
      /\ UNCHANGED <<legacy, writer, migration, verifier, integrity>>
  BY DEF Corrupt
<1>2. Valid(logs, head) /\ IsHead(head) /\ IsTable(logs) /\ MaxLength \in Nat
  BY <1>1, AuditAssumption DEF Inv, TypeOK
<1>3. /\ head' = NoHead \/ IsHead(head')
      /\ IsTable(logs')
      /\ IF head' = NoHead THEN DOMAIN logs' # {} ELSE ~Valid(logs', head')
  BY <1>1, <1>2, CorruptInvalid DEF Corrupt
<1>4. TypeOK'
  BY <1>1, <1>3 DEF Inv, TypeOK, IsTable, IsHead
<1>5. ~IF head' = NoHead THEN DOMAIN logs' = {} ELSE Valid(logs, head)'
  BY <1>3 DEF Valid, Linked
<1>6. ASSUME NEW w \in Writers PROVE WriterInv(w)'
  <2>1. CASE writer[w].pc = "idle"
    BY <1>1, <2>1, SMTT(30) DEF WriterInv
  <2>2. CASE writer[w].pc # "idle"
    <3>1. head' = head /\ DOMAIN writer[w].rows \cap DOMAIN logs' = {}
      <4>1. DOMAIN writer[w].rows \cap DOMAIN logs = {}
        BY <2>2 DEF Inv, WriterInv
      <4> QED
        BY <2>2, <4>1 DEF Corrupt, AlterRow, DeleteRows, AddRow, AlterHead, DeleteHead, HoldsHead, With
    <3> QED
      BY <1>1, <2>2, <3>1 DEF Inv, WriterInv, Continues, HashAt, IsHead, IsTable
  <2> QED
    BY <2>1, <2>2
<1>7. MigrationInv'
  BY <1>1 DEF MigrationInv
<1>8. \A v \in Verifiers : VerifierInv(v)'
  BY <1>1 DEF Inv, VerifierInv, Valid, Linked
<1>9. BackfillWhole'
  BY <1>1 DEF Inv, BackfillWhole
<1> QED
  BY <1>1, <1>4, <1>5, <1>6, <1>7, <1>8, <1>9 DEF Inv

-----------------------------------------------------------------------------
(* The theorems.                                                           *)

LEMMA InitInv ==
    ASSUME Init
    PROVE  Inv
<1>1. DOMAIN NoRows = {} /\ \A w \in Writers : writer[w].pc = "idle"
  BY DEF Init, NoRows, IdleWriter
<1>2. /\ migration.pc = "idle"
      /\ \A v \in Verifiers : verifier[v].pc = "idle" /\ verifier[v].altered = FALSE /\ verifier[v].result = "none"
  BY DEF Init, IdleMigration, IdleVerifier
<1>3. TypeOK
  BY <1>1, <1>2 DEF Init, TypeOK, IsTable
<1> QED
  BY <1>1, <1>2, <1>3 DEF Init, Inv, WriterInv, MigrationInv, VerifierInv, BackfillWhole

LEMMA NextInv ==
    ASSUME Inv, [Next]_vars
    PROVE  Inv'
<1>1. ASSUME NEW w \in Writers, WriterStep(w) PROVE Inv'
  BY <1>1, LockInv, InsertInv, AdvanceInv, CommitInv, RollbackInv DEF WriterStep
<1>2. ASSUME NEW v \in Verifiers, VerifierStep(v) PROVE Inv'
  BY <1>2, VerifierInvStep
<1>3. CASE UNCHANGED vars
  <2>1. UNCHANGED <<legacy, logs, head, writer, migration, verifier, integrity, altered>>
    BY <1>3 DEF vars
  <2>2. TypeOK'
    BY <2>1 DEF Inv, TypeOK, IsTable, IsHead
  <2>3. ASSUME NEW w \in Writers PROVE WriterInv(w)'
    <3>1. WriterInv(w)
      BY DEF Inv
    <3> QED
      BY <2>1, <3>1 DEF WriterInv, Continues, HashAt, IsHead, IsTable
  <2>4. MigrationInv'
    BY <2>1 DEF Inv, MigrationInv, Continues, HashAt, IsHead, IsTable
  <2>5. \A v \in Verifiers : VerifierInv(v)'
    BY <2>1 DEF Inv, VerifierInv, Valid, Linked
  <2>6. BackfillWhole' /\ (Valid(logs, head)' <=> Valid(logs, head))
    <3>1. BackfillWhole'
      BY <2>1 DEF Inv, BackfillWhole
    <3> QED
      BY <2>1, <3>1 DEF Valid, Linked
  <2> QED
    BY <2>1, <2>2, <2>3, <2>4, <2>5, <2>6 DEF Inv
<1> QED
  BY <1>1, <1>2, <1>3, MigrationStepInv, CorruptInv DEF Next

\* The invariant of the ledger: the committed chain is valid unless the stored
\* data was altered, and then it is not; the transaction that locked the head,
\* and the backfill, hold rows that continue the committed chain.
THEOREM AuditInvariant == Spec => []Inv
<1>1. Init => Inv
  BY InitInv
<1>2. Inv /\ [Next]_vars => Inv'
  BY NextInv
<1> QED
  BY <1>1, <1>2, PTL DEF Spec

\* Verify's verdicts are right about their snapshots: no false alarm and no
\* "valid" for altered data.
THEOREM VerdictSafety == Spec => []VerdictsRight
<1>1. Inv => VerdictsRight
  BY DEF Inv, VerifierInv, VerdictsRight
<1> QED
  BY <1>1, AuditInvariant, PTL

\* MigrateLedger's backfill is all or nothing.
THEOREM BackfillSafety == Spec => []BackfillWhole
<1>1. Inv => BackfillWhole
  BY DEF Inv
<1> QED
  BY <1>1, AuditInvariant, PTL

\* WriteTx and MigrateLedger only ever append: no committed row changes or
\* goes, and the head does not move back.
THEOREM RewriteSafety == Spec => NeverRewritten
<1> DEFINE Step == ~altered' => (\A p \in DOMAIN logs : Kept(p)) /\ head'.position >= head.position
<1>1. ASSUME Inv, Next PROVE Step
  <2>1. head.position \in Int /\ (head # NoHead => head.position \in Nat)
    BY <1>1 DEF Inv, TypeOK, IsHead, NoHead
  <2>2. ASSUME NEW w \in Writers, WriterStep(w) PROVE Step
    <3>1. CASE Commit(w)
      <4>1. writer[w].pc = "written" /\ head' = writer[w].head
        BY <3>1 DEF Commit
      <4>2. writer[w].head.position >= head.position /\ DOMAIN writer[w].rows \cap DOMAIN logs = {}
        BY <1>1, <4>1 DEF Inv, WriterInv
      <4>3. \A p \in DOMAIN logs : Kept(p)
        BY <3>1, <4>2 DEF Commit, Kept
      <4> QED
        BY <4>1, <4>2, <4>3
    <3>2. CASE ~Commit(w)
      <4>1. UNCHANGED <<logs, head>>
        BY <2>2, <3>2 DEF WriterStep, LockHead, Insert, AdvanceHead, Rollback
      <4> QED
        BY <2>1, <4>1, SMTT(30) DEF Kept
    <3> QED
      BY <3>1, <3>2
  <2>3. ASSUME NEW v \in Verifiers, VerifierStep(v) PROVE Step
    <3>1. UNCHANGED <<logs, head>>
      BY <2>3 DEF VerifierStep, ReadHead, Walk, VerifyError, Report
    <3> QED
      BY <2>1, <3>1 DEF Kept
  <2>4. CASE MigrationStep
    <3>1. CASE CommitBackfill
      <4>1. migration.pc = "backfill" /\ head' = migration.head
        BY <3>1 DEF CommitBackfill
      <4>2. DOMAIN logs = {} /\ head.position = -1 /\ migration.head.position \in Nat
        BY <1>1, <4>1 DEF Inv, MigrationInv, IsHead, NoHead
      <4> QED
        BY <4>1, <4>2
    <3>2. CASE ~CommitBackfill
      <4>1. UNCHANGED logs /\ (head' = head \/ (head = NoHead /\ head'.position = 0))
        BY <2>4, <3>2 DEF MigrationStep, MigrateEmpty, BeginBackfill, BackfillRow, AbortBackfill
      <4> QED
        BY <2>1, <4>1 DEF Kept, NoHead
    <3> QED
      BY <3>1, <3>2
  <2>5. CASE Corrupt
    BY <2>5 DEF Corrupt
  <2> QED
    BY <1>1, <2>2, <2>3, <2>4, <2>5 DEF Next
<1>2. Inv /\ [Next]_vars => [Step]_vars
  BY <1>1
<1> QED
  BY <1>2, AuditInvariant, PTL DEF Spec, NeverRewritten

=============================================================================

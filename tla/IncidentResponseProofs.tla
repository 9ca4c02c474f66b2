----------------------- MODULE IncidentResponseProofs -----------------------
(* Proofs about IncidentResponse, for any actions, policy inputs and calls, *)
(* and about Scoring, for any alerts and any answers of the backends.       *)
EXTENDS IncidentResponse, Scoring, FiniteSetTheorems, WellFoundedInduction, TLAPS

\* What the policy lets through: fewer than two recent remediations, and
\* without approval only what both catalog and proposal call low.
LEMMA EvaluateSound ==
    ASSUME NEW input, input.catalog \in {"none", "low", "medium"}, input.requested \in Risks \cup {"none"},
           input.recent \in Nat
    PROVE  /\ Evaluate(input).allow => input.recent < 2
           /\ Evaluate(input).allow /\ ~Evaluate(input).approval => input.catalog = "low" /\ input.requested \in {"none", "low"}
<1> DEFINE risk == EffectiveRisk(input.catalog, input.requested)
<1>1. riskRank("low") = 1 /\ riskRank("medium") = 2 /\ riskRank("high") = 3
  BY DEF riskRank
<1>2. input.catalog = "medium" => risk # "low"
  <2>1. CASE input.requested = "none"
    BY <2>1 DEF EffectiveRisk
  <2>2. CASE input.requested \in Risks \ {"low"}
    BY <2>2 DEF EffectiveRisk, Risks
  <2>3. CASE input.requested = "low"
    BY <1>1, <2>3 DEF EffectiveRisk, Risks
  <2> QED
    BY <2>1, <2>2, <2>3
<1>3. ASSUME input.catalog = "low", input.requested \in {"medium", "high"} PROVE risk = input.requested
  <2> DEFINE x == riskRank(input.catalog)
             y == riskRank(input.requested)
  <2>1. x = 1 /\ y \in {2, 3}
    BY <1>1, <1>3
  <2> HIDE DEF x, y
  <2>2. ~(x > y)
    BY <2>1
  <2> QED
    BY <1>3, <2>2 DEF EffectiveRisk, x, y
<1>4. risk = "low" /\ input.catalog # "none" => input.catalog = "low" /\ input.requested \in {"none", "low"}
  BY <1>2, <1>3 DEF Risks
<1> HIDE DEF risk
<1>5. Evaluate(input).allow => ~(input.recent >= 2) /\ input.catalog # "none"
  BY Zenon DEF Evaluate, IsRegistered
<1>6. Evaluate(input).allow /\ ~Evaluate(input).approval => risk = "low"
  BY DEF Evaluate, risk
<1>7. ~(input.recent >= 2) => input.recent < 2
  OBVIOUS
<1> QED
  BY <1>4, <1>5, <1>6, <1>7, Zenon

-----------------------------------------------------------------------------
(* Frames.                                                                 *)

\* The calls' invariant holds on when a report appears and rows are added or
\* move on.
LEMMA CallKept ==
    ASSUME NEW n \in CallStates, CallInv(n), reported => reported',
           TypeOK, rows' \in [Actions -> Seq(Row)],
           \A a \in Actions : Len(rows[a]) <= Len(rows'[a]),
           LetThrough => LetThrough'
    PROVE  CallInv(n)'
<1>1. \A a \in Actions : /\ rows[a] \in Seq(Row) /\ rows'[a] \in Seq(Row)
                         /\ DOMAIN rows[a] \subseteq DOMAIN rows'[a]
                         /\ rows[a] # <<>> => rows'[a] # <<>>
  BY DEF TypeOK
<1>2. n.pc \in {"check", "reserve"} => n.action \in Actions
  BY DEF CallStates, Proposing
<1>3. (\E a \in Actions : rows[a] # <<>>) => \E a \in Actions : rows'[a] # <<>>
  BY <1>1
<1>4. n.pc \in {"check", "reserve"} => n.row \in DOMAIN rows'[n.action]
  BY <1>1, <1>2 DEF CallInv
<1> QED
  BY <1>3, <1>4 DEF CallInv

\* A step that only moves a call on.
LEMMA CallStepInv ==
    ASSUME Inv, NEW c \in Calls, NEW n \in CallStates, Goto(c, n), CallInv(n),
           UNCHANGED <<incident, reported, rows, aged>>
    PROVE  Inv'
<1>1. call' = [call EXCEPT ![c] = n] /\ call \in [Calls -> CallStates]
  BY DEF Goto, Inv, TypeOK
<1>2. TypeOK'
  BY <1>1 DEF Inv, TypeOK
<1>3. ASSUME NEW d \in Calls PROVE CallInv(call[d])'
  <2>1. CallInv(call'[d])
    BY <1>1 DEF Inv
  <2> QED
    BY <2>1 DEF CallInv, LetThrough
<1>4. StatusIsBacked' /\ \A a \in Actions : RowsInv(a)'
  BY DEF Inv, StatusIsBacked, RowsInv
<1> QED
  BY <1>2, <1>3, <1>4 DEF Inv

\* A step that moves the incident, and perhaps a call.
LEMMA AdvanceInv ==
    ASSUME Inv, NEW s, incident' \in {incident, TransitionIncident(s)},
           s \in {"triaged", "resolved", "rca_generated", "remediation_proposed", "awaiting_approval"},
           s \in {"rca_generated", "remediation_proposed", "awaiting_approval"} => reported,
           s = "remediation_proposed" => \E a \in Actions : rows[a] # <<>>,
           s = "awaiting_approval" => LetThrough,
           call' \in [Calls -> CallStates], \A d \in Calls : CallInv(call'[d]),
           UNCHANGED <<reported, rows, aged>>
    PROVE  Inv'
<1>1. incident' \in {incident, s}
  BY DEF TransitionIncident
<1>2. TypeOK'
  BY <1>1 DEF Inv, TypeOK, Statuses
<1>3. StatusIsBacked'
  BY <1>1 DEF Inv, StatusIsBacked, LetThrough
<1>4. \A a \in Actions : RowsInv(a)'
  BY DEF Inv, RowsInv
<1>5. ASSUME NEW d \in Calls PROVE CallInv(call[d])'
  BY DEF CallInv, LetThrough
<1> QED
  BY <1>1, <1>2, <1>3, <1>4, <1>5 DEF Inv

\* A row moves on, and is still let through.
LEMMA RowUpdate ==
    ASSUME Inv, NEW a \in Actions, NEW i \in DOMAIN rows[a], NEW row \in Row,
           row.attempt = rows[a][i].attempt, rows[a][i].status # "policy_blocked",
           row.status \notin {"proposed", "policy_blocked"}, Unattended(row) => LowRisk(a),
           rows' = [rows EXCEPT ![a] = [rows[a] EXCEPT ![i] = row]],
           UNCHANGED <<incident, reported, aged>>,
           call' \in [Calls -> CallStates], \A d \in Calls : CallInv(call'[d])
    PROVE  Inv'
<1> DEFINE new == [rows[a] EXCEPT ![i] = row]
<1>1. rows \in [Actions -> Seq(Row)] /\ rows[a] \in Seq(Row)
  BY DEF Inv, TypeOK
<1>2. /\ new \in Seq(Row) /\ Len(new) = Len(rows[a]) /\ DOMAIN new = DOMAIN rows[a]
      /\ new[i] = row /\ \A j \in DOMAIN rows[a] : j # i => new[j] = rows[a][j]
  BY <1>1
<1>3. rows' = [rows EXCEPT ![a] = new]
  OBVIOUS
<1> HIDE DEF new
<1>4. rows' \in [Actions -> Seq(Row)] /\ rows'[a] = new /\ \A b \in Actions \ {a} : rows'[b] = rows[b]
  BY <1>1, <1>2, <1>3
<1>5. TypeOK'
  BY <1>4 DEF Inv, TypeOK
<1>6. LetThrough'
  BY <1>2, <1>4 DEF LetThrough
<1>7. ASSUME NEW b \in Actions PROVE Len(rows[b]) <= Len(rows'[b])
  <2>1. Len(rows[b]) \in Nat
    BY <1>1
  <2>2. Len(rows'[b]) = Len(rows[b])
    BY <1>2, <1>4
  <2> QED
    BY <2>1, <2>2
<1>8. ASSUME NEW d \in Calls PROVE CallInv(call[d])'
  BY <1>4, <1>6, <1>7, CallKept DEF Inv
<1>9. RowsInv(a)'
  BY <1>1, <1>2, <1>4, SMTT(30) DEF Inv, RowsInv
<1>10. \A b \in Actions : RowsInv(b)'
  BY <1>4, <1>9 DEF Inv, RowsInv
<1>11. rows'[a] # <<>>
  BY <1>1, <1>2, <1>4
<1>12. StatusIsBacked'
  BY <1>6, <1>11 DEF Inv, StatusIsBacked, LetThrough
<1> QED
  BY <1>5, <1>8, <1>10, <1>12 DEF Inv

\* A new row with the key of no other.
LEMMA RowInsert ==
    ASSUME Inv, NEW a \in Actions, NEW row \in Row,
           \A i \in DOMAIN rows[a] : rows[a][i].attempt # row.attempt,
           row.status # "proposed", row.status # "policy_blocked" => row.attempt <= 2,
           Unattended(row) => LowRisk(a),
           rows' = [rows EXCEPT ![a] = Append(rows[a], row)],
           UNCHANGED <<incident, reported, aged>>
    PROVE  /\ TypeOK /\ rows' \in [Actions -> Seq(Row)]
           /\ \A b \in Actions : Len(rows[b]) <= Len(rows'[b])
           /\ LetThrough => LetThrough'
           /\ row.status # "policy_blocked" => LetThrough'
           /\ \E b \in Actions : rows'[b] # <<>>
           /\ \A b \in Actions : RowsInv(b)'
           /\ StatusIsBacked'
<1> DEFINE new == Append(rows[a], row)
           n == Len(rows[a]) + 1
<1>1. rows \in [Actions -> Seq(Row)] /\ rows[a] \in Seq(Row) /\ aged[a] \in Nat
  BY DEF Inv, TypeOK
<1>2. /\ new \in Seq(Row) /\ Len(new) = n /\ DOMAIN new = 1..n /\ DOMAIN rows[a] = 1..(n - 1)
      /\ n \in Nat \ {0} /\ new[n] = row /\ \A j \in DOMAIN rows[a] : new[j] = rows[a][j]
  BY <1>1
<1>3. rows' = [rows EXCEPT ![a] = new]
  OBVIOUS
<1> HIDE DEF new, n
<1>4. rows' \in [Actions -> Seq(Row)] /\ rows'[a] = new /\ \A b \in Actions \ {a} : rows'[b] = rows[b]
  BY <1>1, <1>2, <1>3
<1>5. \A b \in Actions : Len(rows[b]) <= Len(rows'[b])
  BY <1>1, <1>2, <1>4 DEF n
<1>6. n \in DOMAIN new /\ \A j \in DOMAIN new : j # n => j \in DOMAIN rows[a] /\ new[j] = rows[a][j]
  BY <1>2
<1>7. LetThrough => LetThrough'
  BY <1>2, <1>4, <1>6 DEF LetThrough
<1>8. row.status # "policy_blocked" => LetThrough'
  BY <1>2, <1>4, <1>6 DEF LetThrough
<1>9. rows'[a] # <<>>
  BY <1>2, <1>4
<1>10. RowsInv(a)'
  <2>1. aged'[a] <= Len(rows'[a])
    BY <1>1, <1>4, <1>5 DEF Inv, RowsInv
  <2>2. RowsInv(a)
    BY DEF Inv
  <2>3. ASSUME NEW i \in DOMAIN new
        PROVE  /\ new[i].status # "proposed"
               /\ new[i].status # "policy_blocked" => new[i].attempt <= 2
               /\ Unattended(new[i]) => LowRisk(a)
    BY <1>2, <1>6, <2>2 DEF RowsInv
  <2>4. ASSUME NEW i \in DOMAIN new, NEW j \in DOMAIN new, new[i].attempt = new[j].attempt PROVE i = j
    BY <1>2, <1>6, <2>2, <2>4 DEF RowsInv
  <2> QED
    BY <1>4, <2>1, <2>3, <2>4 DEF RowsInv
<1>11. \A b \in Actions : RowsInv(b)'
  BY <1>4, <1>10 DEF Inv, RowsInv
<1>12. StatusIsBacked'
  BY <1>7, <1>9 DEF Inv, StatusIsBacked, LetThrough
<1> QED
  BY <1>4, <1>5, <1>7, <1>8, <1>9, <1>11, <1>12 DEF Inv

-----------------------------------------------------------------------------
(* The actions of a call.                                                  *)

\* A call in the middle of Propose or Execute.
LEMMA CallType ==
    ASSUME Inv, NEW c \in Calls
    PROVE  /\ call \in [Calls -> CallStates] /\ call[c] \in CallStates /\ CallInv(call[c])
           /\ call[c].pc \in {"save", "advance"} => call[c] \in [pc: {"save", "advance"}, propose: BOOLEAN]
           /\ call[c].pc \in {"find", "recent", "failed", "insert"} => call[c] \in Proposing
           /\ call[c].pc \in {"check", "reserve"} =>
                 call[c] \in [pc: {"check", "reserve"}, action: Actions, row: Nat]
<1>1. call \in [Calls -> CallStates] /\ call[c] \in CallStates /\ CallInv(call[c])
  BY DEF Inv, TypeOK
<1> QED
  BY <1>1 DEF CallStates, Proposing

\* An idle call satisfies the invariant, before and after any step.
LEMMA IdleType == Idle \in CallStates /\ CallInv(Idle) /\ CallInv(Idle)'
BY DEF Idle, CallStates, CallInv

\* A proposal begins.
LEMMA StartType ==
    ASSUME NEW candidates \in SUBSET Actions, reported, NEW n,
           n = [pc |-> "find", todo |-> candidates, action |-> CHOOSE a \in Actions : TRUE, attempt |-> 0,
                status |-> "proposed", found |-> FALSE, awaiting |-> FALSE]
    PROVE  n \in CallStates /\ CallInv(n)
<1>1. (CHOOSE a \in Actions : TRUE) \in Actions
  BY ResponseAssumption
<1>2. n \in Proposing
  BY <1>1 DEF Proposing, States
<1> QED
  BY <1>2 DEF CallStates, CallInv

\* Generate, ReuseReport, Execute, CheckIncident and Abort change only the call.
LEMMA OuterInv ==
    ASSUME Inv, NEW c \in Calls,
           \/ \E propose \in BOOLEAN : Generate(c, propose)
           \/ ReuseReport(c)
           \/ \E a \in Actions : \E i \in DOMAIN rows[a] : Execute(c, a, i)
           \/ CheckIncident(c) \/ Abort(c)
    PROVE  Inv'
<1>1. ASSUME NEW propose \in BOOLEAN, Generate(c, propose) PROVE Inv'
  <2> DEFINE n == [pc |-> "save", propose |-> propose]
  <2>1. n \in CallStates /\ CallInv(n)
    BY DEF CallStates, CallInv
  <2> QED
    BY <1>1, <2>1, CallStepInv DEF Generate
<1>2. CASE ReuseReport(c)
  <2>1. PICK candidates \in (SUBSET Actions) \ {{}} : StartProposal(c, candidates)
    BY <1>2 DEF ReuseReport
  <2> QED
    BY <1>2, <2>1, StartType, CallStepInv DEF ReuseReport, StartProposal
<1>3. ASSUME NEW a \in Actions, NEW i \in DOMAIN rows[a], Execute(c, a, i) PROVE Inv'
  <2> DEFINE n == [pc |-> "check", action |-> a, row |-> i]
  <2>1. rows[a] \in Seq(Row)
    BY DEF Inv, TypeOK
  <2>2. i \in Nat
    BY <2>1
  <2>3. n \in CallStates /\ CallInv(n)
    BY <2>2 DEF CallStates, CallInv
  <2> QED
    BY <1>3, <2>3, CallStepInv DEF Execute
<1>4. CASE CheckIncident(c)
  <2> DEFINE n == [call[c] EXCEPT !.pc = "reserve"]
  <2>1. call[c] \in [pc: {"check", "reserve"}, action: Actions, row: Nat] /\ CallInv(call[c])
        /\ call[c].pc = "check"
    BY <1>4, CallType DEF CheckIncident, At
  <2>2. n \in CallStates /\ n.pc = "reserve" /\ n.action = call[c].action /\ n.row = call[c].row
    BY <2>1 DEF CallStates
  <2>3. CallInv(n)
    BY <2>1, <2>2 DEF CallInv
  <2> HIDE DEF n
  <2>4. Goto(c, n) \/ Goto(c, Idle)
    BY <1>4 DEF CheckIncident, n
  <2> QED
    BY <1>4, <2>2, <2>3, <2>4, IdleType, CallStepInv DEF CheckIncident
<1>5. CASE Abort(c)
  BY <1>5, IdleType, CallStepInv DEF Abort
<1> QED
  BY <1>1, <1>2, <1>3, <1>4, <1>5

\* The reads of Propose.
LEMMA ReadInv ==
    ASSUME Inv, NEW c \in Calls,
           (\E a \in Actions : FindActive(c, a)) \/ CountRecent(c) \/ CountFailed(c)
    PROVE  Inv'
<1> DEFINE m == call[c]
<1>1. ASSUME NEW a \in Actions, FindActive(c, a) PROVE Inv'
  <2>1. m \in Proposing /\ CallInv(m) /\ m.pc = "find" /\ rows[a] \in Seq(Row)
    BY <1>1, CallType DEF FindActive, At, Inv, TypeOK
  <2>2. CASE Active(a) = {}
    <3> DEFINE n == [m EXCEPT !.pc = "recent", !.todo = @ \ {a}, !.action = a]
    <3>1. n \in Proposing /\ n.pc = "recent" /\ n.found = m.found /\ n.awaiting = m.awaiting
      BY <2>1 DEF Proposing
    <3>2. n \in CallStates /\ CallInv(n)
      BY <2>1, <3>1 DEF CallStates, CallInv
    <3> QED
      BY <1>1, <2>2, <3>2, CallStepInv DEF FindActive
  <2>3. CASE Active(a) # {}
    <3> DEFINE newest == CHOOSE i \in Active(a) : \A j \in Active(a) : j <= i
               waits == rows[a][newest].status = "awaiting_approval"
               n == [m EXCEPT !.todo = @ \ {a}, !.found = TRUE, !.awaiting = @ \/ waits]
    <3>1. n \in Proposing /\ n.pc = "find" /\ n.found = TRUE /\ n.awaiting = (m.awaiting \/ waits)
      BY <2>1 DEF Proposing
    <3>2. \E b \in Actions : rows[b] # <<>>
      BY <2>1, <2>3 DEF Active
    <3>3. LetThrough
      BY <2>3 DEF Active, LetThrough, IsTerminalState
    <3>4. n \in CallStates /\ CallInv(n)
      BY <2>1, <3>1, <3>2, <3>3 DEF CallStates, CallInv
    <3> QED
      BY <1>1, <2>3, <3>4, CallStepInv DEF FindActive
  <2> QED
    BY <2>2, <2>3, SMTT(30)
<1>2. CASE CountRecent(c)
  <2> DEFINE k == Len(rows[m.action]) - aged[m.action] + 1
             n == [m EXCEPT !.pc = "failed", !.attempt = k]
  <2>1. m \in Proposing /\ CallInv(m) /\ m.pc = "recent"
    BY <1>2, CallType DEF CountRecent, At
  <2>2. m.action \in Actions
    BY <2>1 DEF Proposing
  <2>3. k \in Nat /\ k > 0
    <3>1. rows[m.action] \in Seq(Row) /\ aged[m.action] \in Nat /\ aged[m.action] <= Len(rows[m.action])
      BY <2>2 DEF Inv, TypeOK, RowsInv
    <3>2. Len(rows[m.action]) \in Nat
      BY <3>1
    <3>3. \A x, y \in Nat : y <= x => x - y + 1 \in Nat /\ x - y + 1 > 0
      OBVIOUS
    <3> QED
      BY <3>1, <3>2, <3>3, Zenon
  <2> HIDE DEF k
  <2>4. n \in Proposing /\ n.pc = "failed" /\ n.found = m.found /\ n.awaiting = m.awaiting /\ n.attempt = k
    BY <2>1, <2>3 DEF Proposing
  <2>5. n \in CallStates
    BY <2>4 DEF CallStates
  <2>6. CallInv(n)
    BY <2>1, <2>3, <2>4 DEF CallInv
  <2> QED
    BY <1>2, <2>5, <2>6, CallStepInv DEF CountRecent, k
<1>3. CASE CountFailed(c)
  <2> DEFINE a == m.action
             input == [role |-> Input[a].role, enabled |-> Input[a].enabled, catalog |-> Input[a].catalog,
                       requested |-> Input[a].requested, valid |-> Input[a].valid,
                       recent |-> m.attempt - 1, failed |-> Cardinality(Failed(a))]
             decision == Evaluate(input)
             s == CASE ~decision.allow -> "policy_blocked"
                    [] decision.allow /\ decision.approval -> "awaiting_approval"
                    [] decision.allow /\ ~decision.approval -> "approved"
             n == [m EXCEPT !.pc = "insert", !.status = s]
  <2>1. m \in Proposing /\ CallInv(m) /\ m.pc = "failed"
    BY <1>3, CallType DEF CountFailed, At
  <2>2. a \in Actions /\ m.attempt \in Nat /\ m.attempt > 0
    BY <2>1 DEF Proposing, CallInv
  <2>3. /\ input.catalog \in {"none", "low", "medium"} /\ input.requested \in Risks \cup {"none"}
        /\ input.recent \in Nat /\ input.recent = m.attempt - 1
        /\ input.catalog = Input[a].catalog /\ input.requested = Input[a].requested
    BY <2>2, ResponseAssumption
  <2> HIDE DEF input
  <2>4. /\ decision.allow => input.recent < 2
        /\ decision.allow /\ ~decision.approval => LowRisk(a)
    BY <2>3, EvaluateSound DEF LowRisk
  <2> HIDE DEF decision
  <2>5. /\ s \in {"policy_blocked", "awaiting_approval", "approved"}
        /\ s # "policy_blocked" => decision.allow
        /\ s = "approved" => decision.allow /\ ~decision.approval
    OBVIOUS
  <2> HIDE DEF s
  <2>6. /\ n \in Proposing /\ n.pc = "insert" /\ n.found = m.found /\ n.awaiting = m.awaiting
        /\ n.attempt = m.attempt /\ n.status = s /\ n.action = a
    BY <2>1, <2>5 DEF Proposing, States
  <2>7. n \in CallStates
    BY <2>6 DEF CallStates
  <2>8. s # "policy_blocked" => m.attempt <= 2
    <3>1. s # "policy_blocked" => input.recent < 2
      BY <2>4, <2>5
    <3> QED
      BY <2>2, <2>3, <3>1
  <2>9. s = "approved" => LowRisk(a)
    BY <2>4, <2>5
  <2>10. CallInv(n)
    BY <2>1, <2>5, <2>6, <2>8, <2>9 DEF CallInv
  <2>11. Goto(c, n) /\ UNCHANGED <<incident, reported, rows, aged>>
    BY <1>3 DEF CountFailed, s, decision, input
  <2> QED
    BY <2>7, <2>10, <2>11, CallStepInv
<1> QED
  BY <1>1, <1>2, <1>3

-----------------------------------------------------------------------------
(* The writes.                                                             *)

\* SaveRCAReport keeps the invariant.
LEMMA SaveInv ==
    ASSUME Inv, NEW c \in Calls, SaveRCAReport(c)
    PROVE  Inv'
<1> DEFINE n == [call[c] EXCEPT !.pc = "advance"]
<1>1. call[c] \in [pc: {"save", "advance"}, propose: BOOLEAN]
  BY CallType DEF SaveRCAReport, At
<1>2. n \in CallStates /\ n.pc = "advance"
  BY <1>1 DEF CallStates
<1>3. call' = [call EXCEPT ![c] = n] /\ reported' = TRUE /\ UNCHANGED <<incident, rows, aged>>
  BY DEF SaveRCAReport, Goto
<1> HIDE DEF n
<1>4. TypeOK'
  BY <1>2, <1>3 DEF Inv, TypeOK
<1>5. CallInv(call[c])'
  <2>1. call'[c].pc = "advance"
    BY <1>2, <1>3, CallType
  <2> QED
    BY <1>3, <2>1 DEF CallInv
<1>6. ASSUME NEW d \in Calls PROVE CallInv(call[d])'
  <2>1. CASE d # c
    <3>1. call'[d] = call[d] /\ CallInv(call[d])
      BY <1>3, <2>1, CallType
    <3> QED
      BY <1>3, <3>1 DEF CallInv, LetThrough
  <2> QED
    BY <1>5, <2>1
<1>7. StatusIsBacked' /\ \A a \in Actions : RowsInv(a)'
  BY <1>3 DEF Inv, StatusIsBacked, RowsInv
<1> QED
  BY <1>3, <1>4, <1>6, <1>7 DEF Inv

\* Transitions of the incident by a call keep it.
LEMMA MoveInv ==
    ASSUME Inv, NEW c \in Calls, GenerateAdvances(c) \/ ProposeAdvances(c)
    PROVE  Inv'
<1>1. CallInv(call[c]) /\ call \in [Calls -> CallStates]
  BY CallType
<1>2. CASE GenerateAdvances(c)
  <2>1. reported /\ incident' \in {incident, TransitionIncident("rca_generated")}
    BY <1>1, <1>2 DEF GenerateAdvances, Advance, At, CallInv
  <2>2. PICK n \in CallStates : CallInv(n) /\ Goto(c, n)
    BY <1>2, <2>1, StartType, IdleType DEF GenerateAdvances, StartProposal
  <2>3. call' \in [Calls -> CallStates] /\ \A d \in Calls : CallInv(call'[d])
    BY <1>1, <2>2 DEF Goto, Inv
  <2>4. UNCHANGED <<reported, rows, aged>>
    BY <1>2 DEF GenerateAdvances
  <2> DEFINE s == "rca_generated"
  <2> QED
    BY <2>1, <2>3, <2>4, AdvanceInv
<1>3. CASE ProposeAdvances(c)
  <2> DEFINE s == IF call[c].awaiting THEN "awaiting_approval" ELSE "remediation_proposed"
  <2>1. call' \in [Calls -> CallStates] /\ \A d \in Calls : CallInv(call'[d])
    BY <1>1, <1>3, IdleType DEF ProposeAdvances, Goto, Inv
  <2>2. /\ reported
        /\ call[c].found => \E a \in Actions : rows[a] # <<>>
        /\ call[c].awaiting => LetThrough
    BY <1>1, <1>3 DEF ProposeAdvances, At, CallInv
  <2>3. UNCHANGED <<reported, rows, aged>>
    BY <1>3 DEF ProposeAdvances
  <2>4. CASE call[c].found
    <3>1. incident' \in {incident, TransitionIncident(s)}
      BY <1>3, <2>4 DEF ProposeAdvances, Advance
    <3>2. /\ s \in {"awaiting_approval", "remediation_proposed"}
          /\ s = "awaiting_approval" => LetThrough
      BY <2>2
    <3> HIDE DEF s
    <3> QED
      BY <2>1, <2>2, <2>3, <2>4, <3>1, <3>2, AdvanceInv
  <2>5. CASE ~call[c].found
    <3>1. incident' \in {incident, TransitionIncident("triaged")}
      BY <1>3, <2>5 DEF ProposeAdvances
    <3> QED
      BY <2>1, <2>3, <3>1, AdvanceInv
  <2> QED
    BY <2>4, <2>5
<1> QED
  BY <1>2, <1>3

\* So does the insertion of a remediation, whatever the policy decided.
LEMMA CreateInv ==
    ASSUME Inv, NEW c \in Calls, CreateRemediation(c)
    PROVE  Inv'
<1> DEFINE m == call[c]
           a == m.action
           row == [attempt |-> m.attempt, status |-> m.status, human |-> FALSE]
           n == [m EXCEPT !.pc = "find", !.found = TRUE,
                          !.awaiting = @ \/ m.status = "awaiting_approval"]
<1>1. m \in Proposing /\ CallInv(m) /\ m.pc = "insert" /\ call \in [Calls -> CallStates]
  BY CallType DEF CreateRemediation, At
<1>2. CASE \E i \in DOMAIN rows[a] : rows[a][i].attempt = m.attempt
  BY <1>2, IdleType, CallStepInv DEF CreateRemediation
<1>3. CASE \A i \in DOMAIN rows[a] : rows[a][i].attempt # m.attempt
  <2>1. /\ m.status \in {"policy_blocked", "awaiting_approval", "approved"} /\ m.attempt > 0
        /\ m.status # "policy_blocked" => m.attempt <= 2
        /\ m.status = "approved" => LowRisk(a)
        /\ reported /\ (m.awaiting => LetThrough)
    BY <1>1 DEF CallInv
  <2>2. a \in Actions /\ m.attempt \in Nat /\ m.awaiting \in BOOLEAN
    BY <1>1 DEF Proposing
  <2>3. row \in Row /\ row.attempt = m.attempt /\ row.status = m.status
    BY <2>1, <2>2 DEF Row, States
  <2>4. Unattended(row) => LowRisk(a)
    BY <2>1 DEF Unattended
  <2>5. /\ rows' = [rows EXCEPT ![a] = Append(rows[a], row)]
        /\ call' = [call EXCEPT ![c] = n]
        /\ UNCHANGED <<incident, reported, aged>>
    BY <1>3 DEF CreateRemediation, Goto
  <2>6. /\ n \in Proposing /\ n.pc = "find" /\ n.found = TRUE
        /\ n.awaiting = (m.awaiting \/ m.status = "awaiting_approval")
    BY <1>1 DEF Proposing
  <2> HIDE DEF row, n, m, a
  <2>7. /\ TypeOK /\ rows' \in [Actions -> Seq(Row)]
        /\ \A b \in Actions : Len(rows[b]) <= Len(rows'[b])
        /\ LetThrough => LetThrough'
        /\ row.status # "policy_blocked" => LetThrough'
        /\ \E b \in Actions : rows'[b] # <<>>
        /\ \A b \in Actions : RowsInv(b)'
        /\ StatusIsBacked'
    BY <1>3, <2>1, <2>2, <2>3, <2>4, <2>5, RowInsert
  <2>8. n.awaiting => LetThrough'
    BY <2>1, <2>3, <2>6, <2>7
  <2>9. CallInv(call[c])'
    <3>1. call'[c] = n
      BY <1>1, <2>5
    <3> QED
      BY <2>1, <2>5, <2>6, <2>7, <2>8, <3>1 DEF CallInv
  <2>10. ASSUME NEW d \in Calls PROVE CallInv(call[d])'
    <3>1. CASE d = c
      BY <2>9, <3>1
    <3>2. CASE d # c
      <4>1. call'[d] = call[d] /\ call[d] \in CallStates /\ CallInv(call[d])
        BY <1>1, <2>5, <3>2 DEF Inv
      <4>2. \A x \in CallStates : CallInv(x) => CallInv(x)'
        BY <2>5, <2>7, CallKept
      <4> QED
        BY <4>1, <4>2
    <3> QED
      BY <3>1, <3>2
  <2>11. TypeOK'
    BY <1>1, <2>5, <2>6, <2>7 DEF TypeOK, CallStates
  <2> QED
    BY <2>5, <2>7, <2>10, <2>11 DEF Inv
<1> QED
  BY <1>2, <1>3

\* Reserve and Progress move a row on.
LEMMA MoveRowInv ==
    ASSUME Inv,
           \/ \E c \in Calls : Reserve(c)
           \/ \E a \in Actions : \E i \in DOMAIN rows[a], s \in States : Progress(a, i, s)
    PROVE  Inv'
<1>1. ASSUME NEW c \in Calls, Reserve(c) PROVE Inv'
  <2> DEFINE m == call[c]
             a == m.action
             i == m.row
             row == [rows[a][i] EXCEPT !.status = "queued"]
  <2>1. m \in [pc: {"check", "reserve"}, action: Actions, row: Nat] /\ CallInv(m) /\ m.pc = "reserve"
    BY <1>1, CallType DEF Reserve, At
  <2>2. a \in Actions /\ i \in DOMAIN rows[a]
    BY <2>1, SMTT(30) DEF CallInv
  <2>3. /\ call' = [call EXCEPT ![c] = Idle] /\ UNCHANGED <<incident, reported, aged>>
        /\ call' \in [Calls -> CallStates] /\ \A d \in Calls : CallInv(call'[d])
    BY <1>1, CallType, IdleType DEF Reserve, Goto
  <2>4. CASE rows[a][i].status = "approved"
    <3>1. rows[a] \in Seq(Row) /\ rows[a][i] \in Row
      BY <2>2 DEF Inv, TypeOK
    <3>2. /\ row \in Row /\ row.attempt = rows[a][i].attempt /\ row.status = "queued"
          /\ row.human = rows[a][i].human
      BY <3>1, SMTT(30) DEF Row, States
    <3>3. rows' = [rows EXCEPT ![a] = [rows[a] EXCEPT ![i] = row]]
      BY <1>1, <2>4 DEF Reserve
    <3>4. Unattended(row) => LowRisk(a)
      BY <2>2, <2>4, <3>2 DEF Inv, RowsInv, Unattended
    <3> HIDE DEF row, a, i
    <3> QED
      BY <2>2, <2>3, <2>4, <3>2, <3>3, <3>4, RowUpdate
  <2>5. CASE rows[a][i].status # "approved"
    <3>1. UNCHANGED rows /\ Goto(c, Idle)
      BY <1>1, <2>5 DEF Reserve
    <3> QED
      BY <2>3, <3>1, IdleType, CallStepInv, SMTT(30)
  <2> QED
    BY <2>4, <2>5, SMTT(30)
<1>2. ASSUME NEW a \in Actions, NEW i \in DOMAIN rows[a], NEW s \in States, Progress(a, i, s) PROVE Inv'
  <2> DEFINE row == Moved(rows[a][i], s)
  <2>1. rows[a] \in Seq(Row) /\ rows[a][i] \in Row
    BY DEF Inv, TypeOK
  <2>2. /\ row \in Row /\ row.attempt = rows[a][i].attempt /\ row.status = s
        /\ row.human = (rows[a][i].human \/ (rows[a][i].status = "awaiting_approval" /\ s = "approved"))
    BY <2>1 DEF Row, Moved
  <2>3. rows' = [rows EXCEPT ![a] = [rows[a] EXCEPT ![i] = row]] /\ UNCHANGED <<incident, reported, aged, call>>
    BY <1>2 DEF Progress
  <2>4. /\ rows[a][i].status \notin {"proposed", "policy_blocked"}
        /\ <<rows[a][i].status, s>> \in Transitions \cup {<<"queued", "approved">>}
        /\ ~IsTerminalState(rows[a][i].status)
        /\ Unattended(rows[a][i]) => LowRisk(a)
    BY <1>2 DEF Progress, Inv, RowsInv, IsTerminalState
  <2>5. /\ s \notin {"proposed", "policy_blocked"}
        /\ s \in {"running", "succeeded", "failed"} => rows[a][i].status \in {"queued", "running"}
        /\ s = "approved" => rows[a][i].status \in {"awaiting_approval", "queued"}
        /\ s # "queued"
    BY <1>2, <2>4 DEF Transitions, IsTerminalState, Progress
  <2>6. Unattended(row) => LowRisk(a)
    BY <2>2, <2>4, <2>5 DEF Unattended
  <2>7. call' \in [Calls -> CallStates] /\ \A d \in Calls : CallInv(call'[d])
    BY <2>3 DEF Inv, TypeOK
  <2> HIDE DEF row
  <2> QED
    BY <2>2, <2>3, <2>4, <2>5, <2>6, <2>7, RowUpdate
<1> QED
  BY <1>1, <1>2

\* So does time, which only takes remediations out of the ten minutes.
LEMMA AgeInv ==
    ASSUME Inv, NEW a \in Actions, Age(a)
    PROVE  Inv'
<1>1. /\ aged' = [aged EXCEPT ![a] = @ + 1] /\ aged[a] < Len(rows[a])
      /\ UNCHANGED <<incident, reported, rows, call>>
  BY DEF Age
<1>2. aged \in [Actions -> Nat] /\ aged[a] \in Nat /\ rows[a] \in Seq(Row)
  BY DEF Inv, TypeOK
<1>3. aged' \in [Actions -> Nat] /\ aged'[a] <= Len(rows[a]) /\ \A b \in Actions \ {a} : aged'[b] = aged[b]
  BY <1>1, <1>2
<1>4. TypeOK'
  BY <1>1, <1>3 DEF Inv, TypeOK
<1>5. ASSUME NEW b \in Actions PROVE RowsInv(b)'
  BY <1>1, <1>3 DEF Inv, RowsInv
<1>6. ASSUME NEW d \in Calls PROVE CallInv(call[d])'
  BY <1>1 DEF Inv, CallInv, LetThrough
<1> QED
  BY <1>1, <1>4, <1>5, <1>6 DEF Inv, StatusIsBacked

-----------------------------------------------------------------------------
(* The invariant.                                                          *)

\* The invariant holds at first, and every step keeps it.
LEMMA InitInv == Init => Inv
<1> SUFFICES ASSUME Init PROVE Inv
  OBVIOUS
<1>1. TypeOK
  <2>1. <<>> \in Seq(Row)
    OBVIOUS
  <2>2. rows \in [Actions -> Seq(Row)]
    BY <2>1 DEF Init
  <2> QED
    BY <2>2, IdleType DEF Init, TypeOK, Statuses
<1>2. \A a \in Actions : RowsInv(a)
  BY DEF Init, RowsInv
<1>3. \A c \in Calls : CallInv(call[c])
  BY IdleType DEF Init
<1> QED
  BY <1>1, <1>2, <1>3 DEF Init, Inv, StatusIsBacked

\* One step per action.
LEMMA NextInv == Inv /\ [Next]_vars => Inv'
<1> SUFFICES ASSUME Inv, [Next]_vars PROVE Inv'
  OBVIOUS
<1>1. CASE UNCHANGED vars
  <2>1. UNCHANGED <<incident, reported, rows, aged>> /\ UNCHANGED call
    BY <1>1 DEF vars
  <2>2. TypeOK' /\ StatusIsBacked'
    BY <2>1 DEF Inv, TypeOK, StatusIsBacked
  <2>3. \A a \in Actions : RowsInv(a)'
    BY <2>1, SMTT(30) DEF Inv, RowsInv
  <2>4. \A c \in Calls : CallInv(call[c])'
    BY <2>1 DEF Inv, CallInv, LetThrough
  <2> QED
    BY <2>1, <2>2, <2>3, <2>4 DEF Inv
<1>2. ASSUME NEW s \in {"triaged", "resolved"}, StateChange(s) PROVE Inv'
  <2>1. incident' \in {incident, TransitionIncident(s)} /\ UNCHANGED <<reported, rows, aged, call>>
    BY <1>2 DEF StateChange
  <2>2. call' \in [Calls -> CallStates] /\ \A d \in Calls : CallInv(call'[d])
    BY <2>1 DEF Inv, TypeOK
  <2> QED
    BY <2>1, <2>2, AdvanceInv
<1>3. ASSUME NEW c \in Calls, CallStep(c) PROVE Inv'
  <2>1. CASE \E propose \in BOOLEAN : Generate(c, propose)
    BY <2>1, OuterInv
  <2>2. CASE ReuseReport(c) \/ CheckIncident(c) \/ Abort(c)
    BY <2>2, OuterInv
  <2>3. CASE \E a \in Actions : \E i \in DOMAIN rows[a] : Execute(c, a, i)
    BY <2>3, OuterInv
  <2>4. CASE (\E a \in Actions : FindActive(c, a)) \/ CountRecent(c) \/ CountFailed(c)
    BY <2>4, ReadInv
  <2>5. CASE SaveRCAReport(c)
    BY <2>5, SaveInv
  <2>6. CASE GenerateAdvances(c) \/ ProposeAdvances(c)
    BY <2>6, MoveInv
  <2>7. CASE CreateRemediation(c)
    BY <2>7, CreateInv
  <2>8. CASE Reserve(c)
    BY <2>8, MoveRowInv
  <2> QED
    BY <1>3, <2>1, <2>2, <2>3, <2>4, <2>5, <2>6, <2>7, <2>8 DEF CallStep
<1>4. ASSUME NEW a \in Actions, NEW i \in DOMAIN rows[a], NEW s \in States, Progress(a, i, s) PROVE Inv'
  BY <1>4, MoveRowInv
<1>5. ASSUME NEW a \in Actions, Age(a) PROVE Inv'
  BY <1>5, AgeInv
<1> QED
  BY <1>1, <1>2, <1>3, <1>4, <1>5 DEF Next

\* However calls overlap and wherever they stop, what a call has found, counted
\* and decided still holds when it inserts or reserves.
THEOREM ResponseInvariant == Spec => []Inv
BY InitInv, NextInv, PTL DEF Spec

\* No incident says that there is a report or a proposal that nobody stored
\* (Generate and Propose write the row before the status).
THEOREM StatusSafety == Spec => []StatusIsBacked
<1>1. Inv => StatusIsBacked
  BY DEF Inv
<1> QED
  BY <1>1, ResponseInvariant, PTL

\* Propose lets nothing but low-risk actions past awaiting_approval by itself.
THEOREM RiskSafety == Spec => []UnapprovedIsLow
<1>1. Inv => UnapprovedIsLow
  BY DEF Inv, RowsInv, UnapprovedIsLow
<1> QED
  BY <1>1, ResponseInvariant, PTL

\* Propose never lets a third remediation of an action through.
THEOREM AttemptSafety == Spec => []TwoAttempts
<1>1. Inv => TwoAttempts
  <2> SUFFICES ASSUME Inv, NEW a \in Actions,
                      NEW i \in DOMAIN rows[a], NEW j \in DOMAIN rows[a], NEW k \in DOMAIN rows[a],
                      rows[a][i].status # "policy_blocked", rows[a][j].status # "policy_blocked",
                      rows[a][k].status # "policy_blocked"
               PROVE  i = j \/ i = k \/ j = k
    BY DEF TwoAttempts
  <2>1. rows[a] \in Seq(Row) /\ RowsInv(a)
    BY DEF Inv, TypeOK
  <2>2. rows[a][i] \in Row /\ rows[a][j] \in Row /\ rows[a][k] \in Row
    BY <2>1
  <2>3. /\ rows[a][i].attempt \in Nat \ {0} /\ rows[a][i].attempt <= 2
        /\ rows[a][j].attempt \in Nat \ {0} /\ rows[a][j].attempt <= 2
        /\ rows[a][k].attempt \in Nat \ {0} /\ rows[a][k].attempt <= 2
    BY <2>1, <2>2 DEF RowsInv, Row
  <2>4. \/ rows[a][i].attempt = rows[a][j].attempt
        \/ rows[a][i].attempt = rows[a][k].attempt
        \/ rows[a][j].attempt = rows[a][k].attempt
    BY <2>3, SMTT(30)
  <2> QED
    BY <2>1, <2>4 DEF RowsInv
<1> QED
  BY <1>1, ResponseInvariant, PTL

\* Only TransitionIncident writes the status.
LEMMA IncidentSteps ==
    ASSUME Next
    PROVE  \/ incident' = incident
           \/ \E s \in {"triaged", "resolved", "rca_generated", "remediation_proposed", "awaiting_approval"} :
                 incident' = TransitionIncident(s)
BY DEF Next, StateChange, CallStep, Generate, ReuseReport, SaveRCAReport, GenerateAdvances, Advance,
       FindActive, CountRecent, CountFailed, CreateRemediation, ProposeAdvances, Execute,
       CheckIncident, Reserve, Abort, Progress, Age

\* TransitionIncident never takes an incident back, and never out of a closed
\* status.
THEOREM IncidentSafety == Spec => NeverRewinds
<1>1. Inv /\ [Next]_vars => [incident' # incident => Later(incident, incident')]_vars
  <2> SUFFICES ASSUME Inv, Next, incident' # incident PROVE Later(incident, incident')
    BY DEF vars
  <2>1. PICK s \in {"triaged", "resolved", "rca_generated", "remediation_proposed", "awaiting_approval"} :
            incident' = TransitionIncident(s)
    BY IncidentSteps
  <2>2. s \in transitions[incident] /\ incident' = s /\ incident \in Statuses
    BY <2>1 DEF TransitionIncident, AllowedFrom
  <2>3. /\ Order[1] = "detected" /\ Order[2] = "triaged" /\ Order[3] = "rca_generated"
        /\ Order[4] = "remediation_proposed" /\ Order[5] = "awaiting_approval" /\ Order[6] = "resolved"
    BY DEF Order
  <2> DEFINE rank(t) == CASE t = "detected" -> 1 [] t = "triaged" -> 2 [] t = "rca_generated" -> 3
                          [] t = "remediation_proposed" -> 4 [] t = "awaiting_approval" -> 5 [] OTHER -> 6
  <2>4. /\ rank(incident) \in 1..6 /\ rank(s) \in 1..6
        /\ Order[rank(incident)] = incident /\ Order[rank(s)] = s
    BY <2>3 DEF Inv
  <2>5. rank(incident) < rank(s)
    BY <2>2 DEF Inv, transitions, Statuses
  <2> QED
    BY <2>2, <2>4, <2>5 DEF Later
<1> QED
  BY <1>1, ResponseInvariant, PTL DEF Spec, NeverRewinds

\* Execute's check of the incident: it cannot be bypassed by a call that starts
\* after the incident was closed.
THEOREM QuietSafety == Spec => ClosedStaysQuiet
<1>1. Inv /\ [Next]_vars => [Quiet => Quiet' /\ ~Dispatches]_vars
  <2> SUFFICES ASSUME Inv, Next, Quiet PROVE Quiet' /\ ~Dispatches
    BY DEF vars
  <2>1. incident = "resolved"
    BY DEF Inv, Quiet, IsClosed
  <2>2. \A s \in Statuses : TransitionIncident(s) = incident
    BY <2>1 DEF TransitionIncident, AllowedFrom, transitions, Statuses
  <2>3. incident' = incident
    BY <2>2, IncidentSteps, SMTT(30) DEF Statuses
  <2>4. ASSUME NEW c \in Calls, CallStep(c)
        PROVE  /\ \A d \in Calls : call'[d].pc # "reserve"
               /\ \A a \in Actions : \A i \in DOMAIN rows[a] : rows'[a][i] = rows[a][i]
    <3> DEFINE Calm == \A d \in Calls : call'[d].pc # "reserve"
    <3>1. /\ Idle.pc # "reserve" /\ call \in [Calls -> CallStates]
          /\ \A d \in Calls : call[d].pc # "reserve"
      BY CallType DEF Idle, Quiet, At
    <3>2. ASSUME NEW n, Goto(c, n), n.pc # "reserve" PROVE Calm
      BY <3>1, <3>2 DEF Goto
    <3> HIDE DEF Calm
    <3>3. CASE Abort(c) \/ CheckIncident(c)
      <4>1. Goto(c, Idle) /\ UNCHANGED rows
        BY <2>1, <3>3 DEF Abort, CheckIncident, IsClosed
      <4> QED
        BY <3>1, <3>2, <4>1 DEF Calm
    <3>4. CASE \E propose \in BOOLEAN : Generate(c, propose)
      <4>1. PICK propose \in BOOLEAN : Goto(c, [pc |-> "save", propose |-> propose]) /\ UNCHANGED rows
        BY <3>4 DEF Generate
      <4>2. [pc |-> "save", propose |-> propose].pc # "reserve"
        OBVIOUS
      <4> QED
        BY <3>2, <4>1, <4>2 DEF Calm
    <3>5. CASE ReuseReport(c) \/ GenerateAdvances(c) \/ ProposeAdvances(c)
      <4>1. UNCHANGED rows /\ (Goto(c, Idle) \/ \E candidates \in SUBSET Actions : StartProposal(c, candidates))
        BY <3>5 DEF ReuseReport, GenerateAdvances, ProposeAdvances
      <4>2. ASSUME NEW candidates \in SUBSET Actions, StartProposal(c, candidates) PROVE Calm
        <5> DEFINE n == [pc |-> "find", todo |-> candidates, action |-> CHOOSE a \in Actions : TRUE, attempt |-> 0,
                         status |-> "proposed", found |-> FALSE, awaiting |-> FALSE]
        <5>1. Goto(c, n) /\ n.pc # "reserve"
          BY <4>2 DEF StartProposal
        <5> HIDE DEF n
        <5> QED
          BY <3>2, <5>1
      <4> QED
        BY <3>1, <3>2, <4>1, <4>2 DEF Calm
    <3>6. CASE SaveRCAReport(c)
      <4> DEFINE n == [call[c] EXCEPT !.pc = "advance"]
      <4>1. call[c] \in [pc: {"save", "advance"}, propose: BOOLEAN]
        BY <3>6, CallType DEF SaveRCAReport, At
      <4>2. Goto(c, n) /\ n.pc # "reserve" /\ UNCHANGED rows
        BY <3>6, <4>1 DEF SaveRCAReport
      <4> HIDE DEF n
      <4> QED
        BY <3>2, <4>2 DEF Calm
    <3>7. CASE (\E a \in Actions : FindActive(c, a)) \/ CountRecent(c) \/ CountFailed(c)
      <4>1. call[c] \in Proposing /\ UNCHANGED rows
        BY <3>7, CallType DEF FindActive, CountRecent, CountFailed, At
      <4>2. call'[c].pc # "reserve" /\ \A d \in Calls \ {c} : call'[d] = call[d]
        <5>1. CASE \E a \in Actions : FindActive(c, a)
          <6>1. PICK a \in Actions : FindActive(c, a)
            BY <5>1
          <6> DEFINE m == call[c]
                     newest == CHOOSE i \in Active(a) : \A j \in Active(a) : j <= i
                     waits == rows[a][newest].status = "awaiting_approval"
                     n1 == [m EXCEPT !.pc = "recent", !.todo = @ \ {a}, !.action = a]
                     n2 == [m EXCEPT !.todo = @ \ {a}, !.found = TRUE, !.awaiting = @ \/ waits]
          <6>2. m.pc = "find" /\ (Goto(c, n1) \/ Goto(c, n2))
            BY <6>1, Zenon DEF FindActive, At
          <6>3. n1.pc = "recent"
            BY <4>1 DEF Proposing
          <6>4. n2.pc = "find"
            <7> HIDE DEF waits
            <7> QED
              BY <4>1, <6>2 DEF Proposing
          <6> HIDE DEF n1, n2, m
          <6> QED
            BY <3>1, <6>2, <6>3, <6>4 DEF Goto
        <5>2. CASE CountRecent(c)
          <6> DEFINE x == Len(rows[call[c].action]) - aged[call[c].action] + 1
          <6>1. call' = [call EXCEPT ![c] = [call[c] EXCEPT !.pc = "failed", !.attempt = x]]
            BY <5>2 DEF CountRecent, Goto
          <6> HIDE DEF x
          <6> QED
            BY <3>1, <4>1, <6>1 DEF Proposing
        <5>3. CASE CountFailed(c)
          <6>1. PICK x : call' = [call EXCEPT ![c] = [call[c] EXCEPT !.pc = "insert", !.status = x]]
            BY <5>3, Zenon DEF CountFailed, Goto
          <6> QED
            BY <3>1, <4>1, <6>1 DEF Proposing
        <5> QED
          BY <3>7, <5>1, <5>2, <5>3
      <4> QED
        BY <3>1, <4>1, <4>2, SMTT(30) DEF Calm
    <3>8. CASE CreateRemediation(c)
      <4>1. call[c] \in Proposing /\ rows \in [Actions -> Seq(Row)]
        BY <3>8, CallType DEF CreateRemediation, At, Inv, TypeOK
      <4>2. call'[c].pc # "reserve" /\ \A d \in Calls \ {c} : call'[d] = call[d]
        <5>1. PICK x : Goto(c, Idle) \/ Goto(c, [call[c] EXCEPT !.pc = "find", !.found = TRUE, !.awaiting = x])
          BY <3>8, Zenon DEF CreateRemediation
        <5> QED
          BY <3>1, <4>1, <5>1 DEF Goto, Proposing
      <4>3. PICK b \in Actions, row \in Row : rows' = rows \/ rows' = [rows EXCEPT ![b] = Append(rows[b], row)]
        <5>1. call[c].action \in Actions /\ call[c].attempt > 0
          BY <3>8, <4>1, CallType DEF Proposing, CreateRemediation, At, CallInv
        <5>2. [attempt |-> call[c].attempt, status |-> call[c].status, human |-> FALSE] \in Row
          BY <4>1, <5>1 DEF Proposing, Row
        <5> QED
          BY <3>8, <5>1, <5>2 DEF CreateRemediation
      <4>4. ASSUME NEW a \in Actions, NEW i \in DOMAIN rows[a] PROVE rows'[a][i] = rows[a][i]
        <5>1. rows[a] \in Seq(Row) /\ i \in 1..Len(rows[a])
          BY <4>1
        <5>2. Append(rows[a], row)[i] = rows[a][i]
          BY <5>1
        <5> QED
          BY <4>1, <4>3, <5>2
      <4> QED
        BY <3>1, <4>2, <4>4 DEF Calm
    <3>9. CASE \E a \in Actions : \E i \in DOMAIN rows[a] : Execute(c, a, i)
      <4>1. PICK a \in Actions : \E i \in DOMAIN rows[a] : Execute(c, a, i)
        BY <3>9
      <4>2. PICK i \in DOMAIN rows[a] :
                Goto(c, [pc |-> "check", action |-> a, row |-> i]) /\ UNCHANGED rows
        BY <4>1 DEF Execute
      <4>3. [pc |-> "check", action |-> a, row |-> i].pc # "reserve"
        OBVIOUS
      <4> QED
        BY <3>2, <4>2, <4>3 DEF Calm
    <3>10. CASE Reserve(c)
      BY <3>1, <3>10 DEF Reserve, At
    <3> QED
      BY <2>4, <3>3, <3>4, <3>5, <3>6, <3>7, <3>8, <3>9, <3>10 DEF CallStep
  <2>5. ASSUME NEW c \in Calls, CallStep(c) PROVE Quiet' /\ ~Dispatches
    BY <2>3, <2>4, <2>5 DEF Quiet, Dispatches, At
  <2>6. ASSUME NEW a \in Actions, NEW i \in DOMAIN rows[a], NEW s \in States, Progress(a, i, s)
        PROVE  Quiet' /\ ~Dispatches
    <3>1. rows[a] \in Seq(Row) /\ rows[a][i] \in Row /\ rows \in [Actions -> Seq(Row)]
      BY DEF Inv, TypeOK
    <3>2. Moved(rows[a][i], s).status = s /\ s # "queued"
      BY <2>6, <3>1 DEF Moved, Progress, Row
    <3>3. rows' = [rows EXCEPT ![a] = [rows[a] EXCEPT ![i] = Moved(rows[a][i], s)]] /\ UNCHANGED call
      BY <2>6 DEF Progress
    <3>4. \A b \in Actions : \A j \in DOMAIN rows[b] :
              rows'[b][j] = rows[b][j] \/ rows'[b][j].status # "queued"
      BY <3>1, <3>2, <3>3
    <3> QED
      BY <2>3, <3>3, <3>4 DEF Quiet, Dispatches, At
  <2>7. ASSUME UNCHANGED <<rows, call>> PROVE Quiet' /\ ~Dispatches
    BY <2>3, <2>7 DEF Quiet, Dispatches, At
  <2> QED
    BY <2>5, <2>6, <2>7 DEF Next, StateChange, Age
<1> QED
  BY <1>1, ResponseInvariant, PTL DEF Spec, ClosedStaysQuiet

-----------------------------------------------------------------------------
(* Scoring: what a report rests on.                                        *)

\* The five rules, and the weights of their probes.
Weighs(rule, weights) ==
    /\ DOMAIN DefaultRules[rule].probes = DOMAIN weights
    /\ \A i \in DOMAIN weights :
          LET p == DefaultRules[rule].probes[i]
          IN  p.weight = weights[i] /\ p.backend \in {"prometheus", "loki"}

\* The rules of DefaultRules and the weights of their probes.
LEMMA Table ==
    /\ Rules = {"postgres_connection_exhaustion", "redis_memory_pressure", "nginx_upstream_config", "dependency_latency",
                "bad_config_rollout"}
    /\ Weighs("postgres_connection_exhaustion", <<200, 100, 200>>)
    /\ Weighs("redis_memory_pressure", <<200, 150, 150>>)
    /\ Weighs("nginx_upstream_config", <<200, 150>>)
    /\ Weighs("dependency_latency", <<200, 150>>)
    /\ Weighs("bad_config_rollout", <<250, 100>>)
<1>1. Rules = {"postgres_connection_exhaustion", "redis_memory_pressure", "nginx_upstream_config", "dependency_latency",
               "bad_config_rollout"}
  BY DEF Rules, DefaultRules
<1>2. Weighs("postgres_connection_exhaustion", <<200, 100, 200>>)
  BY SMT DEF Weighs, DefaultRules, Probe, errorRatioProbe, logProbe
<1>3. Weighs("redis_memory_pressure", <<200, 150, 150>>)
  BY SMT DEF Weighs, DefaultRules, Probe, errorRatioProbe, logProbe
<1>4. Weighs("nginx_upstream_config", <<200, 150>>)
  BY SMT DEF Weighs, DefaultRules, Probe, errorRatioProbe, logProbe
<1>5. Weighs("dependency_latency", <<200, 150>>)
  BY SMT DEF Weighs, DefaultRules, Probe, errorRatioProbe, logProbe
<1>6. Weighs("bad_config_rollout", <<250, 100>>)
  BY SMT DEF Weighs, DefaultRules, Probe, errorRatioProbe, logProbe
<1> QED BY <1>1, <1>2, <1>3, <1>4, <1>5, <1>6

\* Every probe weighs something and asks one of two backends.
LEMMA ProbeFacts ==
    ASSUME NEW r \in Rules, NEW i \in DOMAIN DefaultRules[r].probes
    PROVE  DefaultRules[r].probes[i].weight \in Nat /\ DefaultRules[r].probes[i].backend \in {"prometheus", "loki"}
<1>1. PICK weights : Weighs(r, weights) /\ \A j \in DOMAIN weights : weights[j] \in Nat
  <2>1. /\ \A j \in DOMAIN <<200, 100, 200>> : <<200, 100, 200>>[j] \in Nat
        /\ \A j \in DOMAIN <<200, 150, 150>> : <<200, 150, 150>>[j] \in Nat
        /\ \A j \in DOMAIN <<200, 150>> : <<200, 150>>[j] \in Nat
        /\ \A j \in DOMAIN <<250, 100>> : <<250, 100>>[j] \in Nat
    BY SMT
  <2>2. \/ Weighs(r, <<200, 100, 200>>) \/ Weighs(r, <<200, 150, 150>>)
        \/ Weighs(r, <<200, 150>>) \/ Weighs(r, <<250, 100>>)
    BY Table
  <2> QED BY <2>1, <2>2
<1> QED BY <1>1 DEF Weighs

\* The weight of the answers of one kind.
LEMMA WeightNat ==
    ASSUME NEW r \in Rules, NEW status, NEW wanted
    PROVE  weight(r, status, wanted) \in Nat
<1> DEFINE probes == DefaultRules[r].probes
           counted(i) == IF i \in DOMAIN probes /\ status[i] = wanted THEN probes[i].weight ELSE 0
<1>1. \A i : counted(i) \in Nat
  BY ProbeFacts, Zenon
<1>2. weight(r, status, wanted) = counted(1) + counted(2) + counted(3)
  BY DEF weight
<1> HIDE DEF counted
<1> QED BY <1>1, <1>2, SMT

\* The score of a rule lies between the baseline and the cap of its sources; the
\* cap rises with the backends that corroborated.
IsScore(a, r, status) ==
    /\ a.rule = r
    /\ a.sources \in 1..3 /\ a.cap = SourceCap(a.sources) /\ a.cap \in {550, 800, 950}
    /\ a.confidence \in Int /\ BaselineConfidence <= a.confidence /\ a.confidence <= a.cap
    /\ a.contradicted \in BOOLEAN /\ (a.contradicted <=> weight(r, status, "refuted") > weight(r, status, "corroborated"))
    /\ a.sources = 1 + Cardinality(backends(r, status)) /\ IsFiniteSet(backends(r, status))
    /\ backends(r, status) \in SUBSET {"prometheus", "loki"}

\* scoreRule keeps the confidence between the baseline and the cap of its sources.
LEMMA ScoreFacts ==
    ASSUME NEW r \in Rules, NEW status
    PROVE  IsScore(scoreRule(r, status), r, status)
<1> DEFINE B == backends(r, status)
           a == scoreRule(r, status)
           corroborated == weight(r, status, "corroborated")
           refuted == weight(r, status, "refuted")
<1>1. B \in SUBSET {"prometheus", "loki"}
  BY ProbeFacts, Zenon DEF backends
<1>2. IsFiniteSet({"prometheus", "loki"}) /\ Cardinality({"prometheus", "loki"}) = 2
  <2>1. IsFiniteSet({"loki"}) /\ Cardinality({"loki"}) = 1
    BY FS_Singleton
  <2>2. {"prometheus", "loki"} = {"loki"} \cup {"prometheus"} /\ "prometheus" \notin {"loki"}
    OBVIOUS
  <2> QED BY <2>1, <2>2, FS_AddElement, SMT
<1>3. IsFiniteSet(B) /\ Cardinality(B) \in 0..2
  <2>1. IsFiniteSet(B) /\ Cardinality(B) \in Nat /\ Cardinality(B) <= 2
    BY <1>1, <1>2, FS_Subset, FS_CardinalityType
  <2> QED BY <2>1, SMT
<1> HIDE DEF B
<1>4. corroborated \in Nat /\ refuted \in Nat
  BY WeightNat
<1>5. a = [rule |-> r, sources |-> 1 + Cardinality(B), cap |-> SourceCap(1 + Cardinality(B)),
           confidence |-> clamp(AlertMatchScore + corroborated - refuted \div 2, BaselineConfidence,
                                SourceCap(1 + Cardinality(B))),
           contradicted |-> refuted > corroborated]
  BY DEF scoreRule, B
<1> HIDE DEF a, corroborated, refuted
<1>6. \A n \in 0..2 : 1 + n \in 1..3 /\ SourceCap(1 + n) \in {550, 800, 950}
  BY SMT DEF SourceCap
<1>7. \A x \in Int, c \in {550, 800, 950} : LET y == clamp(x, 350, c) IN y \in Int /\ 350 <= y /\ y <= c
  BY SMT DEF clamp
<1>8. AlertMatchScore + corroborated - refuted \div 2 \in Int
  BY <1>4, SMT DEF AlertMatchScore
<1>9. a.contradicted \in BOOLEAN /\ (a.contradicted <=> refuted > corroborated)
  <2>1. (refuted > corroborated) \in BOOLEAN
    BY <1>4, SMT
  <2> QED BY <1>5, <2>1, Zenon
<1>10. /\ a.rule = r /\ a.sources \in 1..3 /\ a.cap = SourceCap(a.sources) /\ a.cap \in {550, 800, 950}
       /\ a.confidence \in Int /\ BaselineConfidence <= a.confidence /\ a.confidence <= a.cap
       /\ a.sources = 1 + Cardinality(B)
  BY <1>3, <1>5, <1>6, <1>7, <1>8 DEF BaselineConfidence
<1> QED BY <1>1, <1>3, <1>9, <1>10, ZenonT(30) DEF IsScore, a, B, corroborated, refuted

\* Hypotheses have different names.
LEMMA Names ==
    \A r, q \in Rules : DefaultRules[r].hypothesis \in Nat /\ (r # q => DefaultRules[r].hypothesis # DefaultRules[q].hypothesis)
<1> DEFINE h(r) == DefaultRules[r].hypothesis
<1>1. /\ h("postgres_connection_exhaustion") = 4 /\ h("redis_memory_pressure") = 5 /\ h("nginx_upstream_config") = 3
      /\ h("dependency_latency") = 2 /\ h("bad_config_rollout") = 1
  BY DEF DefaultRules
<1> HIDE DEF h
<1>2. \A r, q \in Rules : h(r) \in Nat /\ (r # q => h(r) # h(q))
  BY <1>1, Table
<1> QED BY <1>2, SMTT(30) DEF h

\* RanksBefore orders the scores of different rules.
IsRank(a) == a.rule \in Rules /\ a.contradicted \in BOOLEAN /\ a.confidence \in Int /\ a.sources \in Int

\* RanksBefore is total on different rules, transitive and asymmetric.
LEMMA RankOrder ==
    ASSUME NEW a, NEW b, NEW c, IsRank(a), IsRank(b), IsRank(c)
    PROVE  /\ a.rule # b.rule => RanksBefore(a, b) \/ RanksBefore(b, a)
           /\ RanksBefore(a, b) /\ RanksBefore(b, c) => RanksBefore(a, c)
           /\ ~(RanksBefore(a, b) /\ RanksBefore(b, a))
<1> DEFINE h(x) == DefaultRules[x.rule].hypothesis
<1>1. h(a) \in Nat /\ h(b) \in Nat /\ h(c) \in Nat /\ (a.rule # b.rule => h(a) # h(b))
  BY Names DEF IsRank
<1>2. \A x, y : RanksBefore(x, y) <=>
         \/ ~x.contradicted /\ y.contradicted
         \/ /\ x.contradicted = y.contradicted
            /\ \/ x.confidence > y.confidence
               \/ x.confidence = y.confidence /\ x.sources > y.sources
               \/ x.confidence = y.confidence /\ x.sources = y.sources /\ h(x) < h(y)
  BY DEF RanksBefore
<1> HIDE DEF h
<1> QED BY <1>1, <1>2, SMT DEF IsRank

\* What scoreRule returns can be ranked.
LEMMA ScoreRank ==
    ASSUME NEW r \in Rules, NEW status
    PROVE  IsRank(scoreRule(r, status)) /\ scoreRule(r, status).rule = r
<1> DEFINE a == scoreRule(r, status)
<1>1. IsScore(a, r, status)
  BY ScoreFacts
<1> HIDE DEF a
<1>2. a.sources \in Int
  BY <1>1, SMT DEF IsScore
<1>3. a.rule = r /\ a.contradicted \in BOOLEAN /\ a.confidence \in Int
  BY <1>1 DEF IsScore
<1>4. IsRank(a) /\ a.rule = r
  BY <1>2, <1>3 DEF IsRank
<1> QED BY <1>4 DEF a

\* The best of the scores is chosen.
Best(answers, r) ==
    r \in DOMAIN answers
    /\ \A q \in DOMAIN answers \ {r} : RanksBefore(scoreRule(r, answers[r]), scoreRule(q, answers[q]))

\* Some matched rule ranks before all the others.
LEMMA BestExists ==
    ASSUME NEW answers, DOMAIN answers \in SUBSET Rules, DOMAIN answers # {}
    PROVE  \E r : Best(answers, r)
<1> DEFINE s(r) == scoreRule(r, answers[r])
           First(D, r) == r \in D /\ \A q \in D \ {r} : RanksBefore(s(r), s(q))
           Has(D) == D = {} \/ \E r \in D : First(D, r)
<1>1. \A r \in Rules : IsRank(s(r)) /\ s(r).rule = r
  BY ScoreRank
<1> HIDE DEF s
<1>2. ASSUME NEW D \in SUBSET Rules, NEW x \in Rules, Has(D) PROVE Has(D \cup {x})
  <2>1. CASE D = {} \/ x \in D
    BY <1>2, <2>1, Zenon
  <2>2. ASSUME x \notin D, NEW r \in D, First(D, r) PROVE Has(D \cup {x})
    <3>1. CASE RanksBefore(s(r), s(x))
      BY <2>2, <3>1, Zenon
    <3>2. CASE RanksBefore(s(x), s(r))
      <4>1. \A q \in D : RanksBefore(s(x), s(q))
        BY <1>1, <2>2, <3>2, RankOrder, Zenon
      <4> QED BY <4>1, Zenon
    <3> QED BY <1>1, <2>2, <3>1, <3>2, RankOrder, Zenon
  <2> QED BY <1>2, <2>1, <2>2, Zenon
<1> HIDE DEF Has
<1>3. ASSUME NEW D \in SUBSET Rules, NEW E \in SUBSET Rules, NEW x \in Rules, Has(D), E = D \/ E = D \cup {x}
      PROVE  Has(E)
  BY <1>2, <1>3, Zenon
<1> DEFINE A == DOMAIN answers
<1>4. /\ Has(A \cap {})
      /\ \A R \in SUBSET Rules, x \in Rules : Has(A \cap R) => Has(A \cap (R \cup {x}))
  <2>1. A \cap {} = {}
    OBVIOUS
  <2>2. \A R \in SUBSET Rules, x \in Rules :
           /\ A \cap R \in SUBSET Rules /\ A \cap (R \cup {x}) \in SUBSET Rules
           /\ A \cap (R \cup {x}) = A \cap R \/ A \cap (R \cup {x}) = (A \cap R) \cup {x}
    BY Zenon
  <2>3. Has({})
    BY DEF Has
  <2>4. ASSUME NEW R \in SUBSET Rules, NEW x \in Rules, Has(A \cap R) PROVE Has(A \cap (R \cup {x}))
    <3> DEFINE D == A \cap R
               E == A \cap (R \cup {x})
    <3>1. D \in SUBSET Rules /\ E \in SUBSET Rules /\ (E = D \/ E = D \cup {x})
      BY <2>2
    <3> HIDE DEF D, E
    <3>2. Has(E)
      BY <1>3, <2>4, <3>1 DEF D
    <3> QED BY <3>2 DEF E
  <2> QED BY <2>1, <2>3, <2>4
<1> HIDE DEF A
<1>5. ASSUME NEW a \in Rules PROVE Has(A \cap {a})
  <2>1. {} \in SUBSET Rules /\ {} \cup {a} = {a}
    OBVIOUS
  <2> QED BY <1>4, <2>1
<1>6. ASSUME NEW a \in Rules, NEW b \in Rules PROVE Has(A \cap {a, b})
  <2>1. {a} \in SUBSET Rules /\ {a} \cup {b} = {a, b}
    OBVIOUS
  <2>2. Has(A \cap {a})
    BY <1>5
  <2> QED BY <1>4, <2>1, <2>2
<1>7. ASSUME NEW a \in Rules, NEW b \in Rules, NEW c \in Rules PROVE Has(A \cap {a, b, c})
  <2>1. {a, b} \in SUBSET Rules /\ {a, b} \cup {c} = {a, b, c}
    OBVIOUS
  <2>2. Has(A \cap {a, b})
    BY <1>6
  <2> QED BY <1>4, <2>1, <2>2
<1>8. ASSUME NEW a \in Rules, NEW b \in Rules, NEW c \in Rules, NEW d \in Rules PROVE Has(A \cap {a, b, c, d})
  <2>1. {a, b, c} \in SUBSET Rules /\ {a, b, c} \cup {d} = {a, b, c, d}
    OBVIOUS
  <2>2. Has(A \cap {a, b, c})
    BY <1>7
  <2> QED BY <1>4, <2>1, <2>2
<1>9. ASSUME NEW a \in Rules, NEW b \in Rules, NEW c \in Rules, NEW d \in Rules, NEW e \in Rules PROVE Has(A \cap {a, b, c, d, e})
  <2>1. {a, b, c, d} \in SUBSET Rules /\ {a, b, c, d} \cup {e} = {a, b, c, d, e}
    OBVIOUS
  <2>2. Has(A \cap {a, b, c, d})
    BY <1>8
  <2> QED BY <1>4, <2>1, <2>2
<1>10. Has(A \cap Rules)
  <2> DEFINE All == {"postgres_connection_exhaustion", "redis_memory_pressure", "nginx_upstream_config", "dependency_latency",
                     "bad_config_rollout"}
  <2>1. \A r \in All : r \in Rules
    BY Table
  <2>2. Has(A \cap All)
    BY <1>9, <2>1, Zenon
  <2> QED BY <2>2, Table
<1>11. A \cap Rules = A
  BY DEF A
<1> QED BY <1>10, <1>11 DEF Has, Best, s, A

\* It is unique.
LEMMA BestUnique ==
    ASSUME NEW answers, DOMAIN answers \in SUBSET Rules, NEW r, NEW q, Best(answers, r), Best(answers, q)
    PROVE  r = q
<1> SUFFICES ASSUME r # q PROVE FALSE
  OBVIOUS
<1> DEFINE a == scoreRule(r, answers[r])
           b == scoreRule(q, answers[q])
<1>1. RanksBefore(a, b) /\ RanksBefore(b, a) /\ r \in Rules /\ q \in Rules
  BY Zenon DEF Best
<1>2. IsRank(a) /\ IsRank(b)
  BY <1>1, ScoreRank
<1> HIDE DEF a, b
<1> QED BY <1>1, <1>2, RankOrder

\* scoreHypotheses reports the best hypothesis.
Reported(alerts, r, a) ==
    [rule |-> r, scored |-> a.confidence, confidence |-> a.confidence, cap |-> a.cap, contradicted |-> a.contradicted,
     candidates |-> IF a.contradicted THEN diagnostics(primaryMatch(alerts, r)) ELSE renderCandidates(alerts, r)]

\* What scoreHypotheses chooses is the best of the matched rules.
LEMMA BestReported ==
    ASSUME NEW alerts, NEW answers, DOMAIN answers \in SUBSET Rules, DOMAIN answers # {}
    PROVE  \E r : Best(answers, r) /\ scoreHypotheses(alerts, answers) = Reported(alerts, r, scoreRule(r, answers[r]))
<1> DEFINE s(r) == scoreRule(r, answers[r])
           scores == {s(r) : r \in DOMAIN answers}
           best == CHOOSE a \in scores : \A b \in scores \ {a} : RanksBefore(a, b)
<1>1. \A r \in DOMAIN answers : s(r).rule = r
  BY ScoreRank
<1>2. PICK r : r \in DOMAIN answers /\ \A q \in DOMAIN answers \ {r} : RanksBefore(s(r), s(q))
  BY BestExists, SMTT(30) DEF Best
<1>3. scoreHypotheses(alerts, answers) = Reported(alerts, best.rule, best)
  <2>1. scores # {}
    OBVIOUS
  <2> QED BY <2>1 DEF scoreHypotheses, Reported
<1> HIDE DEF s
<1>4. s(r) \in scores /\ \A b \in scores \ {s(r)} : RanksBefore(s(r), b)
  BY <1>2, Zenon
<1>5. best \in scores /\ \A b \in scores \ {best} : RanksBefore(best, b)
  <2> HIDE DEF scores
  <2> QED BY <1>4, Zenon
<1> HIDE DEF best
<1>6. PICK q \in DOMAIN answers : best = s(q)
  BY <1>5
<1>7. ASSUME NEW p \in DOMAIN answers \ {q} PROVE RanksBefore(s(q), s(p))
  <2>1. s(p) \in scores /\ s(p) # s(q)
    BY <1>1, Zenon
  <2> HIDE DEF scores
  <2> QED BY <1>5, <1>6, <2>1, Zenon
<1>8. Best(answers, q)
  BY <1>7, Zenon DEF Best, s
<1>9. scoreHypotheses(alerts, answers) = Reported(alerts, q, s(q))
  BY <1>1, <1>3, <1>6
<1> QED BY <1>8, <1>9 DEF s

\* A set of places has a first one.
LEMMA MinIn ==
    ASSUME NEW T, T \in SUBSET Nat, T # {}
    PROVE  Min(T) \in T
<1>1. PICK n \in T : \A y \in T : ~(<<y, n>> \in OpToRel(<, Nat))
  BY NatLessThanWellFounded, WFMin
<1>2. ASSUME NEW m \in T PROVE n <= m
  <2>1. ~(m < n)
    BY <1>1 DEF OpToRel
  <2> QED BY <2>1, SMT
<1> QED BY <1>2 DEF Min

\* The remediations proposed for a rule are for the service that it probes.
LEMMA CandidateFacts ==
    ASSUME NEW alerts \in Seq(Signals), NEW r, matches(alerts, r) # {}
    PROVE  \A c \in renderCandidates(alerts, r) : c.action = "collect_diagnostics" \/ c.target = primaryMatch(alerts, r)
<1> DEFINE M == matches(alerts, r)
           own == {i \in M : alerts[i].service = IncidentService}
           P == primaryMatch(alerts, r)
           J == {i \in M : alerts[i].service = P}
           match == alerts[Min(J)]
           candidates == UNION {Render(a, match) : a \in DefaultRules[r].remediations}
<1>1. DOMAIN alerts \in SUBSET Nat
  BY SMT
<1>2. M \in SUBSET Nat
  BY <1>1 DEF matches
<1>3. PICK i \in M : P = alerts[i].service
  <2> DEFINE T == IF own # {} THEN own ELSE M
  <2>1. T \in SUBSET M /\ T # {}
    OBVIOUS
  <2>2. Min(T) \in T
    BY <1>2, <2>1, MinIn, Zenon
  <2>3. P = alerts[Min(T)].service
    BY DEF primaryMatch
  <2> QED BY <2>1, <2>2, <2>3, Zenon
<1>4. Min(J) \in J
  <2>1. J \in SUBSET Nat /\ J # {}
    BY <1>2, <1>3, Zenon
  <2> HIDE DEF J
  <2> QED BY <2>1, MinIn
<1>5. match.service = P
  BY <1>4
<1>6. renderCandidates(alerts, r) = IF candidates = {} THEN diagnostics(match.service) ELSE candidates
  BY DEF renderCandidates
<1> HIDE DEF P, match
<1>7. \A c \in candidates : c.target = P
  BY <1>5 DEF Render
<1>8. \A c \in diagnostics(match.service) : c.action = "collect_diagnostics"
  BY DEF diagnostics
<1> HIDE DEF candidates
<1>9. \A c \in renderCandidates(alerts, r) : c.action = "collect_diagnostics" \/ c.target = P
  BY <1>6, <1>7, <1>8
<1> QED BY <1>9 DEF P

\* The signals select the rules whose probes are answered.
IsAnswer(alerts, answers) ==
    /\ alerts \in Seq(Signals)
    /\ DOMAIN answers = {selected(alerts[i]) : i \in Match(alerts)}
    /\ \A r \in DOMAIN answers : DOMAIN answers[r] = DOMAIN DefaultRules[r].probes

\* Every rule that is answered is one of the table and has matching alerts.
LEMMA AnswerFacts ==
    ASSUME NEW alerts, NEW answers, IsAnswer(alerts, answers)
    PROVE  DOMAIN answers \in SUBSET Rules /\ \A r \in DOMAIN answers : matches(alerts, r) # {}
BY Zenon DEF IsAnswer, Match, matches

\* The report of an analysis.
ReportOf(alerts, answers) == enrichWithTopology(alerts, applyTopologyFallback(alerts, scoreHypotheses(alerts, answers)))
Bonus(alerts) == SuppressedAlertCount(alerts) # 0 /\ ~RootInferred(alerts)
Final(alerts, a) ==
    IF Bonus(alerts) /\ ~a.contradicted THEN clamp(a.confidence + 30, BaselineConfidence, a.cap) ELSE a.confidence

\* Without a rule the report proposes diagnostics, whatever the topology says.
LEMMA NoneReported ==
    ASSUME NEW alerts, NEW answers, DOMAIN answers = {}
    PROVE  LET x == ReportOf(alerts, answers)
           IN  /\ x.rule = "none" /\ x.candidates = diagnostics(IncidentService) /\ x.confidence <= 720
               /\ SuppressedAlertCount(alerts) = 0 => x = insufficientEvidence
<1>1. scoreHypotheses(alerts, answers) = insufficientEvidence
  BY DEF scoreHypotheses
<1> DEFINE y == applyTopologyFallback(alerts, insufficientEvidence)
<1>2. /\ y.rule = "none" /\ y.candidates = diagnostics(IncidentService) /\ y.confidence <= 720
      /\ SuppressedAlertCount(alerts) = 0 => y = insufficientEvidence
  BY SMT DEF applyTopologyFallback, insufficientEvidence, BaselineConfidence
<1> HIDE DEF y
<1>3. enrichWithTopology(alerts, y) = y
  BY <1>2, SMTT(30) DEF enrichWithTopology
<1> QED BY <1>1, <1>2, <1>3 DEF ReportOf, y

\* With one it is the best rule, its confidence raised by the topology at most.
LEMMA RuleReported ==
    ASSUME NEW alerts, NEW answers, DOMAIN answers \in SUBSET Rules, DOMAIN answers # {}
    PROVE  \E r : /\ Best(answers, r)
                  /\ LET x == ReportOf(alerts, answers)
                         a == scoreRule(r, answers[r])
                     IN  /\ x.rule = r /\ x.scored = a.confidence /\ x.confidence = Final(alerts, a)
                         /\ x.candidates = Reported(alerts, r, a).candidates
<1>1. PICK r : Best(answers, r) /\ scoreHypotheses(alerts, answers) = Reported(alerts, r, scoreRule(r, answers[r]))
  BY BestReported, SMTT(30)
<1> DEFINE a == scoreRule(r, answers[r])
           y == Reported(alerts, r, a)
<1>2. y.rule = r /\ y.scored = a.confidence /\ y.confidence = a.confidence /\ y.cap = a.cap /\ y.contradicted = a.contradicted
  BY DEF Reported
<1>3. r # "none"
  BY <1>1, Table DEF Best
<1>4. DOMAIN y = {"rule", "scored", "confidence", "cap", "contradicted", "candidates"}
  BY DEF Reported
<1> HIDE DEF y, a
<1>5. applyTopologyFallback(alerts, y) = y
  BY <1>2, <1>3 DEF applyTopologyFallback
<1> DEFINE x == enrichWithTopology(alerts, y)
<1>6. x.rule = r /\ x.scored = a.confidence /\ x.confidence = Final(alerts, a) /\ x.candidates = y.candidates
  BY <1>2, <1>3, <1>4 DEF enrichWithTopology, Final, Bonus
<1> QED BY <1>1, <1>5, <1>6 DEF ReportOf, a, y

\* No confidence is above the cap.
LEMMA FinalCapped ==
    ASSUME NEW alerts, NEW r \in Rules, NEW status
    PROVE  LET a == scoreRule(r, status) IN Final(alerts, a) \in Int /\ Final(alerts, a) <= a.cap
<1> DEFINE a == scoreRule(r, status)
<1>1. IsScore(a, r, status)
  BY ScoreFacts
<1> HIDE DEF a
<1>2. a.confidence \in Int /\ a.confidence <= a.cap /\ a.cap \in {550, 800, 950}
  BY <1>1 DEF IsScore
<1>3. Final(alerts, a) \in Int /\ Final(alerts, a) <= a.cap
  BY <1>2, SMT DEF Final, clamp, BaselineConfidence
<1> QED BY <1>3 DEF a

\* A cap above 0.55 has a backend behind it, one above 0.80 both.
LEMMA CapBacked ==
    ASSUME NEW r \in Rules, NEW status
    PROVE  LET a == scoreRule(r, status)
           IN  (a.cap > 550 => backends(r, status) # {}) /\ (a.cap > 800 => backends(r, status) = {"prometheus", "loki"})
<1> DEFINE a == scoreRule(r, status)
           B == backends(r, status)
<1>1. IsScore(a, r, status)
  BY ScoreFacts
<1> HIDE DEF a
<1>2. B \in SUBSET {"prometheus", "loki"} /\ a.cap = SourceCap(1 + Cardinality(B))
  BY <1>1 DEF IsScore
<1>3. /\ Cardinality({}) = 0 /\ Cardinality({"prometheus"}) = 1 /\ Cardinality({"loki"}) = 1
  BY FS_EmptySet, FS_Singleton
<1>4. SourceCap(1 + 0) = 550 /\ SourceCap(1 + 1) = 800
  BY SMT DEF SourceCap
<1>5. ~(550 > 550) /\ ~(550 > 800) /\ ~(800 > 800)
  BY SMT
<1> HIDE DEF B
<1>6. B = {} \/ B = {"prometheus"} \/ B = {"loki"} \/ B = {"prometheus", "loki"}
  BY <1>2
<1>7. {"prometheus", "loki"} # {} /\ {"prometheus"} # {} /\ {"loki"} # {}
  OBVIOUS
<1> QED BY <1>2, <1>3, <1>4, <1>5, <1>6, <1>7 DEF a, B

\* The report is that of the signals and answers, and is supported by them.
ReportInv == IsAnswer(signals, results) /\ report = ReportOf(signals, results)

\* A report made by ReportOf proposes no more than the answers support.
LEMMA ReportFacts ==
    ASSUME ReportInv
    PROVE  ReportSupported
<1>1. \A service : \A c \in diagnostics(service) : c.action = "collect_diagnostics"
  BY DEF diagnostics
<1>2. CASE DOMAIN results = {}
  <2>1. report.rule = "none" /\ report.candidates = diagnostics(IncidentService) /\ report.confidence <= 720
    BY <1>2, NoneReported DEF ReportInv
  <2> QED BY <1>1, <2>1, Zenon DEF ReportSupported
<1>3. CASE DOMAIN results # {}
  <2>1. PICK r : /\ Best(results, r) /\ report.rule = r /\ report.confidence = Final(signals, scoreRule(r, results[r]))
                 /\ report.candidates = Reported(signals, r, scoreRule(r, results[r])).candidates
    BY <1>3, AnswerFacts, RuleReported, SMTT(30) DEF ReportInv
  <2> DEFINE a == scoreRule(r, results[r])
             acts == {c \in report.candidates : c.action # "collect_diagnostics"}
  <2>2. r \in DOMAIN results /\ r \in Rules /\ r # "none"
    BY <2>1, AnswerFacts, Table DEF Best, ReportInv
  <2>3. IsScore(a, r, results[r])
    BY <2>2, ScoreFacts, SMTT(30)
  <2>4. report.candidates = IF a.contradicted THEN diagnostics(primaryMatch(signals, r)) ELSE renderCandidates(signals, r)
    BY <2>1 DEF Reported
  <2>5. \A c \in acts : c.target = primaryMatch(signals, r)
    <3>1. \A c \in renderCandidates(signals, r) : c.action = "collect_diagnostics" \/ c.target = primaryMatch(signals, r)
      BY <2>2, AnswerFacts, CandidateFacts DEF IsAnswer, ReportInv
    <3> QED BY <1>1, <2>4, <3>1, Zenon
  <2>6. acts # {} => weight(r, results[r], "refuted") <= weight(r, results[r], "corroborated")
    <3>1. a.contradicted => acts = {}
      BY <1>1, <2>4, Zenon
    <3>2. weight(r, results[r], "refuted") \in Nat /\ weight(r, results[r], "corroborated") \in Nat
      BY <2>2, WeightNat
    <3> HIDE DEF a, acts
    <3>3. a.contradicted <=> weight(r, results[r], "refuted") > weight(r, results[r], "corroborated")
      BY <2>3 DEF IsScore
    <3> QED BY <3>1, <3>2, <3>3, SMT
  <2>7. /\ report.confidence > 550 => backends(r, results[r]) # {}
        /\ report.confidence > 800 => backends(r, results[r]) = {"prometheus", "loki"}
    <3>1. report.confidence \in Int /\ report.confidence <= a.cap
      BY <2>1, <2>2, FinalCapped
    <3>2. (a.cap > 550 => backends(r, results[r]) # {}) /\ (a.cap > 800 => backends(r, results[r]) = {"prometheus", "loki"})
      BY <2>2, CapBacked
    <3>3. a.cap \in Int
      BY <2>3, SMT DEF IsScore
    <3> HIDE DEF a
    <3> QED BY <3>1, <3>2, <3>3, SMT
  <2> QED BY <2>1, <2>2, <2>5, <2>6, <2>7 DEF ReportSupported
<1> QED BY <1>2, <1>3


\* It is analysed anew whenever an alert or an answer comes in.
LEMMA ReportInit == NoAlerts => ReportInv
<1> SUFFICES ASSUME NoAlerts PROVE ReportInv
  OBVIOUS
<1>1. Match(<<>>) = {}
  BY DEF Match
<1>2. IsAnswer(<<>>, Unanswered(<<>>)) /\ DOMAIN Unanswered(<<>>) = {}
  BY <1>1 DEF IsAnswer, Unanswered
<1>3. SuppressedAlertCount(<<>>) = 0
  <2>1. {i \in DOMAIN <<>> : <<>>[i].service # IncidentService} = {}
    OBVIOUS
  <2> QED BY <2>1, FS_EmptySet DEF SuppressedAlertCount
<1> QED BY <1>2, <1>3, NoneReported DEF NoAlerts, ReportInv

\* Every observed alert and every answer is followed by a new analysis.
LEMMA ReportStep ==
    ASSUME ReportInv, [Analysis]_<<signals, results, report>>
    PROVE  ReportInv'
<1>1. ASSUME NEW alerts, NEW answers, analyze(alerts, answers), IsAnswer(alerts, answers) PROVE ReportInv'
  BY <1>1 DEF analyze, ReportInv, ReportOf
<1>2. ASSUME NEW signal \in Signals, Observe(signal) PROVE ReportInv'
  <2> DEFINE alerts == Append(signals, signal)
  <2>1. alerts \in Seq(Signals)
    BY DEF ReportInv, IsAnswer
  <2> HIDE DEF alerts
  <2>2. IsAnswer(alerts, Unanswered(alerts))
    BY <2>1 DEF IsAnswer, Unanswered
  <2> QED BY <1>1, <1>2, <2>2 DEF Observe, alerts
<1>3. ASSUME NEW rule \in DOMAIN results, NEW i \in DOMAIN results[rule], NEW status, runOne(rule, i, status)
      PROVE  ReportInv'
  <2>1. IsAnswer(signals, [results EXCEPT ![rule][i] = status])
    BY DEF ReportInv, IsAnswer
  <2> QED BY <1>1, <1>3, <2>1 DEF runOne
<1>4. CASE UNCHANGED <<signals, results, report>>
  BY <1>4 DEF ReportInv, IsAnswer, ReportOf
<1> QED BY <1>2, <1>3, <1>4 DEF Analysis

\* For any alerts and any answers of the backends, a report proposes no more than
\* they support.
THEOREM ReportSafety ==
    NoAlerts /\ [][Analysis]_<<signals, results, report>> => []ReportSupported
<1>1. ReportInv /\ [Analysis]_<<signals, results, report>> => ReportInv'
  BY ReportStep
<1>2. ReportInv => ReportSupported
  BY ReportFacts
<1> QED BY <1>1, <1>2, ReportInit, PTL

-----------------------------------------------------------------------------
(* Evidence counts the way it points.                                      *)

\* What the answers of one rule amount to: no probe counts both ways.
Amounts == {<<200, 100, 200>>, <<200, 150, 150>>, <<200, 150, 0>>, <<250, 100, 0>>}

\* The two weights of a rule come from disjoint sets of its probes.
LEMMA WeightSplit ==
    ASSUME NEW r \in Rules, NEW status
    PROVE  \E w \in Amounts, C \in SUBSET (1..3), D \in SUBSET (1..3) :
              LET n(S, i) == IF i \in S THEN w[i] ELSE 0
              IN  /\ C \cap D = {}
                  /\ weight(r, status, "corroborated") = n(C, 1) + n(C, 2) + n(C, 3)
                  /\ weight(r, status, "refuted") = n(D, 1) + n(D, 2) + n(D, 3)
<1> DEFINE probes == DefaultRules[r].probes
           counted(wanted, i) == IF i \in DOMAIN probes /\ status[i] = wanted THEN probes[i].weight ELSE 0
           S(wanted) == {i \in 1..3 : status[i] = wanted}
<1>1. \A wanted : weight(r, status, wanted) = counted(wanted, 1) + counted(wanted, 2) + counted(wanted, 3)
  BY DEF weight
<1>2. PICK w \in Amounts : \A i \in 1..3 : w[i] = IF i \in DOMAIN probes THEN probes[i].weight ELSE 0
  <2>1. CASE Weighs(r, <<200, 100, 200>>)
    <3>1. \A i \in 1..3 : <<200, 100, 200>>[i] = IF i \in DOMAIN probes THEN probes[i].weight ELSE 0
      BY <2>1, SMT DEF Weighs
    <3> QED BY <3>1 DEF Amounts
  <2>2. CASE Weighs(r, <<200, 150, 150>>)
    <3>1. \A i \in 1..3 : <<200, 150, 150>>[i] = IF i \in DOMAIN probes THEN probes[i].weight ELSE 0
      BY <2>2, SMT DEF Weighs
    <3> QED BY <3>1 DEF Amounts
  <2>3. CASE Weighs(r, <<200, 150>>)
    <3>1. \A i \in 1..3 : <<200, 150, 0>>[i] = IF i \in DOMAIN probes THEN probes[i].weight ELSE 0
      BY <2>3, SMT DEF Weighs
    <3> QED BY <3>1 DEF Amounts
  <2>4. CASE Weighs(r, <<250, 100>>)
    <3>1. \A i \in 1..3 : <<250, 100, 0>>[i] = IF i \in DOMAIN probes THEN probes[i].weight ELSE 0
      BY <2>4, SMT DEF Weighs
    <3> QED BY <3>1 DEF Amounts
  <2> QED BY <2>1, <2>2, <2>3, <2>4, Table
<1>3. \A wanted, i : i \in 1..3 => counted(wanted, i) = IF status[i] = wanted THEN w[i] ELSE 0
  BY <1>2, Zenon
<1> HIDE DEF counted
<1>4. 1 \in 1..3 /\ 2 \in 1..3 /\ 3 \in 1..3
  BY SMT
<1>5. \A wanted : /\ S(wanted) \in SUBSET (1..3)
                  /\ \A i \in 1..3 : i \in S(wanted) <=> status[i] = wanted
  BY Zenon
<1>6. S("corroborated") \cap S("refuted") = {}
  OBVIOUS
<1>7. \A wanted, i : i \in 1..3 => counted(wanted, i) = IF i \in S(wanted) THEN w[i] ELSE 0
  BY <1>3, <1>5, Zenon
<1> HIDE DEF S
<1>8. \A wanted : weight(r, status, wanted) =   (IF 1 \in S(wanted) THEN w[1] ELSE 0)
                                              + (IF 2 \in S(wanted) THEN w[2] ELSE 0)
                                              + (IF 3 \in S(wanted) THEN w[3] ELSE 0)
  BY <1>1, <1>4, <1>7, Zenon
<1> QED BY <1>5, <1>6, <1>8, Zenon

\* A contradicted hypothesis scores 0.50 at most.
LEMMA ContradictedLow ==
    ASSUME NEW r \in Rules, NEW status, scoreRule(r, status).contradicted
    PROVE  scoreRule(r, status).confidence <= 500
<1> DEFINE corroborated == weight(r, status, "corroborated")
           refuted == weight(r, status, "refuted")
           a == scoreRule(r, status)
<1>1. PICK w \in Amounts, C \in SUBSET (1..3), D \in SUBSET (1..3) :
         LET n(S, i) == IF i \in S THEN w[i] ELSE 0
         IN  /\ C \cap D = {}
             /\ corroborated = n(C, 1) + n(C, 2) + n(C, 3)
             /\ refuted = n(D, 1) + n(D, 2) + n(D, 3)
  BY WeightSplit
<1>2. a.confidence = clamp(AlertMatchScore + corroborated - refuted \div 2, BaselineConfidence, a.cap)
  BY DEF scoreRule
<1>3. IsScore(a, r, status) /\ a.contradicted
  BY ScoreFacts
<1>4. a.cap \in {550, 800, 950} /\ refuted > corroborated
  BY <1>3 DEF IsScore
<1> HIDE DEF a, corroborated, refuted
<1>5. corroborated \in Nat /\ refuted \in Nat /\ (refuted > corroborated => corroborated - refuted \div 2 <= 50)
  <2> DEFINE n(S, i) == IF i \in S THEN w[i] ELSE 0
  <2>1. \A i \in 1..3 : n(C, i) = 0 \/ n(D, i) = 0
    BY <1>1, Zenon
  <2>2. \A i \in 1..3 : n(C, i) \in {0, w[i]} /\ n(D, i) \in {0, w[i]}
    BY Zenon
  <2>3. corroborated = n(C, 1) + n(C, 2) + n(C, 3) /\ refuted = n(D, 1) + n(D, 2) + n(D, 3)
    BY <1>1
  <2> HIDE DEF n
  <2>4. CASE w = <<200, 100, 200>>
    BY <2>1, <2>2, <2>3, <2>4, SMT
  <2>5. CASE w = <<200, 150, 150>>
    BY <2>1, <2>2, <2>3, <2>5, SMT
  <2>6. CASE w = <<200, 150, 0>>
    BY <2>1, <2>2, <2>3, <2>6, SMT
  <2>7. CASE w = <<250, 100, 0>>
    BY <2>1, <2>2, <2>3, <2>7, SMT
  <2> QED BY <2>4, <2>5, <2>6, <2>7 DEF Amounts
<1>6. a.confidence <= 500
  BY <1>2, <1>4, <1>5, SMT DEF clamp, AlertMatchScore, BaselineConfidence
<1> QED BY <1>6 DEF a

\* One more answer: what it adds, and what it leaves alone.
LEMMA AnswerAdds ==
    ASSUME NEW r \in Rules, NEW status, DOMAIN status = DOMAIN DefaultRules[r].probes, NEW i \in DOMAIN status,
           NEW new \in {"corroborated", "refuted"}, status[i] = "unavailable"
    PROVE  LET next == [status EXCEPT ![i] = new]
               other == IF new = "corroborated" THEN "refuted" ELSE "corroborated"
           IN  /\ weight(r, next, new) >= weight(r, status, new) + 100
               /\ weight(r, next, other) = weight(r, status, other)
               /\ backends(r, status) \in SUBSET backends(r, next)
               /\ new = "refuted" => backends(r, next) = backends(r, status)
<1> DEFINE probes == DefaultRules[r].probes
           next == [status EXCEPT ![i] = new]
           other == IF new = "corroborated" THEN "refuted" ELSE "corroborated"
           counted(st, wanted, j) == IF j \in DOMAIN probes /\ st[j] = wanted THEN probes[j].weight ELSE 0
<1>1. \A st, wanted : weight(r, st, wanted) = counted(st, wanted, 1) + counted(st, wanted, 2) + counted(st, wanted, 3)
  BY DEF weight
<1>2. next[i] = new /\ \A j \in DOMAIN probes : j # i => next[j] = status[j]
  OBVIOUS
<1>3. new # other /\ new # "unavailable" /\ other # "unavailable" /\ (new = "refuted" => new # "corroborated")
  OBVIOUS
<1>4. probes[i].weight \in Nat /\ probes[i].weight >= 100 /\ i \in {1, 2, 3}
  <2>1. \/ Weighs(r, <<200, 100, 200>>) \/ Weighs(r, <<200, 150, 150>>)
        \/ Weighs(r, <<200, 150>>) \/ Weighs(r, <<250, 100>>)
    BY Table
  <2>2. CASE Weighs(r, <<200, 100, 200>>)
    BY <2>2, SMT DEF Weighs
  <2>3. CASE Weighs(r, <<200, 150, 150>>)
    BY <2>3, SMT DEF Weighs
  <2>4. CASE Weighs(r, <<200, 150>>)
    BY <2>4, SMT DEF Weighs
  <2>5. CASE Weighs(r, <<250, 100>>)
    BY <2>5, SMT DEF Weighs
  <2> QED BY <2>1, <2>2, <2>3, <2>4, <2>5
<1>5. \A st, wanted, j : counted(st, wanted, j) \in Nat
  BY ProbeFacts, Zenon
<1> HIDE DEF next, other
<1>6. /\ counted(next, new, i) = probes[i].weight /\ counted(status, new, i) = 0
      /\ counted(next, other, i) = 0 /\ counted(status, other, i) = 0
      /\ \A wanted, j : j # i => counted(next, wanted, j) = counted(status, wanted, j)
  BY <1>2, <1>3, Zenon
<1> HIDE DEF counted
<1>7. /\ weight(r, next, new) >= weight(r, status, new) + 100
      /\ weight(r, next, other) = weight(r, status, other)
  BY <1>1, <1>4, <1>5, <1>6, SMT
<1>8. backends(r, status) \in SUBSET backends(r, next)
  BY <1>2, <1>3, Zenon DEF backends
<1>9. new = "refuted" => backends(r, next) = backends(r, status)
  <2>1. ASSUME new = "refuted", NEW j \in DOMAIN probes
        PROVE  next[j] = "corroborated" <=> status[j] = "corroborated"
    BY <1>2, <1>3, <2>1
  <2> QED BY <2>1, Zenon DEF backends
<1> QED BY <1>7, <1>8, <1>9 DEF next, other

\* b is no worse than a: an answer moves the score of its rule this way.
AtLeast(b, a) ==
    /\ b.rule = a.rule /\ (b.contradicted => a.contradicted)
    /\ b.confidence >= a.confidence /\ b.sources >= a.sources /\ b.cap >= a.cap

\* More corroboration, less refutation and more backends make no score worse.
LEMMA ScoreMonotone ==
    ASSUME NEW r \in Rules, NEW s, NEW t,
           weight(r, t, "corroborated") >= weight(r, s, "corroborated"), weight(r, t, "refuted") <= weight(r, s, "refuted"),
           backends(r, s) \in SUBSET backends(r, t)
    PROVE  AtLeast(scoreRule(r, t), scoreRule(r, s))
<1> DEFINE a == scoreRule(r, s)
           b == scoreRule(r, t)
           value(st) == AlertMatchScore + weight(r, st, "corroborated") - weight(r, st, "refuted") \div 2
<1>1. IsScore(a, r, s) /\ IsScore(b, r, t)
  BY ScoreFacts, SMTT(30)
<1>2. a.confidence = clamp(value(s), BaselineConfidence, a.cap) /\ b.confidence = clamp(value(t), BaselineConfidence, b.cap)
  BY DEF scoreRule
<1>3. /\ weight(r, s, "corroborated") \in Nat /\ weight(r, s, "refuted") \in Nat
      /\ weight(r, t, "corroborated") \in Nat /\ weight(r, t, "refuted") \in Nat
  BY WeightNat
<1>4. value(s) \in Int /\ value(t) \in Int /\ value(s) <= value(t)
  BY <1>3, SMT DEF AlertMatchScore
<1> HIDE DEF a, b, value
<1>5. b.sources >= a.sources
  <2>0. IsFiniteSet(backends(r, s)) /\ IsFiniteSet(backends(r, t))
    <3>1. ASSUME NEW x, NEW st, IsScore(x, r, st) PROVE IsFiniteSet(backends(r, st))
      BY <3>1, ZenonT(30) DEF IsScore
    <3> HIDE DEF IsScore
    <3> QED BY <1>1, <3>1, Zenon
  <2>1. Cardinality(backends(r, s)) <= Cardinality(backends(r, t))
    BY <2>0, FS_Subset, Zenon
  <2>2. Cardinality(backends(r, s)) \in Nat /\ Cardinality(backends(r, t)) \in Nat
    BY <2>0, FS_CardinalityType, Zenon
  <2>3. a.sources = 1 + Cardinality(backends(r, s)) /\ b.sources = 1 + Cardinality(backends(r, t))
    BY <1>1 DEF IsScore
  <2> QED BY <2>1, <2>2, <2>3, SMT
<1>6. b.cap >= a.cap
  <2>1. a.sources \in 1..3 /\ b.sources \in 1..3 /\ a.cap = SourceCap(a.sources) /\ b.cap = SourceCap(b.sources)
    BY <1>1 DEF IsScore
  <2> QED BY <1>5, <2>1, SMT DEF SourceCap
<1>7. b.confidence >= a.confidence
  <2>1. a.cap \in {550, 800, 950} /\ b.cap \in {550, 800, 950}
    BY <1>1 DEF IsScore
  <2> QED BY <1>2, <1>4, <1>6, <2>1, SMTT(30) DEF clamp, BaselineConfidence
<1>8. b.rule = a.rule /\ (b.contradicted => a.contradicted)
  <2>1. (weight(r, t, "refuted") > weight(r, t, "corroborated")) => weight(r, s, "refuted") > weight(r, s, "corroborated")
    BY <1>3, SMT
  <2>2. /\ a.rule = r /\ (a.contradicted <=> weight(r, s, "refuted") > weight(r, s, "corroborated"))
        /\ b.rule = r /\ (b.contradicted <=> weight(r, t, "refuted") > weight(r, t, "corroborated"))
    <3>1. ASSUME NEW x, NEW st, IsScore(x, r, st)
          PROVE  x.contradicted <=> weight(r, st, "refuted") > weight(r, st, "corroborated")
      BY <3>1, ZenonT(30) DEF IsScore
    <3>2. a.rule = r /\ b.rule = r
      BY <1>1 DEF IsScore
    <3> QED BY <1>1, <3>1, <3>2, Zenon
  <2> QED BY <2>1, <2>2, Zenon
<1> QED BY <1>5, <1>6, <1>7, <1>8 DEF AtLeast, a, b

\* A score that is no worse ranks no later, and is reported with no less.
LEMMA AtLeastRank ==
    ASSUME NEW a, NEW b, NEW x, IsRank(a), IsRank(b), IsRank(x), AtLeast(b, a)
    PROVE  RanksBefore(a, x) => RanksBefore(b, x)
<1> DEFINE h(y) == DefaultRules[y.rule].hypothesis
<1>1. h(a) \in Nat /\ h(x) \in Nat /\ h(b) = h(a)
  BY Names DEF IsRank, AtLeast
<1>2. \A y, z : RanksBefore(y, z) <=>
         \/ ~y.contradicted /\ z.contradicted
         \/ /\ y.contradicted = z.contradicted
            /\ \/ y.confidence > z.confidence
               \/ y.confidence = z.confidence /\ y.sources > z.sources
               \/ y.confidence = z.confidence /\ y.sources = z.sources /\ h(y) < h(z)
  BY DEF RanksBefore
<1> HIDE DEF h
<1> QED BY <1>1, <1>2, SMT DEF IsRank, AtLeast

\* The topology bonus does not turn the order of two scores of one rule.
LEMMA FinalMonotone ==
    ASSUME NEW alerts, NEW r \in Rules, NEW s, NEW t, AtLeast(scoreRule(r, t), scoreRule(r, s))
    PROVE  Final(alerts, scoreRule(r, t)) >= Final(alerts, scoreRule(r, s))
<1> DEFINE a == scoreRule(r, s)
           b == scoreRule(r, t)
<1>1. IsScore(a, r, s) /\ IsScore(b, r, t)
  BY ScoreFacts, SMTT(30)
<1> HIDE DEF a, b
<1>2. /\ a.confidence \in Int /\ 350 <= a.confidence /\ a.confidence <= a.cap /\ a.cap \in {550, 800, 950}
      /\ b.confidence \in Int /\ 350 <= b.confidence /\ b.confidence <= b.cap /\ b.cap \in {550, 800, 950}
  BY <1>1 DEF IsScore, BaselineConfidence
<1>3. (b.contradicted => a.contradicted) /\ b.confidence >= a.confidence /\ b.cap >= a.cap
  BY DEF AtLeast, a, b
<1>4. Final(alerts, b) >= Final(alerts, a)
  BY <1>2, <1>3, SMT DEF Final, clamp, BaselineConfidence
<1> QED BY <1>4 DEF a, b

\* One more answer of rule r: only its score moves.
OneMore(answers, next, r, i, new) ==
    /\ DOMAIN answers \in SUBSET Rules /\ r \in DOMAIN answers
    /\ DOMAIN answers[r] = DOMAIN DefaultRules[r].probes /\ i \in DOMAIN answers[r]
    /\ answers[r][i] = "unavailable"
    /\ next = [answers EXCEPT ![r][i] = new]

\* A corroborating answer makes no score worse and, unless the rule is still
\* contradicted, at least 0.50.
LEMMA Corroborated ==
    ASSUME NEW answers, NEW next, NEW r, NEW i, OneMore(answers, next, r, i, "corroborated")
    PROVE  LET a == scoreRule(r, answers[r])
               b == scoreRule(r, next[r])
           IN  AtLeast(b, a) /\ (~b.contradicted => b.confidence >= 500)
<1> DEFINE s == answers[r]
           t == next[r]
           b == scoreRule(r, t)
<1>1. r \in Rules /\ DOMAIN s = DOMAIN DefaultRules[r].probes /\ i \in DOMAIN s /\ s[i] = "unavailable"
  BY DEF OneMore
<1>2. t = [s EXCEPT ![i] = "corroborated"]
  BY DEF OneMore
<1> HIDE DEF s, t
<1>3. /\ weight(r, t, "corroborated") >= weight(r, s, "corroborated") + 100
      /\ weight(r, t, "refuted") = weight(r, s, "refuted")
      /\ backends(r, s) \in SUBSET backends(r, t)
  BY <1>1, <1>2, AnswerAdds
<1>4. /\ weight(r, s, "corroborated") \in Nat /\ weight(r, s, "refuted") \in Nat
      /\ weight(r, t, "corroborated") \in Nat /\ weight(r, t, "refuted") \in Nat
  BY <1>1, WeightNat
<1>5. weight(r, t, "corroborated") >= weight(r, s, "corroborated") /\ weight(r, t, "refuted") <= weight(r, s, "refuted")
  BY <1>3, <1>4, SMT
<1>6. AtLeast(b, scoreRule(r, s))
  BY <1>1, <1>3, <1>5, ScoreMonotone
<1>7. ~b.contradicted => b.confidence >= 500
  <2> DEFINE c == weight(r, t, "corroborated")
             d == weight(r, t, "refuted")
  <2>1. b.confidence = clamp(AlertMatchScore + c - d \div 2, BaselineConfidence, b.cap)
    BY DEF scoreRule
  <2>2. IsScore(b, r, t)
    BY <1>1, ScoreFacts
  <2> HIDE DEF b
  <2>3. b.cap \in {550, 800, 950}
    BY <2>2 DEF IsScore
  <2>4. b.contradicted <=> d > c
    BY <2>2, ZenonT(30) DEF IsScore
  <2>5. c \in Nat /\ d \in Nat /\ c >= 100
    BY <1>3, <1>4, SMT
  <2> HIDE DEF c, d
  <2> SUFFICES ASSUME ~(d > c) PROVE b.confidence >= 500
    BY <2>4, Zenon
  <2> QED BY <2>1, <2>3, <2>5, SMTT(30) DEF clamp, AlertMatchScore, BaselineConfidence
<1> QED BY <1>6, <1>7 DEF s, t

\* A refuting answer makes no score better.
LEMMA Refuted ==
    ASSUME NEW answers, NEW next, NEW r, NEW i, OneMore(answers, next, r, i, "refuted")
    PROVE  AtLeast(scoreRule(r, answers[r]), scoreRule(r, next[r]))
<1> DEFINE s == answers[r]
           t == next[r]
<1>1. r \in Rules /\ DOMAIN s = DOMAIN DefaultRules[r].probes /\ i \in DOMAIN s /\ s[i] = "unavailable"
  BY DEF OneMore
<1>2. t = [s EXCEPT ![i] = "refuted"]
  BY DEF OneMore
<1> HIDE DEF s, t
<1>3. /\ weight(r, t, "refuted") >= weight(r, s, "refuted") + 100
      /\ weight(r, t, "corroborated") = weight(r, s, "corroborated")
      /\ backends(r, s) = backends(r, t)
  BY <1>1, <1>2, AnswerAdds
<1>4. /\ weight(r, s, "corroborated") \in Nat /\ weight(r, s, "refuted") \in Nat
      /\ weight(r, t, "corroborated") \in Nat /\ weight(r, t, "refuted") \in Nat
  BY <1>1, WeightNat
<1>5. weight(r, s, "corroborated") >= weight(r, t, "corroborated") /\ weight(r, s, "refuted") <= weight(r, t, "refuted")
  BY <1>3, <1>4, SMT
<1> QED BY <1>1, <1>3, <1>5, ScoreMonotone DEF s, t

\* A corroborated rule that is the best remains so; what overtakes the best
\* scores no less.
LEMMA CorroboratedBest ==
    ASSUME NEW answers, NEW next, NEW r, NEW i, OneMore(answers, next, r, i, "corroborated"),
           NEW p, Best(answers, p), NEW q, Best(next, q)
    PROVE  /\ scoreRule(q, next[q]).confidence >= scoreRule(p, answers[p]).confidence
           /\ p = r => q = r
<1> DEFINE s(k) == scoreRule(k, answers[k])
           t(k) == scoreRule(k, next[k])
<1>1. DOMAIN answers \in SUBSET Rules /\ r \in DOMAIN answers
  BY DEF OneMore
<1>2. DOMAIN next = DOMAIN answers /\ \A k \in DOMAIN answers \ {r} : t(k) = s(k)
  <2>1. DOMAIN next = DOMAIN answers /\ \A k \in DOMAIN answers \ {r} : next[k] = answers[k]
    BY DEF OneMore
  <2> QED BY <2>1, Zenon
<1>3. AtLeast(t(r), s(r)) /\ (~t(r).contradicted => t(r).confidence >= 500)
  BY Corroborated
<1>4. \A k \in DOMAIN answers : IsRank(s(k)) /\ IsRank(t(k))
  BY <1>1, ScoreRank
<1>5. p \in DOMAIN answers /\ q \in DOMAIN answers
  BY <1>2 DEF Best
<1>6. /\ \A k \in DOMAIN answers \ {p} : RanksBefore(s(p), s(k))
      /\ \A k \in DOMAIN answers \ {q} : RanksBefore(t(q), t(k))
  BY <1>2, Zenon DEF Best
<1>7. s(p).contradicted => s(p).confidence <= 500
  BY <1>1, <1>5, ContradictedLow
<1> HIDE DEF s, t
<1>8. CASE p = r
  <2>1. \A k \in DOMAIN answers \ {r} : RanksBefore(t(r), t(k))
    BY <1>1, <1>2, <1>3, <1>4, <1>6, <1>8, AtLeastRank, Zenon
  <2>2. q = r
    BY <1>1, <1>4, <1>5, <1>6, <2>1, RankOrder, Zenon
  <2>3. t(r).confidence >= s(r).confidence
    BY <1>3 DEF AtLeast
  <2> QED BY <1>8, <2>2, <2>3 DEF s, t
<1>9. CASE p # r /\ q # r
  <2>1. q = p
    <3> SUFFICES ASSUME q # p PROVE FALSE
      OBVIOUS
    <3>1. RanksBefore(s(p), s(q)) /\ RanksBefore(t(q), t(p))
      BY <1>5, <1>6
    <3>2. t(q) = s(q) /\ t(p) = s(p)
      BY <1>2, <1>5, <1>9
    <3> QED BY <1>4, <1>5, <3>1, <3>2, RankOrder
  <2>2. t(q) = s(p)
    BY <1>2, <1>5, <1>9, <2>1, Zenon
  <2>3. t(q).confidence >= s(p).confidence
    <3>1. s(p).confidence \in Int
      BY <1>4, <1>5 DEF IsRank
    <3> QED BY <2>2, <3>1, SMTT(30)
  <2> QED BY <1>9, <2>3 DEF s, t
<1>10. CASE p # r /\ q = r
  <2>1. RanksBefore(t(q), s(p))
    BY <1>2, <1>5, <1>6, <1>10, Zenon
  <2>2. IsRank(t(q)) /\ IsRank(s(p))
    BY <1>4, <1>5, SMTT(30)
  <2>3. CASE ~t(q).contradicted /\ s(p).contradicted
    <3>1. t(q).confidence >= 500 /\ s(p).confidence <= 500
      BY <1>3, <1>7, <1>10, <2>3
    <3> QED BY <1>10, <2>2, <3>1, SMT DEF IsRank, s, t
  <2>4. CASE t(q).confidence > s(p).confidence \/ t(q).confidence = s(p).confidence
    <3>1. t(q).confidence >= s(p).confidence
      BY <2>2, <2>4, SMT DEF IsRank
    <3> QED BY <1>10, <3>1, SMTT(30) DEF s, t
  <2> QED BY <2>1, <2>3, <2>4, Zenon DEF RanksBefore
<1> QED BY <1>8, <1>9, <1>10

\* A refuted rule that is the best was so.
LEMMA RefutedBest ==
    ASSUME NEW answers, NEW next, NEW r, NEW i, OneMore(answers, next, r, i, "refuted"),
           NEW p, Best(answers, p), Best(next, r)
    PROVE  p = r
<1> DEFINE s(k) == scoreRule(k, answers[k])
           t(k) == scoreRule(k, next[k])
<1>1. DOMAIN answers \in SUBSET Rules /\ r \in DOMAIN answers
  BY DEF OneMore
<1>2. DOMAIN next = DOMAIN answers /\ \A k \in DOMAIN answers \ {r} : t(k) = s(k)
  <2>1. DOMAIN next = DOMAIN answers /\ \A k \in DOMAIN answers \ {r} : next[k] = answers[k]
    BY DEF OneMore
  <2> QED BY <2>1, Zenon
<1>3. AtLeast(s(r), t(r))
  BY Refuted
<1>4. \A k \in DOMAIN answers : IsRank(s(k)) /\ IsRank(t(k))
  BY <1>1, ScoreRank
<1>5. \A k \in DOMAIN answers \ {r} : RanksBefore(t(r), t(k))
  BY <1>2, Zenon DEF Best
<1> HIDE DEF s, t
<1>6. \A k \in DOMAIN answers \ {r} : RanksBefore(s(r), s(k))
  BY <1>1, <1>2, <1>3, <1>4, <1>5, AtLeastRank, Zenon
<1>7. Best(answers, r)
  BY <1>1, <1>6 DEF Best, s
<1> QED BY <1>1, <1>7, BestUnique

\* What EvidenceCounts says of a step.
LEMMA EvidenceStep ==
    ASSUME ReportInv, ReportInv', Analysis
    PROVE  \A r \in DOMAIN results \cap DOMAIN results' : \A i \in DOMAIN results[r] :
              /\ results[r][i] # "corroborated" /\ results'[r][i] = "corroborated" =>
                    /\ report'.scored >= report.scored
                    /\ report.rule = r => report'.rule = r /\ report'.confidence >= report.confidence
              /\ results[r][i] # "refuted" /\ results'[r][i] = "refuted" /\ report'.rule = r =>
                    report.rule = r /\ report'.confidence <= report.confidence
<1> SUFFICES ASSUME NEW r \in DOMAIN results \cap DOMAIN results', NEW i \in DOMAIN results[r],
                    NEW new \in {"corroborated", "refuted"}, results[r][i] # new, results'[r][i] = new
             PROVE  /\ new = "corroborated" =>
                          /\ report'.scored >= report.scored
                          /\ report.rule = r => report'.rule = r /\ report'.confidence >= report.confidence
                    /\ new = "refuted" /\ report'.rule = r => report.rule = r /\ report'.confidence <= report.confidence
  OBVIOUS
<1>1. IsAnswer(signals, results) /\ IsAnswer(signals', results')
  BY DEF ReportInv
<1>2. DOMAIN results \in SUBSET Rules /\ DOMAIN results' \in SUBSET Rules
  BY <1>1, AnswerFacts
<1>3. i \in DOMAIN results'[r] /\ DOMAIN results[r] = DOMAIN DefaultRules[r].probes
  BY <1>1 DEF IsAnswer
<1>4. ASSUME NEW signal \in Signals, Observe(signal) PROVE FALSE
  <2>1. results' = Unanswered(Append(signals, signal))
    BY <1>4 DEF Observe, analyze
  <2>2. results'[r][i] = "unavailable"
    BY <1>3, <2>1 DEF Unanswered
  <2> QED BY <2>2
<1>5. ASSUME NEW rule \in DOMAIN results, NEW j \in DOMAIN results[rule], NEW status \in {"corroborated", "refuted"},
             runOne(rule, j, status)
      PROVE  signals' = signals /\ OneMore(results, results', r, i, new)
  <2>1. /\ results[rule][j] = "unavailable" /\ signals' = signals
        /\ results' = [results EXCEPT ![rule][j] = status]
    BY <1>5 DEF runOne, analyze
  <2>2. rule = r /\ j = i /\ status = new
    BY <2>1
  <2> QED BY <1>2, <1>3, <2>1, <2>2 DEF OneMore
<1>6. signals' = signals /\ OneMore(results, results', r, i, new)
  BY <1>4, <1>5, SMTT(30) DEF Analysis
<1>7. PICK p : /\ Best(results, p) /\ report.rule = p /\ report.scored = scoreRule(p, results[p]).confidence
               /\ report.confidence = Final(signals, scoreRule(p, results[p]))
  BY <1>2, RuleReported DEF ReportInv
<1>8. PICK q : /\ Best(results', q) /\ report'.rule = q /\ report'.scored = scoreRule(q, results'[q]).confidence
               /\ report'.confidence = Final(signals, scoreRule(q, results'[q]))
  BY <1>2, <1>6, RuleReported, ZenonT(30) DEF ReportInv
<1>9. CASE new = "corroborated"
  <2>1. OneMore(results, results', r, i, "corroborated")
    BY <1>6, <1>9
  <2>2. scoreRule(q, results'[q]).confidence >= scoreRule(p, results[p]).confidence /\ (p = r => q = r)
    <3>1. Best(results, p) /\ Best(results', q)
      BY <1>7, <1>8
    <3> QED BY <2>1, <3>1, CorroboratedBest, SMTT(30)
  <2>3. ASSUME p = r PROVE report'.rule = r /\ report'.confidence >= report.confidence
    <3>1. q = r
      BY <2>2, <2>3
    <3>2. AtLeast(scoreRule(r, results'[r]), scoreRule(r, results[r]))
      BY <2>1, Corroborated, Zenon
    <3>3. Final(signals, scoreRule(r, results'[r])) >= Final(signals, scoreRule(r, results[r]))
      BY <1>2, <3>2, FinalMonotone, Zenon
    <3> QED BY <1>7, <1>8, <2>3, <3>1, <3>3, Zenon
  <2>4. "corroborated" # "refuted"
    OBVIOUS
  <2> QED BY <1>7, <1>8, <1>9, <2>2, <2>3, <2>4, Zenon
<1>10. CASE new = "refuted"
  <2>1. OneMore(results, results', r, i, "refuted")
    BY <1>6, <1>10
  <2>2. ASSUME q = r PROVE report.rule = r /\ report'.confidence <= report.confidence
    <3>1. p = r
      BY <1>7, <1>8, <2>1, <2>2, RefutedBest, Zenon
    <3>2. AtLeast(scoreRule(r, results[r]), scoreRule(r, results'[r]))
      BY <2>1, Refuted, Zenon
    <3>3. Final(signals, scoreRule(r, results[r])) >= Final(signals, scoreRule(r, results'[r]))
      BY <1>2, <3>2, FinalMonotone, Zenon
    <3>4. Final(signals, scoreRule(r, results[r])) \in Int /\ Final(signals, scoreRule(r, results'[r])) \in Int
      BY <1>2, FinalCapped, Zenon
    <3>5. Final(signals, scoreRule(r, results'[r])) <= Final(signals, scoreRule(r, results[r]))
      BY <3>3, <3>4, SMT
    <3> QED BY <1>7, <1>8, <2>2, <3>1, <3>5, Zenon
  <2>3. "corroborated" # "refuted"
    OBVIOUS
  <2> QED BY <1>8, <1>10, <2>2, <2>3, Zenon
<1> QED BY <1>9, <1>10

\* For any alerts and any order of the answers, an answer counts the way it
\* points, through the caps and the ranking.
THEOREM EvidenceSafety ==
    NoAlerts /\ [][Analysis]_<<signals, results, report>> => EvidenceCounts
<1>1. ReportInv /\ [Analysis]_<<signals, results, report>> => ReportInv'
  BY ReportStep
<1> DEFINE Counts ==
        \A r \in DOMAIN results \cap DOMAIN results' : \A i \in DOMAIN results[r] :
           /\ results[r][i] # "corroborated" /\ results'[r][i] = "corroborated" =>
                 /\ report'.scored >= report.scored
                 /\ report.rule = r => report'.rule = r /\ report'.confidence >= report.confidence
           /\ results[r][i] # "refuted" /\ results'[r][i] = "refuted" /\ report'.rule = r =>
                 report.rule = r /\ report'.confidence <= report.confidence
<1>2. ReportInv /\ ReportInv' /\ [Analysis]_<<signals, results, report>> => [Counts]_<<signals, results, report>>
  BY EvidenceStep
<1> HIDE DEF Counts
<1>3. NoAlerts /\ [][Analysis]_<<signals, results, report>> => [][Counts]_<<signals, results, report>>
  BY <1>1, <1>2, ReportInit, PTL
<1> QED BY <1>3 DEF EvidenceCounts, Counts

=============================================================================

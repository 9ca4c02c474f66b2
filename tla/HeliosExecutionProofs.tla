----------------------- MODULE HeliosExecutionProofs ------------------------
(* Proofs about HeliosExecution, for any number of overlapping calls,      *)
(* reservations and workflows.                                             *)
EXTENDS HeliosExecution, TLAPS

Workflow == [state: {"active"} \cup Ended, reservation: Nat]
Process == [pc: {"idle", "reserve", "submit", "poll", "record", "release", "get", "cancel", "find"},
            wf: Nat, outcome: {"none"} \cup Outcomes]

\* What Helios may do: workflows are added, and those that ended stay as they are.
Forward ==
    /\ DOMAIN workflows \subseteq DOMAIN workflows'
    /\ \A wf \in DOMAIN workflows : workflows[wf].state \in Ended => workflows'[wf].state = workflows[wf].state
    /\ asked \subseteq asked'

\* What a status says of a workflow stays true.
LEMMA ReflectsKeeps ==
    ASSUME NEW s, NEW wf, Forward, Reflects(s, wf)
    PROVE  Reflects(s, wf)'
BY DEF Forward, Reflects, Ended

\* Where Helios is left alone it does not go backwards.
LEMMA ForwardSame == UNCHANGED <<workflows, asked>> => Forward
BY DEF Forward

\* A process that a step leaves alone keeps its invariant.
LEMMA ProcKeeps ==
    ASSUME Inv, Forward, NEW p \in Procs, proc'[p] = proc[p]
    PROVE  ProcInv(p)'
<1>1. ProcInv(p)
  BY DEF Inv
<1>2. proc[p].pc \in {"poll", "get", "cancel"} => proc[p].wf \in DOMAIN workflows'
  BY <1>1 DEF ProcInv, Forward
<1>3. PICK o, wf : o = proc[p].outcome /\ wf = proc[p].wf
  OBVIOUS
<1>4. proc[p].pc = "record" => o \in Outcomes /\ Reflects(o, wf)
  BY <1>1, <1>3 DEF ProcInv
<1>5. proc[p].pc = "record" => Reflects(o, wf)'
  BY <1>4, ReflectsKeeps
<1>6. Reflects(o, wf)' => Reflects(proc[p].outcome, proc[p].wf)'
  BY <1>3 DEF Reflects
<1> QED
  BY <1>2, <1>3, <1>4, <1>5, <1>6 DEF ProcInv

-----------------------------------------------------------------------------
(* The invariant.                                                          *)

LEMMA ReflectsSame ==
    ASSUME NEW s, NEW wf, UNCHANGED <<workflows, asked>>
    PROVE  Reflects(s, wf)' <=> Reflects(s, wf)
BY DEF Reflects

\* A step of process p that keeps the row: its new place has to be right.
LEMMA MoveKeeps ==
    ASSUME Inv, Forward, NEW p \in Procs, NEW at \in Process, Goto(p, at),
           UNCHANGED <<status, recorded, overdue, incident, reservations>>,
           workflows' \in Seq(Workflow), asked' \subseteq Nat,
           at.pc \in {"poll", "get", "cancel"} => at.wf \in DOMAIN workflows',
           at.pc = "record" => at.outcome \in Outcomes,
           at.pc = "record" => Reflects(at.outcome, at.wf)'
    PROVE  Inv'
<1>1. TypeOK'
  BY DEF Inv, TypeOK, Goto, Process, Workflow
<1>2. OutcomeTrue'
  <2>1. PICK s, wf : s = status /\ wf = recorded
    OBVIOUS
  <2>2. Reflects(s, wf)'
    BY <2>1, ReflectsKeeps DEF Inv, OutcomeTrue
  <2> QED
    BY <2>1, <2>2 DEF OutcomeTrue, Reflects
<1>3. ASSUME NEW q \in Procs
      PROVE  ProcInv(q)'
  <2>1. CASE q = p
    <3>1. proc'[q] = at
      BY <2>1 DEF Goto, Inv, TypeOK
    <3>2. Reflects(at.outcome, at.wf)' => Reflects(proc[q].outcome, proc[q].wf)'
      BY <3>1 DEF Reflects
    <3> QED
      BY <3>1, <3>2 DEF ProcInv
  <2>2. CASE q # p
    <3>1. proc'[q] = proc[q]
      BY <2>2 DEF Goto, Inv, TypeOK
    <3> QED
      BY <3>1, ProcKeeps
  <2> QED
    BY <2>1, <2>2
<1> QED
  BY <1>1, <1>2, <1>3 DEF Inv

\* Steps that move a process and change nothing else.
LEMMA ProcOnlyKeeps ==
    ASSUME Inv, NEW p \in Procs, NEW at \in Process, Goto(p, at), ProcOnly,
           at.pc \in {"poll", "get", "cancel"} => at.wf \in DOMAIN workflows,
           at.pc = "record" => at.outcome \in Outcomes,
           at.pc = "record" => Reflects(at.outcome, at.wf)
    PROVE  Inv'
<1>1. Forward
  BY ForwardSame DEF ProcOnly
<1>2. workflows' \in Seq(Workflow) /\ asked' \subseteq Nat
  BY DEF Inv, TypeOK, ProcOnly, Workflow
<1>3. PICK o, wf : o = at.outcome /\ wf = at.wf
  OBVIOUS
<1>4. Reflects(o, wf)' <=> Reflects(o, wf)
  BY ReflectsSame DEF ProcOnly
<1>5. at.pc = "record" => Reflects(at.outcome, at.wf)'
  BY <1>3, <1>4
<1> QED
  BY <1>1, <1>2, <1>5, MoveKeeps DEF ProcOnly

\* A place that records nothing and refers to no workflow is always right.
LEMMA FreeMove ==
    ASSUME Inv, NEW p \in Procs, NEW at \in {Idle, At("reserve", 0, "none"), At("submit", 0, "none"), At("release", 0, "none"),
                                              At("find", 0, "none")},
           Goto(p, at), ProcOnly
    PROVE  Inv'
<1>1. at \in Process /\ at.pc \notin {"poll", "get", "cancel", "record"}
  BY DEF Process, Idle, At
<1> QED
  BY <1>1, ProcOnlyKeeps

\* A row that is rewritten while Helios and the other processes stay as they are.
LEMMA RowKeeps ==
    ASSUME Inv, NEW p \in Procs, NEW at \in {Idle, At("submit", 0, "none")}, Goto(p, at) \/ UNCHANGED proc,
           UNCHANGED <<workflows, asked>>,
           status' \in {"approved", "queued"} \cup Outcomes, recorded' \in Nat,
           overdue' \in BOOLEAN, incident' \in {"open", "closed"}, reservations' \in Nat,
           OutcomeTrue'
    PROVE  Inv'
<1>0. at \in Process /\ at.pc \notin {"poll", "get", "cancel", "record"}
  BY DEF Process, Idle, At
<1>1. TypeOK'
  BY <1>0 DEF Inv, TypeOK, Goto, Process
<1>2. Forward
  BY ForwardSame
<1>3. ASSUME NEW q \in Procs
      PROVE  ProcInv(q)'
  <2>1. proc'[q] = proc[q] \/ proc'[q] = at
    BY DEF Goto, Inv, TypeOK
  <2>2. CASE proc'[q] = proc[q]
    BY <2>2, <1>2, ProcKeeps
  <2>3. CASE proc'[q] = at
    BY <2>3, <1>0 DEF ProcInv
  <2> QED
    BY <2>1, <2>2, <2>3
<1> QED
  BY <1>1, <1>3 DEF Inv

-----------------------------------------------------------------------------
(* One lemma per group of actions.                                         *)

LEMMA ReconcilerIsProc == Reconciler \in Procs /\ Calls \subseteq Procs
BY DEF Procs

LEMMA SeqFacts ==
    ASSUME NEW S, NEW s \in Seq(S), NEW i \in DOMAIN s
    PROVE  /\ s[i] \in S
           /\ \A v \in S : [s EXCEPT ![i] = v] \in Seq(S)
OBVIOUS

\* A workflow that ends.
LEMMA EndKeeps ==
    ASSUME Inv, NEW wf \in DOMAIN workflows, NEW st \in Ended,
           workflows' = [workflows EXCEPT ![wf].state = st],
           workflows[wf].state = "active", UNCHANGED asked
    PROVE  /\ workflows' \in Seq(Workflow) /\ DOMAIN workflows' = DOMAIN workflows
           /\ workflows'[wf].state = st
           /\ Forward
<1>1. workflows \in Seq(Workflow)
  BY DEF Inv, TypeOK, Workflow
<1>2. workflows[wf] \in Workflow
  BY <1>1, SeqFacts
<1>3. PICK v : v = [workflows[wf] EXCEPT !.state = st]
  OBVIOUS
<1>4. v \in Workflow /\ v.state = st
  BY <1>2, <1>3 DEF Workflow
<1>5. workflows' = [workflows EXCEPT ![wf] = v]
  BY <1>3
<1>6. workflows' \in Seq(Workflow)
  BY <1>1, <1>4, <1>5, SeqFacts
<1>7. DOMAIN workflows' = DOMAIN workflows /\ workflows'[wf].state = st
  BY <1>4, <1>5
<1>8. Forward
  BY <1>5 DEF Forward, Ended
<1> QED
  BY <1>6, <1>7, <1>8

\* What a state read from Helios says.
LEMMA OutcomeReflects ==
    ASSUME Inv, NEW wf \in DOMAIN workflows
    PROVE  /\ Outcome(workflows[wf].state) \in {"running", "succeeded", "failed"}
           /\ Reflects(Outcome(workflows[wf].state), wf)
<1>0. workflows \in Seq(Workflow)
  BY DEF Inv, TypeOK, Workflow
<1>1. workflows[wf] \in Workflow
  BY <1>0, SeqFacts
<1>2. PICK st : st = workflows[wf].state
  OBVIOUS
<1>3. CASE st = "active"
  BY <1>2, <1>3 DEF Outcome, Reflects
<1>4. CASE st = "succeeded"
  BY <1>2, <1>4 DEF Outcome, Reflects
<1>5. CASE st \in {"failed", "cancelled"}
  BY <1>2, <1>5 DEF Outcome, Reflects
<1> QED
  BY <1>1, <1>2, <1>3, <1>4, <1>5 DEF Workflow, Ended

LEMMA SubmitKeeps ==
    ASSUME Inv, NEW p \in Procs, Submit(p)
    PROVE  Inv'
<1> DEFINE new == [state |-> "active", reservation |-> reservations]
<1>1. new \in Workflow /\ workflows \in Seq(Workflow)
  BY DEF Inv, TypeOK, Workflow
<1>2. workflows' = Append(workflows, new) /\ UNCHANGED asked
  BY DEF Submit, Created
<1> HIDE DEF new
<1>3. /\ workflows' \in Seq(Workflow) /\ DOMAIN workflows \subseteq DOMAIN workflows'
      /\ \A wf \in DOMAIN workflows : workflows'[wf] = workflows[wf]
      /\ Len(workflows') \in DOMAIN workflows' /\ Len(workflows') \in Nat
  BY <1>1, <1>2
<1>4. Forward
  BY <1>2, <1>3 DEF Forward
<1>5. UNCHANGED <<status, recorded, overdue, incident, reservations>> /\ asked' \subseteq Nat
  BY <1>2 DEF Submit, Inv, TypeOK
<1>6. CASE Goto(p, At("poll", Len(Created), "none"))
  <2> DEFINE at == At("poll", Len(Created), "none")
  <2>1. Created = workflows'
    BY DEF Submit
  <2>2. at \in Process /\ at.pc = "poll" /\ at.wf = Len(workflows')
    BY <2>1, <1>3 DEF Process, At
  <2>3. Goto(p, at)
    BY <1>6
  <2> HIDE DEF at
  <2> QED
    BY <2>2, <2>3, <1>3, <1>4, <1>5, MoveKeeps
<1>7. CASE Goto(p, Failed(p))
  <2>1. Failed(p) \in Process /\ Failed(p).pc \in {"idle", "release"}
    BY DEF Failed, Process, Idle, At
  <2> QED
    BY <2>1, <1>7, <1>3, <1>4, <1>5, MoveKeeps
<1> QED
  BY <1>6, <1>7 DEF Submit

LEMMA PollKeeps ==
    ASSUME Inv, NEW p \in Procs, pollWorkflow(p)
    PROVE  Inv'
<1>1. ProcInv(p) /\ proc[p].pc = "poll" /\ proc[p].wf \in Nat
  BY DEF Inv, TypeOK, pollWorkflow
<1>2. PICK wf \in DOMAIN workflows : wf = proc[p].wf /\ wf \in Nat
  BY <1>1 DEF ProcInv
<1>3. PICK o : o = Outcome(workflows[wf].state)
  OBVIOUS
<1>4. o \in {"running", "succeeded", "failed"} /\ Reflects(o, wf)
  BY <1>3, OutcomeReflects
<1>5. CASE o = "failed"
  <2>1. Goto(p, Failed(p)) /\ ProcOnly
    BY <1>2, <1>3, <1>5 DEF pollWorkflow
  <2>2. Failed(p) \in {Idle, At("release", 0, "none")}
    BY DEF Failed
  <2> QED
    BY <2>1, <2>2, FreeMove
<1>6. CASE o # "failed"
  <2>1. Goto(p, At("record", wf, o)) /\ ProcOnly
    BY <1>2, <1>3, <1>6 DEF pollWorkflow
  <2>2. PICK at : at = At("record", wf, o)
    OBVIOUS
  <2>3. at \in Process /\ at.pc = "record" /\ at.outcome = o /\ at.wf = wf
    BY <2>2, <1>4, <1>2 DEF Process, At, Outcomes
  <2>4. Reflects(at.outcome, at.wf)
    BY <2>3, <1>4
  <2> QED
    BY <2>1, <2>2, <2>3, <2>4, <1>4, ProcOnlyKeeps DEF Outcomes
<1> QED
  BY <1>5, <1>6

LEMMA RecordKeeps ==
    ASSUME Inv, NEW p \in Procs, Record(p)
    PROVE  Inv'
<1>1. ProcInv(p) /\ proc[p].pc = "record" /\ proc[p].wf \in Nat
  BY DEF Inv, TypeOK, Record
<1>2. PICK o, wf : o = proc[p].outcome /\ wf = proc[p].wf
  OBVIOUS
<1>3. o \in Outcomes /\ wf \in Nat /\ Reflects(o, wf)
  BY <1>1, <1>2 DEF ProcInv
<1>4. PICK s, r : s = status /\ r = recorded
  OBVIOUS
<1>5. Reflects(s, r) /\ s \in {"approved", "queued"} \cup Outcomes /\ r \in Nat
  BY <1>4 DEF Inv, TypeOK, OutcomeTrue
<1>6. (status' = o /\ recorded' = wf) \/ (status' = s /\ recorded' = r)
  BY <1>2, <1>4 DEF Record
<1>7. UNCHANGED <<overdue, incident, workflows, reservations, asked>> /\ Goto(p, Idle)
  BY DEF Record
<1>8. Reflects(o, wf)' /\ Reflects(s, r)'
  BY <1>3, <1>5, <1>7, ReflectsSame
<1>9. OutcomeTrue'
  BY <1>6, <1>8 DEF OutcomeTrue, Reflects
<1>10. /\ status' \in {"approved", "queued"} \cup Outcomes /\ recorded' \in Nat
       /\ overdue' \in BOOLEAN /\ incident' \in {"open", "closed"} /\ reservations' \in Nat
  BY <1>3, <1>5, <1>6, <1>7 DEF Inv, TypeOK
<1> QED
  BY <1>7, <1>9, <1>10, RowKeeps

\* Steps that change the row and leave status true, or make it say nothing.
LEMMA StatusKeeps ==
    ASSUME Inv, UNCHANGED <<workflows, asked, recorded>>, status' \in {status, "approved", "queued", "cancelled"}
    PROVE  /\ OutcomeTrue' /\ recorded' \in Nat
           /\ status' \in {"approved", "queued"} \cup Outcomes
BY DEF Inv, TypeOK, OutcomeTrue, Reflects, Outcomes

LEMMA CancelWorkflowKeeps ==
    ASSUME Inv, CancelWorkflow
    PROVE  Inv'
<1>1. Reconciler \in Procs
  BY ReconcilerIsProc
<1>2. PICK wf : wf = proc[Reconciler].wf
  OBVIOUS
<1>3. wf \in DOMAIN workflows /\ wf \in Nat
  BY <1>1, <1>2 DEF Inv, TypeOK, ProcInv, CancelWorkflow
<1>4. /\ Goto(Reconciler, At("record", wf, "timed_out"))
      /\ UNCHANGED <<status, recorded, overdue, incident, reservations>>
  BY <1>2 DEF CancelWorkflow
<1>5. PICK at : at = At("record", wf, "timed_out")
  OBVIOUS
<1>6. at \in Process /\ at.pc = "record" /\ at.outcome = "timed_out" /\ at.wf = wf /\ "timed_out" \in Outcomes
  BY <1>3, <1>5 DEF Process, At, Outcomes
<1>7. asked' = asked \cup {wf} /\ UNCHANGED workflows
  BY <1>2 DEF CancelWorkflow
<1>8. Forward /\ workflows' \in Seq(Workflow) /\ asked' \subseteq Nat
  BY <1>3, <1>7 DEF Forward, Inv, TypeOK, Workflow
<1>9. Reflects("timed_out", wf)'
  BY <1>3, <1>7 DEF Reflects
<1>10. Reflects(at.outcome, at.wf)'
  BY <1>6, <1>9 DEF Reflects
<1> QED
  BY <1>1, <1>4, <1>5, <1>6, <1>8, <1>10, MoveKeeps

-----------------------------------------------------------------------------
(* The theorems.                                                           *)

LEMMA InitInv == Init => Inv
<1> SUFFICES ASSUME Init PROVE Inv
  OBVIOUS
<1>0. Idle \in Process /\ <<>> \in Seq(Workflow)
  BY DEF Idle, Process
<1>1. TypeOK
  BY <1>0 DEF Init, TypeOK, Process, Workflow
<1>2. OutcomeTrue
  BY DEF Init, OutcomeTrue, Reflects
<1>3. ASSUME NEW p \in Procs PROVE ProcInv(p)
  BY DEF Init, ProcInv, Idle
<1> QED
  BY <1>1, <1>2, <1>3 DEF Inv

\* Every action keeps the invariant.
LEMMA NextInv ==
    ASSUME Inv, [Next]_vars
    PROVE  Inv'
<1>0. Reconciler \in Procs /\ Calls \subseteq Procs
  BY ReconcilerIsProc
<1>t. TypeOK
  BY DEF Inv
<1>e. ASSUME NEW p \in Calls, Execute(p) PROVE Inv'
  BY <1>0, <1>e, FreeMove DEF Execute
<1>1. ASSUME NEW p \in Calls, MarkRemediationQueued(p) PROVE Inv'
  <2>1. OutcomeTrue' /\ recorded' \in Nat /\ status' \in {"approved", "queued"} \cup Outcomes
    BY <1>1, StatusKeeps DEF MarkRemediationQueued
  <2>2. /\ overdue' \in BOOLEAN /\ incident' \in {"open", "closed"}
        /\ reservations' \in Nat /\ UNCHANGED <<workflows, asked>>
    BY <1>1, <1>t DEF MarkRemediationQueued, TypeOK
  <2>3. Goto(p, At("submit", 0, "none")) \/ Goto(p, Idle)
    BY <1>1 DEF MarkRemediationQueued
  <2> QED
    BY <2>1, <2>2, <2>3, <1>0, RowKeeps
<1>2. ASSUME NEW p \in Procs, Executor(p) PROVE Inv'
  <2>1. CASE Submit(p)
    BY <2>1, SubmitKeeps
  <2>2. CASE SubmitFails(p) \/ PollFails(p) \/ Die(p)
    <3>1. ProcOnly /\ (Goto(p, Idle) \/ Goto(p, At("release", 0, "none")))
      BY <2>2 DEF SubmitFails, PollFails, Die, Failed
    <3> QED
      BY <3>1, FreeMove
  <2>3. CASE pollWorkflow(p)
    BY <2>3, PollKeeps
  <2>4. CASE Record(p)
    BY <2>4, RecordKeeps
  <2>5. CASE ReleaseRemediationQueueReservation(p)
    <3>1. OutcomeTrue' /\ recorded' \in Nat /\ status' \in {"approved", "queued"} \cup Outcomes
      BY <2>5, StatusKeeps DEF ReleaseRemediationQueueReservation
    <3>2. /\ overdue' \in BOOLEAN /\ incident' \in {"open", "closed"}
          /\ reservations' \in Nat /\ Goto(p, Idle) /\ UNCHANGED <<workflows, asked>>
      BY <2>5, <1>t DEF ReleaseRemediationQueueReservation, TypeOK
    <3> QED
      BY <3>1, <3>2, RowKeeps
  <2> QED
    BY <1>2, <2>1, <2>2, <2>3, <2>4, <2>5 DEF Executor
<1>3. CASE LockRunning
  <2>1. PICK at : at = At("get", recorded, "none")
    OBVIOUS
  <2>2. at \in Process /\ at.pc = "get" /\ at.wf = recorded
    BY <2>1, <1>t DEF TypeOK, Process, At
  <2>3. recorded \in DOMAIN workflows
    BY <1>3 DEF LockRunning, Inv, OutcomeTrue, Reflects
  <2> QED
    BY <2>1, <2>2, <2>3, <1>0, <1>3, ProcOnlyKeeps DEF LockRunning
<1>4. CASE Settle
  <2>1. PICK wf : wf = proc[Reconciler].wf
    OBVIOUS
  <2>2. wf \in DOMAIN workflows /\ wf \in Nat
    BY <2>1, <1>0, <1>4 DEF Inv, TypeOK, ProcInv, Settle
  <2>3. PICK o : o = Outcome(workflows[wf].state)
    OBVIOUS
  <2>4. o \in {"running", "succeeded", "failed"} /\ Reflects(o, wf)
    BY <2>2, <2>3, OutcomeReflects
  <2>5. /\ ProcOnly
        /\ \/ Goto(Reconciler, At("record", wf, o))
           \/ Goto(Reconciler, At("cancel", wf, "none"))
           \/ Goto(Reconciler, Idle)
    BY <2>1, <2>3, <1>4 DEF Settle
  <2>6. CASE Goto(Reconciler, At("record", wf, o))
    <3>1. PICK at : at = At("record", wf, o)
      OBVIOUS
    <3>2. at \in Process /\ at.pc = "record" /\ at.outcome = o /\ at.wf = wf /\ o \in Outcomes
      BY <3>1, <2>2, <2>4 DEF Process, At, Outcomes
    <3> QED
      BY <3>1, <3>2, <2>4, <2>5, <2>6, <1>0, ProcOnlyKeeps
  <2>7. CASE Goto(Reconciler, At("cancel", wf, "none"))
    <3>1. PICK at : at = At("cancel", wf, "none")
      OBVIOUS
    <3>2. at \in Process /\ at.pc = "cancel" /\ at.wf = wf
      BY <3>1, <2>2 DEF Process, At
    <3> QED
      BY <3>1, <3>2, <2>2, <2>5, <2>7, <1>0, ProcOnlyKeeps
  <2>8. CASE Goto(Reconciler, Idle)
    BY <2>5, <2>8, <1>0, FreeMove
  <2> QED
    BY <2>5, <2>6, <2>7, <2>8
<1>5. CASE CancelWorkflow
  BY <1>5, CancelWorkflowKeeps
<1>6. CASE LockLost
  BY <1>0, <1>6, FreeMove DEF LockLost
<1>7. CASE Adopt
  <2>1. PICK wf : wf = Len(workflows)
    OBVIOUS
  <2>2. wf \in DOMAIN workflows /\ wf \in Nat
    BY <2>1, <1>t, <1>7 DEF Adopt, TypeOK
  <2>3. PICK o : o = Outcome(workflows[wf].state)
    OBVIOUS
  <2>4. o \in {"running", "succeeded", "failed"} /\ Reflects(o, wf)
    BY <2>2, <2>3, OutcomeReflects
  <2>5. ProcOnly /\ Goto(Reconciler, At("record", wf, o))
    BY <2>1, <2>3, <1>7 DEF Adopt
  <2>6. PICK at : at = At("record", wf, o)
    OBVIOUS
  <2>7. at \in Process /\ at.pc = "record" /\ at.outcome = o /\ at.wf = wf /\ o \in Outcomes
    BY <2>6, <2>2, <2>4 DEF Process, At, Outcomes
  <2> QED
    BY <2>4, <2>5, <2>6, <2>7, <1>0, ProcOnlyKeeps
<1>8. CASE FindNothing
  <2>1. ProcOnly /\ (Goto(Reconciler, At("record", 0, "cancelled")) \/ Goto(Reconciler, At("submit", 0, "none")))
    BY <1>8 DEF FindNothing
  <2>2. CASE Goto(Reconciler, At("record", 0, "cancelled"))
    <3>1. PICK at : at = At("record", 0, "cancelled")
      OBVIOUS
    <3>2. at \in Process /\ at.pc = "record" /\ at.outcome = "cancelled" /\ at.wf = 0 /\ "cancelled" \in Outcomes
      BY <3>1 DEF Process, At, Outcomes
    <3>3. Reflects(at.outcome, at.wf)
      BY <3>2 DEF Reflects
    <3> QED
      BY <3>1, <3>2, <3>3, <2>1, <2>2, <1>0, ProcOnlyKeeps
  <2> QED
    BY <2>1, <2>2, <1>0, FreeMove
<1>9. CASE Cancel \/ CloseIncident \/ Overdue
  <2>1. /\ UNCHANGED <<workflows, asked, recorded, proc>> /\ status' \in {status, "cancelled"}
        /\ overdue' \in BOOLEAN /\ incident' \in {"open", "closed"} /\ reservations' \in Nat
    BY <1>9, <1>t DEF Cancel, CloseIncident, Overdue, TypeOK
  <2>2. OutcomeTrue' /\ recorded' \in Nat /\ status' \in {"approved", "queued"} \cup Outcomes
    BY <2>1, StatusKeeps
  <2> QED
    BY <2>1, <2>2, <1>0, RowKeeps
<1>10. ASSUME NEW wf \in DOMAIN workflows, NEW state \in Ended, WorkflowEnds(wf, state) PROVE Inv'
  <2>1. workflows' \in Seq(Workflow) /\ Forward
    BY <1>10, EndKeeps DEF WorkflowEnds
  <2>2. UNCHANGED <<status, recorded, overdue, incident, proc, reservations, asked>>
    BY <1>10 DEF WorkflowEnds
  <2>3. TypeOK'
    BY <2>1, <2>2, <1>t DEF TypeOK, Workflow
  <2>4. PICK s, r : s = status /\ r = recorded
    OBVIOUS
  <2>5. Reflects(s, r)'
    BY <2>1, <2>4, ReflectsKeeps DEF Inv, OutcomeTrue
  <2>6. OutcomeTrue'
    BY <2>2, <2>4, <2>5 DEF OutcomeTrue, Reflects
  <2>7. \A p \in Procs : ProcInv(p)'
    BY <2>1, <2>2, ProcKeeps
  <2> QED
    BY <2>3, <2>6, <2>7 DEF Inv
<1>11. CASE UNCHANGED vars
  BY <1>11 DEF Inv, TypeOK, OutcomeTrue, ProcInv, Reflects, vars
<1> QED
  BY <1>e, <1>1, <1>2, <1>3, <1>4, <1>5, <1>6, <1>7, <1>8, <1>9, <1>10, <1>11 DEF Next

\* What any API call or the reconciler is about to record is true of its workflow,
\* whatever else happens before it records it.
THEOREM HeliosInvariant == Spec => []Inv
BY InitInv, NextInv, PTL DEF Spec

\* A remediation's recorded status is always true of the Helios workflow stored with it.
THEOREM OutcomeSafety == Spec => []OutcomeTrue
<1>1. Inv => OutcomeTrue
  BY DEF Inv
<1> QED
  BY <1>1, HeliosInvariant, PTL

\* No late outcome, release or cancel changes a remediation that ended.
THEOREM EndSafety == Spec => EndIsFinal
<1>1. ASSUME Inv, [Next]_vars, IsTerminalState(status) PROVE status' = status
  <2>1. status \notin {"approved", "queued", "running"} /\ ~Dispatchable(status)
    BY <1>1 DEF IsTerminalState, Dispatchable
  <2>2. CASE Cancel
    BY <1>1, <2>2 DEF Cancel, CanTransition, Transitions, IsTerminalState
  <2>3. ASSUME NEW p \in Procs, Executor(p) PROVE status' = status
    BY <2>1, <2>3 DEF Executor, Submit, SubmitFails, pollWorkflow, PollFails, Record,
                      ReleaseRemediationQueueReservation, Die, ProcOnly
  <2>4. ASSUME NEW p \in Calls, Execute(p) \/ MarkRemediationQueued(p)
        PROVE  status' = status
    BY <2>1, <2>4 DEF Execute, MarkRemediationQueued, ProcOnly
  <2>5. CASE LockRunning \/ Settle \/ CancelWorkflow \/ LockLost \/ Adopt \/ FindNothing \/ CloseIncident \/ Overdue
    BY <2>5 DEF LockRunning, Settle, CancelWorkflow, LockLost, Adopt, FindNothing, CloseIncident, Overdue, ProcOnly
  <2>6. ASSUME NEW wf \in DOMAIN workflows, NEW state \in Ended, WorkflowEnds(wf, state) PROVE status' = status
    BY <2>6 DEF WorkflowEnds
  <2>7. CASE UNCHANGED vars
    BY <2>7 DEF vars
  <2> QED
    BY <1>1, <2>2, <2>3, <2>4, <2>5, <2>6, <2>7 DEF Next
<1>2. Inv /\ [Next]_vars => [IsTerminalState(status) => status' = status]_vars
  BY <1>1
<1> QED
  BY <1>2, HeliosInvariant, PTL DEF Spec, EndIsFinal

=============================================================================

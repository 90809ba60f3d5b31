-------------------- MODULE TransactionCoordinatorProofs --------------------
(***************************************************************************)
(* Theorems about TransactionCoordinator, for any number of callers,       *)
(* operations, plans and steps, with and without crashes.                  *)
(***************************************************************************)
EXTENDS TransactionCoordinator, SequenceTheorems, FiniteSetTheorems, TLAPS

-----------------------------------------------------------------------------
(* Type correctness.                                                       *)

\* Recording an event keeps every history a sequence of events: the rows
\* _append_event inserts are well formed.
LEMMA AppendTyped ==
    ASSUME TypeOK, NEW t \in Txns, NEW type, NEW step, NEW report,
           Event(type, step, report) \in Events,
           Append_event(t, type, step, report)
    PROVE  log' \in [Txns -> Seq(Events)]
BY AppendProperties DEF TypeOK, Append_event

\* So do the updates of a call's local variables: Become is the only way an
\* action writes them.
LEMMA BecomeTyped ==
    ASSUME TypeOK, NEW r \in Runners, NEW m \in Locals, m.pc # "idle" => m.txn \in Txns,
           Become(r, m)
    PROVE  /\ runner' \in [Runners -> Locals]
           /\ \A q \in Runners : runner'[q].pc # "idle" => runner'[q].txn \in Txns
BY DEF TypeOK, Become

\* The well-formedness of the variables is preserved by every step of run(),
\* of _compensate() and of the journal.
LEMMA TypeStep == TypeOK /\ [Next]_vars => TypeOK'
<1> SUFFICES ASSUME TypeOK, [Next]_vars PROVE TypeOK'
    OBVIOUS
<1> USE PlanAssumption
<1>1. ASSUME NEW o \in Ops, Prepare(o) \/ Claim_execution(o) \/ ReviewMarksUnknown(o)
      PROVE  TypeOK'
  BY <1>1 DEF TypeOK, Prepare, Claim_execution, ReviewMarksUnknown, Terminal, OpStates
<1>2. ASSUME NEW o \in Ops, NEW outcome \in {"SUCCEEDED", "FAILED"}, Reconcile_unknown(o, outcome)
      PROVE  TypeOK'
  BY <1>2 DEF TypeOK, Reconcile_unknown
<1>3. ASSUME NEW r \in Runners, NEW t \in Txns, RunCalled(r, t)
      PROVE  TypeOK'
  <2> DEFINE m == [Idle EXCEPT !.pc = "register", !.txn = t]
  <2>1. m \in Locals /\ m.txn \in Txns
    BY DEF Idle, Locals, PCs, Reports, Verdict
  <2> HIDE DEF m
  <2>2. Become(r, m)
    BY <1>3 DEF RunCalled, m
  <2> QED BY <1>3, <2>1, <2>2, BecomeTyped DEF TypeOK, RunCalled
<1>4. Idle \in Locals /\ Idle.pc = "idle"
  BY DEF Idle, Locals, PCs, Reports, Verdict
<1>5. ASSUME NEW r \in Runners, Crash(r) PROVE TypeOK'
  BY <1>4, <1>5, BecomeTyped DEF TypeOK, Crash, Return
<1>6. ASSUME NEW r \in Runners, RunStep(r) PROVE TypeOK'
  <2> DEFINE me == runner[r]
             RunnerTyped == /\ runner' \in [Runners -> Locals]
                            /\ \A q \in Runners : runner'[q].pc # "idle" => runner'[q].txn \in Txns
  <2>0. /\ me \in Locals /\ log \in [Txns -> Seq(Events)]
        /\ Verdict("NONE") \in Reports
        /\ me.pc # "idle" => me.txn \in Txns
        /\ me.step \in Nat /\ me.report \in Reports /\ me.unsure \in BOOLEAN
        /\ me.changed \in SUBSET Nat /\ me.todo \in SUBSET Nat
        /\ Verdict(me.report.status) \in Reports
    BY DEF TypeOK, Reports, Verdict, Locals
  <2>a. ASSUME NEW type \in {"PLAN_REGISTERED", "SNAPSHOT_CAPTURED", "SAFE_FAILURE",
                   "STEP_EXECUTION_STARTED", "STEP_EXECUTION_RECORDED",
                   "POSTCONDITION_RECORDED", "COMPENSATION_STARTED",
                   "COMPENSATION_RECORDED", "RECOVERY_REQUIRED"},
               NEW s \in Nat, NEW x \in Reports, me.pc # "idle",
               Append_event(me.txn, type, s, x)
        PROVE  log' \in [Txns -> Seq(Events)]
    <3>1. Event(type, s, x) \in Events
      BY DEF Event, Events
    <3> QED BY <2>a, <2>0, <3>1, AppendTyped
  <2>b. ASSUME NEW m \in Locals, m.txn = me.txn, me.pc # "idle", Become(r, m)
        PROVE  RunnerTyped
    BY <2>b, <2>0, BecomeTyped
  <2>c. ASSUME NEW pc \in PCs, me.pc # "idle", Goto(r, pc) PROVE RunnerTyped
    <3> DEFINE m == [me EXCEPT !.pc = pc]
    <3>1. m \in Locals /\ m.txn = me.txn
      BY <2>0 DEF Locals
    <3>2. Become(r, m)
      BY <2>c DEF Goto
    <3> HIDE DEF m
    <3> QED BY <2>c, <3>1, <3>2, <2>b
  <2>d. ASSUME Return(r) PROVE RunnerTyped
    BY <2>d, <1>4, BecomeTyped DEF Return
  <2>e. ASSUME NEW changed \in SUBSET Nat, NEW doubt \in BOOLEAN, NEW failed \in Nat,
               me.pc # "idle", Unwind(r, changed, doubt, failed)
        PROVE  RunnerTyped
    <3> DEFINE m == [me EXCEPT !.pc = "undo", !.step = failed, !.report = Verdict("NONE"),
                               !.changed = changed, !.todo = changed, !.unsure = doubt]
    <3>1. m \in Locals /\ m.txn = me.txn
      BY <2>0 DEF Locals, PCs
    <3>2. Become(r, m)
      BY <2>e DEF Unwind
    <3> HIDE DEF m
    <3> QED BY <2>e, <3>1, <3>2, <2>b
  <2> HIDE DEF RunnerTyped
  <2>1. ASSUME NEW ok \in BOOLEAN, Register_plan(r, ok) PROVE TypeOK'
    <3>1. log' \in [Txns -> Seq(Events)]
      BY <2>1, <2>0, <2>a DEF Register_plan, At
    <3>2. registered' \in SUBSET Txns
      BY <2>1, <2>0 DEF Register_plan, TypeOK, At
    <3>3. RunnerTyped
      BY <2>1, <2>c, <2>d DEF Register_plan, At, PCs
    <3> QED BY <2>1, <3>1, <3>2, <3>3 DEF TypeOK, Register_plan, RunnerTyped
  <2>2. ASSUME NEW ok \in BOOLEAN, Prepare_snapshot(r, ok) PROVE TypeOK'
    <3>1. RunnerTyped
      BY <2>2, <2>c DEF Prepare_snapshot, At, PCs
    <3> QED BY <2>2, <3>1 DEF TypeOK, Prepare_snapshot, RunnerTyped
  <2>3. ASSUME NEW ok \in BOOLEAN, Success_receipt(r, ok) PROVE TypeOK'
    <3>1. RunnerTyped
      BY <2>3, <2>0, <2>c, <2>e DEF Success_receipt, At, PCs
    <3> QED BY <2>3, <3>1 DEF TypeOK, Success_receipt, RunnerTyped
  <2>4. ASSUME SafeFailureRecorded(r) PROVE TypeOK'
    <3>1. log' \in [Txns -> Seq(Events)]
      BY <2>4, <2>0, <2>a DEF SafeFailureRecorded, At
    <3>2. RunnerTyped
      BY <2>4, <2>c DEF SafeFailureRecorded, At, PCs
    <3> QED BY <2>4, <3>1, <3>2 DEF TypeOK, SafeFailureRecorded, RunnerTyped
  <2>5. ASSUME SafeFailureCompletes(r) \/ CompleteSuccess(r) \/ MarkUnknown(r) \/ CompleteFailure(r)
        PROVE  TypeOK'
    <3>1. RunnerTyped
      BY <2>5, <2>d DEF SafeFailureCompletes, CompleteSuccess, MarkUnknown, CompleteFailure
    <3>2. \E event \in OpStates : Terminal(PlanOp[me.txn], event)
      BY <2>5 DEF SafeFailureCompletes, CompleteSuccess, MarkUnknown, CompleteFailure, OpStates
    <3>3. UNCHANGED <<settled, registered, log, host>>
      BY <2>5 DEF SafeFailureCompletes, CompleteSuccess, MarkUnknown, CompleteFailure
    <3>4. opState' \in [Ops -> OpStates]
      BY <3>2 DEF Terminal, TypeOK
    <3> QED BY <3>1, <3>3, <3>4 DEF TypeOK, RunnerTyped
  <2>6. ASSUME SnapshotCaptured(r) PROVE TypeOK'
    <3>1. log' \in [Txns -> Seq(Events)]
      BY <2>6, <2>0, <2>a DEF SnapshotCaptured, At
    <3> DEFINE m == [me EXCEPT !.pc = "start", !.step = 1]
    <3>2. m \in Locals /\ m.txn = me.txn
      BY <2>0 DEF Locals, PCs
    <3>m. me.pc # "idle" /\ Become(r, m)
      BY <2>6 DEF SnapshotCaptured, At
    <3> HIDE DEF m
    <3>3. RunnerTyped
      BY <3>2, <3>m, <2>b
    <3> QED BY <2>6, <3>1, <3>3 DEF TypeOK, SnapshotCaptured, RunnerTyped
  <2>7. ASSUME StepStarted(r) PROVE TypeOK'
    <3>1. log' \in [Txns -> Seq(Events)]
      BY <2>7, <2>0, <2>a DEF StepStarted, At
    <3>2. RunnerTyped
      BY <2>7, <2>c DEF StepStarted, At, PCs
    <3> QED BY <2>7, <3>1, <3>2 DEF TypeOK, StepStarted, RunnerTyped
  <2>8. ASSUME NEW applied \in BOOLEAN, NEW x \in StepExecution, Execute_step(r, applied, x)
        PROVE  TypeOK'
    <3>1. host' \in [Txns -> SUBSET Nat]
      BY <2>8, <2>0 DEF Execute_step, TypeOK
    <3> DEFINE m == [me EXCEPT !.pc = "record", !.report = x]
    <3>2. m \in Locals /\ m.txn = me.txn
      BY <2>0 DEF Locals, PCs, StepExecution, Reports
    <3>m. me.pc # "idle" /\ Become(r, m)
      BY <2>8 DEF Execute_step, At
    <3> HIDE DEF m
    <3>3. RunnerTyped
      BY <3>2, <3>m, <2>b
    <3> QED BY <2>8, <3>1, <3>3 DEF TypeOK, Execute_step, RunnerTyped
  <2>9. ASSUME StepRecorded(r) PROVE TypeOK'
    <3> DEFINE changed == IF me.report.change = "APPLIED" THEN me.changed \cup {me.step}
                          ELSE me.changed
               m == [me EXCEPT !.pc = "verify", !.changed = changed, !.report = Verdict("NONE")]
               doubt == "UNKNOWN" \in {me.report.status, me.report.change}
    <3>1. log' \in [Txns -> Seq(Events)]
      BY <2>9, <2>0, <2>a DEF StepRecorded, At
    <3>2. changed \in SUBSET Nat /\ doubt \in BOOLEAN
      BY <2>0
    <3>3. me.pc # "idle" /\ (Become(r, m) \/ Unwind(r, changed, doubt, me.step))
      BY <2>9 DEF StepRecorded, At
    <3> HIDE DEF changed, doubt
    <3>4. m \in Locals /\ m.txn = me.txn
      BY <2>0, <3>2 DEF Locals, PCs
    <3> HIDE DEF m
    <3>5. RunnerTyped
      BY <2>0, <3>2, <3>3, <3>4, <2>b, <2>e
    <3> QED BY <2>9, <3>1, <3>5 DEF TypeOK, StepRecorded, RunnerTyped
  <2>10. ASSUME NEW status \in {"SATISFIED", "FAILED", "UNKNOWN"}, Verify_postcondition(r, status)
         PROVE  TypeOK'
    <3> DEFINE m == [me EXCEPT !.pc = "record_post", !.report = Verdict(status)]
    <3>1. m \in Locals /\ m.txn = me.txn
      BY <2>0 DEF Locals, PCs, Verdict, Reports
    <3>m. me.pc # "idle" /\ Become(r, m)
      BY <2>10 DEF Verify_postcondition, At
    <3> HIDE DEF m
    <3>2. RunnerTyped
      BY <3>1, <3>m, <2>b
    <3> QED BY <2>10, <3>2 DEF TypeOK, Verify_postcondition, RunnerTyped
  <2>11. ASSUME PostconditionRecorded(r) PROVE TypeOK'
    <3> DEFINE m == [me EXCEPT !.pc = "start", !.step = me.step + 1, !.report = Verdict("NONE")]
               n == [me EXCEPT !.pc = "receipt", !.report = Verdict("NONE")]
               doubt == me.report.status = "UNKNOWN"
    <3>1. log' \in [Txns -> Seq(Events)]
      BY <2>11, <2>0, <2>a DEF PostconditionRecorded, At
    <3>2. m \in Locals /\ m.txn = me.txn
      <4>1. me.step + 1 \in Nat
        BY <2>0
      <4> QED BY <2>0, <4>1 DEF Locals, PCs
    <3>3. n \in Locals /\ n.txn = me.txn
      BY <2>0 DEF Locals, PCs
    <3>4. /\ me.pc # "idle"
          /\ Become(r, m) \/ Become(r, n) \/ Unwind(r, me.changed, doubt, me.step)
      BY <2>11 DEF PostconditionRecorded, At
    <3>5. doubt \in BOOLEAN
      OBVIOUS
    <3> HIDE DEF m, n, doubt
    <3>6. RunnerTyped
      BY <2>0, <3>2, <3>3, <3>4, <3>5, <2>b, <2>e
    <3> QED BY <2>11, <3>1, <3>6 DEF TypeOK, PostconditionRecorded, RunnerTyped
  <2>12. ASSUME NEW s \in me.todo, SkipNoncompensatable(r, s) PROVE TypeOK'
    <3> DEFINE m == [me EXCEPT !.todo = @ \ {s}, !.unsure = TRUE]
    <3>1. m \in Locals /\ m.txn = me.txn
      BY <2>0 DEF Locals
    <3>m. me.pc # "idle" /\ Become(r, m)
      BY <2>12 DEF SkipNoncompensatable, At
    <3> HIDE DEF m
    <3>2. RunnerTyped
      BY <3>1, <3>m, <2>b
    <3> QED BY <2>12, <3>2 DEF TypeOK, SkipNoncompensatable, RunnerTyped
  <2>13. ASSUME NEW s \in me.todo, CompensationStarted(r, s) PROVE TypeOK'
    <3>1. log' \in [Txns -> Seq(Events)]
      BY <2>13, <2>0, <2>a DEF CompensationStarted, At
    <3>2. RunnerTyped
      BY <2>13, <2>c DEF CompensationStarted, At, PCs
    <3> QED BY <2>13, <3>1, <3>2 DEF TypeOK, CompensationStarted, RunnerTyped
  <2>14. ASSUME NEW s \in me.todo, NEW undone \in BOOLEAN,
                NEW status \in {"RESTORED", "FAILED", "UNKNOWN"},
                Compensate_step(r, s, undone, status)
         PROVE  TypeOK'
    <3>1. host' \in [Txns -> SUBSET Nat]
      BY <2>14 DEF Compensate_step, TypeOK
    <3> DEFINE m == [me EXCEPT !.pc = "record_undo", !.report = Verdict(status)]
    <3>2. m \in Locals /\ m.txn = me.txn
      BY <2>0 DEF Locals, PCs, Verdict, Reports
    <3>m. me.pc # "idle" /\ Become(r, m)
      BY <2>14 DEF Compensate_step, At
    <3> HIDE DEF m
    <3>3. RunnerTyped
      BY <3>2, <3>m, <2>b
    <3> QED BY <2>14, <3>1, <3>3 DEF TypeOK, Compensate_step, RunnerTyped
  <2>15. ASSUME NEW s \in me.todo, CompensationRecorded(r, s) PROVE TypeOK'
    <3>1. log' \in [Txns -> Seq(Events)]
      BY <2>15, <2>0, <2>a DEF CompensationRecorded, At
    <3> DEFINE m == [me EXCEPT !.pc = "undo", !.todo = @ \ {s}, !.report = Verdict("NONE"),
                     !.unsure = @ \/ me.report.status # "RESTORED"]
    <3>2. m \in Locals /\ m.txn = me.txn
      BY <2>0 DEF Locals, PCs
    <3>m. me.pc # "idle" /\ Become(r, m)
      BY <2>15 DEF CompensationRecorded, At
    <3> HIDE DEF m
    <3>3. RunnerTyped
      BY <3>2, <3>m, <2>b
    <3> QED BY <2>15, <3>1, <3>3 DEF TypeOK, CompensationRecorded, RunnerTyped
  <2>16. ASSUME CompensationEnds(r) PROVE TypeOK'
    <3>1. RunnerTyped
      BY <2>16, <2>c DEF CompensationEnds, At, PCs
    <3> QED BY <2>16, <3>1 DEF TypeOK, CompensationEnds, RunnerTyped
  <2>17. ASSUME RecoveryRequired(r) PROVE TypeOK'
    <3>1. log' \in [Txns -> Seq(Events)]
      BY <2>17, <2>0, <2>a DEF RecoveryRequired, At
    <3>2. RunnerTyped
      BY <2>17, <2>c DEF RecoveryRequired, At, PCs
    <3> QED BY <2>17, <3>1, <3>2 DEF TypeOK, RecoveryRequired, RunnerTyped
  <2> QED BY <1>6, <2>1, <2>2, <2>3, <2>4, <2>5, <2>6, <2>7, <2>8, <2>9, <2>10, <2>11,
             <2>12, <2>13, <2>14, <2>15, <2>16, <2>17 DEF RunStep
<1>7. CASE UNCHANGED vars
  BY <1>7 DEF TypeOK, vars
<1> QED BY <1>1, <1>2, <1>3, <1>5, <1>6, <1>7 DEF Next

\* Every reachable state of the journals and of every call of run() is well
\* formed; in particular a call in progress always has its plan.
THEOREM TypeCorrect == Spec => []TypeOK
<1>1. Init => TypeOK
  BY DEF Init, TypeOK, OpStates, Idle, Locals, PCs, Reports, Verdict
<1> QED BY <1>1, TypeStep, PTL DEF Spec

-----------------------------------------------------------------------------
(* A FAILED operation left nothing behind.  FailedLeavesNothing is not     *)
(* inductive: it needs to know what each call of run() that is under way   *)
(* may have changed, that no two calls are under way on one operation, and *)
(* that a FAILED operation can get no new call.                            *)

\* The call has registered its plan and has not returned.
Engaged(r) == runner[r].pc \notin {"idle", "register"}

\* One transaction per operation, and one call per transaction.
OnePlanPerOperation ==
    \A t, u \in registered : PlanOp[t] = PlanOp[u] => t = u

OneCallPerPlan ==
    /\ \A r \in Runners : Engaged(r) => runner[r].txn \in registered
    /\ \A r, q \in Runners :
          Engaged(r) /\ Engaged(q) /\ runner[r].txn = runner[q].txn => r = q

UnregisteredUntouched == \A t \in Txns \ registered : host[t] = {}

\* What a call with local variables me knows bounds the changes its plan has
\* left in the host.
Accounts(me, changes) ==
    /\ me.pc \in {"snapshot", "safe_failure", "safe_complete", "capture", "fail"} => changes = {}
    /\ me.pc \in {"start", "execute", "verify", "record_post", "receipt", "succeed"} =>
          changes \subseteq me.changed
    /\ me.pc = "record" =>
          /\ me.report \in StepExecution
          /\ changes \subseteq IF me.report.change = "NOT_APPLIED" THEN me.changed
                               ELSE me.changed \cup {me.step}
    /\ me.pc \in {"undo", "compensate", "record_undo"} =>
          me.unsure \/ changes \subseteq me.todo
    /\ me.pc = "record_undo" /\ me.report.status = "RESTORED" =>
          \A s \in me.todo : IsLast(s, me.todo) => s \notin changes

Accounted(r) == Accounts(runner[r], host[runner[r].txn])

FailedIsOver ==
    \A o \in Ops : opState[o] = "FAILED" =>
        /\ \E t \in registered : PlanOp[t] = o
        /\ \A t \in registered : PlanOp[t] = o => host[t] = {}
        /\ \A r \in Runners : Engaged(r) => PlanOp[runner[r].txn] # o

IInv ==
    /\ TypeOK
    /\ OnePlanPerOperation
    /\ OneCallPerPlan
    /\ UnregisteredUntouched
    /\ \A r \in Runners : Engaged(r) => Accounted(r)
    /\ FailedIsOver


\* A step of one call that keeps its plan, writes no operation row and changes
\* the host only through its own plan needs checking for that call alone.
LEMMA OwnStep ==
    ASSUME IInv, TypeOK', NEW r \in Runners, Engaged(r), NEW m,
           Become(r, m), m.txn = runner[r].txn,
           UNCHANGED <<opState, registered>>,
           \A t \in Txns \ {runner[r].txn} : host'[t] = host[t],
           m.pc # "idle" => Accounts(m, host'[m.txn])
    PROVE  IInv'
<1>1. /\ runner'[r] = m
      /\ \A q \in Runners \ {r} : runner'[q] = runner[q]
      /\ \A q \in Runners : Engaged(q)' => Engaged(q) /\ runner'[q].txn = runner[q].txn
  BY DEF Become, IInv, TypeOK, Engaged
<1>2. runner[r].txn \in registered /\ runner[r].txn \in Txns
  BY DEF IInv, OneCallPerPlan, TypeOK, Engaged
<1>3. OnePlanPerOperation' /\ OneCallPerPlan'
  BY <1>1 DEF IInv, OnePlanPerOperation, OneCallPerPlan
<1>4. UnregisteredUntouched'
  BY <1>2 DEF IInv, UnregisteredUntouched
<1>5. ASSUME NEW q \in Runners, Engaged(q)' PROVE Accounted(q)'
  <2>1. CASE q = r
    BY <2>1, <1>1, <1>5 DEF Engaged, Accounted
  <2>2. CASE q # r
    <3>1. runner'[q] = runner[q] /\ Engaged(q) /\ Accounted(q)
      BY <2>2, <1>1, <1>5 DEF IInv
    <3>2. runner[q].txn # runner[r].txn /\ runner[q].txn \in Txns
      BY <2>2, <3>1 DEF IInv, OneCallPerPlan, TypeOK, Engaged
    <3>3. host'[runner[q].txn] = host[runner[q].txn]
      BY <3>2
    <3> QED BY <3>1, <3>3 DEF Accounted
  <2> QED BY <2>1, <2>2
<1>6. FailedIsOver'
  <2> SUFFICES ASSUME NEW o \in Ops, opState[o] = "FAILED"
               PROVE  /\ \E t \in registered : PlanOp[t] = o
                      /\ \A t \in registered : PlanOp[t] = o => host'[t] = {}
                      /\ \A q \in Runners : Engaged(q)' => PlanOp[runner'[q].txn] # o
    BY DEF FailedIsOver
  <2>1. /\ \E t \in registered : PlanOp[t] = o
        /\ \A t \in registered : PlanOp[t] = o => host[t] = {}
        /\ \A q \in Runners : Engaged(q) => PlanOp[runner[q].txn] # o
    BY DEF IInv, FailedIsOver
  <2>2. \A t \in registered : PlanOp[t] = o => t \in Txns \ {runner[r].txn}
    BY <2>1 DEF IInv, TypeOK
  <2> QED BY <2>1, <2>2, <1>1
<1> QED BY <1>3, <1>4, <1>5, <1>6 DEF IInv

\* A call that writes its operation's outcome and returns keeps the invariant,
\* provided it does not write FAILED over a change of its own.
LEMMA LastStep ==
    ASSUME IInv, TypeOK', NEW r \in Runners, Engaged(r), NEW event \in OpStates,
           Terminal(PlanOp[runner[r].txn], event), Return(r),
           UNCHANGED <<registered, host>>,
           event = "FAILED" => host[runner[r].txn] = {}
    PROVE  IInv'
<1> DEFINE t == runner[r].txn
           o == PlanOp[runner[r].txn]
<1>1. /\ ~Engaged(r)'
      /\ \A q \in Runners \ {r} : runner'[q] = runner[q]
      /\ \A q \in Runners : Engaged(q)' => Engaged(q) /\ runner'[q] = runner[q] /\ q # r
  BY DEF Return, Become, IInv, TypeOK, Engaged, Idle
<1>2. t \in registered /\ t \in Txns /\ o \in Ops
  BY PlanAssumption DEF IInv, OneCallPerPlan, TypeOK, Engaged
<1>3. OnePlanPerOperation' /\ OneCallPerPlan' /\ UnregisteredUntouched'
  BY <1>1 DEF IInv, OnePlanPerOperation, OneCallPerPlan, UnregisteredUntouched
<1>4. ASSUME NEW q \in Runners, Engaged(q)' PROVE Accounted(q)'
  BY <1>1, <1>4 DEF IInv, Accounted
<1>5. FailedIsOver'
  <2> SUFFICES ASSUME NEW p \in Ops, opState'[p] = "FAILED"
               PROVE  /\ \E u \in registered : PlanOp[u] = p
                      /\ \A u \in registered : PlanOp[u] = p => host[u] = {}
                      /\ \A q \in Runners : Engaged(q)' => PlanOp[runner'[q].txn] # p
    BY DEF FailedIsOver
  <2>1. CASE opState[p] = "FAILED"
    BY <2>1, <1>1 DEF IInv, FailedIsOver
  <2>2. CASE opState[p] # "FAILED"
    <3>1. p = o /\ event = "FAILED"
      BY <2>2, <1>2 DEF Terminal, IInv, TypeOK
    <3>2. \A u \in registered : PlanOp[u] = o => u = t
      BY <1>2 DEF IInv, OnePlanPerOperation
    <3>3. \A q \in Runners : Engaged(q) /\ q # r =>
             runner[q].txn \in registered /\ runner[q].txn # t
      BY DEF IInv, OneCallPerPlan
    <3> QED BY <3>1, <3>2, <3>3, <1>1, <1>2
  <2> QED BY <2>1, <2>2
<1> QED BY <1>3, <1>4, <1>5 DEF IInv


\* Every step of the system preserves the invariant.
LEMMA IInvStep == IInv /\ [Next]_vars => IInv'
<1> SUFFICES ASSUME IInv, [Next]_vars PROVE IInv'
    OBVIOUS
<1>0. TypeOK /\ TypeOK'
  BY TypeStep DEF IInv
<1>1. ASSUME NEW o \in Ops, Prepare(o) \/ Claim_execution(o) \/ ReviewMarksUnknown(o)
      PROVE  IInv'
  <2>1. UNCHANGED <<settled, registered, log, host, runner>>
    BY <1>1 DEF Prepare, Claim_execution, ReviewMarksUnknown
  <2>2. \A p \in Ops : opState'[p] = "FAILED" => opState[p] = "FAILED"
    BY <1>0, <1>1 DEF Prepare, Claim_execution, ReviewMarksUnknown, Terminal, TypeOK
  <2> QED BY <1>0, <2>1, <2>2 DEF IInv, OnePlanPerOperation, OneCallPerPlan,
             UnregisteredUntouched, Engaged, Accounted, FailedIsOver
<1>2. ASSUME NEW o \in Ops, NEW outcome \in {"SUCCEEDED", "FAILED"}, Reconcile_unknown(o, outcome)
      PROVE  IInv'
  BY <1>0, <1>2 DEF Reconcile_unknown, IInv, OnePlanPerOperation, OneCallPerPlan,
             UnregisteredUntouched, Engaged, Accounted, FailedIsOver
<1>3. ASSUME NEW r \in Runners, ~Engaged(r), ~Engaged(r)', NEW m, Become(r, m),
             UNCHANGED <<opState, registered, host>>
      PROVE  IInv'
  <2>1. \A q \in Runners : Engaged(q)' => Engaged(q) /\ runner'[q] = runner[q]
    BY <1>0, <1>3 DEF Become, TypeOK, Engaged
  <2>2. \A q \in Runners : Engaged(q)' => Accounted(q)'
    BY <1>3, <2>1 DEF IInv, Accounted
  <2> QED BY <1>0, <1>3, <2>1, <2>2 DEF IInv, OnePlanPerOperation, OneCallPerPlan,
             UnregisteredUntouched, FailedIsOver
<1>4. ASSUME NEW r \in Runners, NEW t \in Txns, RunCalled(r, t)
      PROVE  IInv'
  <2>1. ~Engaged(r) /\ ~Engaged(r)'
    BY <1>0, <1>4 DEF RunCalled, Become, Engaged, At, Idle, TypeOK
  <2> QED BY <1>3, <1>4, <2>1 DEF RunCalled
<1>5. ASSUME NEW r \in Runners, Crash(r) PROVE IInv'
  <2>1. ~Engaged(r)'
    BY <1>0, <1>5 DEF Crash, Return, Become, Engaged, Idle, TypeOK
  <2>2. CASE ~Engaged(r)
    BY <1>3, <1>5, <2>1, <2>2 DEF Crash, Return
  <2>3. CASE Engaged(r)
    <3>1. \A q \in Runners : Engaged(q)' => Engaged(q) /\ runner'[q] = runner[q]
      BY <1>0, <1>5, <2>1 DEF Crash, Return, Become, TypeOK, Engaged
    <3>2. \A q \in Runners : Engaged(q)' => Accounted(q)'
      BY <1>5, <3>1 DEF IInv, Accounted, Crash
    <3> QED BY <1>0, <1>5, <3>1, <3>2 DEF Crash, IInv, OnePlanPerOperation, OneCallPerPlan,
               UnregisteredUntouched, FailedIsOver
  <2> QED BY <2>2, <2>3
<1>6. ASSUME NEW r \in Runners, NEW ok \in BOOLEAN, Register_plan(r, ok) PROVE IInv'
  <2> DEFINE t == runner[r].txn
             m == [runner[r] EXCEPT !.pc = IF ok THEN "snapshot" ELSE "safe_failure"]
  <2>0. ~Engaged(r) /\ t \in Txns /\ runner[r] \in Locals
    BY <1>0, <1>6 DEF Register_plan, At, Engaged, TypeOK
  <2>1. CASE ~MayRegister(t)
    <3>1. ~Engaged(r)'
      BY <1>0, <1>6, <2>1 DEF Register_plan, Return, Become, Engaged, Idle, TypeOK
    <3> QED BY <1>3, <1>6, <2>0, <2>1, <3>1 DEF Register_plan, Return
  <2>2. CASE MayRegister(t)
    <3>1. /\ registered' = registered \cup {t}
          /\ Become(r, m)
          /\ UNCHANGED <<opState, host>>
      BY <1>6, <2>2 DEF Register_plan, Goto
    <3>2. m.pc \in {"snapshot", "safe_failure"} /\ m.txn = t /\ m.changed = runner[r].changed
      BY <2>0 DEF Locals
    <3> HIDE DEF m
    <3>3. runner'[r] = m /\ \A q \in Runners \ {r} : runner'[q] = runner[q]
      BY <1>0, <3>1 DEF Become, TypeOK
    <3>4. t \notin registered /\ \A u \in registered : PlanOp[u] # PlanOp[t]
      BY <2>2 DEF MayRegister
    <3>5. OnePlanPerOperation'
      BY <3>1, <3>4 DEF IInv, OnePlanPerOperation
    <3>6. OneCallPerPlan'
      BY <3>1, <3>2, <3>3, <3>4 DEF IInv, OneCallPerPlan, Engaged
    <3>7. UnregisteredUntouched' /\ host'[t] = {}
      BY <2>0, <3>1, <3>4 DEF IInv, UnregisteredUntouched
    <3>8. \A q \in Runners : Engaged(q)' => Accounted(q)'
      <4>1. Accounts(m, {})
        BY <3>2 DEF Accounts
      <4>2. \A q \in Runners \ {r} : Engaged(q)' => Engaged(q) /\ runner'[q] = runner[q]
        BY <3>3 DEF Engaged
      <4> QED BY <3>1, <3>2, <3>3, <3>7, <4>1, <4>2 DEF IInv, Accounted
    <3>9. FailedIsOver'
      BY <3>1, <3>2, <3>3, <3>4 DEF IInv, FailedIsOver, Engaged
    <3> QED BY <1>0, <3>5, <3>6, <3>7, <3>8, <3>9 DEF IInv
  <2> QED BY <2>1, <2>2
<1>7. ASSUME NEW r \in Runners, RunStep(r),
             \A ok \in BOOLEAN : ~Register_plan(r, ok)
      PROVE  IInv'
  <2> DEFINE me == runner[r]
             t == runner[r].txn
  <2>0. me \in Locals
    BY <1>0 DEF TypeOK
  <2>a. ASSUME Engaged(r), NEW m, Become(r, m), m.txn = t, UNCHANGED <<opState, registered>>,
               \A u \in Txns \ {t} : host'[u] = host[u], Accounts(m, host'[t])
        PROVE  IInv'
    BY <1>0, <2>a, OwnStep
  <2>b. Engaged(r) => Accounts(me, host[t]) /\ t \in Txns
    BY <1>0 DEF IInv, Accounted, TypeOK, Engaged
  <2>c. ASSUME Engaged(r), NEW pc \in PCs, Goto(r, pc), UNCHANGED <<opState, registered, host>>,
               \A m : m = [me EXCEPT !.pc = pc] => Accounts(m, host[t])
        PROVE  IInv'
    <3> DEFINE m == [me EXCEPT !.pc = pc]
    <3>1. Become(r, m)
      BY <2>c DEF Goto
    <3>2. m.txn = t
      BY <2>0 DEF Locals
    <3>3. Accounts(m, host'[t])
      BY <2>c
    <3> HIDE DEF m
    <3> QED BY <2>a, <2>c, <3>1, <3>2, <3>3
  <2>d. ASSUME Engaged(r), UNCHANGED <<opState, registered, host>>,
               NEW changed, NEW doubt, NEW failed, Unwind(r, changed, doubt, failed),
               doubt \/ host[t] \subseteq changed
        PROVE  IInv'
    <3> DEFINE m == [me EXCEPT !.pc = "undo", !.step = failed, !.report = Verdict("NONE"),
                               !.changed = changed, !.todo = changed, !.unsure = doubt]
    <3>1. Become(r, m)
      BY <2>d DEF Unwind
    <3>2. m.pc = "undo" /\ m.txn = t /\ m.todo = changed /\ m.unsure = doubt
      BY <2>0 DEF Locals
    <3> HIDE DEF m
    <3>3. Accounts(m, host'[t])
      BY <2>d, <3>2 DEF Accounts
    <3> QED BY <2>a, <2>d, <3>1, <3>2, <3>3
  <2>1. ASSUME NEW ok \in BOOLEAN, Prepare_snapshot(r, ok) PROVE IInv'
    <3>1. me.pc = "snapshot" /\ Engaged(r) /\ host[t] = {}
      BY <2>1, <2>b DEF Prepare_snapshot, At, Engaged, Accounts
    <3>2. \A m : m = [me EXCEPT !.pc = IF ok THEN "capture" ELSE "safe_failure"]
                    => Accounts(m, host[t])
      BY <2>0, <3>1 DEF Locals, Accounts
    <3>3. (IF ok THEN "capture" ELSE "safe_failure") \in PCs
      BY DEF PCs
    <3> QED BY <2>1, <2>c, <3>1, <3>2, <3>3 DEF Prepare_snapshot
  <2>2. ASSUME SafeFailureRecorded(r) PROVE IInv'
    <3>1. me.pc = "safe_failure" /\ Engaged(r) /\ host[t] = {}
      BY <2>2, <2>b DEF SafeFailureRecorded, At, Engaged, Accounts
    <3>2. \A m : m = [me EXCEPT !.pc = "safe_complete"] => Accounts(m, host[t])
      BY <2>0, <3>1 DEF Locals, Accounts
    <3> QED BY <2>2, <2>c, <3>1, <3>2 DEF SafeFailureRecorded, PCs
  <2>3. ASSUME SafeFailureCompletes(r) \/ CompleteFailure(r) PROVE IInv'
    <3>1. me.pc \in {"safe_complete", "fail"} /\ Engaged(r) /\ host[t] = {}
      BY <2>3, <2>b DEF SafeFailureCompletes, CompleteFailure, At, Engaged, Accounts
    <3> QED BY <1>0, <2>3, <3>1, LastStep DEF SafeFailureCompletes, CompleteFailure, OpStates
  <2>4. ASSUME CompleteSuccess(r) PROVE IInv'
    <3>1. Engaged(r)
      BY <2>4 DEF CompleteSuccess, At, Engaged
    <3> QED BY <1>0, <2>4, <3>1, LastStep DEF CompleteSuccess, OpStates
  <2>5. ASSUME MarkUnknown(r) PROVE IInv'
    <3>1. Engaged(r)
      BY <2>5 DEF MarkUnknown, At, Engaged
    <3> QED BY <1>0, <2>5, <3>1, LastStep DEF MarkUnknown, OpStates
  <2>6. ASSUME SnapshotCaptured(r) PROVE IInv'
    <3> DEFINE m == [me EXCEPT !.pc = "start", !.step = 1]
    <3>1. Engaged(r) /\ host[t] = {} /\ Become(r, m) /\ UNCHANGED <<opState, registered, host>>
      BY <2>6, <2>b DEF SnapshotCaptured, At, Engaged, Accounts
    <3>2. m.pc = "start" /\ m.txn = t
      BY <2>0 DEF Locals
    <3> HIDE DEF m
    <3>3. Accounts(m, host'[t])
      BY <3>1, <3>2 DEF Accounts
    <3> QED BY <2>a, <3>1, <3>2, <3>3
  <2>7. ASSUME StepStarted(r) PROVE IInv'
    <3>1. me.pc = "start" /\ Engaged(r) /\ host[t] \subseteq me.changed
      BY <2>7, <2>b DEF StepStarted, At, Engaged, Accounts
    <3>2. \A m : m = [me EXCEPT !.pc = "execute"] => Accounts(m, host[t])
      BY <2>0, <3>1 DEF Locals, Accounts
    <3> QED BY <2>7, <2>c, <3>1, <3>2 DEF StepStarted, PCs
  <2>8. ASSUME NEW applied \in BOOLEAN, NEW x \in StepExecution, Execute_step(r, applied, x)
        PROVE  IInv'
    <3> DEFINE m == [me EXCEPT !.pc = "record", !.report = x]
    <3>1. Engaged(r) /\ host[t] \subseteq me.changed /\ Become(r, m)
          /\ UNCHANGED <<opState, registered>>
      BY <2>8, <2>b DEF Execute_step, At, Engaged, Accounts
    <3>2. m.pc = "record" /\ m.txn = t /\ m.report = x /\ m.changed = me.changed /\ m.step = me.step
      BY <2>0 DEF Locals
    <3> HIDE DEF m
    <3>3. applied => x.change # "NOT_APPLIED"
      BY <2>8 DEF Execute_step, HonestExecution
    <3>4. \A u \in Txns \ {t} : host'[u] = host[u]
      BY <1>0, <2>8 DEF Execute_step, TypeOK
    <3>5. host'[t] = IF applied THEN host[t] \cup {me.step} ELSE host[t]
      BY <1>0, <2>8, <3>1, <2>b DEF Execute_step, TypeOK
    <3>6. Accounts(m, host'[t])
      BY <3>1, <3>2, <3>3, <3>5 DEF Accounts
    <3> QED BY <2>a, <3>1, <3>2, <3>4, <3>6
  <2>9. ASSUME StepRecorded(r) PROVE IInv'
    <3> DEFINE changed == IF me.report.change = "APPLIED" THEN me.changed \cup {me.step}
                          ELSE me.changed
               doubt == "UNKNOWN" \in {me.report.status, me.report.change}
               m == [me EXCEPT !.pc = "verify", !.changed = changed, !.report = Verdict("NONE")]
    <3>1. Engaged(r) /\ me.report \in StepExecution
          /\ host[t] \subseteq (IF me.report.change = "NOT_APPLIED" THEN me.changed
                                ELSE me.changed \cup {me.step})
          /\ UNCHANGED <<opState, registered, host>>
      BY <2>9, <2>b DEF StepRecorded, At, Engaged, Accounts
    <3>2. me.report.change # "UNKNOWN" => host[t] \subseteq changed
      BY <3>1 DEF StepExecution
    <3>3. \/ me.report.change # "UNKNOWN" /\ Become(r, m)
          \/ Unwind(r, changed, doubt, me.step)
      BY <2>9, <3>1 DEF StepRecorded, StepExecution
    <3>4. doubt \/ host[t] \subseteq changed
      BY <3>2
    <3> HIDE DEF changed, doubt
    <3>5. m.pc = "verify" /\ m.txn = t /\ m.changed = changed
      BY <2>0 DEF Locals
    <3> HIDE DEF m
    <3>6. me.report.change # "UNKNOWN" => Accounts(m, host'[t])
      BY <3>1, <3>2, <3>5 DEF Accounts
    <3> QED BY <2>a, <2>d, <3>1, <3>3, <3>4, <3>5, <3>6
  <2>10. ASSUME NEW status \in {"SATISFIED", "FAILED", "UNKNOWN"}, Verify_postcondition(r, status)
         PROVE  IInv'
    <3> DEFINE m == [me EXCEPT !.pc = "record_post", !.report = Verdict(status)]
    <3>1. Engaged(r) /\ host[t] \subseteq me.changed /\ Become(r, m)
          /\ UNCHANGED <<opState, registered, host>>
      BY <2>10, <2>b DEF Verify_postcondition, At, Engaged, Accounts
    <3>2. m.pc = "record_post" /\ m.txn = t /\ m.changed = me.changed
      BY <2>0 DEF Locals
    <3> HIDE DEF m
    <3>3. Accounts(m, host'[t])
      BY <3>1, <3>2 DEF Accounts
    <3> QED BY <2>a, <3>1, <3>2, <3>3
  <2>11. ASSUME PostconditionRecorded(r) PROVE IInv'
    <3> DEFINE m == [me EXCEPT !.pc = "start", !.step = me.step + 1, !.report = Verdict("NONE")]
               n == [me EXCEPT !.pc = "receipt", !.report = Verdict("NONE")]
    <3>1. Engaged(r) /\ host[t] \subseteq me.changed /\ UNCHANGED <<opState, registered, host>>
      BY <2>11, <2>b DEF PostconditionRecorded, At, Engaged, Accounts
    <3>2. Become(r, m) \/ Become(r, n)
          \/ Unwind(r, me.changed, me.report.status = "UNKNOWN", me.step)
      BY <2>11 DEF PostconditionRecorded
    <3>3. /\ m.pc = "start" /\ m.txn = t /\ m.changed = me.changed
          /\ n.pc = "receipt" /\ n.txn = t /\ n.changed = me.changed
      BY <2>0 DEF Locals
    <3> HIDE DEF m, n
    <3>4. Accounts(m, host'[t]) /\ Accounts(n, host'[t])
      BY <3>1, <3>3 DEF Accounts
    <3> QED BY <2>a, <2>d, <3>1, <3>2, <3>3, <3>4
  <2>12. ASSUME NEW ok \in BOOLEAN, Success_receipt(r, ok) PROVE IInv'
    <3>1. me.pc = "receipt" /\ Engaged(r) /\ host[t] \subseteq me.changed
      BY <2>12, <2>b DEF Success_receipt, At, Engaged, Accounts
    <3>2. \A m : m = [me EXCEPT !.pc = "succeed"] => Accounts(m, host[t])
      BY <2>0, <3>1 DEF Locals, Accounts
    <3> QED BY <2>12, <2>c, <2>d, <3>1, <3>2 DEF Success_receipt, PCs
  <2>13. ASSUME NEW s \in me.todo, SkipNoncompensatable(r, s) PROVE IInv'
    <3> DEFINE m == [me EXCEPT !.todo = me.todo \ {s}, !.unsure = TRUE]
    <3>1. Engaged(r) /\ Become(r, m) /\ UNCHANGED <<opState, registered, host>> /\ me.pc = "undo"
      BY <2>13 DEF SkipNoncompensatable, At, Engaged
    <3>2. m.pc = "undo" /\ m.txn = t /\ m.unsure = TRUE
      BY <2>0, <3>1 DEF Locals
    <3> HIDE DEF m
    <3>3. Accounts(m, host'[t])
      BY <3>1, <3>2 DEF Accounts
    <3> QED BY <2>a, <3>1, <3>2, <3>3
  <2>14. ASSUME NEW s \in me.todo, CompensationStarted(r, s) PROVE IInv'
    <3>1. me.pc = "undo" /\ Engaged(r) /\ (me.unsure \/ host[t] \subseteq me.todo)
      BY <2>14, <2>b DEF CompensationStarted, At, Engaged, Accounts
    <3>2. \A m : m = [me EXCEPT !.pc = "compensate"] => Accounts(m, host[t])
      BY <2>0, <3>1 DEF Locals, Accounts
    <3> QED BY <2>14, <2>c, <3>1, <3>2 DEF CompensationStarted, PCs
  <2>15. ASSUME NEW s \in me.todo, NEW undone \in BOOLEAN,
                NEW status \in {"RESTORED", "FAILED", "UNKNOWN"},
                Compensate_step(r, s, undone, status)
         PROVE  IInv'
    <3> DEFINE m == [me EXCEPT !.pc = "record_undo", !.report = Verdict(status)]
    <3>1. /\ Engaged(r) /\ (me.unsure \/ host[t] \subseteq me.todo) /\ Become(r, m)
          /\ UNCHANGED <<opState, registered>>
          /\ IsLast(s, me.todo) /\ (status = "RESTORED" => undone)
      BY <2>15, <2>b DEF Compensate_step, At, Engaged, Accounts
    <3>2. /\ m.pc = "record_undo" /\ m.txn = t /\ m.report.status = status
          /\ m.todo = me.todo /\ m.unsure = me.unsure
      BY <2>0 DEF Locals, Verdict
    <3> HIDE DEF m
    <3>3. \A u \in Txns \ {t} : host'[u] = host[u]
      BY <1>0, <2>15 DEF Compensate_step, TypeOK
    <3>4. host'[t] = IF undone THEN host[t] \ {s} ELSE host[t]
      BY <1>0, <2>15, <3>1, <2>b DEF Compensate_step, TypeOK
    <3>5. \A u \in me.todo : IsLast(u, me.todo) => u = s
      BY <2>0, <3>1 DEF IsLast, Locals
    <3>6. Accounts(m, host'[t])
      BY <3>1, <3>2, <3>4, <3>5 DEF Accounts
    <3> QED BY <2>a, <3>1, <3>2, <3>3, <3>6
  <2>16. ASSUME NEW s \in me.todo, CompensationRecorded(r, s) PROVE IInv'
    <3> DEFINE m == [me EXCEPT !.pc = "undo", !.todo = me.todo \ {s}, !.report = Verdict("NONE"),
                               !.unsure = me.unsure \/ me.report.status # "RESTORED"]
    <3>1. /\ Engaged(r) /\ (me.unsure \/ host[t] \subseteq me.todo) /\ Become(r, m)
          /\ UNCHANGED <<opState, registered, host>>
          /\ me.report.status = "RESTORED" => s \notin host[t]
      BY <2>16, <2>b DEF CompensationRecorded, At, Engaged, Accounts
    <3>2. /\ m.pc = "undo" /\ m.txn = t /\ m.todo = me.todo \ {s}
          /\ m.unsure = (me.unsure \/ me.report.status # "RESTORED")
      BY <2>0 DEF Locals
    <3> HIDE DEF m
    <3>3. Accounts(m, host'[t])
      BY <3>1, <3>2 DEF Accounts
    <3> QED BY <2>a, <3>1, <3>2, <3>3
  <2>17. ASSUME CompensationEnds(r) PROVE IInv'
    <3>1. me.pc = "undo" /\ Engaged(r) /\ (me.unsure \/ host[t] = {})
      BY <2>17, <2>b DEF CompensationEnds, At, Engaged, Accounts
    <3>2. \A m : m = [me EXCEPT !.pc = IF me.unsure THEN "recovery" ELSE "fail"]
                    => Accounts(m, host[t])
      BY <2>0, <3>1 DEF Locals, Accounts
    <3>3. (IF me.unsure THEN "recovery" ELSE "fail") \in PCs
      BY DEF PCs
    <3> QED BY <2>17, <2>c, <3>1, <3>2, <3>3 DEF CompensationEnds
  <2>18. ASSUME RecoveryRequired(r) PROVE IInv'
    <3>1. me.pc = "recovery" /\ Engaged(r)
      BY <2>18 DEF RecoveryRequired, At, Engaged
    <3>2. \A m : m = [me EXCEPT !.pc = "mark_unknown"] => Accounts(m, host[t])
      BY <2>0, <3>1 DEF Locals, Accounts
    <3> QED BY <2>18, <2>c, <3>1, <3>2 DEF RecoveryRequired, PCs
  <2> QED BY <1>7, <2>1, <2>2, <2>3, <2>4, <2>5, <2>6, <2>7, <2>8, <2>9, <2>10, <2>11,
             <2>12, <2>13, <2>14, <2>15, <2>16, <2>17, <2>18 DEF RunStep
<1>8. CASE UNCHANGED vars
  BY <1>0, <1>8 DEF vars, IInv, OnePlanPerOperation, OneCallPerPlan,
             UnregisteredUntouched, Engaged, Accounted, FailedIsOver
<1> QED BY <1>1, <1>2, <1>4, <1>5, <1>6, <1>7, <1>8 DEF Next

\* The invariant holds in every reachable state.
THEOREM Invariance == Spec => []IInv
<1>1. Init => IInv
  <2>1. Init => TypeOK
    BY DEF Init, TypeOK, OpStates, Idle, Locals, PCs, Reports, Verdict
  <2> QED BY <2>1 DEF Init, IInv, OnePlanPerOperation, OneCallPerPlan,
             UnregisteredUntouched, Engaged, FailedIsOver, Idle
<1> QED BY <1>1, IInvStep, PTL DEF Spec

\* An operation recorded FAILED left no change in the creative host, for every
\* number of callers, plans and steps and every crash: complete_failure is
\* written only by a call that has accounted for everything its plan changed.
THEOREM FailureIsClean == Spec => []FailedLeavesNothing
<1>1. IInv => FailedLeavesNothing
  BY PlanAssumption DEF IInv, TypeOK, FailedIsOver, UnregisteredUntouched, FailedLeavesNothing
<1> QED BY <1>1, Invariance, PTL

-----------------------------------------------------------------------------
(* The coordinator implements the operation lifecycle.                     *)

\* Every step of the coordinator is a step of the lifecycle or leaves the
\* operation rows alone.
LEMMA LifecycleStep == TypeOK /\ [Next]_vars => [Lifecycle!Next]_(Lifecycle!lifecycleVars)
<1> SUFFICES ASSUME TypeOK, [Next]_vars
             PROVE  [Lifecycle!Next]_(Lifecycle!lifecycleVars)
    OBVIOUS
<1> USE DEF Lifecycle!Next, Lifecycle!lifecycleVars, Lifecycle!Moves, Lifecycle!Settles,
            Lifecycle!Outcomes
<1>1. ASSUME NEW o \in Ops, NEW event \in {"SUCCEEDED", "FAILED", "UNKNOWN"},
             Terminal(o, event), UNCHANGED settled
      PROVE  [Lifecycle!Next]_(Lifecycle!lifecycleVars)
  BY <1>1 DEF Terminal
<1>2. ASSUME NEW o \in Ops, Prepare(o) \/ Claim_execution(o) \/ ReviewMarksUnknown(o)
      PROVE  [Lifecycle!Next]_(Lifecycle!lifecycleVars)
  BY <1>1, <1>2 DEF Prepare, Claim_execution, ReviewMarksUnknown
<1>3. ASSUME NEW o \in Ops, NEW outcome \in {"SUCCEEDED", "FAILED"}, Reconcile_unknown(o, outcome)
      PROVE  [Lifecycle!Next]_(Lifecycle!lifecycleVars)
  BY <1>3 DEF Reconcile_unknown
<1>4. ASSUME NEW r \in Runners, RunStep(r)
      PROVE  [Lifecycle!Next]_(Lifecycle!lifecycleVars)
  <2>1. CASE SafeFailureCompletes(r) \/ CompleteFailure(r) \/ CompleteSuccess(r) \/ MarkUnknown(r)
    <3>1. runner[r].txn \in Txns /\ PlanOp[runner[r].txn] \in Ops
      BY <2>1, PlanAssumption
         DEF TypeOK, At, SafeFailureCompletes, CompleteFailure, CompleteSuccess, MarkUnknown
    <3> QED BY <1>1, <2>1, <3>1
         DEF SafeFailureCompletes, CompleteFailure, CompleteSuccess, MarkUnknown
  <2>2. CASE ~(\/ SafeFailureCompletes(r) \/ CompleteFailure(r)
               \/ CompleteSuccess(r) \/ MarkUnknown(r))
    <3>1. UNCHANGED <<opState, settled>>
      BY <1>4, <2>2 DEF RunStep, Register_plan, Prepare_snapshot, Success_receipt,
           SafeFailureRecorded, SnapshotCaptured, StepStarted, Execute_step, StepRecorded,
           Verify_postcondition, PostconditionRecorded, SkipNoncompensatable,
           CompensationStarted, Compensate_step, CompensationRecorded, CompensationEnds,
           RecoveryRequired
    <3> QED BY <3>1
  <2> QED BY <2>1, <2>2
<1>5. ASSUME NEW r \in Runners, NEW t \in Txns, RunCalled(r, t) \/ Crash(r)
      PROVE  [Lifecycle!Next]_(Lifecycle!lifecycleVars)
  BY <1>5 DEF RunCalled, Crash
<1>6. ASSUME NEW r \in Runners, Crash(r)
      PROVE  [Lifecycle!Next]_(Lifecycle!lifecycleVars)
  BY <1>6 DEF Crash
<1>7. CASE UNCHANGED vars
  BY <1>7 DEF vars
<1> QED BY <1>2, <1>3, <1>4, <1>5, <1>6, <1>7 DEF Next

\* For any number of operations, plans and callers, the coordinator implements
\* OperationLifecycle.
THEOREM LifecycleImplemented == Spec => ImplementsLifecycle
<1>1. Init => Lifecycle!Init
  BY DEF Init, Lifecycle!Init
<1> QED BY <1>1, LifecycleStep, TypeCorrect, PTL DEF Spec, ImplementsLifecycle, Lifecycle!Spec

-----------------------------------------------------------------------------
(* What the history of a plan says.  The properties about histories need   *)
(* two things at once: what is true of every history, whether or not a     *)
(* call is still writing it (Sound), and what the one call that writes it  *)
(* remembers of it (Remembers).                                            *)

Has(h, type, s) == \E i \in DOMAIN h : h[i].type = type /\ h[i].step = s

Only(h, types) == \A i \in DOMAIN h : h[i].type \in types

HasStatus(h, type, s, status) ==
    \E i \in DOMAIN h : h[i].type = type /\ h[i].step = s /\ h[i].report.status = status

\* An execution of step s was recorded with one of these change states.
HasChange(h, s, changes) ==
    \E i \in DOMAIN h : /\ h[i].type = "STEP_EXECUTION_RECORDED" /\ h[i].step = s
                        /\ h[i].report.change \in changes

\* No event is written twice.
NoRepeat(h) ==
    \A i, j \in DOMAIN h : h[i].type = h[j].type /\ h[i].step = h[j].step => i = j

\* UndoneInReverse, for the history h of t.
Reversed(t, h) ==
    \A s, u \in Steps(t) : s < u /\ u \in Compensatable[t] =>
        \A i, j \in DOMAIN h :
            /\ h[i].type = "COMPENSATION_STARTED" /\ h[i].step = s
            /\ h[j].type = "STEP_EXECUTION_RECORDED" /\ h[j].step = u
            /\ h[j].report.change = "APPLIED"
            => \E k \in 1..(i - 1) : h[k].type = "COMPENSATION_RECORDED" /\ h[k].step = u

\* HistoryTellsTheTruth, for the history h of t and its changes in the host.
Truthful(t, h, changes) ==
    \A s \in changes :
        /\ s \in Steps(t)
        /\ Has(h, "STEP_EXECUTION_STARTED", s)
        /\ ~Has(h, "STEP_EXECUTION_RECORDED", s) \/ HasChange(h, s, {"APPLIED", "UNKNOWN"})
        /\ ~HasStatus(h, "COMPENSATION_RECORDED", s, "RESTORED")

Sound(t, h, changes) ==
    /\ h # <<>> => h[1].type = "PLAN_REGISTERED"
    /\ NoRepeat(h)
    /\ \A n \in DOMAIN h : Follows(t, h, n)
    /\ Reversed(t, h)
    /\ Truthful(t, h, changes)

Forward == {"start", "execute", "record", "verify", "record_post", "receipt", "succeed"}
Backward == {"undo", "compensate", "record_undo", "recovery", "mark_unknown", "fail"}

\* The forward loop is past the point of step s at which pcs are still ahead.
Past(me, s, pcs) == s \in 1..me.step /\ (s = me.step => me.pc \notin pcs)

\* In the forward loop the history holds, of every step, what the place in
\* the loop says, and changed lists the steps recorded APPLIED.
GoesForward(me, h) ==
    /\ me.step \in Steps(me.txn)
    /\ me.pc \in {"receipt", "succeed"} => me.step = PlanLen[me.txn]
    /\ Only(h, {"PLAN_REGISTERED", "SNAPSHOT_CAPTURED", "STEP_EXECUTION_STARTED",
                "STEP_EXECUTION_RECORDED", "POSTCONDITION_RECORDED"})
    /\ Has(h, "SNAPSHOT_CAPTURED", 0)
    /\ \A s \in Nat :
          /\ Has(h, "STEP_EXECUTION_STARTED", s) <=> Past(me, s, {"start"})
          /\ Has(h, "STEP_EXECUTION_RECORDED", s) <=> Past(me, s, {"start", "execute", "record"})
          /\ Has(h, "POSTCONDITION_RECORDED", s) =>
                HasStatus(h, "POSTCONDITION_RECORDED", s, "SATISFIED")
          /\ Has(h, "POSTCONDITION_RECORDED", s) <=>
                Past(me, s, {"start", "execute", "record", "verify", "record_post"})
          /\ s \in me.changed <=> HasChange(h, s, {"APPLIED"})
    /\ me.pc = "record_post" =>
          me.report \in {Verdict(x) : x \in {"SATISFIED", "FAILED", "UNKNOWN"}}

\* A step whose compensation has started and is not yet recorded.
BeingUndone(me, s) == me.pc \in {"compensate", "record_undo"} /\ IsLast(s, me.todo)

\* Undoing, every execution is recorded, and of the steps in changed those no
\* longer in todo are compensated or cannot be.
GoesBackward(me, h) ==
    /\ me.step \in Steps(me.txn) \cup {0}
    /\ me.todo \subseteq me.changed
    /\ \A s \in Nat :
          /\ Has(h, "STEP_EXECUTION_STARTED", s) => Has(h, "STEP_EXECUTION_RECORDED", s)
          /\ s \in me.changed <=> HasChange(h, s, {"APPLIED"})
          /\ Has(h, "COMPENSATION_STARTED", s) <=>
                Has(h, "COMPENSATION_RECORDED", s) \/ BeingUndone(me, s)
          /\ Has(h, "COMPENSATION_RECORDED", s) => s \in me.changed \ me.todo
          /\ s \in (me.changed \ me.todo) \cap Compensatable[me.txn] =>
                Has(h, "COMPENSATION_RECORDED", s)
          /\ me.pc # "mark_unknown" => ~Has(h, "RECOVERY_REQUIRED", s)
    /\ me.pc \in {"recovery", "mark_unknown", "fail"} => me.todo = {}
    /\ me.pc = "record_undo" => me.report.status \in {"RESTORED", "FAILED", "UNKNOWN"}

Remembers(me, h) ==
    /\ me.pc \in {"snapshot", "capture", "safe_failure"} =>
          Only(h, {"PLAN_REGISTERED"}) /\ me.changed = {}
    /\ me.pc = "safe_complete" => Only(h, {"PLAN_REGISTERED", "SAFE_FAILURE"})
    /\ me.pc \in Forward => GoesForward(me, h)
    /\ me.pc \in Backward => GoesBackward(me, h)

\* Every start and every compensation that began is recorded.
Resolved(h) ==
    \A s \in Nat :
        /\ Has(h, "STEP_EXECUTION_STARTED", s) => Has(h, "STEP_EXECUTION_RECORDED", s)
        /\ Has(h, "COMPENSATION_STARTED", s) => Has(h, "COMPENSATION_RECORDED", s)

Verified(t, h) ==
    \A s \in Steps(t) : /\ HasStatus(h, "POSTCONDITION_RECORDED", s, "SATISFIED")
                        /\ ~Has(h, "COMPENSATION_STARTED", s)

\* A registered plan has a history, any other has none.
WrittenIfRegistered == \A t \in Txns : t \in registered <=> log[t] # <<>>

\* Only a claimed operation has calls and plans.
Claimed ==
    /\ \A r \in Runners : runner[r].pc # "idle" =>
          opState[PlanOp[runner[r].txn]] \notin {"ABSENT", "PREPARED"}
    /\ \A t \in registered : opState[PlanOp[t]] \notin {"ABSENT", "PREPARED"}

\* A call has changed nothing before its plan is registered.
Fresh == \A r \in Runners : runner[r].pc = "register" => runner[r].changed = {}

\* An operation with an outcome on record other than UNKNOWN has a plan whose
\* history is complete, and no call left that could write to it.
OutcomeIsOver ==
    \A o \in Ops : opState[o] \in {"SUCCEEDED", "FAILED"} =>
        \E t \in registered :
            /\ PlanOp[t] = o
            /\ Resolved(log[t])
            /\ opState[o] = "SUCCEEDED" => Verified(t, log[t])
            /\ \A r \in Runners : Engaged(r) => runner[r].txn # t

HInv ==
    /\ WrittenIfRegistered
    /\ \A t \in Txns : Sound(t, log[t], host[t])
    /\ \A r \in Runners : Engaged(r) => Remembers(runner[r], log[runner[r].txn])
    /\ Claimed
    /\ Fresh
    /\ OutcomeIsOver

-----------------------------------------------------------------------------
(* Histories only grow.                                                    *)

\* _append_event adds one event at the end and touches no other.
LEMMA AppendGrows ==
    ASSUME NEW h \in Seq(Events), NEW e \in Events
    PROVE  /\ Len(h) \in Nat
           /\ DOMAIN h = 1..Len(h)
           /\ DOMAIN Append(h, e) = 1..(Len(h) + 1)
           /\ \A i \in 1..Len(h) : Append(h, e)[i] = h[i]
           /\ Append(h, e)[Len(h) + 1] = e
           /\ Append(h, e) # <<>>
<1>1. /\ Len(h) \in Nat /\ DOMAIN h = 1..Len(h)
      /\ Append(h, e) \in Seq(Events)
      /\ Len(Append(h, e)) = Len(h) + 1
      /\ \A i \in 1..Len(h) : Append(h, e)[i] = h[i]
      /\ Append(h, e)[Len(h) + 1] = e
  BY AppendProperties, LenProperties
<1>2. DOMAIN Append(h, e) = 1..(Len(h) + 1)
  BY <1>1, LenProperties
<1>3. Append(h, e) # <<>>
  BY <1>1, EmptySeq
<1> QED BY <1>1, <1>2, <1>3

\* What g says is what h says, and event e.
Adds(h, e, g) ==
    /\ \A type, s : Has(g, type, s) <=> Has(h, type, s) \/ (e.type = type /\ e.step = s)
    /\ \A type, s, status : HasStatus(g, type, s, status) <=>
          \/ HasStatus(h, type, s, status)
          \/ e.type = type /\ e.step = s /\ e.report.status = status
    /\ \A s, changes : HasChange(g, s, changes) <=>
          \/ HasChange(h, s, changes)
          \/ e.type = "STEP_EXECUTION_RECORDED" /\ e.step = s /\ e.report.change \in changes
    /\ \A types : Only(g, types) <=> Only(h, types) /\ e.type \in types

\* So a history says, after an event, what it said before, and the event.
LEMMA AppendSays ==
    ASSUME NEW h \in Seq(Events), NEW e \in Events, NEW g, g = Append(h, e)
    PROVE  Adds(h, e, g)
<1> DEFINE n == Len(h) + 1
<1>1. /\ n \in Nat /\ DOMAIN h = 1..Len(h) /\ DOMAIN g = 1..n
      /\ \A i \in 1..Len(h) : g[i] = h[i]
      /\ g[n] = e
  BY AppendGrows
<1>2. DOMAIN g = DOMAIN h \cup {n} /\ Len(h) \in Nat
  BY <1>1, AppendGrows
<1>3. \A i \in DOMAIN h : g[i] = h[i]
  BY <1>1
<1> HIDE DEF n
<1>4. \A type, s : Has(g, type, s) <=> Has(h, type, s) \/ (e.type = type /\ e.step = s)
  BY <1>1, <1>2, <1>3 DEF Has
<1>5. \A type, s, status : HasStatus(g, type, s, status) <=>
        \/ HasStatus(h, type, s, status)
        \/ e.type = type /\ e.step = s /\ e.report.status = status
  BY <1>1, <1>2, <1>3 DEF HasStatus
<1>6. \A s, changes : HasChange(g, s, changes) <=>
        \/ HasChange(h, s, changes)
        \/ e.type = "STEP_EXECUTION_RECORDED" /\ e.step = s /\ e.report.change \in changes
  BY <1>1, <1>2, <1>3 DEF HasChange
<1>7. \A types : Only(g, types) <=> Only(h, types) /\ e.type \in types
  BY <1>1, <1>2, <1>3 DEF Only
<1> QED BY <1>4, <1>5, <1>6, <1>7 DEF Adds

\* What _validate_existing made of an event does not change with later ones.
LEMMA FollowsStays ==
    ASSUME NEW t, NEW h \in Seq(Events), NEW e \in Events, NEW g, g = Append(h, e),
           NEW n \in DOMAIN h, Follows(t, h, n)
    PROVE  Follows(t, g, n)
<1>1. /\ Len(h) \in Nat /\ n \in 1..Len(h) /\ g[n] = h[n]
      /\ \A i \in 1..(n - 1) : g[i] = h[i]
  BY AppendGrows
<1>2. \A type, s : Before(g, n, type, s) = Before(h, n, type, s)
  BY <1>1 DEF Before
<1>3. \A type : Seen(g, n, type) <=> Seen(h, n, type)
  BY <1>1 DEF Seen
<1>4. \A open : /\ Executing(g, n, open) <=> Executing(h, n, open)
                /\ Undoing(g, n, open) <=> Undoing(h, n, open)
  BY <1>1, <1>2 DEF Executing, Undoing, Balance
<1> QED BY <1>1, <1>3, <1>4 DEF Follows

\* In a history without repetitions a step's balance counts to one at most.
LEMMA BeforeCounts ==
    ASSUME NEW h \in Seq(Events), NEW e \in Events, NoRepeat(h), NEW type, NEW s
    PROVE  Cardinality(Before(Append(h, e), Len(h) + 1, type, s))
              = IF Has(h, type, s) THEN 1 ELSE 0
<1> DEFINE B == Before(Append(h, e), Len(h) + 1, type, s)
<1>1. B = {i \in DOMAIN h : h[i].type = type /\ h[i].step = s}
  BY AppendGrows DEF Before
<1>2. CASE Has(h, type, s)
  <2>1. PICK i \in DOMAIN h : h[i].type = type /\ h[i].step = s
    BY <1>2 DEF Has
  <2>2. B = {i}
    BY <1>1, <2>1 DEF NoRepeat
  <2> QED BY <1>2, <2>2, FS_Singleton
<1>3. CASE ~Has(h, type, s)
  <2>1. B = {}
    BY <1>1, <1>3 DEF Has
  <2> QED BY <1>3, <2>1, FS_EmptySet
<1> QED BY <1>2, <1>3

\* Event e is one that a call may add to the history h of t, given the changes
\* in the host.
Timely(t, h, e, changes) ==
    /\ ~Has(h, e.type, e.step)
    /\ h = <<>> <=> e.type = "PLAN_REGISTERED"
    /\ e.type = "PLAN_REGISTERED" => e.report = Verdict("NONE")
    /\ e.step \in IF e.type \in OfNoStep THEN {0}
                  ELSE IF e.type = "RECOVERY_REQUIRED" THEN Steps(t) \cup {0} ELSE Steps(t)
    /\ e.type \in {"SNAPSHOT_CAPTURED", "SAFE_FAILURE"} => Only(h, {"PLAN_REGISTERED"})
    /\ e.type = "STEP_EXECUTION_STARTED" =>
          /\ Has(h, "SNAPSHOT_CAPTURED", 0)
          /\ ~Has(h, "STEP_EXECUTION_RECORDED", e.step)
          /\ \A s \in Nat : Has(h, "STEP_EXECUTION_STARTED", s) => s <= e.step
    /\ e.type = "STEP_EXECUTION_RECORDED" =>
          /\ Has(h, "STEP_EXECUTION_STARTED", e.step)
          /\ e.report \in StepExecution
          /\ \A s \in Nat : ~Has(h, "COMPENSATION_STARTED", s)
          /\ e.report.change = "NOT_APPLIED" => e.step \notin changes
    /\ e.type = "POSTCONDITION_RECORDED" =>
          /\ Has(h, "STEP_EXECUTION_STARTED", e.step)
          /\ Has(h, "STEP_EXECUTION_RECORDED", e.step)
          /\ e.report \in {Verdict(status) : status \in {"SATISFIED", "FAILED", "UNKNOWN"}}
    /\ e.type = "COMPENSATION_STARTED" =>
          /\ ~Has(h, "COMPENSATION_RECORDED", e.step)
          /\ \A u \in Steps(t) \cap Compensatable[t] :
                u > e.step /\ HasChange(h, u, {"APPLIED"}) => Has(h, "COMPENSATION_RECORDED", u)
    /\ e.type = "COMPENSATION_RECORDED" =>
          /\ Has(h, "COMPENSATION_STARTED", e.step)
          /\ e.report.status \in {"RESTORED", "FAILED", "UNKNOWN"}
          /\ e.report.status = "RESTORED" => e.step \notin changes

\* A timely event is one that _validate_existing accepts where it stands.
LEMMA EventFollows ==
    ASSUME NEW t, NEW h \in Seq(Events), NEW e \in Events, NEW changes, NEW g, g = Append(h, e),
           NoRepeat(h), Timely(t, h, e, changes)
    PROVE  Follows(t, g, Len(h) + 1)
<1> USE DEF Timely
<1> DEFINE n == Len(h) + 1
<1>1. /\ Len(h) \in Nat /\ n = Len(h) + 1 /\ DOMAIN h = 1..Len(h) /\ g[n] = e
      /\ \A i \in DOMAIN h : g[i] = h[i] /\ h[i] \in Events
      /\ 1..(n - 1) = DOMAIN h
  BY AppendGrows, ElementOfSeq
<1>2. \A type, s : Cardinality(Before(g, n, type, s)) = IF Has(h, type, s) THEN 1 ELSE 0
  BY BeforeCounts
<1>3. \A type : Seen(g, n, type) <=> \E i \in DOMAIN h : h[i].type = type
  BY <1>1 DEF Seen
<1> HIDE DEF n
<1>4. CASE e.type = "STEP_EXECUTION_STARTED"
  <2>1. Seen(g, n, "SNAPSHOT_CAPTURED")
    BY <1>3, <1>4 DEF Has
  <2>2. Executing(g, n, 0)
    BY <1>1, <1>2, <1>4 DEF Executing, Balance
  <2>3. \A i \in 1..(n - 1) : g[i].type = "STEP_EXECUTION_STARTED" => g[i].step <= e.step
    BY <1>1, <1>4 DEF Has, Events
  <2> QED BY <1>1, <1>4, <2>1, <2>2, <2>3 DEF Follows
<1>5. CASE e.type = "STEP_EXECUTION_RECORDED"
  <2>1. Executing(g, n, 1)
    BY <1>1, <1>2, <1>5 DEF Executing, Balance
  <2> QED BY <1>1, <1>5, <2>1 DEF Follows, StepExecution
<1>6. CASE e.type = "POSTCONDITION_RECORDED"
  <2>1. Executing(g, n, 0)
    BY <1>1, <1>2, <1>6 DEF Executing, Balance
  <2> QED BY <1>1, <1>6, <2>1 DEF Follows
<1>7. CASE e.type \in {"COMPENSATION_STARTED", "COMPENSATION_RECORDED"}
  <2>1. Undoing(g, n, IF e.type = "COMPENSATION_STARTED" THEN 0 ELSE 1)
    BY <1>1, <1>2, <1>7 DEF Undoing, Balance
  <2> QED BY <1>1, <1>7, <2>1 DEF Follows
<1>8. CASE e.type \in OfNoStep \cup {"RECOVERY_REQUIRED"}
  <2>1. e.type = "PLAN_REGISTERED" =>
           ~Seen(g, n, "PLAN_REGISTERED") /\ e.report = Verdict("NONE")
    BY <1>1, <1>3, EmptySeq
  <2>2. e.type \in {"SNAPSHOT_CAPTURED", "SAFE_FAILURE"} => ~Seen(g, n, "SNAPSHOT_CAPTURED")
    BY <1>3 DEF Only
  <2> QED BY <1>1, <1>8, <2>1, <2>2 DEF Follows, OfNoStep
<1> QED BY <1>4, <1>5, <1>6, <1>7, <1>8 DEF Events, OfNoStep

\* A timely event keeps a history sound.
LEMMA SoundAppend ==
    ASSUME NEW t, NEW h \in Seq(Events), NEW e \in Events, NEW changes, NEW g, g = Append(h, e),
           Sound(t, h, changes), Timely(t, h, e, changes)
    PROVE  Sound(t, g, changes)
<1> USE DEF Timely
<1> DEFINE n == Len(h) + 1
<1>1. /\ Len(h) \in Nat /\ n \in Nat /\ n = Len(h) + 1 /\ DOMAIN h = 1..Len(h) /\ DOMAIN g = 1..n
      /\ \A i \in 1..Len(h) : g[i] = h[i]
      /\ g[n] = e
  BY AppendGrows
<1> HIDE DEF n
<1>2. g # <<>> => g[1].type = "PLAN_REGISTERED"
  <2>1. CASE h = <<>>
    <3>1. n = 1
      BY <1>1, <2>1, EmptySeq
    <3> QED BY <1>1, <2>1, <3>1
  <2>2. CASE h # <<>>
    <3>1. 1 \in 1..Len(h)
      BY <1>1, <2>2, EmptySeq
    <3> QED BY <1>1, <2>2, <3>1 DEF Sound
  <2> QED BY <2>1, <2>2
<1>3. NoRepeat(g)
  <2>1. \A i, j \in 1..Len(h) : h[i].type = h[j].type /\ h[i].step = h[j].step => i = j
    BY <1>1 DEF Sound, NoRepeat
  <2>2. \A i \in 1..Len(h) : ~(h[i].type = e.type /\ h[i].step = e.step)
    BY <1>1 DEF Has
  <2>3. \A i \in 1..n : i \in 1..Len(h) \/ i = n
    BY <1>1
  <2> QED BY <1>1, <2>1, <2>2, <2>3 DEF NoRepeat
<1>4. \A i \in DOMAIN g : Follows(t, g, i)
  <2>1. \A i \in 1..n : i \in DOMAIN h \/ i = n
    BY <1>1
  <2>2. \A i \in DOMAIN h : Follows(t, g, i)
    BY FollowsStays DEF Sound
  <2>3. Follows(t, g, n)
    BY <1>1, EventFollows DEF Sound
  <2> QED BY <1>1, <2>1, <2>2, <2>3
<1>5. Reversed(t, g)
  <2> SUFFICES ASSUME NEW s \in Steps(t), NEW u \in Steps(t), s < u, u \in Compensatable[t],
                      NEW i \in 1..n, NEW j \in 1..n,
                      g[i].type = "COMPENSATION_STARTED", g[i].step = s,
                      g[j].type = "STEP_EXECUTION_RECORDED", g[j].step = u,
                      g[j].report.change = "APPLIED"
               PROVE  \E k \in 1..(i - 1) : g[k].type = "COMPENSATION_RECORDED" /\ g[k].step = u
    BY <1>1 DEF Reversed
  <2>1. CASE i \in 1..Len(h) /\ j \in 1..Len(h)
    <3>1. PICK k \in 1..(i - 1) : h[k].type = "COMPENSATION_RECORDED" /\ h[k].step = u
      BY <1>1, <2>1 DEF Sound, Reversed
    <3>2. k \in 1..Len(h)
      BY <1>1, <2>1
    <3> QED BY <1>1, <3>1, <3>2
  <2>2. CASE i \in 1..Len(h) /\ j = n
    <3>1. Has(h, "COMPENSATION_STARTED", s)
      BY <1>1, <2>2 DEF Has
    <3>2. e.type = "STEP_EXECUTION_RECORDED" /\ s \in Nat
      BY <1>1, <2>2 DEF Steps
    <3> QED BY <3>1, <3>2
  <2>3. CASE i = n
    <3>1. j \in 1..Len(h)
      BY <1>1, <2>3
    <3>2. HasChange(h, u, {"APPLIED"})
      BY <1>1, <3>1 DEF HasChange
    <3>3. u > s /\ e.step = s /\ e.type = "COMPENSATION_STARTED"
      BY <1>1, <2>3 DEF Steps
    <3>4. PICK k \in DOMAIN h : h[k].type = "COMPENSATION_RECORDED" /\ h[k].step = u
      BY <3>2, <3>3 DEF Has
    <3> QED BY <1>1, <2>3, <3>4
  <2> QED BY <1>1, <2>1, <2>2, <2>3
<1>6. Truthful(t, g, changes)
  <2>1. Adds(h, e, g)
    BY AppendSays
  <2>2. e.report.change = "NOT_APPLIED" \/ e.report.change \in {"APPLIED", "UNKNOWN"}
           \/ e.type # "STEP_EXECUTION_RECORDED"
    BY DEF StepExecution
  <2> QED BY <2>1, <2>2 DEF Sound, Truthful, Adds
<1> QED BY <1>2, <1>3, <1>4, <1>5, <1>6 DEF Sound

-----------------------------------------------------------------------------
(* The invariant about histories is inductive.                             *)

\* A call's step that keeps its plan, writes no operation row, and writes no
\* history but its plan's needs checking for that history alone.
LEMMA OwnHistory ==
    ASSUME IInv, TypeOK', HInv, NEW r \in Runners, Engaged(r), NEW m,
           Become(r, m), m.txn = runner[r].txn, m.pc # "register",
           UNCHANGED <<opState, registered>>,
           \A u \in Txns \ {runner[r].txn} : log'[u] = log[u] /\ host'[u] = host[u],
           log'[runner[r].txn] # <<>>,
           Sound(runner[r].txn, log'[runner[r].txn], host'[runner[r].txn]),
           m.pc # "idle" => Remembers(m, log'[m.txn])
    PROVE  HInv'
<1> DEFINE t == runner[r].txn
<1>1. /\ runner'[r] = m
      /\ \A q \in Runners \ {r} : runner'[q] = runner[q]
      /\ \A q \in Runners : Engaged(q)' => Engaged(q) /\ runner'[q].txn = runner[q].txn
  BY DEF Become, IInv, TypeOK, Engaged
<1>2. t \in registered /\ t \in Txns
  BY DEF IInv, OneCallPerPlan, TypeOK, Engaged
<1>3. WrittenIfRegistered'
  BY <1>2 DEF HInv, WrittenIfRegistered
<1>4. \A u \in Txns : Sound(u, log'[u], host'[u])
  BY DEF HInv
<1>5. ASSUME NEW q \in Runners, Engaged(q)' PROVE Remembers(runner'[q], log'[runner'[q].txn])
  <2>1. CASE q = r
    BY <2>1, <1>1, <1>5 DEF Engaged
  <2>2. CASE q # r
    <3>1. runner'[q] = runner[q] /\ Engaged(q) /\ Remembers(runner[q], log[runner[q].txn])
      BY <2>2, <1>1, <1>5 DEF HInv
    <3>2. runner[q].txn # t /\ runner[q].txn \in Txns
      BY <2>2, <3>1 DEF IInv, OneCallPerPlan, TypeOK, Engaged
    <3> QED BY <3>1, <3>2
  <2> QED BY <2>1, <2>2
<1>6. Claimed'
  BY <1>1, <1>2 DEF HInv, Claimed, Engaged
<1>7. Fresh'
  BY <1>1 DEF HInv, Fresh
<1>8. OutcomeIsOver'
  <2> SUFFICES ASSUME NEW o \in Ops, opState[o] \in {"SUCCEEDED", "FAILED"}
               PROVE  \E u \in registered :
                        /\ PlanOp[u] = o
                        /\ Resolved(log'[u])
                        /\ opState[o] = "SUCCEEDED" => Verified(u, log'[u])
                        /\ \A q \in Runners : Engaged(q)' => runner'[q].txn # u
    BY DEF OutcomeIsOver
  <2>1. PICK u \in registered :
                        /\ PlanOp[u] = o
                        /\ Resolved(log[u])
                        /\ opState[o] = "SUCCEEDED" => Verified(u, log[u])
                        /\ \A q \in Runners : Engaged(q) => runner[q].txn # u
    BY DEF HInv, OutcomeIsOver
  <2>2. log'[u] = log[u]
    BY <2>1 DEF IInv, TypeOK
  <2> QED BY <2>1, <2>2, <1>1
<1> QED BY <1>3, <1>4, <1>5, <1>6, <1>7, <1>8 DEF HInv

\* A call that adds a timely event to its own history, and remembers it, keeps
\* the invariant.
LEMMA OwnEvent ==
    ASSUME IInv, TypeOK', HInv, NEW r \in Runners, Engaged(r), NEW m,
           Become(r, m), m.txn = runner[r].txn, m.pc \notin {"idle", "register"},
           UNCHANGED <<opState, registered, host>>,
           NEW type, NEW step, NEW report, NEW e \in Events, e = Event(type, step, report),
           Append_event(runner[r].txn, type, step, report),
           Timely(runner[r].txn, log[runner[r].txn], e, host[runner[r].txn]),
           NEW g, g = Append(log[runner[r].txn], e),
           Remembers(m, g)
    PROVE  HInv'
<1> DEFINE t == runner[r].txn
<1>1. t \in Txns /\ log[t] \in Seq(Events) /\ Sound(t, log[t], host[t])
  BY DEF IInv, TypeOK, Engaged, HInv
<1>2. log'[t] = g /\ \A u \in Txns \ {t} : log'[u] = log[u]
  BY <1>1 DEF Append_event, IInv, TypeOK
<1>3. g # <<>>
  BY <1>1, AppendGrows
<1>4. Sound(t, g, host[t])
  BY <1>1, SoundAppend
<1> QED BY <1>1, <1>2, <1>3, <1>4, OwnHistory

\* A call that ends, with an outcome for its operation, keeps the invariant if
\* the history supports the outcome.
LEMMA LastWord ==
    ASSUME IInv, TypeOK', HInv, NEW r \in Runners, Engaged(r),
           NEW event \in {"SUCCEEDED", "FAILED", "UNKNOWN"},
           Terminal(PlanOp[runner[r].txn], event), Return(r),
           UNCHANGED <<registered, log, host>>,
           event # "UNKNOWN" => Resolved(log[runner[r].txn]),
           event = "SUCCEEDED" => Verified(runner[r].txn, log[runner[r].txn])
    PROVE  HInv'
<1> DEFINE t == runner[r].txn
           o == PlanOp[runner[r].txn]
<1>1. /\ ~Engaged(r)' /\ runner'[r].pc = "idle"
      /\ \A q \in Runners \ {r} : runner'[q] = runner[q]
      /\ \A q \in Runners : Engaged(q)' => Engaged(q) /\ runner'[q] = runner[q] /\ q # r
  BY DEF Return, Become, IInv, TypeOK, Engaged, Idle
<1>2. t \in registered /\ t \in Txns /\ o \in Ops
  BY PlanAssumption DEF IInv, OneCallPerPlan, TypeOK, Engaged
<1>3. \A p \in Ops : \/ opState'[p] = opState[p]
                     \/ p = o /\ opState[p] = "EXECUTING" /\ opState'[p] = event
  BY <1>2 DEF Terminal, IInv, TypeOK
<1>4. Claimed'
  <2>1. \A p \in Ops : opState[p] \notin {"ABSENT", "PREPARED"}
                          => opState'[p] \notin {"ABSENT", "PREPARED"}
    BY <1>3
  <2>2. \A u \in Txns : PlanOp[u] \in Ops
    BY PlanAssumption
  <2>3. \A q \in Runners : runner'[q].pc # "idle" =>
           runner'[q] = runner[q] /\ runner[q].txn \in Txns
    BY <1>1 DEF IInv, TypeOK
  <2>4. registered \subseteq Txns
    BY DEF IInv, TypeOK
  <2> QED BY <2>1, <2>2, <2>3, <2>4 DEF HInv, Claimed
<1>5. OutcomeIsOver'
  <2> SUFFICES ASSUME NEW p \in Ops, opState'[p] \in {"SUCCEEDED", "FAILED"}
               PROVE  \E u \in registered :
                        /\ PlanOp[u] = p
                        /\ Resolved(log[u])
                        /\ opState'[p] = "SUCCEEDED" => Verified(u, log[u])
                        /\ \A q \in Runners : Engaged(q)' => runner'[q].txn # u
    BY DEF OutcomeIsOver
  <2>1. CASE opState'[p] = opState[p]
    BY <2>1, <1>1 DEF HInv, OutcomeIsOver
  <2>2. CASE p = o /\ opState'[p] = event
    <3>1. \A q \in Runners : Engaged(q)' => runner'[q].txn # t
      BY <1>1 DEF IInv, OneCallPerPlan
    <3> QED BY <2>2, <3>1, <1>2
  <2> QED BY <2>1, <2>2, <1>3
<1>6. \A q \in Runners : Engaged(q)' => Remembers(runner'[q], log'[runner'[q].txn])
  BY <1>1 DEF HInv
<1>7. Fresh'
  BY <1>1 DEF HInv, Fresh
<1> QED BY <1>4, <1>5, <1>6, <1>7 DEF HInv, WrittenIfRegistered

\* What is known of a call that is under way.
LEMMA CallKnows ==
    ASSUME IInv, HInv, NEW r \in Runners, Engaged(r)
    PROVE  /\ runner[r] \in Locals /\ runner[r].txn \in Txns /\ runner[r].txn \in registered
           /\ log[runner[r].txn] \in Seq(Events) /\ log[runner[r].txn] # <<>>
           /\ PlanLen[runner[r].txn] \in Nat \ {0}
           /\ Sound(runner[r].txn, log[runner[r].txn], host[runner[r].txn])
           /\ Remembers(runner[r], log[runner[r].txn])
           /\ Accounts(runner[r], host[runner[r].txn])
<1>1. runner[r] \in Locals /\ runner[r].txn \in Txns /\ runner[r].txn \in registered
  BY DEF IInv, TypeOK, OneCallPerPlan, Engaged
<1>2. log[runner[r].txn] \in Seq(Events) /\ log[runner[r].txn] # <<>>
  BY <1>1 DEF IInv, TypeOK, HInv, WrittenIfRegistered
<1>3. PlanLen[runner[r].txn] \in Nat \ {0}
  BY <1>1, PlanAssumption
<1>4. Accounts(runner[r], host[runner[r].txn])
  BY DEF IInv, Accounted
<1> QED BY <1>1, <1>2, <1>3, <1>4 DEF HInv

\* An event as _append_event writes it.
LEMMA EventTyped ==
    ASSUME NEW type \in {"PLAN_REGISTERED", "SNAPSHOT_CAPTURED", "SAFE_FAILURE",
                   "STEP_EXECUTION_STARTED", "STEP_EXECUTION_RECORDED",
                   "POSTCONDITION_RECORDED", "COMPENSATION_STARTED",
                   "COMPENSATION_RECORDED", "RECOVERY_REQUIRED"},
           NEW step \in Nat, NEW report \in Reports
    PROVE  /\ Event(type, step, report) \in Events
           /\ Event(type, step, report).type = type
           /\ Event(type, step, report).step = step
           /\ Event(type, step, report).report = report
BY DEF Event, Events

\* The steps of the forward loop that write history: each adds the event that
\* its place in the loop calls for.
LEMMA ForwardHistory ==
    ASSUME IInv, TypeOK', HInv, NEW r \in Runners,
           StepStarted(r) \/ StepRecorded(r) \/ PostconditionRecorded(r)
    PROVE  HInv'
<1> DEFINE me == runner[r]
           t == runner[r].txn
           h == log[runner[r].txn]
<1>1. Engaged(r) /\ me.pc \in {"start", "record", "record_post"}
  BY DEF StepStarted, StepRecorded, PostconditionRecorded, At, Engaged
<1>2. /\ me \in Locals /\ h \in Seq(Events) /\ h # <<>> /\ PlanLen[t] \in Nat \ {0}
      /\ Remembers(me, h) /\ Accounts(me, host[t]) /\ Sound(t, h, host[t])
  BY <1>1, CallKnows
<1>3. GoesForward(me, h) /\ me.step \in Nat /\ me.step \in Steps(t) /\ me.report \in Reports
  BY <1>1, <1>2 DEF Remembers, Forward, GoesForward, Locals
<1>4. Verdict("NONE") \in Reports
  BY DEF Verdict, Reports
<1>5. CASE StepStarted(r)
  <2> DEFINE e == Event("STEP_EXECUTION_STARTED", me.step, Verdict("NONE"))
             g == Append(h, e)
             m == [me EXCEPT !.pc = "execute"]
  <2>1. /\ e \in Events /\ e.type = "STEP_EXECUTION_STARTED" /\ e.step = me.step
        /\ e.report = Verdict("NONE")
    BY <1>3, <1>4, EventTyped
  <2>2. /\ m.pc = "execute" /\ m.txn = t /\ m.step = me.step /\ m.changed = me.changed
        /\ me.pc = "start" /\ Become(r, m) /\ UNCHANGED <<opState, registered, host>>
        /\ Append_event(t, "STEP_EXECUTION_STARTED", me.step, Verdict("NONE"))
    BY <1>2, <1>5 DEF StepStarted, At, Goto, Locals
  <2> HIDE DEF e, m
  <2>3. Timely(t, h, e, host[t])
    BY <1>2, <1>3, <2>1, <2>2 DEF GoesForward, Past, Timely, OfNoStep, Steps
  <2>4. Adds(h, e, g)
    BY <1>2, <2>1, AppendSays
  <2> HIDE DEF g
  <2>5. GoesForward(m, g)
    BY <1>2, <1>3, <2>1, <2>2, <2>4 DEF GoesForward, Past, Steps, Adds
  <2>6. Remembers(m, g)
    BY <2>2, <2>5 DEF Remembers, Forward, Backward
  <2>7. e = Event("STEP_EXECUTION_STARTED", me.step, Verdict("NONE")) /\ g = Append(h, e)
    BY DEF e, g
  <2> QED BY <1>1, <2>1, <2>2, <2>3, <2>6, <2>7, OwnEvent
<1>6. CASE StepRecorded(r)
  <2> DEFINE e == Event("STEP_EXECUTION_RECORDED", me.step, me.report)
             g == Append(h, e)
             changed == IF me.report.change = "APPLIED" THEN me.changed \cup {me.step}
                        ELSE me.changed
             doubt == "UNKNOWN" \in {me.report.status, me.report.change}
             m == [me EXCEPT !.pc = "verify", !.changed = changed, !.report = Verdict("NONE")]
             n == [me EXCEPT !.pc = "undo", !.step = me.step, !.report = Verdict("NONE"),
                             !.changed = changed, !.todo = changed, !.unsure = doubt]
  <2>1. /\ e \in Events /\ e.type = "STEP_EXECUTION_RECORDED" /\ e.step = me.step
        /\ e.report = me.report
    BY <1>3, EventTyped
  <2>2. /\ m.pc = "verify" /\ m.txn = t /\ m.step = me.step /\ m.changed = changed
        /\ n.pc = "undo" /\ n.txn = t /\ n.step = me.step /\ n.changed = changed
        /\ n.todo = changed
    BY <1>2 DEF Locals
  <2>3. /\ me.pc = "record" /\ (Become(r, m) \/ Become(r, n))
        /\ UNCHANGED <<opState, registered, host>>
        /\ Append_event(t, "STEP_EXECUTION_RECORDED", me.step, me.report)
    BY <1>6 DEF StepRecorded, At, Unwind
  <2>4. \A s \in Nat : s \in changed <=>
           s \in me.changed \/ (s = me.step /\ me.report.change = "APPLIED")
    OBVIOUS
  <2> HIDE DEF e, m, n, changed
  <2>5. Timely(t, h, e, host[t])
    <3>1. /\ Has(h, "STEP_EXECUTION_STARTED", me.step)
          /\ ~Has(h, "STEP_EXECUTION_RECORDED", me.step)
      BY <1>2, <1>3, <2>3 DEF GoesForward, Past, Steps
    <3>2. \A s \in Nat : ~Has(h, "COMPENSATION_STARTED", s)
      BY <1>3 DEF GoesForward, Only, Has
    <3>3. me.report \in StepExecution
      BY <1>2, <2>3 DEF Accounts
    <3>4. me.step \notin me.changed
      BY <1>3, <3>1, ZenonT(40) DEF GoesForward, Has, HasChange
    <3>5. me.report.change = "NOT_APPLIED" => me.step \notin host[t]
      BY <1>2, <2>3, <3>4 DEF Accounts
    <3> QED BY <1>2, <1>3, <2>1, <3>1, <3>2, <3>3, <3>5 DEF Timely, OfNoStep
  <2>6. Adds(h, e, g)
    BY <1>2, <2>1, AppendSays
  <2>7. e = Event("STEP_EXECUTION_RECORDED", me.step, me.report) /\ g = Append(h, e)
    BY DEF e, g
  <2> HIDE DEF g
  <2>8. CASE Become(r, m)
    <3>1. GoesForward(m, g)
      BY <1>2, <1>3, <2>1, <2>2, <2>3, <2>4, <2>6 DEF GoesForward, Past, Steps, Adds
    <3>2. Remembers(m, g)
      BY <2>2, <3>1 DEF Remembers, Forward, Backward
    <3> QED BY <1>1, <2>1, <2>2, <2>3, <2>5, <2>7, <2>8, <3>2, OwnEvent
  <2>9. CASE Become(r, n)
    <3>1. \A s \in Nat : ~Has(h, "COMPENSATION_STARTED", s) /\ ~Has(h, "COMPENSATION_RECORDED", s)
                         /\ ~Has(h, "RECOVERY_REQUIRED", s)
      BY <1>3 DEF GoesForward, Only, Has
    <3>2. GoesBackward(n, g)
      BY <1>2, <1>3, <2>1, <2>2, <2>3, <2>4, <2>6, <3>1
         DEF GoesForward, GoesBackward, BeingUndone, Past, Steps, Adds
    <3>3. Remembers(n, g)
      BY <2>2, <3>2 DEF Remembers, Forward, Backward
    <3> QED BY <1>1, <2>1, <2>2, <2>3, <2>5, <2>7, <2>9, <3>3, OwnEvent
  <2> QED BY <2>3, <2>8, <2>9
<1>7. CASE PostconditionRecorded(r)
  <2> DEFINE e == Event("POSTCONDITION_RECORDED", me.step, me.report)
             g == Append(h, e)
             l == [me EXCEPT !.pc = "start", !.step = me.step + 1, !.report = Verdict("NONE")]
             m == [me EXCEPT !.pc = "receipt", !.report = Verdict("NONE")]
             n == [me EXCEPT !.pc = "undo", !.step = me.step, !.report = Verdict("NONE"),
                             !.changed = me.changed, !.todo = me.changed,
                             !.unsure = (me.report.status = "UNKNOWN")]
  <2>1. /\ e \in Events /\ e.type = "POSTCONDITION_RECORDED" /\ e.step = me.step
        /\ e.report = me.report
    BY <1>3, EventTyped
  <2>2. /\ l.pc = "start" /\ l.txn = t /\ l.step = me.step + 1 /\ l.changed = me.changed
        /\ m.pc = "receipt" /\ m.txn = t /\ m.step = me.step /\ m.changed = me.changed
        /\ n.pc = "undo" /\ n.txn = t /\ n.step = me.step /\ n.changed = me.changed
        /\ n.todo = me.changed
    BY <1>2 DEF Locals
  <2>3. /\ me.pc = "record_post"
        /\ \/ me.report.status = "SATISFIED" /\ me.step < PlanLen[t] /\ Become(r, l)
           \/ me.report.status = "SATISFIED" /\ me.step = PlanLen[t] /\ Become(r, m)
           \/ Become(r, n)
        /\ UNCHANGED <<opState, registered, host>>
        /\ Append_event(t, "POSTCONDITION_RECORDED", me.step, me.report)
    BY <1>7 DEF PostconditionRecorded, At, Unwind
  <2> HIDE DEF e, l, m, n
  <2>4. Timely(t, h, e, host[t])
    BY <1>2, <1>3, <2>1, <2>3 DEF GoesForward, Past, Timely, OfNoStep, Steps
  <2>5. Adds(h, e, g)
    BY <1>2, <2>1, AppendSays
  <2>6. e = Event("POSTCONDITION_RECORDED", me.step, me.report) /\ g = Append(h, e)
    BY DEF e, g
  <2> HIDE DEF g
  <2>7. CASE me.report.status = "SATISFIED" /\ me.step < PlanLen[t] /\ Become(r, l)
    <3>1. GoesForward(l, g)
      BY <1>2, <1>3, <2>1, <2>2, <2>3, <2>5, <2>7 DEF GoesForward, Past, Steps, Adds
    <3>2. Remembers(l, g)
      BY <2>2, <3>1 DEF Remembers, Forward, Backward
    <3> QED BY <1>1, <2>1, <2>2, <2>3, <2>4, <2>6, <2>7, <3>2, OwnEvent
  <2>8. CASE me.report.status = "SATISFIED" /\ me.step = PlanLen[t] /\ Become(r, m)
    <3>1. GoesForward(m, g)
      BY <1>2, <1>3, <2>1, <2>2, <2>3, <2>5, <2>8 DEF GoesForward, Past, Steps, Adds
    <3>2. Remembers(m, g)
      BY <2>2, <3>1 DEF Remembers, Forward, Backward
    <3> QED BY <1>1, <2>1, <2>2, <2>3, <2>4, <2>6, <2>8, <3>2, OwnEvent
  <2>9. CASE Become(r, n)
    <3>1. \A s \in Nat : ~Has(h, "COMPENSATION_STARTED", s) /\ ~Has(h, "COMPENSATION_RECORDED", s)
                         /\ ~Has(h, "RECOVERY_REQUIRED", s)
      BY <1>3 DEF GoesForward, Only, Has
    <3>2. GoesBackward(n, g)
      BY <1>2, <1>3, <2>1, <2>2, <2>3, <2>5, <3>1
         DEF GoesForward, GoesBackward, BeingUndone, Past, Steps, Adds
    <3>3. Remembers(n, g)
      BY <2>2, <3>2 DEF Remembers, Forward, Backward
    <3> QED BY <1>1, <2>1, <2>2, <2>3, <2>4, <2>6, <2>9, <3>3, OwnEvent
  <2> QED BY <2>3, <2>7, <2>8, <2>9
<1> QED BY <1>5, <1>6, <1>7

\* A call that writes no history keeps the invariant if what it remembers, and
\* the change it may make in the host, agree with the history as it is.
LEMMA OwnMemory ==
    ASSUME IInv, TypeOK', HInv, NEW r \in Runners, Engaged(r), NEW m,
           Become(r, m), m.txn = runner[r].txn, m.pc # "register",
           UNCHANGED <<opState, registered, log>>,
           \A u \in Txns \ {runner[r].txn} : host'[u] = host[u],
           Truthful(runner[r].txn, log[runner[r].txn], host'[runner[r].txn]),
           m.pc # "idle" => Remembers(m, log[runner[r].txn])
    PROVE  HInv'
<1> DEFINE t == runner[r].txn
<1>1. Sound(t, log[t], host[t]) /\ log[t] # <<>>
  BY CallKnows
<1>2. Sound(t, log'[t], host'[t])
  BY <1>1 DEF Sound
<1> QED BY <1>1, <1>2, OwnHistory

\* The steps of the forward loop that call the driver, and the last one.
LEMMA ForwardCalls ==
    ASSUME IInv, TypeOK', HInv, NEW r \in Runners,
           \/ \E applied \in BOOLEAN, x \in StepExecution : Execute_step(r, applied, x)
           \/ \E status \in {"SATISFIED", "FAILED", "UNKNOWN"} : Verify_postcondition(r, status)
           \/ \E ok \in BOOLEAN : Success_receipt(r, ok)
           \/ CompleteSuccess(r)
    PROVE  HInv'
<1> DEFINE me == runner[r]
           t == runner[r].txn
           h == log[runner[r].txn]
<1>1. Engaged(r) /\ me.pc \in {"execute", "verify", "receipt", "succeed"}
  BY DEF Execute_step, Verify_postcondition, Success_receipt, CompleteSuccess, At, Engaged
<1>2. /\ me \in Locals /\ h # <<>> /\ PlanLen[t] \in Nat \ {0} /\ t \in Txns
      /\ Remembers(me, h) /\ Sound(t, h, host[t])
  BY <1>1, CallKnows
<1>3. GoesForward(me, h) /\ me.step \in Nat /\ me.step \in Steps(t)
  BY <1>1, <1>2 DEF Remembers, Forward, GoesForward, Locals
<1>4. Truthful(t, h, host[t])
  BY <1>2 DEF Sound
<1>5. \A s \in Nat : ~Has(h, "COMPENSATION_STARTED", s) /\ ~Has(h, "COMPENSATION_RECORDED", s)
                     /\ ~Has(h, "RECOVERY_REQUIRED", s)
  BY <1>3 DEF GoesForward, Only, Has
<1>6. ASSUME NEW applied \in BOOLEAN, NEW x \in StepExecution, Execute_step(r, applied, x)
      PROVE  HInv'
  <2> DEFINE m == [me EXCEPT !.pc = "record", !.report = x]
  <2>1. m.pc = "record" /\ m.txn = t /\ m.step = me.step /\ m.changed = me.changed
    BY <1>2 DEF Locals
  <2>2. me.pc = "execute" /\ Become(r, m) /\ UNCHANGED <<opState, registered, log>>
    BY <1>6 DEF Execute_step, At
  <2> HIDE DEF m
  <2>3. \A u \in Txns \ {t} : host'[u] = host[u]
    BY <1>6 DEF Execute_step, IInv, TypeOK
  <2>4. host'[t] \subseteq host[t] \cup {me.step}
    BY <1>2, <1>6 DEF Execute_step, IInv, TypeOK
  <2>5. /\ Has(h, "STEP_EXECUTION_STARTED", me.step)
        /\ ~Has(h, "STEP_EXECUTION_RECORDED", me.step)
        /\ ~HasStatus(h, "COMPENSATION_RECORDED", me.step, "RESTORED")
    <3>1. /\ Has(h, "STEP_EXECUTION_STARTED", me.step)
          /\ ~Has(h, "STEP_EXECUTION_RECORDED", me.step)
      BY <1>2, <1>3, <2>2 DEF GoesForward, Past, Steps
    <3>2. ~HasStatus(h, "COMPENSATION_RECORDED", me.step, "RESTORED")
      BY <1>3, <1>5 DEF HasStatus, Has
    <3> QED BY <3>1, <3>2
  <2>6. Truthful(t, h, host'[t])
    BY <1>3, <1>4, <2>4, <2>5 DEF Truthful
  <2>7. Remembers(m, h)
    BY <1>3, <2>1, <2>2 DEF Remembers, Forward, Backward, GoesForward, Past
  <2> QED BY <1>1, <2>1, <2>2, <2>3, <2>6, <2>7, OwnMemory
<1>7. ASSUME NEW status \in {"SATISFIED", "FAILED", "UNKNOWN"}, Verify_postcondition(r, status)
      PROVE  HInv'
  <2> DEFINE m == [me EXCEPT !.pc = "record_post", !.report = Verdict(status)]
  <2>1. m.pc = "record_post" /\ m.txn = t /\ m.step = me.step /\ m.changed = me.changed
        /\ m.report = Verdict(status)
    BY <1>2 DEF Locals
  <2>2. me.pc = "verify" /\ Become(r, m) /\ UNCHANGED <<opState, registered, log, host>>
    BY <1>7 DEF Verify_postcondition, At
  <2> HIDE DEF m
  <2>3. Remembers(m, h)
    BY <1>3, <2>1, <2>2 DEF Remembers, Forward, Backward, GoesForward, Past
  <2> QED BY <1>1, <1>4, <2>1, <2>2, <2>3, OwnMemory
<1>8. ASSUME NEW ok \in BOOLEAN, Success_receipt(r, ok) PROVE HInv'
  <2> DEFINE m == [me EXCEPT !.pc = "succeed"]
             n == [me EXCEPT !.pc = "undo", !.step = 0, !.report = Verdict("NONE"),
                             !.changed = me.changed, !.todo = me.changed, !.unsure = TRUE]
  <2>1. /\ m.pc = "succeed" /\ m.txn = t /\ m.step = me.step /\ m.changed = me.changed
        /\ n.pc = "undo" /\ n.txn = t /\ n.step = 0 /\ n.changed = me.changed
        /\ n.todo = me.changed
    BY <1>2 DEF Locals
  <2>2. /\ me.pc = "receipt" /\ (Become(r, m) \/ Become(r, n))
        /\ UNCHANGED <<opState, registered, log, host>>
    BY <1>8 DEF Success_receipt, At, Goto, Unwind
  <2> HIDE DEF m, n
  <2>3. Remembers(m, h)
    BY <1>3, <2>1, <2>2 DEF Remembers, Forward, Backward, GoesForward, Past
  <2>4. GoesBackward(n, h)
    BY <1>2, <1>3, <1>5, <2>1, <2>2 DEF GoesForward, GoesBackward, BeingUndone, Past, Steps
  <2>5. Remembers(n, h)
    BY <2>1, <2>4 DEF Remembers, Forward, Backward
  <2> QED BY <1>1, <1>4, <2>1, <2>2, <2>3, <2>5, OwnMemory
<1>9. ASSUME CompleteSuccess(r) PROVE HInv'
  <2>1. me.pc = "succeed"
    BY <1>9 DEF CompleteSuccess, At
  <2>2. \A s \in Steps(t) : HasStatus(h, "POSTCONDITION_RECORDED", s, "SATISFIED")
    BY <1>2, <1>3, <2>1 DEF GoesForward, Past, Steps
  <2>3. Resolved(h) /\ Verified(t, h)
    BY <1>2, <1>3, <1>5, <2>1, <2>2 DEF Resolved, Verified, GoesForward, Past, Steps
  <2> QED BY <1>1, <1>9, <2>3, LastWord DEF CompleteSuccess
<1> QED BY <1>6, <1>7, <1>8, <1>9

\* The steps of _compensate that write history.
LEMMA BackwardHistory ==
    ASSUME IInv, TypeOK', HInv, NEW r \in Runners,
           \/ \E s \in runner[r].todo : CompensationStarted(r, s) \/ CompensationRecorded(r, s)
           \/ RecoveryRequired(r)
    PROVE  HInv'
<1> DEFINE me == runner[r]
           t == runner[r].txn
           h == log[runner[r].txn]
<1>1. Engaged(r) /\ me.pc \in {"undo", "record_undo", "recovery"}
  BY DEF CompensationStarted, CompensationRecorded, RecoveryRequired, At, Engaged
<1>2. /\ me \in Locals /\ h \in Seq(Events) /\ h # <<>>
      /\ Remembers(me, h) /\ Accounts(me, host[t]) /\ Sound(t, h, host[t])
  BY <1>1, CallKnows
<1>3. GoesBackward(me, h) /\ me.step \in Nat /\ me.todo \subseteq Nat /\ me.changed \subseteq Nat
  BY <1>1, <1>2 DEF Remembers, Backward, Locals
<1>4. Verdict("NONE") \in Reports
  BY DEF Verdict, Reports
<1>5. me.changed \subseteq Steps(t)
  <2> SUFFICES ASSUME NEW s \in me.changed PROVE s \in Steps(t)
    OBVIOUS
  <2>1. PICK i \in DOMAIN h : h[i].type = "STEP_EXECUTION_RECORDED" /\ h[i].step = s
    BY <1>3 DEF GoesBackward, HasChange
  <2>2. Follows(t, h, i)
    BY <1>2, <2>1 DEF Sound
  <2> QED BY <2>1, <2>2 DEF Follows, OfNoStep
<1>6. ASSUME NEW s \in me.todo, CompensationStarted(r, s) PROVE HInv'
  <2> DEFINE e == Event("COMPENSATION_STARTED", s, Verdict("NONE"))
             g == Append(h, e)
             m == [me EXCEPT !.pc = "compensate"]
  <2>1. /\ e \in Events /\ e.type = "COMPENSATION_STARTED" /\ e.step = s /\ s \in Nat
    BY <1>3, <1>4, EventTyped
  <2>2. /\ m.pc = "compensate" /\ m.txn = t /\ m.step = me.step /\ m.changed = me.changed
        /\ m.todo = me.todo
    BY <1>2 DEF Locals
  <2>3. /\ me.pc = "undo" /\ IsLast(s, me.todo) /\ Become(r, m)
        /\ UNCHANGED <<opState, registered, host>>
        /\ Append_event(t, "COMPENSATION_STARTED", s, Verdict("NONE"))
    BY <1>6 DEF CompensationStarted, At, Goto
  <2> HIDE DEF e, m
  <2>4. ~Has(h, "COMPENSATION_STARTED", s) /\ ~Has(h, "COMPENSATION_RECORDED", s)
    BY <1>3, <2>1, <2>3 DEF GoesBackward, BeingUndone
  <2>5. ASSUME NEW u \in Steps(t) \cap Compensatable[t], u > s, HasChange(h, u, {"APPLIED"})
        PROVE  Has(h, "COMPENSATION_RECORDED", u)
    <3>1. u \in Nat
      BY <1>1, CallKnows DEF Steps
    <3>2. u \in me.changed \ me.todo
      BY <1>3, <2>1, <2>3, <2>5, <3>1 DEF GoesBackward, IsLast
    <3> QED BY <1>3, <3>1, <3>2 DEF GoesBackward
  <2>6. Timely(t, h, e, host[t])
    BY <1>2, <1>3, <1>5, <2>1, <2>4, <2>5 DEF Timely, OfNoStep, GoesBackward
  <2>7. Adds(h, e, g)
    BY <1>2, <2>1, AppendSays
  <2>8. e = Event("COMPENSATION_STARTED", s, Verdict("NONE")) /\ g = Append(h, e)
    BY DEF e, g
  <2> HIDE DEF g
  <2>9. \A u \in Nat : IsLast(u, m.todo) <=> u = s
    BY <1>3, <2>2, <2>3 DEF IsLast
  <2>10. GoesBackward(m, g)
    BY <1>3, <2>1, <2>2, <2>3, <2>7, <2>9 DEF GoesBackward, BeingUndone, Adds
  <2>11. Remembers(m, g)
    BY <2>2, <2>10 DEF Remembers, Forward, Backward
  <2> QED BY <1>1, <2>1, <2>2, <2>3, <2>6, <2>8, <2>11, OwnEvent
<1>7. ASSUME NEW s \in me.todo, CompensationRecorded(r, s) PROVE HInv'
  <2> DEFINE x == Verdict(me.report.status)
             e == Event("COMPENSATION_RECORDED", s, x)
             g == Append(h, e)
             m == [me EXCEPT !.pc = "undo", !.todo = me.todo \ {s}, !.report = Verdict("NONE"),
                             !.unsure = me.unsure \/ me.report.status # "RESTORED"]
  <2>1. x \in Reports /\ x.status = me.report.status
    BY <1>2 DEF Locals, Reports, Verdict
  <2> HIDE DEF x
  <2>2. /\ e \in Events /\ e.type = "COMPENSATION_RECORDED" /\ e.step = s /\ s \in Nat
        /\ e.report = x
    BY <1>3, <2>1, EventTyped
  <2>3. /\ m.pc = "undo" /\ m.txn = t /\ m.step = me.step /\ m.changed = me.changed
        /\ m.todo = me.todo \ {s}
    BY <1>2 DEF Locals
  <2>4. /\ me.pc = "record_undo" /\ IsLast(s, me.todo) /\ Become(r, m)
        /\ UNCHANGED <<opState, registered, host>>
        /\ Append_event(t, "COMPENSATION_RECORDED", s, x)
    BY <1>7 DEF CompensationRecorded, At, x
  <2> HIDE DEF e, m
  <2>5. Has(h, "COMPENSATION_STARTED", s) /\ ~Has(h, "COMPENSATION_RECORDED", s)
    BY <1>3, <2>2, <2>4 DEF GoesBackward, BeingUndone
  <2>6. Timely(t, h, e, host[t])
    BY <1>2, <1>3, <1>5, <2>1, <2>2, <2>4, <2>5 DEF Timely, OfNoStep, GoesBackward, Accounts
  <2>7. Adds(h, e, g)
    BY <1>2, <2>2, AppendSays
  <2>8. e = Event("COMPENSATION_RECORDED", s, x) /\ g = Append(h, e)
    BY DEF e, g
  <2> HIDE DEF g
  <2>9. \A u \in Nat : BeingUndone(me, u) <=> u = s
    BY <1>3, <2>4 DEF BeingUndone, IsLast
  <2>10. \A u : ~BeingUndone(m, u)
    BY <2>3 DEF BeingUndone
  <2>11. GoesBackward(m, g)
    BY <1>3, <2>2, <2>3, <2>4, <2>7, <2>9, <2>10 DEF GoesBackward, Adds
  <2>12. Remembers(m, g)
    BY <2>3, <2>11 DEF Remembers, Forward, Backward
  <2> QED BY <1>1, <2>2, <2>3, <2>4, <2>6, <2>8, <2>12, OwnEvent
<1>8. ASSUME RecoveryRequired(r) PROVE HInv'
  <2> DEFINE e == Event("RECOVERY_REQUIRED", me.step, Verdict("NONE"))
             g == Append(h, e)
             m == [me EXCEPT !.pc = "mark_unknown"]
  <2>1. /\ e \in Events /\ e.type = "RECOVERY_REQUIRED" /\ e.step = me.step
    BY <1>3, <1>4, EventTyped
  <2>2. /\ m.pc = "mark_unknown" /\ m.txn = t /\ m.step = me.step /\ m.changed = me.changed
        /\ m.todo = me.todo
    BY <1>2 DEF Locals
  <2>3. /\ me.pc = "recovery" /\ Become(r, m) /\ UNCHANGED <<opState, registered, host>>
        /\ Append_event(t, "RECOVERY_REQUIRED", me.step, Verdict("NONE"))
    BY <1>8 DEF RecoveryRequired, At, Goto
  <2> HIDE DEF e, m
  <2>4. Timely(t, h, e, host[t])
    BY <1>2, <1>3, <2>1, <2>3 DEF Timely, OfNoStep, GoesBackward
  <2>5. Adds(h, e, g)
    BY <1>2, <2>1, AppendSays
  <2>6. e = Event("RECOVERY_REQUIRED", me.step, Verdict("NONE")) /\ g = Append(h, e)
    BY DEF e, g
  <2> HIDE DEF g
  <2>7. GoesBackward(m, g)
    BY <1>3, <2>1, <2>2, <2>3, <2>5 DEF GoesBackward, BeingUndone, Adds
  <2>8. Remembers(m, g)
    BY <2>2, <2>7 DEF Remembers, Forward, Backward
  <2> QED BY <1>1, <2>1, <2>2, <2>3, <2>4, <2>6, <2>8, OwnEvent
<1> QED BY <1>6, <1>7, <1>8

\* The other steps of _compensate: skipping, calling the driver, ending.
LEMMA BackwardCalls ==
    ASSUME IInv, TypeOK', HInv, NEW r \in Runners,
           \/ \E s \in runner[r].todo :
                 \/ SkipNoncompensatable(r, s)
                 \/ \E undone \in BOOLEAN, status \in {"RESTORED", "FAILED", "UNKNOWN"} :
                       Compensate_step(r, s, undone, status)
           \/ CompensationEnds(r) \/ MarkUnknown(r) \/ CompleteFailure(r)
    PROVE  HInv'
<1> DEFINE me == runner[r]
           t == runner[r].txn
           h == log[runner[r].txn]
<1>1. Engaged(r) /\ me.pc \in {"undo", "compensate", "mark_unknown", "fail"}
  BY DEF SkipNoncompensatable, Compensate_step, CompensationEnds, MarkUnknown, CompleteFailure,
         At, Engaged
<1>2. me \in Locals /\ Remembers(me, h) /\ Sound(t, h, host[t])
  BY <1>1, CallKnows
<1>3. GoesBackward(me, h) /\ me.todo \subseteq Nat /\ me.changed \subseteq Nat
  BY <1>1, <1>2 DEF Remembers, Backward, Locals
<1>4. Truthful(t, h, host[t])
  BY <1>2 DEF Sound
<1>5. ASSUME NEW s \in me.todo, SkipNoncompensatable(r, s) PROVE HInv'
  <2> DEFINE m == [me EXCEPT !.todo = me.todo \ {s}, !.unsure = TRUE]
  <2>1. /\ m.pc = me.pc /\ m.txn = t /\ m.step = me.step /\ m.changed = me.changed
        /\ m.todo = me.todo \ {s}
    BY <1>2 DEF Locals
  <2>2. /\ me.pc = "undo" /\ s \notin Compensatable[t] /\ Become(r, m)
        /\ UNCHANGED <<opState, registered, log, host>>
    BY <1>5 DEF SkipNoncompensatable, At
  <2> HIDE DEF m
  <2>3. GoesBackward(m, h)
    BY <1>3, <2>1, <2>2 DEF GoesBackward, BeingUndone
  <2>4. Remembers(m, h)
    BY <2>1, <2>2, <2>3 DEF Remembers, Forward, Backward
  <2> QED BY <1>1, <1>4, <2>1, <2>2, <2>4, OwnMemory
<1>6. ASSUME NEW s \in me.todo, NEW undone \in BOOLEAN,
             NEW status \in {"RESTORED", "FAILED", "UNKNOWN"}, Compensate_step(r, s, undone, status)
      PROVE  HInv'
  <2> DEFINE m == [me EXCEPT !.pc = "record_undo", !.report = Verdict(status)]
  <2>1. /\ m.pc = "record_undo" /\ m.txn = t /\ m.step = me.step /\ m.changed = me.changed
        /\ m.todo = me.todo /\ m.report.status = status
    BY <1>2 DEF Locals, Verdict
  <2>2. /\ me.pc = "compensate" /\ Become(r, m) /\ UNCHANGED <<opState, registered, log>>
    BY <1>6 DEF Compensate_step, At
  <2> HIDE DEF m
  <2>3. \A u \in Txns \ {t} : host'[u] = host[u]
    BY <1>6 DEF Compensate_step, IInv, TypeOK
  <2>4. host'[t] \subseteq host[t]
    BY <1>1, <1>6, CallKnows DEF Compensate_step, IInv, TypeOK
  <2>5. Truthful(t, h, host'[t])
    BY <1>4, <2>4 DEF Truthful
  <2>6. GoesBackward(m, h)
    BY <1>3, <2>1, <2>2 DEF GoesBackward, BeingUndone
  <2>7. Remembers(m, h)
    BY <2>1, <2>6 DEF Remembers, Forward, Backward
  <2> QED BY <1>1, <2>1, <2>2, <2>3, <2>5, <2>7, OwnMemory
<1>7. ASSUME CompensationEnds(r) PROVE HInv'
  <2> DEFINE m == [me EXCEPT !.pc = IF me.unsure THEN "recovery" ELSE "fail"]
  <2>1. /\ m.pc \in {"recovery", "fail"} /\ m.txn = t /\ m.step = me.step
        /\ m.changed = me.changed /\ m.todo = me.todo
    BY <1>2 DEF Locals
  <2>2. /\ me.pc = "undo" /\ me.todo = {} /\ Become(r, m)
        /\ UNCHANGED <<opState, registered, log, host>>
    BY <1>7 DEF CompensationEnds, At, Goto
  <2> HIDE DEF m
  <2>3. GoesBackward(m, h)
    BY <1>3, <2>1, <2>2 DEF GoesBackward, BeingUndone
  <2>4. Remembers(m, h)
    BY <2>1, <2>3 DEF Remembers, Forward, Backward
  <2> QED BY <1>1, <1>4, <2>1, <2>2, <2>4, OwnMemory
<1>8. ASSUME MarkUnknown(r) PROVE HInv'
  BY <1>1, <1>8, LastWord DEF MarkUnknown
<1>9. ASSUME CompleteFailure(r) PROVE HInv'
  <2>1. Resolved(h)
    BY <1>3, <1>9 DEF CompleteFailure, At, Resolved, GoesBackward, BeingUndone
  <2> QED BY <1>1, <1>9, <2>1, LastWord DEF CompleteFailure
<1> QED BY <1>5, <1>6, <1>7, <1>8, <1>9

\* Registering a plan opens its history.
LEMMA RegisterHistory ==
    ASSUME IInv, TypeOK', HInv, NEW r \in Runners, NEW ok \in BOOLEAN, Register_plan(r, ok),
           MayRegister(runner[r].txn)
    PROVE  HInv'
<1> DEFINE t == runner[r].txn
           h == log[runner[r].txn]
           e == Event("PLAN_REGISTERED", 0, Verdict("NONE"))
           g == Append(h, e)
           m == [runner[r] EXCEPT !.pc = IF ok THEN "snapshot" ELSE "safe_failure"]
<1>1. runner[r].pc = "register" /\ t \in Txns /\ runner[r] \in Locals /\ h \in Seq(Events)
  BY DEF Register_plan, At, IInv, TypeOK
<1>2. t \notin registered /\ \A u \in registered : u \in Txns
  BY DEF MayRegister, IInv, TypeOK
<1>3. h = <<>> /\ Sound(t, h, host[t])
  BY <1>1, <1>2 DEF HInv, WrittenIfRegistered
<1>4. /\ e \in Events /\ e.type = "PLAN_REGISTERED" /\ e.step = 0
      /\ e.report = Verdict("NONE")
  <2>1. Verdict("NONE") \in Reports
    BY DEF Verdict, Reports
  <2> QED BY <2>1, EventTyped
<1>5. m.pc \in {"snapshot", "safe_failure"} /\ m.txn = t /\ m.changed = {}
  BY <1>1 DEF Locals, HInv, Fresh
<1>6. /\ registered' = registered \cup {t} /\ UNCHANGED <<opState, host>>
      /\ runner'[r] = m /\ \A q \in Runners \ {r} : runner'[q] = runner[q]
      /\ log'[t] = g /\ \A u \in Txns \ {t} : log'[u] = log[u]
  BY <1>1 DEF Register_plan, Goto, Become, Append_event, IInv, TypeOK
<1> HIDE DEF e, m
<1>7. Timely(t, h, e, host[t])
  BY <1>3, <1>4 DEF Timely, OfNoStep, Has
<1>8. Sound(t, g, host[t]) /\ g # <<>>
  BY <1>1, <1>3, <1>4, <1>7, SoundAppend, AppendGrows
<1>9. Only(g, {"PLAN_REGISTERED"})
  <2>1. Adds(h, e, g)
    BY <1>1, <1>4, AppendSays
  <2>2. Only(h, {"PLAN_REGISTERED"})
    BY <1>3 DEF Only
  <2> QED BY <1>4, <2>1, <2>2 DEF Adds
<1> HIDE DEF g
<1>10. Remembers(m, g)
  BY <1>1, <1>5, <1>9 DEF Remembers, Forward, Backward
<1>11. \A q \in Runners \ {r} : Engaged(q)' => Engaged(q) /\ runner[q].txn \in registered
  BY <1>6 DEF Engaged, IInv, OneCallPerPlan
<1>12. WrittenIfRegistered'
  BY <1>1, <1>6, <1>8 DEF HInv, WrittenIfRegistered
<1>13. \A u \in Txns : Sound(u, log'[u], host'[u])
  BY <1>6, <1>8 DEF HInv
<1>14. \A q \in Runners : Engaged(q)' => Remembers(runner'[q], log'[runner'[q].txn])
  <2> SUFFICES ASSUME NEW q \in Runners, Engaged(q)'
               PROVE  Remembers(runner'[q], log'[runner'[q].txn])
    OBVIOUS
  <2>1. CASE q = r
    BY <1>5, <1>6, <1>10, <2>1
  <2>2. CASE q # r
    <3>1. runner'[q] = runner[q] /\ Engaged(q) /\ runner[q].txn \in Txns \ {t}
      BY <1>2, <1>6, <1>11, <2>2
    <3> QED BY <1>6, <3>1 DEF HInv
  <2> QED BY <2>1, <2>2
<1>15. Claimed'
  BY <1>1, <1>5, <1>6 DEF HInv, Claimed
<1>16. OutcomeIsOver'
  <2> SUFFICES ASSUME NEW o \in Ops, opState[o] \in {"SUCCEEDED", "FAILED"}
               PROVE  \E u \in registered' :
                        /\ PlanOp[u] = o
                        /\ Resolved(log'[u])
                        /\ opState[o] = "SUCCEEDED" => Verified(u, log'[u])
                        /\ \A q \in Runners : Engaged(q)' => runner'[q].txn # u
    BY <1>6 DEF OutcomeIsOver
  <2>1. PICK u \in registered :
                        /\ PlanOp[u] = o
                        /\ Resolved(log[u])
                        /\ opState[o] = "SUCCEEDED" => Verified(u, log[u])
                        /\ \A q \in Runners : Engaged(q) => runner[q].txn # u
    BY DEF HInv, OutcomeIsOver
  <2>2. u \in Txns \ {t} /\ log'[u] = log[u]
    BY <1>2, <1>6, <2>1
  <2>3. \A q \in Runners : Engaged(q)' => runner'[q].txn # u
    BY <1>5, <1>6, <1>11, <2>1, <2>2
  <2> QED BY <1>6, <2>1, <2>2, <2>3
<1>17. Fresh'
  BY <1>5, <1>6 DEF HInv, Fresh
<1> QED BY <1>12, <1>13, <1>14, <1>15, <1>16, <1>17 DEF HInv

\* The steps between registration and the loop.
LEMMA EntryHistory ==
    ASSUME IInv, TypeOK', HInv, NEW r \in Runners,
           \/ \E ok \in BOOLEAN : Prepare_snapshot(r, ok)
           \/ SafeFailureRecorded(r) \/ SafeFailureCompletes(r) \/ SnapshotCaptured(r)
    PROVE  HInv'
<1> DEFINE me == runner[r]
           t == runner[r].txn
           h == log[runner[r].txn]
<1>1. Engaged(r) /\ me.pc \in {"snapshot", "safe_failure", "safe_complete", "capture"}
  BY DEF Prepare_snapshot, SafeFailureRecorded, SafeFailureCompletes, SnapshotCaptured, At, Engaged
<1>2. /\ me \in Locals /\ h \in Seq(Events) /\ h # <<>> /\ PlanLen[t] \in Nat \ {0}
      /\ Remembers(me, h) /\ Sound(t, h, host[t])
  BY <1>1, CallKnows
<1>3. Truthful(t, h, host[t])
  BY <1>2 DEF Sound
<1>4. Verdict("NONE") \in Reports
  BY DEF Verdict, Reports
<1>5. ASSUME NEW ok \in BOOLEAN, Prepare_snapshot(r, ok) PROVE HInv'
  <2> DEFINE m == [me EXCEPT !.pc = IF ok THEN "capture" ELSE "safe_failure"]
  <2>1. m.pc \in {"capture", "safe_failure"} /\ m.txn = t /\ m.changed = me.changed
    BY <1>2 DEF Locals
  <2>2. me.pc = "snapshot" /\ Become(r, m) /\ UNCHANGED <<opState, registered, log, host>>
    BY <1>5 DEF Prepare_snapshot, At, Goto
  <2> HIDE DEF m
  <2>3. Remembers(m, h)
    BY <1>2, <2>1, <2>2 DEF Remembers, Forward, Backward
  <2> QED BY <1>1, <1>3, <2>1, <2>2, <2>3, OwnMemory
<1>6. ASSUME SafeFailureRecorded(r) PROVE HInv'
  <2> DEFINE e == Event("SAFE_FAILURE", 0, Verdict("NONE"))
             g == Append(h, e)
             m == [me EXCEPT !.pc = "safe_complete"]
  <2>1. e \in Events /\ e.type = "SAFE_FAILURE" /\ e.step = 0
    BY <1>4, EventTyped
  <2>2. m.pc = "safe_complete" /\ m.txn = t
    BY <1>2 DEF Locals
  <2>3. /\ me.pc = "safe_failure" /\ Become(r, m) /\ UNCHANGED <<opState, registered, host>>
        /\ Append_event(t, "SAFE_FAILURE", 0, Verdict("NONE"))
    BY <1>6 DEF SafeFailureRecorded, At, Goto
  <2> HIDE DEF e, m
  <2>4. Only(h, {"PLAN_REGISTERED"})
    BY <1>2, <2>3 DEF Remembers
  <2>5. Timely(t, h, e, host[t])
    BY <1>2, <2>1, <2>4 DEF Timely, OfNoStep, Only, Has
  <2>6. Adds(h, e, g)
    BY <1>2, <2>1, AppendSays
  <2>7. e = Event("SAFE_FAILURE", 0, Verdict("NONE")) /\ g = Append(h, e)
    BY DEF e, g
  <2>8. Only(h, {"PLAN_REGISTERED", "SAFE_FAILURE"})
    BY <2>4 DEF Only
  <2> HIDE DEF g
  <2>9. Remembers(m, g)
    BY <2>1, <2>2, <2>6, <2>8 DEF Remembers, Forward, Backward, Adds
  <2> QED BY <1>1, <2>1, <2>2, <2>3, <2>5, <2>7, <2>9, OwnEvent
<1>7. ASSUME SafeFailureCompletes(r) PROVE HInv'
  <2>1. Only(h, {"PLAN_REGISTERED", "SAFE_FAILURE"})
    BY <1>2, <1>7 DEF Remembers, SafeFailureCompletes, At
  <2>2. Resolved(h)
    BY <2>1 DEF Resolved, Only, Has
  <2> QED BY <1>1, <1>7, <2>2, LastWord DEF SafeFailureCompletes
<1>8. ASSUME SnapshotCaptured(r) PROVE HInv'
  <2> DEFINE e == Event("SNAPSHOT_CAPTURED", 0, Verdict("NONE"))
             g == Append(h, e)
             m == [me EXCEPT !.pc = "start", !.step = 1]
  <2>1. e \in Events /\ e.type = "SNAPSHOT_CAPTURED" /\ e.step = 0
    BY <1>4, EventTyped
  <2>2. m.pc = "start" /\ m.txn = t /\ m.step = 1 /\ m.changed = me.changed
    BY <1>2 DEF Locals
  <2>3. /\ me.pc = "capture" /\ Become(r, m) /\ UNCHANGED <<opState, registered, host>>
        /\ Append_event(t, "SNAPSHOT_CAPTURED", 0, Verdict("NONE"))
    BY <1>8 DEF SnapshotCaptured, At
  <2> HIDE DEF e, m
  <2>4. Only(h, {"PLAN_REGISTERED"}) /\ me.changed = {}
    BY <1>2, <2>3 DEF Remembers
  <2>5. Timely(t, h, e, host[t])
    BY <1>2, <2>1, <2>4 DEF Timely, OfNoStep, Only, Has
  <2>6. Adds(h, e, g)
    BY <1>2, <2>1, AppendSays
  <2>7. e = Event("SNAPSHOT_CAPTURED", 0, Verdict("NONE")) /\ g = Append(h, e)
    BY DEF e, g
  <2> HIDE DEF g
  <2>8. /\ \A s : /\ ~Has(h, "STEP_EXECUTION_STARTED", s) /\ ~Has(h, "STEP_EXECUTION_RECORDED", s)
                  /\ ~Has(h, "POSTCONDITION_RECORDED", s) /\ ~HasChange(h, s, {"APPLIED"})
        /\ \A types : "PLAN_REGISTERED" \in types => Only(h, types)
    BY <2>4 DEF Only, Has, HasChange
  <2>9. GoesForward(m, g)
    BY <1>2, <2>1, <2>2, <2>4, <2>6, <2>8 DEF GoesForward, Past, Steps, Adds
  <2>10. Remembers(m, g)
    BY <2>2, <2>9 DEF Remembers, Forward, Backward
  <2> QED BY <1>1, <2>1, <2>2, <2>3, <2>5, <2>7, <2>10, OwnEvent
<1> QED BY <1>5, <1>6, <1>7, <1>8

\* A call that is not under way any more, or not yet, has nothing to remember.
LEMMA OutsideStep ==
    ASSUME IInv, HInv, NEW r \in Runners, NEW m, Become(r, m), m.pc \in {"idle", "register"},
           UNCHANGED <<opState, registered, log, host>>,
           m.pc = "register" =>
              m.changed = {} /\ opState[PlanOp[m.txn]] \notin {"ABSENT", "PREPARED"}
    PROVE  HInv'
<1>1. /\ runner'[r] = m
      /\ \A q \in Runners \ {r} : runner'[q] = runner[q]
      /\ \A q \in Runners : Engaged(q)' => Engaged(q) /\ runner'[q] = runner[q]
  BY DEF Become, IInv, TypeOK, Engaged
<1>2. WrittenIfRegistered' /\ \A t \in Txns : Sound(t, log'[t], host'[t])
  BY DEF HInv, WrittenIfRegistered
<1>3. \A q \in Runners : Engaged(q)' => Remembers(runner'[q], log'[runner'[q].txn])
  BY <1>1 DEF HInv
<1>4. Claimed' /\ Fresh'
  BY <1>1 DEF HInv, Claimed, Fresh
<1>5. OutcomeIsOver'
  BY <1>1 DEF HInv, OutcomeIsOver
<1> QED BY <1>2, <1>3, <1>4, <1>5 DEF HInv

\* Every step of the system keeps the histories in order.
LEMMA HInvStep == IInv /\ HInv /\ [Next]_vars => HInv'
<1> SUFFICES ASSUME IInv, HInv, [Next]_vars PROVE HInv'
    OBVIOUS
<1>0. TypeOK /\ TypeOK'
  BY TypeStep DEF IInv
<1>1. ASSUME NEW o \in Ops, Prepare(o) \/ Claim_execution(o) \/ ReviewMarksUnknown(o)
      PROVE  HInv'
  <2>1. UNCHANGED <<registered, log, host, runner>>
    BY <1>1 DEF Prepare, Claim_execution, ReviewMarksUnknown
  <2>2. \A p \in Ops : /\ opState'[p] \in {"SUCCEEDED", "FAILED"} => opState'[p] = opState[p]
                       /\ opState'[p] \in {"ABSENT", "PREPARED"} =>
                             opState[p] \in {"ABSENT", "PREPARED"}
    BY <1>0, <1>1 DEF Prepare, Claim_execution, ReviewMarksUnknown, Terminal, TypeOK
  <2>3. \A r \in Runners : runner[r].pc # "idle" => PlanOp[runner[r].txn] \in Ops
    BY <1>0, PlanAssumption DEF TypeOK
  <2>4. \A t \in registered : PlanOp[t] \in Ops
    BY <1>0, PlanAssumption DEF TypeOK
  <2>5. Claimed'
    BY <2>1, <2>2, <2>3, <2>4 DEF HInv, Claimed
  <2>6. OutcomeIsOver'
    BY <2>1, <2>2 DEF HInv, OutcomeIsOver, Engaged
  <2> QED BY <2>1, <2>5, <2>6 DEF HInv, WrittenIfRegistered, Fresh, Engaged
<1>2. ASSUME NEW o \in Ops, NEW outcome \in {"SUCCEEDED", "FAILED"}, Reconcile_unknown(o, outcome)
      PROVE  HInv'
  BY <1>2 DEF Reconcile_unknown, HInv, WrittenIfRegistered, Claimed, Fresh, OutcomeIsOver, Engaged
<1>3. ASSUME NEW r \in Runners, NEW t \in Txns, RunCalled(r, t) PROVE HInv'
  <2> DEFINE m == [Idle EXCEPT !.pc = "register", !.txn = t]
  <2>1. m.pc = "register" /\ m.txn = t /\ m.changed = {}
    BY DEF Idle
  <2>2. /\ Become(r, m) /\ UNCHANGED <<opState, registered, log, host>>
        /\ opState[PlanOp[t]] = "EXECUTING"
    BY <1>3 DEF RunCalled
  <2> HIDE DEF m
  <2> QED BY <2>1, <2>2, OutsideStep
<1>4. ASSUME NEW r \in Runners, Return(r), UNCHANGED <<opState, registered, log, host>>
      PROVE  HInv'
  BY <1>4, OutsideStep DEF Return, Idle
<1>5. ASSUME NEW r \in Runners, Crash(r) PROVE HInv'
  BY <1>4, <1>5 DEF Crash
<1>6. ASSUME NEW r \in Runners, NEW ok \in BOOLEAN, Register_plan(r, ok) PROVE HInv'
  BY <1>0, <1>4, <1>6, RegisterHistory DEF Register_plan
<1>7. ASSUME NEW r \in Runners, RunStep(r) PROVE HInv'
  BY <1>0, <1>6, <1>7, EntryHistory, ForwardHistory, ForwardCalls, BackwardHistory, BackwardCalls
     DEF RunStep
<1>8. CASE UNCHANGED vars
  BY <1>8 DEF vars, HInv, WrittenIfRegistered, Claimed, Fresh, OutcomeIsOver, Engaged
<1> QED BY <1>1, <1>2, <1>3, <1>5, <1>7, <1>8 DEF Next

\* In every reachable state the histories say what happened, and the calls
\* under way know it.
THEOREM HistoryInvariance == Spec => [](IInv /\ HInv)
<1>1. Init => HInv
  <2> SUFFICES ASSUME Init PROVE HInv
    OBVIOUS
  <2>1. \A t \in Txns : Sound(t, log[t], host[t])
    BY DEF Init, Sound, NoRepeat, Reversed, Truthful
  <2> QED BY <2>1, PlanAssumption DEF Init, HInv, WrittenIfRegistered, Claimed, Fresh,
             OutcomeIsOver, Engaged, Idle
<1> QED BY <1>1, HInvStep, Invariance, PTL DEF Spec

-----------------------------------------------------------------------------
(* What the histories promise.                                             *)

\* The profile opens after any crash: whatever run() and _compensate() had
\* written of a transaction, _validate_existing accepts.
THEOREM HistoryOpens == Spec => []HistoryAccepted
<1>1. IInv /\ HInv => HistoryAccepted
  BY DEF IInv, TypeOK, HInv, WrittenIfRegistered, Sound, HistoryAccepted, Accepted
<1> QED BY <1>1, HistoryInvariance, PTL

\* No step of an operation is started twice, over all its plans, callers and
\* restarts.
THEOREM OneAttempt == Spec => []OneAttemptPerStep
<1>1. IInv /\ HInv => OneAttemptPerStep
  <2> SUFFICES ASSUME IInv, HInv, NEW t \in Txns, NEW u \in Txns, PlanOp[t] = PlanOp[u],
                      NEW s \in Steps(t),
                      NEW i \in Occurrences(t, "STEP_EXECUTION_STARTED", s),
                      NEW j \in Occurrences(u, "STEP_EXECUTION_STARTED", s)
               PROVE  t = u /\ i = j
    BY DEF OneAttemptPerStep
  <2>1. /\ i \in DOMAIN log[t] /\ log[t][i].type = "STEP_EXECUTION_STARTED" /\ log[t][i].step = s
        /\ j \in DOMAIN log[u] /\ log[u][j].type = "STEP_EXECUTION_STARTED" /\ log[u][j].step = s
    BY DEF Occurrences
  <2>2. log[t] # <<>> /\ log[u] # <<>>
    BY <2>1
  <2>3. t = u
    BY <2>2 DEF HInv, WrittenIfRegistered, IInv, OnePlanPerOperation
  <2> QED BY <2>1, <2>3 DEF HInv, Sound, NoRepeat
<1> QED BY <1>1, HistoryInvariance, PTL

\* An operation recorded SUCCEEDED had every step verified and none undone.
THEOREM SuccessIsVerified == Spec => []SucceededIsVerified
<1>1. IInv /\ HInv => SucceededIsVerified
  BY DEF HInv, OutcomeIsOver, Verified, HasStatus, Has, SucceededIsVerified, Logged
<1> QED BY <1>1, HistoryInvariance, PTL

\* _compensate undoes the applied steps in reverse order, one at a time.
THEOREM UndoingIsReversed == Spec => []UndoneInReverse
<1>1. IInv /\ HInv => UndoneInReverse
  <2> SUFFICES ASSUME IInv, HInv, NEW t \in Txns, NEW s \in Steps(t), NEW u \in Steps(t),
                      s < u, u \in Compensatable[t],
                      NEW i \in Occurrences(t, "COMPENSATION_STARTED", s),
                      NEW j \in Occurrences(t, "STEP_EXECUTION_RECORDED", u),
                      log[t][j].report.change = "APPLIED"
               PROVE  \E k \in Occurrences(t, "COMPENSATION_RECORDED", u) : k < i
    BY DEF UndoneInReverse
  <2>1. PICK k \in 1..(i - 1) : log[t][k].type = "COMPENSATION_RECORDED" /\ log[t][k].step = u
    BY DEF Occurrences, HInv, Sound, Reversed
  <2>2. DOMAIN log[t] = 1..Len(log[t]) /\ Len(log[t]) \in Nat /\ i \in DOMAIN log[t]
    BY LenProperties DEF IInv, TypeOK, Occurrences
  <2> QED BY <2>1, <2>2 DEF Occurrences
<1> QED BY <1>1, HistoryInvariance, PTL

\* In a history without repetitions a step is unresolved exactly when its
\* start is recorded and its end is not.
LEMMA UnresolvedSays ==
    ASSUME NEW t, NoRepeat(log[t]), NEW s \in Steps(t), NEW started, NEW recorded
    PROVE  s \in Unresolved(t, started, recorded) <=>
              Has(log[t], started, s) /\ ~Has(log[t], recorded, s)
<1>1. ASSUME NEW type
      PROVE  Cardinality(Occurrences(t, type, s)) = IF Has(log[t], type, s) THEN 1 ELSE 0
  <2>1. CASE Has(log[t], type, s)
    <3>1. PICK i \in DOMAIN log[t] : log[t][i].type = type /\ log[t][i].step = s
      BY <2>1 DEF Has
    <3>2. Occurrences(t, type, s) = {i}
      BY <3>1 DEF NoRepeat, Occurrences
    <3> QED BY <2>1, <3>2, FS_Singleton
  <2>2. CASE ~Has(log[t], type, s)
    <3>1. Occurrences(t, type, s) = {}
      BY <2>2 DEF Has, Occurrences
    <3> QED BY <2>2, <3>1, FS_EmptySet
  <2> QED BY <2>1, <2>2
<1> QED BY <1>1 DEF Unresolved

\* Every change in the creative host is one the history accounts for, and a
\* step recorded RESTORED is not in the host.
THEOREM HistoryIsTrue == Spec => []HistoryTellsTheTruth
<1>1. IInv /\ HInv => HistoryTellsTheTruth
  <2> SUFFICES ASSUME IInv, HInv, NEW t \in Txns
               PROVE  /\ \A s \in host[t] :
                            \/ s \in Unresolved(t, "STEP_EXECUTION_STARTED",
                                                "STEP_EXECUTION_RECORDED")
                            \/ \E i \in Occurrences(t, "STEP_EXECUTION_RECORDED", s) :
                                  log[t][i].report.change # "NOT_APPLIED"
                      /\ \A s \in Steps(t) :
                            Logged(t, "COMPENSATION_RECORDED", s, "RESTORED") => s \notin host[t]
    BY DEF HistoryTellsTheTruth
  <2>1. NoRepeat(log[t]) /\ Truthful(t, log[t], host[t])
    BY DEF HInv, Sound
  <2>2. ASSUME NEW s \in host[t]
        PROVE  \/ s \in Unresolved(t, "STEP_EXECUTION_STARTED", "STEP_EXECUTION_RECORDED")
               \/ \E i \in Occurrences(t, "STEP_EXECUTION_RECORDED", s) :
                     log[t][i].report.change # "NOT_APPLIED"
    <3>1. CASE ~Has(log[t], "STEP_EXECUTION_RECORDED", s)
      BY <2>1, <3>1, UnresolvedSays DEF Truthful
    <3>2. CASE HasChange(log[t], s, {"APPLIED", "UNKNOWN"})
      BY <3>2 DEF HasChange, Occurrences
    <3> QED BY <2>1, <3>1, <3>2 DEF Truthful
  <2>3. ASSUME NEW s \in Steps(t), Logged(t, "COMPENSATION_RECORDED", s, "RESTORED")
        PROVE  s \notin host[t]
    BY <2>1, <2>3 DEF Truthful, HasStatus, Logged
  <2> QED BY <2>2, <2>3
<1> QED BY <1>1, HistoryInvariance, PTL

\* A step left without its record keeps the operation up for review until a
\* reviewer reconciles it: no settled outcome hides it.
THEOREM InterruptionIsReviewed == Spec => []InterruptedNeedsReview
<1>1. IInv /\ HInv => InterruptedNeedsReview
  <2> SUFFICES ASSUME IInv, HInv, NEW t \in registered, settled[PlanOp[t]] = "NONE",
                      \/ Unresolved(t, "STEP_EXECUTION_STARTED", "STEP_EXECUTION_RECORDED") # {}
                      \/ Unresolved(t, "COMPENSATION_STARTED", "COMPENSATION_RECORDED") # {}
               PROVE  RequiresReview(PlanOp[t])
    BY DEF InterruptedNeedsReview
  <2> DEFINE o == PlanOp[t]
  <2>1. t \in Txns /\ o \in Ops /\ opState[o] \in OpStates /\ NoRepeat(log[t])
        /\ Steps(t) \subseteq Nat
    BY PlanAssumption DEF IInv, TypeOK, HInv, Sound, Steps
  <2>2. ~Resolved(log[t])
    BY <2>1, UnresolvedSays DEF Unresolved, Resolved
  <2>3. opState[o] \notin {"SUCCEEDED", "FAILED"}
    BY <2>1, <2>2 DEF HInv, OutcomeIsOver, IInv, OnePlanPerOperation
  <2>4. opState[o] \notin {"ABSENT", "PREPARED"}
    BY DEF HInv, Claimed
  <2> QED BY <2>1, <2>3, <2>4 DEF RequiresReview, OpStates
<1> QED BY <1>1, HistoryInvariance, PTL

=============================================================================

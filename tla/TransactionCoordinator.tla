----------------------- MODULE TransactionCoordinator -----------------------
(***************************************************************************)
(* n0te/transactions.py: TransactionCoordinator.run drives one claimed     *)
(* operation through the ordered steps of a TransactionPlan, recording     *)
(* each start and each result in the profile database, and undoes the      *)
(* applied steps in reverse order when one of them does not end well.      *)
(*                                                                         *)
(* Every database transaction and every call into the driver is an action  *)
(* of its own, because a process may die, or another caller may act,       *)
(* between any two of them.  The database survives a crash; a runner's     *)
(* local variables do not.  host is what the driver really did to the      *)
(* creative host: no line of the code can read it, and the properties      *)
(* compare it with what the journals claim.                                *)
(*                                                                         *)
(* The operation row is kept as OperationJournal._derive returns it; the   *)
(* event-level journal is the module OperationJournal.                     *)
(***************************************************************************)
EXTENDS Naturals, FiniteSets, Sequences

CONSTANTS
    Runners,        \* the callers (threads or processes) of run()
    Ops,            \* operations of the journal
    Txns,           \* transaction plans
    NoTxn,          \* no plan
    PlanOp,         \* PlanOp[t]: plan.operation_id
    PlanLen,        \* PlanLen[t]: how many steps plan.steps has
    Compensatable,  \* Compensatable[t]: the steps with compensatable=True
    CrashesHappen   \* whether a process may die

ASSUME PlanAssumption ==
    /\ NoTxn \notin Txns
    /\ PlanOp \in [Txns -> Ops]
    /\ PlanLen \in [Txns -> Nat \ {0}]
    /\ Compensatable \in [Txns -> SUBSET Nat]
    /\ CrashesHappen \in BOOLEAN

VARIABLES
    opState,    \* recorded_state of each operation
    settled,    \* outcome a reviewer reconciled an UNKNOWN operation to
    registered, \* rows of the transactions table
    log,        \* transaction_events of each transaction, in sequence order
    host,       \* the steps whose change is present in the creative host
    runner      \* local variables of each call of run()

journalVars == <<opState, settled>>
vars == <<opState, settled, registered, log, host, runner>>

-----------------------------------------------------------------------------
Steps(t) == 1..PlanLen[t]

OpStates == {"ABSENT", "PREPARED", "EXECUTING", "SUCCEEDED", "FAILED", "UNKNOWN"}

\* What execute_step may report: a success never leaves the change in doubt.
\* An exception is recorded as UNKNOWN with an UNKNOWN change.
StepExecution ==
    {x \in [status : {"SUCCEEDED", "FAILED", "UNKNOWN"},
            change : {"APPLIED", "NOT_APPLIED", "UNKNOWN"}] :
        ~(x.status = "SUCCEEDED" /\ x.change = "UNKNOWN")}

\* A verdict without a change state: postcondition or compensation results.
Verdict(status) == [status |-> status, change |-> "NONE"]

Reports == [status : {"NONE", "SUCCEEDED", "FAILED", "UNKNOWN", "SATISFIED", "RESTORED"},
            change : {"NONE", "APPLIED", "NOT_APPLIED", "UNKNOWN"}]

Events == [type : {"PLAN_REGISTERED", "SNAPSHOT_CAPTURED", "SAFE_FAILURE",
                   "STEP_EXECUTION_STARTED", "STEP_EXECUTION_RECORDED",
                   "POSTCONDITION_RECORDED", "COMPENSATION_STARTED",
                   "COMPENSATION_RECORDED", "RECOVERY_REQUIRED"},
           step : Nat, report : Reports]

Event(type, step, report) == [type |-> type, step |-> step, report |-> report]

Append_event(t, type, step, report) ==
    log' = [log EXCEPT ![t] = Append(@, Event(type, step, report))]

Logged(t, type, step, status) ==
    \E i \in DOMAIN log[t] : /\ log[t][i].type = type
                             /\ log[t][i].step = step
                             /\ log[t][i].report.status = status

-----------------------------------------------------------------------------
(* The local variables of run() and _compensate().  changed is the list of *)
(* steps reported APPLIED; todo what is left of reversed(changed), with    *)
(* the step being compensated; unsure is recovery_required.                *)

Idle == [pc |-> "idle", txn |-> NoTxn, step |-> 0, report |-> Verdict("NONE"),
         changed |-> {}, todo |-> {}, unsure |-> FALSE]

PCs == {"idle", "register", "snapshot", "safe_failure", "safe_complete", "capture",
        "start", "execute", "record", "verify", "record_post", "receipt", "succeed",
        "undo", "compensate", "record_undo", "recovery", "mark_unknown", "fail"}

Locals == [pc : PCs, txn : Txns \cup {NoTxn}, step : Nat, report : Reports,
           changed : SUBSET Nat, todo : SUBSET Nat, unsure : BOOLEAN]

At(r, pc) == runner[r].pc = pc
Become(r, locals) == runner' = [runner EXCEPT ![r] = locals]
Goto(r, pc) == Become(r, [runner[r] EXCEPT !.pc = pc])
Return(r) == Become(r, Idle)

\* Mutant: root_unknown is dropped on the way into _compensate.
UnwindForgettingDoubt(r, changed, rootUnknown, failed) ==
    Become(r, [runner[r] EXCEPT !.pc = "undo", !.step = failed,
                                !.report = Verdict("NONE"), !.changed = changed,
                                !.todo = changed, !.unsure = FALSE])

\* Enter _compensate: failed is failed_step_id (0 for None), root_unknown its
\* first doubt.
Unwind(r, changed, rootUnknown, failed) ==
    Become(r, [runner[r] EXCEPT !.pc = "undo", !.step = failed,
                                !.report = Verdict("NONE"), !.changed = changed,
                                !.todo = changed, !.unsure = rootUnknown])

TypeOK ==
    /\ opState \in [Ops -> OpStates]
    /\ settled \in [Ops -> {"NONE", "SUCCEEDED", "FAILED"}]
    /\ registered \in SUBSET Txns
    /\ log \in [Txns -> Seq(Events)]
    /\ host \in [Txns -> SUBSET Nat]
    /\ runner \in [Runners -> Locals]
    /\ \A r \in Runners : runner[r].pc # "idle" => runner[r].txn \in Txns

Init ==
    /\ opState = [o \in Ops |-> "ABSENT"]
    /\ settled = [o \in Ops |-> "NONE"]
    /\ registered = {}
    /\ log = [t \in Txns |-> <<>>]
    /\ host = [t \in Txns |-> {}]
    /\ runner = [r \in Runners |-> Idle]

-----------------------------------------------------------------------------
(* The operation row, through the journal's single-transaction calls.      *)

Prepare(o) ==
    /\ opState[o] = "ABSENT"
    /\ opState' = [opState EXCEPT ![o] = "PREPARED"]
    /\ UNCHANGED <<settled, registered, log, host, runner>>

Claim_execution(o) ==
    /\ opState[o] = "PREPARED"
    /\ opState' = [opState EXCEPT ![o] = "EXECUTING"]
    /\ UNCHANGED <<settled, registered, log, host, runner>>

\* Mutant: the row's state is not read again inside the transaction.
TerminalOverwrites(o, event) == opState' = [opState EXCEPT ![o] = event]

\* Mutant: the row records the name of the caller's result instead.
TerminalRecordsResult(o, event) ==
    opState' = IF opState[o] # "EXECUTING" THEN opState
               ELSE [opState EXCEPT ![o] = IF event = "FAILED" THEN "COMPENSATED" ELSE event]

\* OperationJournal._terminal: refused, with OperationError, when the row left
\* EXECUTING meanwhile.  Either way the caller is done.
Terminal(o, event) ==
    opState' = IF opState[o] = "EXECUTING" THEN [opState EXCEPT ![o] = event]
               ELSE opState

\* A reviewer who found the operation EXECUTING, after a crash for all it can
\* tell, marks it UNKNOWN.  Nothing stops it while a runner is still alive.
ReviewMarksUnknown(o) ==
    /\ opState[o] = "EXECUTING"
    /\ Terminal(o, "UNKNOWN")
    /\ UNCHANGED <<settled, registered, log, host, runner>>

Reconcile_unknown(o, outcome) ==
    /\ opState[o] = "UNKNOWN" /\ settled[o] = "NONE"
    /\ settled' = [settled EXCEPT ![o] = outcome]
    /\ UNCHANGED <<opState, registered, log, host, runner>>

-----------------------------------------------------------------------------
(* run(): entry, registration and snapshot.                                *)

\* The state of the operation is read outside any transaction.
RunCalled(r, t) ==
    /\ At(r, "idle")
    /\ opState[PlanOp[t]] = "EXECUTING"
    /\ Become(r, [Idle EXCEPT !.pc = "register", !.txn = t])
    /\ UNCHANGED <<opState, settled, registered, log, host>>

\* Mutants: UNIQUE is missing on operation_id; the key is not checked at all.
MayRegisterSameOperation(t) == t \notin registered
MayRegisterAgain(t) == \A u \in registered : u = t

\* transactions.id is the primary key and operation_id is UNIQUE.
MayRegister(t) == \A u \in registered : u # t /\ PlanOp[u] # PlanOp[t]

Register_plan(r, driverComplete) ==
    LET t == runner[r].txn IN
    /\ At(r, "register")
    /\ IF MayRegister(t)
       THEN /\ registered' = registered \cup {t}
            /\ Append_event(t, "PLAN_REGISTERED", 0, Verdict("NONE"))
            /\ Goto(r, IF driverComplete THEN "snapshot" ELSE "safe_failure")
       ELSE /\ Return(r)
            /\ UNCHANGED <<registered, log>>
    /\ UNCHANGED <<opState, settled, host>>

\* driver.prepare_snapshot: an exception leads to _safe_failure.
Prepare_snapshot(r, ok) ==
    /\ At(r, "snapshot")
    /\ Goto(r, IF ok THEN "capture" ELSE "safe_failure")
    /\ UNCHANGED <<opState, settled, registered, log, host>>

SafeFailureRecorded(r) ==
    /\ At(r, "safe_failure")
    /\ Append_event(runner[r].txn, "SAFE_FAILURE", 0, Verdict("NONE"))
    /\ Goto(r, "safe_complete")
    /\ UNCHANGED <<opState, settled, registered, host>>

SafeFailureCompletes(r) ==
    /\ At(r, "safe_complete")
    /\ Terminal(PlanOp[runner[r].txn], "FAILED")
    /\ Return(r)
    /\ UNCHANGED <<settled, registered, log, host>>

SnapshotCaptured(r) ==
    /\ At(r, "capture")
    /\ Append_event(runner[r].txn, "SNAPSHOT_CAPTURED", 0, Verdict("NONE"))
    /\ Become(r, [runner[r] EXCEPT !.pc = "start", !.step = 1])
    /\ UNCHANGED <<opState, settled, registered, host>>

-----------------------------------------------------------------------------
(* run(): the forward loop over plan.steps.                                *)

\* Mutant: the start is not committed before the driver is called.
StepStartedUnrecorded(r) ==
    /\ At(r, "start")
    /\ Goto(r, "execute")
    /\ UNCHANGED <<opState, settled, registered, log, host>>

StepStarted(r) ==
    /\ At(r, "start")
    /\ Append_event(runner[r].txn, "STEP_EXECUTION_STARTED", runner[r].step, Verdict("NONE"))
    /\ Goto(r, "execute")
    /\ UNCHANGED <<opState, settled, registered, host>>

\* An honest driver: it does not claim a change it did not make, nor deny one
\* it made, but it may not know.
HonestExecution(applied) ==
    {x \in StepExecution : x.change \in {"UNKNOWN", IF applied THEN "APPLIED" ELSE "NOT_APPLIED"}}

Execute_step(r, applied, x) ==
    LET t == runner[r].txn  s == runner[r].step IN
    /\ At(r, "execute")
    /\ x \in HonestExecution(applied)
    /\ host' = IF applied THEN [host EXCEPT ![t] = @ \cup {s}] ELSE host
    /\ Become(r, [runner[r] EXCEPT !.pc = "record", !.report = x])
    /\ UNCHANGED <<opState, settled, registered, log>>

StepRecorded(r) ==
    LET me == runner[r]
        changed == IF me.report.change = "APPLIED" THEN me.changed \cup {me.step} ELSE me.changed
    IN
    /\ At(r, "record")
    /\ Append_event(me.txn, "STEP_EXECUTION_RECORDED", me.step, me.report)
    /\ \/ /\ me.report.status = "SUCCEEDED"
          /\ Become(r, [runner[r] EXCEPT !.pc = "verify", !.changed = changed,
                                         !.report = Verdict("NONE")])
       \/ /\ me.report.status # "SUCCEEDED"
          /\ Unwind(r, changed, "UNKNOWN" \in {me.report.status, me.report.change}, me.step)
    /\ UNCHANGED <<opState, settled, registered, host>>

\* driver.verify_postcondition; an exception counts as UNKNOWN.
Verify_postcondition(r, status) ==
    /\ At(r, "verify")
    /\ Become(r, [runner[r] EXCEPT !.pc = "record_post", !.report = Verdict(status)])
    /\ UNCHANGED <<opState, settled, registered, log, host>>

\* Mutant: only a FAILED postcondition ends the forward loop.
PostconditionDoubtIgnored(r) ==
    LET me == runner[r] IN
    /\ At(r, "record_post")
    /\ Append_event(me.txn, "POSTCONDITION_RECORDED", me.step, me.report)
    /\ \/ /\ me.report.status # "FAILED" /\ me.step < PlanLen[me.txn]
          /\ Become(r, [runner[r] EXCEPT !.pc = "start", !.step = @ + 1])
       \/ /\ me.report.status # "FAILED" /\ me.step = PlanLen[me.txn]
          /\ Goto(r, "receipt")
       \/ /\ me.report.status = "FAILED"
          /\ Unwind(r, me.changed, FALSE, me.step)
    /\ UNCHANGED <<opState, settled, registered, host>>

PostconditionRecorded(r) ==
    LET me == runner[r] IN
    /\ At(r, "record_post")
    /\ Append_event(me.txn, "POSTCONDITION_RECORDED", me.step, me.report)
    /\ \/ /\ me.report.status = "SATISFIED" /\ me.step < PlanLen[me.txn]
          /\ Become(r, [runner[r] EXCEPT !.pc = "start", !.step = @ + 1,
                                         !.report = Verdict("NONE")])
       \/ /\ me.report.status = "SATISFIED" /\ me.step = PlanLen[me.txn]
          /\ Become(r, [runner[r] EXCEPT !.pc = "receipt", !.report = Verdict("NONE")])
       \/ /\ me.report.status # "SATISFIED"
          /\ Unwind(r, me.changed, me.report.status = "UNKNOWN", me.step)
    /\ UNCHANGED <<opState, settled, registered, host>>

\* driver.success_receipt: without a receipt the outcome is in doubt.
Success_receipt(r, ok) ==
    /\ At(r, "receipt")
    /\ IF ok THEN Goto(r, "succeed") ELSE Unwind(r, runner[r].changed, TRUE, 0)
    /\ UNCHANGED <<opState, settled, registered, log, host>>

CompleteSuccess(r) ==
    /\ At(r, "succeed")
    /\ Terminal(PlanOp[runner[r].txn], "SUCCEEDED")
    /\ Return(r)
    /\ UNCHANGED <<settled, registered, log, host>>

-----------------------------------------------------------------------------
(* _compensate(): over reversed(changed), then the outcome.                *)

\* Mutant: compensation walks changed_steps forwards.
IsFirst(s, S) == s \in S /\ \A u \in S : u >= s

\* reversed(changed_steps): the last applied step still to be undone.
IsLast(s, S) == s \in S /\ \A u \in S : u <= s

\* A step that cannot be compensated is skipped and leaves the doubt.
SkipNoncompensatable(r, s) ==
    /\ At(r, "undo") /\ IsLast(s, runner[r].todo)
    /\ s \notin Compensatable[runner[r].txn]
    /\ Become(r, [runner[r] EXCEPT !.todo = @ \ {s}, !.unsure = TRUE])
    /\ UNCHANGED <<opState, settled, registered, log, host>>

CompensationStarted(r, s) ==
    /\ At(r, "undo") /\ IsLast(s, runner[r].todo)
    /\ s \in Compensatable[runner[r].txn]
    /\ Append_event(runner[r].txn, "COMPENSATION_STARTED", s, Verdict("NONE"))
    /\ Goto(r, "compensate")
    /\ UNCHANGED <<opState, settled, registered, host>>

\* driver.compensate_step: RESTORED only of what it did restore.
Compensate_step(r, s, undone, status) ==
    /\ At(r, "compensate") /\ IsLast(s, runner[r].todo)
    /\ status = "RESTORED" => undone
    /\ host' = IF undone THEN [host EXCEPT ![runner[r].txn] = @ \ {s}] ELSE host
    /\ Become(r, [runner[r] EXCEPT !.pc = "record_undo", !.report = Verdict(status)])
    /\ UNCHANGED <<opState, settled, registered, log>>

\* Mutant: only a verdict of RESTORED is written to the history.
CompensationDoubtUnrecorded(r, s) ==
    LET status == runner[r].report.status IN
    /\ At(r, "record_undo") /\ IsLast(s, runner[r].todo)
    /\ IF status = "RESTORED"
       THEN Append_event(runner[r].txn, "COMPENSATION_RECORDED", s, Verdict(status))
       ELSE UNCHANGED log
    /\ Become(r, [runner[r] EXCEPT !.pc = "undo", !.todo = @ \ {s},
                                   !.report = Verdict("NONE"), !.unsure = @ \/ status = "UNKNOWN"])
    /\ UNCHANGED <<opState, settled, registered, host>>

CompensationRecorded(r, s) ==
    LET status == runner[r].report.status IN
    /\ At(r, "record_undo") /\ IsLast(s, runner[r].todo)
    /\ Append_event(runner[r].txn, "COMPENSATION_RECORDED", s, Verdict(status))
    /\ Become(r, [runner[r] EXCEPT !.pc = "undo", !.todo = @ \ {s},
                                   !.report = Verdict("NONE"),
                                   !.unsure = @ \/ status # "RESTORED"])
    /\ UNCHANGED <<opState, settled, registered, host>>

\* Mutant: an undoing that needs recovery returns without its outcome.
CompensationEndsInDoubt(r) ==
    /\ At(r, "undo") /\ runner[r].todo = {}
    /\ IF runner[r].unsure THEN Return(r) ELSE Goto(r, "fail")
    /\ UNCHANGED <<opState, settled, registered, log, host>>

CompensationEnds(r) ==
    /\ At(r, "undo") /\ runner[r].todo = {}
    /\ Goto(r, IF runner[r].unsure THEN "recovery" ELSE "fail")
    /\ UNCHANGED <<opState, settled, registered, log, host>>

RecoveryRequired(r) ==
    /\ At(r, "recovery")
    /\ Append_event(runner[r].txn, "RECOVERY_REQUIRED", runner[r].step, Verdict("NONE"))
    /\ Goto(r, "mark_unknown")
    /\ UNCHANGED <<opState, settled, registered, host>>

MarkUnknown(r) ==
    /\ At(r, "mark_unknown")
    /\ Terminal(PlanOp[runner[r].txn], "UNKNOWN")
    /\ Return(r)
    /\ UNCHANGED <<settled, registered, log, host>>

CompleteFailure(r) ==
    /\ At(r, "fail")
    /\ Terminal(PlanOp[runner[r].txn], "FAILED")
    /\ Return(r)
    /\ UNCHANGED <<settled, registered, log, host>>

\* The process dies, or a database write of run() raises: what the call held
\* in memory is gone, what it wrote is not.
Crash(r) ==
    /\ CrashesHappen /\ ~At(r, "idle")
    /\ Return(r)
    /\ UNCHANGED <<opState, settled, registered, log, host>>

-----------------------------------------------------------------------------
\* One run() call, moved on by its own thread.
RunStep(r) ==
    \/ \E ok \in BOOLEAN : Register_plan(r, ok) \/ Prepare_snapshot(r, ok) \/ Success_receipt(r, ok)
    \/ SafeFailureRecorded(r) \/ SafeFailureCompletes(r) \/ SnapshotCaptured(r)
    \/ StepStarted(r)
    \/ \E applied \in BOOLEAN, x \in StepExecution : Execute_step(r, applied, x)
    \/ StepRecorded(r)
    \/ \E status \in {"SATISFIED", "FAILED", "UNKNOWN"} : Verify_postcondition(r, status)
    \/ PostconditionRecorded(r)
    \/ CompleteSuccess(r)
    \/ \E s \in runner[r].todo :
          \/ SkipNoncompensatable(r, s) \/ CompensationStarted(r, s)
          \/ \E undone \in BOOLEAN, status \in {"RESTORED", "FAILED", "UNKNOWN"} :
                Compensate_step(r, s, undone, status)
          \/ CompensationRecorded(r, s)
    \/ CompensationEnds(r)
    \/ RecoveryRequired(r) \/ MarkUnknown(r) \/ CompleteFailure(r)

Next ==
    \/ \E o \in Ops : Prepare(o) \/ Claim_execution(o) \/ ReviewMarksUnknown(o)
    \/ \E o \in Ops, outcome \in {"SUCCEEDED", "FAILED"} : Reconcile_unknown(o, outcome)
    \/ \E r \in Runners, t \in Txns : RunCalled(r, t)
    \/ \E r \in Runners : RunStep(r) \/ Crash(r)

Spec == Init /\ [][Next]_vars

\* run() is straight-line code over a driver whose calls return: once called
\* it keeps stepping.  Nobody is obliged to call it, to review or to crash.
FairSpec == Spec /\ \A r \in Runners : WF_vars(RunStep(r))

-----------------------------------------------------------------------------
(* Reading the history back.                                               *)

Occurrences(t, type, s) ==
    {i \in DOMAIN log[t] : log[t][i].type = type /\ log[t][i].step = s}

\* TransactionCoordinator._unresolved: started more often than recorded.
Unresolved(t, started, recorded) ==
    {s \in Steps(t) : Cardinality(Occurrences(t, started, s))
                        > Cardinality(Occurrences(t, recorded, s))}

\* TransactionHistory.requires_recovery_review.
RequiresReview(o) ==
    opState[o] = "EXECUTING" \/ (opState[o] = "UNKNOWN" /\ settled[o] = "NONE")

\* What _validate_existing demands of a history when the profile is opened.  It
\* walks the events once; what its walk has gathered before place n is written
\* here as what the events before n say.
Before(h, n, type, s) == {i \in 1..(n - 1) : h[i].type = type /\ h[i].step = s}

Seen(h, n, type) == \E i \in 1..(n - 1) : h[i].type = type

\* execution_balance and compensation_balance of step s, when the walk is at n.
Balance(h, n, started, recorded, s, open) ==
    Cardinality(Before(h, n, started, s)) = Cardinality(Before(h, n, recorded, s)) + open

Executing(h, n, open) ==
    Balance(h, n, "STEP_EXECUTION_STARTED", "STEP_EXECUTION_RECORDED", h[n].step, open)
Undoing(h, n, open) ==
    Balance(h, n, "COMPENSATION_STARTED", "COMPENSATION_RECORDED", h[n].step, open)

OfNoStep == {"PLAN_REGISTERED", "SNAPSHOT_CAPTURED", "SAFE_FAILURE"}

Follows(t, h, n) ==
    LET e == h[n] IN
    /\ e.step \in IF e.type \in OfNoStep THEN {0}
                  ELSE IF e.type = "RECOVERY_REQUIRED" THEN Steps(t) \cup {0} ELSE Steps(t)
    /\ e.type = "PLAN_REGISTERED" =>
          ~Seen(h, n, "PLAN_REGISTERED") /\ e.report = Verdict("NONE")
    /\ e.type \in {"SNAPSHOT_CAPTURED", "SAFE_FAILURE"} => ~Seen(h, n, "SNAPSHOT_CAPTURED")
    /\ e.type = "STEP_EXECUTION_STARTED" =>
          /\ Seen(h, n, "SNAPSHOT_CAPTURED") /\ Executing(h, n, 0)
          /\ \A i \in 1..(n - 1) : h[i].type = "STEP_EXECUTION_STARTED" => h[i].step <= e.step
    /\ e.type = "STEP_EXECUTION_RECORDED" =>
          /\ Executing(h, n, 1)
          /\ e.report.status \in {"SUCCEEDED", "FAILED", "UNKNOWN"}
          /\ e.report.change # "NONE"
    /\ e.type = "POSTCONDITION_RECORDED" =>
          /\ Executing(h, n, 0)
          /\ e.report \in {Verdict(status) : status \in {"SATISFIED", "FAILED", "UNKNOWN"}}
    /\ e.type = "COMPENSATION_STARTED" => Undoing(h, n, 0)
    /\ e.type = "COMPENSATION_RECORDED" =>
          /\ Undoing(h, n, 1)
          /\ e.report.status \in {"RESTORED", "FAILED", "UNKNOWN"}

Accepted(t) ==
    /\ log[t] # <<>> /\ log[t][1].type = "PLAN_REGISTERED"
    /\ \A n \in DOMAIN log[t] : Follows(t, log[t], n)

-----------------------------------------------------------------------------
(* Properties.                                                             *)

\* An operation recorded FAILED left no change in the host, whatever crashed,
\* whoever raced and whatever the driver could not tell: complete_failure is
\* reached from _compensate only with every applied step RESTORED and no doubt.
FailedLeavesNothing ==
    \A t \in Txns : opState[PlanOp[t]] = "FAILED" => host[t] = {}

\* An operation recorded SUCCEEDED has one transaction, every step of which
\* was verified SATISFIED and none of which was ever compensated.
SucceededIsVerified ==
    \A o \in Ops : opState[o] = "SUCCEEDED" =>
        \E t \in registered :
            /\ PlanOp[t] = o
            /\ \A s \in Steps(t) : /\ Logged(t, "POSTCONDITION_RECORDED", s, "SATISFIED")
                                   /\ ~Logged(t, "COMPENSATION_STARTED", s, "NONE")

\* "a process restart never erases which step was attempted, observed or
\* compensated": every change in the host is either an unresolved execution of
\* the history or one reported APPLIED or UNKNOWN, and a step reported
\* RESTORED is not in the host.
HistoryTellsTheTruth ==
    \A t \in Txns :
        /\ \A s \in host[t] :
              \/ s \in Unresolved(t, "STEP_EXECUTION_STARTED", "STEP_EXECUTION_RECORDED")
              \/ \E i \in Occurrences(t, "STEP_EXECUTION_RECORDED", s) :
                    log[t][i].report.change # "NOT_APPLIED"
        /\ \A s \in Steps(t) :
              Logged(t, "COMPENSATION_RECORDED", s, "RESTORED") => s \notin host[t]

\* requires_recovery_review: a step that was started, or whose compensation was,
\* and never recorded keeps its operation up for review until somebody
\* reconciles it; it never hides behind a settled outcome.
InterruptedNeedsReview ==
    \A t \in registered :
        /\ settled[PlanOp[t]] = "NONE"
        /\ \/ Unresolved(t, "STEP_EXECUTION_STARTED", "STEP_EXECUTION_RECORDED") # {}
           \/ Unresolved(t, "COMPENSATION_STARTED", "COMPENSATION_RECORDED") # {}
        => RequiresReview(PlanOp[t])

\* No step of an operation is started twice, over all its plans, callers and
\* restarts: "inspect recovery state instead of rerunning".
OneAttemptPerStep ==
    \A t, u \in Txns : PlanOp[t] = PlanOp[u] =>
        \A s \in Steps(t) :
            \A i \in Occurrences(t, "STEP_EXECUTION_STARTED", s),
               j \in Occurrences(u, "STEP_EXECUTION_STARTED", s) : t = u /\ i = j

\* Whatever moment a crash picks, _validate_existing accepts the history, so
\* the profile opens again.
HistoryAccepted == \A t \in registered : Accepted(t)

\* When the compensation of a step starts, every later step that was reported
\* APPLIED and can be compensated has had its compensation recorded.
UndoneInReverse ==
    \A t \in Txns : \A s, u \in Steps(t) :
        s < u /\ u \in Compensatable[t] =>
            \A i \in Occurrences(t, "COMPENSATION_STARTED", s),
               j \in Occurrences(t, "STEP_EXECUTION_RECORDED", u) :
                  log[t][j].report.change = "APPLIED" =>
                     \E k \in Occurrences(t, "COMPENSATION_RECORDED", u) : k < i

\* While no process dies, a registered transaction ends in a recorded outcome:
\* no path through run() and _compensate() leaves the operation EXECUTING.
RunSettles ==
    \A t \in Txns : t \in registered ~> opState[PlanOp[t]] \in {"SUCCEEDED", "FAILED", "UNKNOWN"}

\* Seen through its operation rows, the coordinator with its callers, crashes
\* and reviewers is the lifecycle the journal promises.
Lifecycle == INSTANCE OperationLifecycle WITH Operations <- Ops

\* Each step moves an operation along its lifecycle or leaves it alone: an
\* outcome already given, by a reviewer say, is never overwritten by run().
ImplementsLifecycle == Lifecycle!Spec

=============================================================================

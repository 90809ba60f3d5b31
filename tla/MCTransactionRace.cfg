SPECIFICATION Spec
CONSTANTS
    Runners = {r1, r2}
    Ops = {o1}
    Txns = {t1, t2}
    o1 = o1
    t1 = t1
    t2 = t2
    NoTxn = NoTxn
    PlanOp <- RacePlanOp
    PlanLen <- RacePlanLen
    Compensatable <- RaceCompensatable
    CrashesHappen = TRUE
INVARIANT TypeOK
INVARIANT FailedLeavesNothing
INVARIANT SucceededIsVerified
INVARIANT HistoryTellsTheTruth
INVARIANT OneAttemptPerStep
INVARIANT HistoryAccepted
PROPERTY ImplementsLifecycle
INVARIANT InterruptedNeedsReview
INVARIANT UndoneInReverse
CHECK_DEADLOCK FALSE

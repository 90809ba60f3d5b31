----------------------------- MODULE MCLiveness -----------------------------
(***************************************************************************)
(* What has begun ends: a run of a transaction, a call on a lease, an      *)
(* update; and who watches a DAW catches up with it.  A behaviour is about *)
(* one of these; they share no state.                                      *)
(***************************************************************************)
EXTENDS Naturals, TLC

CONSTANTS
    Runners, Ops, Txns, NoTxn, o1, t1, t2,
    Launches, o, y, MaxCalls, MaxAttempts, Missing, TornFile,
    Process, Update, before, after, None, Dead, Mixed,
    Musics, Details, Nothing, MaxChanges, MaxFailures, MaxRefreshes, SomeMusic, SomeDetail,
    MaxOutages

VARIABLES
    focus,   \* what this behaviour is about
    opState, settled, registered, log, host, runner,
    lease, marker, stale, dead, crashes, at,
    profileLease, coordination, runtime, open, db, slot, package, journal, bound, call,
    performed, holdDied, advised, updaterCrashes, ioFailures,
    live, polls, committed, searched, references, backoff, service, stopping,
    failures, refreshes, commits, searches,
    daw, available, ticking, inputs, held, latest, fetches, listener, leaving, outages, demands

runVars == <<opState, settled, registered, log, host, runner>>
leaseVars == <<lease, marker, stale, dead, crashes, at>>
updateVars == <<profileLease, coordination, runtime, open, db, slot, package, journal, bound,
                call, performed, holdDied, advised, updaterCrashes, ioFailures>>
observerVars == <<live, polls, committed, searched, references, backoff, service, stopping,
                  failures, refreshes, commits, searches>>
monitorVars == <<daw, available, ticking, inputs, held, latest, fetches, listener, leaving,
                 outages, demands>>
vars == <<focus, runVars, leaseVars, updateVars, observerVars, monitorVars>>

\* Two plans of one operation, and nobody dies.
Runs == INSTANCE TransactionCoordinator WITH
    PlanOp <- (t1 :> o1 @@ t2 :> o1), PlanLen <- (t1 :> 3 @@ t2 :> 1),
    Compensatable <- (t1 :> {1, 3} @@ t2 :> {1}), CrashesHappen <- FALSE

\* Launch y may come under the pid and start token of o, when o is dead.
Calls == INSTANCE InstanceLease WITH Reuses <- {<<o, y>>}, MaxCrashes <- 1, Torn <- TornFile

\* One update between two releases with different schemas, and one failing write.
Updates == INSTANCE ApplicationUpdate WITH
    Release <- {before, after}, First <- before,
    SchemaOf <- [r \in {before, after} |-> IF r = after THEN 2 ELSE 1],
    MaxEdits <- 1, MaxCrashes <- 0, MaxIOFailures <- 1, crashes <- updaterCrashes

Observer == INSTANCE ContinuousObserver
Monitor == INSTANCE MidiMonitor WITH
    host <- daw, polls <- fetches, service <- listener, stopping <- leaving, refreshes <- demands

LiveInit ==
    /\ focus \in {"runs", "calls", "updates", "observer", "monitor"}
    /\ Runs!Init /\ Calls!Init /\ Updates!Init /\ Observer!Init /\ Monitor!Init
    \* What the other behaviours leave alone is one and the same in all of them.
    /\ focus # "observer" => live = [music |-> SomeMusic, detail |-> SomeDetail, at |-> 0]
    /\ focus # "monitor" => daw = "LOGIC_PRO" /\ available /\ ticking

LiveNext ==
    \/ focus = "runs" /\ Runs!Next
       /\ UNCHANGED <<focus, leaseVars, updateVars, observerVars, monitorVars>>
    \/ focus = "calls" /\ Calls!Next
       /\ UNCHANGED <<focus, runVars, updateVars, observerVars, monitorVars>>
    \/ focus = "updates" /\ Updates!Next
       /\ UNCHANGED <<focus, runVars, leaseVars, observerVars, monitorVars>>
    \/ focus = "observer" /\ Observer!Next
       /\ UNCHANGED <<focus, runVars, leaseVars, updateVars, monitorVars>>
    \/ focus = "monitor" /\ Monitor!Next
       /\ UNCHANGED <<focus, runVars, leaseVars, updateVars, observerVars>>

\* The fairness of the five modules, each for the behaviours it is about.
LiveSpec ==
    /\ LiveInit /\ [][LiveNext]_vars
    /\ \A r \in Runners : WF_runVars(focus = "runs" /\ Runs!RunStep(r))
    /\ \A p \in Launches : WF_leaseVars(focus = "calls" /\ Calls!Step(p))
    /\ \A p \in Process :
          WF_updateVars(focus = "updates" /\ (Updates!PrepareStep(p) \/ Updates!ApplyStep(p)))
    /\ WF_observerVars(focus = "observer" /\ (Observer!LoopPolls \/ Observer!LoopEnds))
    /\ WF_observerVars(focus = "observer" /\ Observer!BackoffEnds)
    /\ \A t \in Observer!Tasks : WF_observerVars(focus = "observer" /\ Observer!Step(t))
    /\ WF_monitorVars(focus = "monitor" /\ (Monitor!LoopPolls \/ Monitor!LoopEnds))
    /\ WF_monitorVars(focus = "monitor" /\ Monitor!Publish)
    /\ \A t \in Monitor!Tasks : WF_monitorVars(focus = "monitor" /\ Monitor!Step(t))

\* transactions.py: see TransactionCoordinator.
RunSettles == Runs!RunSettles

\* instance.py: see InstanceLease.
CallsEnd == Calls!CallsEnd

\* update.py: see ApplicationUpdate.
UpdatesEnd == Updates!UpdatesEnd

\* ableton_observer_service.py, logic_observer_service.py and studio_one_observer_service.py:
\* see ContinuousObserver and MidiMonitor.
ReferencesCatchUp == Observer!ReferencesCatchUp /\ Monitor!ClockIsFoundAgain

=============================================================================

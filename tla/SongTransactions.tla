-------------------------- MODULE SongTransactions --------------------------
(***************************************************************************)
(* n0te/musical_transactions.py over song_transactions.py: how an approved *)
(* musical plan comes to change a DAW project.  prepare() takes a key of   *)
(* the operation journal, claims it and binds it to the Song as it is;     *)
(* run() goes on only while nothing the binding names has moved.  The      *)
(* witness between the two lives in memory: it may be kept for long, used  *)
(* again, or lost with the process.                                        *)
(*                                                                         *)
(* The calls of one process do not interleave, since its database          *)
(* connection is bound to a thread; between two calls the artist works on, *)
(* and the process may die between any two database transactions.  A run   *)
(* of the coordinator is its registration and its end (see                 *)
(* TransactionCoordinator for what lies between).                          *)
(***************************************************************************)
EXTENDS SongVersions

CONSTANTS
    Keys,       \* idempotency keys, each for one approval of one compiled plan
    MaxSeen     \* bound on the observations of the workspace

VARIABLES
    activeSong, \* metadata.active_song_id
    seen,       \* the workspace's current observation, of one host runtime
    ops,        \* the operation of each key: what it is for, and its recorded state
    call,       \* the call in progress
    witness,    \* PreparedMusicalTransaction: what callers hold
    registered, \* transactions.operation_id
    acted       \* ghost: for each run of the driver, its key and what it met

songVars == <<lineage, activeSong, seen>>
txVars == <<ops, call, witness, registered, acted>>

Idle == [at |-> "idle"]
Absent == [state |-> "ABSENT"]
At(place) == call.at = place

\* MusicalPlan with its FocusContext: the Song and the observation it was made of.
Plans == [song : Songs, seen : 0..MaxSeen]

\* The Song a plan names is active, and nothing was observed since it was made.
Current(plan) == plan.song = activeSong /\ plan.seen = seen

TxInit ==
    /\ LineageInit
    /\ activeSong = None /\ seen = 0
    /\ ops = [k \in Keys |-> Absent] /\ call = Idle /\ witness = {}
    /\ registered = {} /\ acted = {}

TxTypeOK ==
    /\ LineageTypeOK /\ activeSong \in Songs \cup {None} /\ seen \in 0..MaxSeen
    /\ \A k \in Keys :
          ops[k].state \in {"ABSENT", "PREPARED", "EXECUTING", "SUCCEEDED", "FAILED", "UNKNOWN"}
    /\ registered \subseteq Keys

-----------------------------------------------------------------------------
(* The artist, between two calls *)

Works ==
    /\ At("idle")
    /\ \/ LineageNext /\ UNCHANGED <<activeSong, seen>>
       \/ activeSong' \in Songs /\ UNCHANGED <<lineage, seen>>
       \/ seen < MaxSeen /\ seen' = seen + 1 /\ UNCHANGED <<lineage, activeSong>>
    /\ UNCHANGED txVars

-----------------------------------------------------------------------------
(* prepare() *)

\* journal.prepare with its own transaction: a key that is taken answers for
\* exactly the same operation, the target Version included.
Prepare(k, plan) ==
    /\ At("idle") /\ Current(plan)
    /\ LET target == current[plan.song] IN
          \/ ops[k] = Absent
             /\ ops' = [ops EXCEPT ![k] = [plan |-> plan, target |-> target, state |-> "PREPARED"]]
          \/ ops[k] # Absent /\ ops[k].plan = plan /\ ops[k].target = target /\ UNCHANGED ops
    /\ call' = [at |-> "claim", key |-> k]
    /\ UNCHANGED <<songVars, witness, registered, acted>>

\* journal.claim_execution: refused, with DuplicateExecutionError, unless PREPARED.
ClaimExecution ==
    /\ At("claim")
    /\ IF ops[call.key].state = "PREPARED"
       THEN /\ ops' = [ops EXCEPT ![call.key].state = "EXECUTING"]
            /\ call' = [call EXCEPT !.at = "bind"]
       ELSE UNCHANGED ops /\ call' = Idle
    /\ UNCHANGED <<songVars, witness, registered, acted>>

\* SongTransactionService.bind reads what is current once more.
Bind ==
    /\ At("bind")
    /\ LET op == ops[call.key] IN
       witness' = witness \cup
          {[key |-> call.key, plan |-> op.plan, target |-> op.target,
            expected |-> current[op.plan.song]]}
    /\ call' = Idle
    /\ UNCHANGED <<songVars, ops, registered, acted>>

-----------------------------------------------------------------------------
(* run() *)

\* Mutant: only the Song is looked at, not its Version.
ValidForSong(w) == Current(w.plan) /\ ops[w.key].state = "EXECUTING"

\* _validate_prepared and _validate_execution_binding.
Valid(w) ==
    /\ Current(w.plan) /\ ops[w.key].state = "EXECUTING"
    /\ ops[w.key].target = w.target
    /\ current[w.plan.song] = w.expected

\* transactions.run registers the plan (operation_id is UNIQUE), and the driver begins.
Run(w) ==
    /\ At("idle") /\ Valid(w) /\ w.key \notin registered
    /\ registered' = registered \cup {w.key}
    /\ call' = [at |-> "running", key |-> w.key]
    /\ acted' = acted \cup
          {[key |-> w.key, song |-> activeSong, current |-> current[w.plan.song], seen |-> seen,
            nth |-> Cardinality({a \in acted : a.key = w.key}) + 1]}
    /\ UNCHANGED <<songVars, ops, witness>>

RunEnds ==
    /\ At("running")
    /\ \E outcome \in {"SUCCEEDED", "FAILED", "UNKNOWN"} :
          ops' = [ops EXCEPT ![call.key].state = outcome]
    /\ call' = Idle
    /\ UNCHANGED <<songVars, witness, registered, acted>>

-----------------------------------------------------------------------------
\* The witnesses go with the process; what was committed stays.
Crash ==
    /\ call' = Idle /\ witness' = {}
    /\ UNCHANGED <<songVars, ops, registered, acted>>

\* A reviewer rules on an operation that is EXECUTING, after a crash for all it can tell.
Review(k) ==
    /\ At("idle") /\ ops[k].state = "EXECUTING"
    /\ ops' = [ops EXCEPT ![k].state = "UNKNOWN"]
    /\ UNCHANGED <<songVars, call, witness, registered, acted>>

TxNext ==
    \/ Works
    \/ \E k \in Keys, plan \in Plans : Prepare(k, plan)
    \/ ClaimExecution \/ Bind
    \/ \E w \in witness : Run(w)
    \/ RunEnds \/ Crash
    \/ \E k \in Keys : Review(k)

TxSpec == TxInit /\ [][TxNext]_<<songVars, txVars>>

-----------------------------------------------------------------------------
(* Properties *)

\* However often prepare() and run() are called, whatever the artist does between the
\* calls and wherever the process dies: the driver is given a key once, for the Song and
\* the Version that were current when the key was first taken and the observation the plan
\* was made of; and an outcome is recorded only of a key that was run or given up by review.
RunsWhatWasPrepared ==
    /\ \A a \in acted :
          /\ a.nth = 1
          /\ a.song = ops[a.key].plan.song /\ a.seen = ops[a.key].plan.seen
          /\ a.current = ops[a.key].target
    /\ \A k \in Keys : ops[k].state \in {"SUCCEEDED", "FAILED"} => \E a \in acted : a.key = k

=============================================================================

------------------------- MODULE ApplicationUpdate -------------------------
(***************************************************************************)
(* An application update of one profile: ApplicationRuntime of             *)
(* n0te/app_runtime.py, the update coordinator of n0te/update.py and its   *)
(* guard in n0te/safe_update.py, the schema migration under an update      *)
(* (update_migration.py, migration.py) and the snapshot slot of            *)
(* recovery.py.  Processes launch and quit the Headquarters, edit, prepare *)
(* and apply updates; any of them may crash, and writing a journal,        *)
(* closing the Headquarters or releasing a lease may fail.                 *)
(***************************************************************************)
EXTENDS Naturals

CONSTANTS
    Process,        \* processes, each with one ApplicationRuntime and one update call
    Update,         \* update ids
    Release,        \* releases of the package
    First,          \* the release installed at the start
    SchemaOf,       \* the semantic schema a release declares
    MaxEdits,       \* edits ever made (a bound)
    MaxCrashes,     \* processes that die (a bound)
    MaxIOFailures,  \* writes, closes and releases that fail (a bound)
    None, Dead, Mixed

ASSUME UpdateAssumption ==
    /\ First \in Release /\ SchemaOf \in [Release -> Nat]
    /\ Mixed \notin Release /\ None \notin Process \cup Update /\ Dead \notin Process /\ None # Dead
    /\ MaxEdits \in Nat /\ MaxCrashes \in Nat /\ MaxIOFailures \in Nat

VARIABLES
    profileLease,   \* who holds the profile's lease; Dead is a holder that died
    coordination,   \* who holds the lease __app_update_<profile>__
    runtime,        \* ApplicationRuntime._state, with OPENING between acquire and open
    open,           \* processes with an open Headquarters
    db,             \* the live database: its schema and the edits made so far
    slot,           \* the content of the profile's one recovery snapshot
    package,        \* the installed release, or Mixed
    journal,        \* the durable journal of each update
    bound,          \* updates with a durable schema migration binding
    call,           \* where each process is in prepare() or apply(), with its locals
    performed,      \* ghost: how often each driver action was started
    holdDied,       \* ghost: a process died while it held the profile for an update
    advised,        \* ghost: updates whose apply() said to prepare a new one
    crashes, ioFailures

leases == <<profileLease, coordination>>
session == <<runtime, open>>
files == <<journal, bound>>
ghosts == <<performed, holdDied, advised>>
vars == <<leases, session, db, slot, package, files, call, ghosts, crashes, ioFailures>>

-----------------------------------------------------------------------------
(* States and journals. *)

InFlight == {"INSTALLING", "VALIDATING", "ROLLING_BACK", "RESTORING", "FINALIZING"}
Settled == {"SUCCEEDED", "FAILED_SAFE", "ROLLED_BACK"}
Terminal == Settled \cup {"RECOVERY_REQUIRED"}
States == {"PREPARED"} \cup InFlight \cup Terminal

Contents == [schema : Nat, edits : Nat]
Installs == {"SUCCEEDED", "FAILED_SAFE", "FAILED_CHANGED", "UNKNOWN"}
Rollbacks == {"SUCCEEDED", "FAILED", "UNKNOWN"}
Journals == [state : States, from : Release, to : Release, snapshot : Contents,
             install : Installs \cup {None}, rollback : Rollbacks \cup {None}, restored : BOOLEAN]

\* None is Python's None: it is none of the strings and records of the code.
ASSUME NoneAssumption ==
    None \notin States \cup Installs \cup Rollbacks \cup Contents \cup Journals

Labels == {"idle", "checking", "snapshotting", "quitting", "comparing", "recording", "releasing",
           "withdrawing", "binding", "claiming", "rereading", "holding", "verifying", "starting",
           "installing", "installed", "migrating", "validating", "compensating", "rollingBack",
           "rolledBack", "restoring", "restored", "unrestored", "freeing", "freeingCoordination",
           "stranded", "strandedCoordination", "terminating", "guarded", "guardedMark", "handling",
           "dropping", "finishing"}

Calls == [at : Labels, update : Update \cup {None}, snapshot : Contents \cup {None},
          receipt : Installs \cup Rollbacks \cup {None},
          owns : SUBSET {"profile", "coordination"}]

Idle == [at |-> "idle", update |-> None, snapshot |-> None, receipt |-> None, owns |-> {}]

TypeOK ==
    /\ profileLease \in Process \cup {None, Dead} /\ coordination \in Process \cup {None, Dead}
    /\ runtime \in [Process -> {"STOPPED", "OPENING", "RUNNING", "RECOVERY_REQUIRED"}]
    /\ open \subseteq Process
    /\ db \in Contents /\ slot \in Contents \cup {None}
    /\ package \in Release \cup {Mixed}
    /\ journal \in [Update -> Journals \cup {None}] /\ bound \subseteq Update
    /\ call \in [Process -> Calls]
    /\ performed \in [Update -> [{"INSTALL", "ROLLBACK"} -> Nat]]
    /\ holdDied \in BOOLEAN /\ advised \subseteq Update
    /\ crashes \in 0..MaxCrashes /\ ioFailures \in 0..MaxIOFailures

Init ==
    /\ profileLease = None /\ coordination = None
    /\ runtime = [p \in Process |-> "STOPPED"] /\ open = {}
    /\ db = [schema |-> SchemaOf[First], edits |-> 0] /\ slot = None /\ package = First
    /\ journal = [u \in Update |-> None] /\ bound = {}
    /\ call = [p \in Process |-> Idle]
    /\ performed = [u \in Update |-> [a \in {"INSTALL", "ROLLBACK"} |-> 0]]
    /\ holdDied = FALSE /\ advised = {}
    /\ crashes = 0 /\ ioFailures = 0

-----------------------------------------------------------------------------
(* Steps of a call. *)

At(p, at) == call[p].at = at
Continue(p, me) == call' = [call EXCEPT ![p] = me]
Return(p) == Continue(p, Idle)
Goto(p, at) == IF at = "idle" THEN Return(p) ELSE Continue(p, [call[p] EXCEPT !.at = at])
Plan(p) == journal[call[p].update]

Fails == ioFailures < MaxIOFailures /\ ioFailures' = ioFailures + 1
Works == UNCHANGED ioFailures

\* A lease that nobody holds, or whose holder died, may be acquired.  One that is
\* held, by this process too, is refused; so may be a dead holder's (UNCERTAIN).
Free(lease) == lease \in {None, Dead}
Busy(lease) == lease # None

Leave(p, lease, at) ==
    IF at = "idle" THEN Return(p)
    ELSE Continue(p, [call[p] EXCEPT !.at = at, !.owns = @ \ {lease}])

\* Release one of the leases of this call, or fail to and keep it.
ReleaseProfile(p, released, kept) ==
    /\ UNCHANGED coordination
    /\ \/ /\ Works /\ profileLease' = None
          /\ Leave(p, "profile", released)
       \/ Fails /\ UNCHANGED profileLease /\ Goto(p, kept)

ReleaseCoordination(p, released, kept) ==
    /\ UNCHANGED profileLease
    /\ \/ /\ Works /\ coordination' = None
          /\ Leave(p, "coordination", released)
       \/ Fails /\ UNCHANGED coordination /\ Goto(p, kept)

\* _ALLOWED_TRANSITIONS
Allowed == [s \in States |->
    CASE s = "PREPARED" -> {"INSTALLING", "RECOVERY_REQUIRED"}
      [] s = "INSTALLING" -> {"VALIDATING", "ROLLING_BACK", "FINALIZING", "RECOVERY_REQUIRED"}
      [] s = "VALIDATING" -> {"ROLLING_BACK", "FINALIZING", "RECOVERY_REQUIRED"}
      [] s = "ROLLING_BACK" -> {"RESTORING", "RECOVERY_REQUIRED"}
      [] s = "RESTORING" -> {"FINALIZING", "RECOVERY_REQUIRED"}
      [] s = "FINALIZING" -> Terminal
      [] OTHER -> {}]

\* _validate_journal_semantics: the evidence a journal must carry in its state.
Changed(j) == j.install \in {"SUCCEEDED", "FAILED_CHANGED"}
Compensated(j) == Changed(j) /\ j.rollback = "SUCCEEDED" /\ j.restored
Evidenced(j) ==
    CASE j.state = "PREPARED" -> j.install = None /\ j.rollback = None /\ ~j.restored
      [] j.state = "INSTALLING" -> j.rollback = None /\ ~j.restored
      [] j.state = "VALIDATING" -> j.install = "SUCCEEDED" /\ j.rollback = None
      [] j.state = "ROLLING_BACK" -> Changed(j) /\ j.rollback = None /\ ~j.restored
      [] j.state = "RESTORING" -> Changed(j) /\ j.rollback = "SUCCEEDED"
      [] j.state = "FINALIZING" -> \/ j.install = "FAILED_SAFE"
                                   \/ j.install = "SUCCEEDED" /\ j.rollback = None
                                   \/ Compensated(j)
      [] j.state = "SUCCEEDED" -> j.install = "SUCCEEDED" /\ j.rollback = None /\ ~j.restored
      [] j.state = "FAILED_SAFE" -> j.install = "FAILED_SAFE" /\ j.rollback = None /\ ~j.restored
      [] j.state = "ROLLED_BACK" -> Compensated(j)
      [] j.state = "RECOVERY_REQUIRED" -> TRUE

\* _transition of the call's update to j: written, or refused, or not written.
Transition(p, j, written, raised) ==
    LET u == call[p].update
        legal == j.state \in Allowed[journal[u].state] /\ Evidenced(j)
    IN \/ legal /\ Works /\ journal' = [journal EXCEPT ![u] = j] /\ Goto(p, written)
       \/ legal /\ Fails /\ UNCHANGED journal /\ Goto(p, raised)
       \/ ~legal /\ Works /\ UNCHANGED journal /\ Goto(p, raised)

Recovery(j) == [j EXCEPT !.state = "RECOVERY_REQUIRED"]

-----------------------------------------------------------------------------
(* ApplicationRuntime *)

\* launch() acquires the profile's lease ...
LaunchClaims(p) ==
    /\ runtime[p] = "STOPPED" /\ Free(profileLease)
    /\ profileLease' = p
    /\ runtime' = [runtime EXCEPT ![p] = "OPENING"]
    /\ UNCHANGED <<coordination, open, db, slot, package, files, call, ghosts, crashes, ioFailures>>

\* ... and opens the Headquarters; if that fails, the lease is released.
LaunchOpens(p) ==
    /\ runtime[p] = "OPENING"
    /\ \/ /\ runtime' = [runtime EXCEPT ![p] = "RUNNING"] /\ open' = open \cup {p}
          /\ Works /\ UNCHANGED profileLease
       \/ /\ runtime' = [runtime EXCEPT ![p] = "STOPPED"] /\ profileLease' = None
          /\ Works /\ UNCHANGED open
       \/ /\ runtime' = [runtime EXCEPT ![p] = "RECOVERY_REQUIRED"]
          /\ open' \in {open, open \cup {p}}
          /\ Fails /\ UNCHANGED profileLease
    /\ UNCHANGED <<coordination, db, slot, package, files, call, ghosts, crashes>>

\* quit() of a runtime that is not STOPPED: close, then release.
QuitSucceeds(p) ==
    /\ runtime[p] \in {"RUNNING", "RECOVERY_REQUIRED"}
    /\ runtime' = [runtime EXCEPT ![p] = "STOPPED"]
    /\ open' = open \ {p} /\ profileLease' = None /\ Works

QuitFails(p) ==
    /\ runtime[p] \in {"RUNNING", "RECOVERY_REQUIRED"}
    /\ runtime' = [runtime EXCEPT ![p] = "RECOVERY_REQUIRED"]
    /\ open' \in {open, open \ {p}} /\ UNCHANGED profileLease /\ Fails

Quit(p) ==
    /\ QuitSucceeds(p) \/ QuitFails(p)
    /\ UNCHANGED <<coordination, db, slot, package, files, call, ghosts, crashes>>

\* The artist's work in an open Headquarters (external to this component).
Edit(p) ==
    /\ p \in open /\ runtime[p] = "RUNNING" /\ db.edits < MaxEdits
    /\ db' = [db EXCEPT !.edits = @ + 1]
    /\ UNCHANGED <<leases, session, slot, package, files, call, ghosts, crashes, ioFailures>>

-----------------------------------------------------------------------------
(* prepare() *)

\* _blocking_updates, with a mutant that takes every terminal state for settled.
BlockingUnlessTerminal == {u \in Update : journal[u] # None /\ journal[u].state \notin Terminal}
Blocking == {u \in Update : journal[u] # None /\ journal[u].state \notin Settled}

PrepareBegins(p) ==
    /\ At(p, "idle") /\ runtime[p] = "RUNNING" /\ \E u \in Update : journal[u] = None
    /\ Free(coordination) /\ coordination' = p
    /\ Continue(p, [Idle EXCEPT !.at = "checking", !.owns = {"coordination"}])
    /\ UNCHANGED <<profileLease, session, db, slot, package, files, ghosts, crashes, ioFailures>>

\* Mutant: the snapshot is taken before the check.
PrepareSnapshotsFirst(p) ==
    /\ At(p, "checking")
    /\ slot' = db
    /\ Goto(p, IF Blocking = {} THEN "snapshotting" ELSE "releasing")
    /\ UNCHANGED <<leases, session, db, package, files, ghosts, crashes, ioFailures>>

PrepareChecks(p) ==
    /\ At(p, "checking")
    /\ Goto(p, IF Blocking = {} THEN "snapshotting" ELSE "releasing")
    /\ UNCHANGED <<leases, session, db, slot, package, files, ghosts, crashes, ioFailures>>

\* create_snapshot through the open Headquarters; `headquarters` raises if there is none.
PrepareSnapshots(p) ==
    /\ At(p, "snapshotting")
    /\ \/ /\ runtime[p] = "RUNNING" /\ slot' = db /\ Works
          /\ Continue(p, [call[p] EXCEPT !.at = "quitting", !.snapshot = db])
       \/ /\ UNCHANGED slot /\ Goto(p, "releasing")
          /\ IF runtime[p] = "RUNNING" THEN Fails ELSE Works
    /\ UNCHANGED <<leases, session, db, package, files, ghosts, crashes>>

\* runtime.quit() must answer STOPPED.
PrepareQuits(p) ==
    /\ At(p, "quitting")
    /\ \/ QuitSucceeds(p) /\ Goto(p, "comparing")
       \/ QuitFails(p) /\ Goto(p, "releasing")
       \/ /\ runtime[p] \in {"STOPPED", "OPENING"} /\ Goto(p, "releasing")
          /\ UNCHANGED <<session, profileLease>> /\ Works
    /\ UNCHANGED <<coordination, db, slot, package, files, ghosts, crashes>>

PrepareCompares(p) ==
    /\ At(p, "comparing")
    /\ Goto(p, IF db = call[p].snapshot THEN "recording" ELSE "releasing")
    /\ UNCHANGED <<leases, session, db, slot, package, files, ghosts, crashes, ioFailures>>

\* The journal of a new update, from the release the caller says is installed.
PrepareRecords(p, u, from, to) ==
    /\ At(p, "recording") /\ journal[u] = None
    /\ package \in {from, Mixed}
    /\ \/ /\ Works
          /\ journal' = [journal EXCEPT ![u] =
               [state |-> "PREPARED", from |-> from, to |-> to, snapshot |-> call[p].snapshot,
                install |-> None, rollback |-> None, restored |-> FALSE]]
          /\ Continue(p, [call[p] EXCEPT !.at = "releasing", !.update = u, !.snapshot = None])
       \/ Fails /\ UNCHANGED journal /\ Goto(p, "releasing")
    /\ UNCHANGED <<leases, session, db, slot, package, bound, ghosts, crashes>>

PrepareReleases(p) ==
    /\ At(p, "releasing")
    /\ IF call[p].update = None THEN ReleaseCoordination(p, "idle", "idle")
       ELSE ReleaseCoordination(p, "binding", "withdrawing")
    /\ UNCHANGED <<session, db, slot, package, files, ghosts, crashes>>

\* safe_update.prepare: bind the migration chain this profile needs; there is none down.
PrepareBinds(p) ==
    /\ At(p, "binding")
    /\ IF SchemaOf[Plan(p).to] < db.schema THEN Works /\ UNCHANGED bound /\ Goto(p, "withdrawing")
       ELSE \/ Works /\ bound' = bound \cup {call[p].update} /\ Return(p)
            \/ Fails /\ UNCHANGED bound /\ Goto(p, "withdrawing")
    /\ UNCHANGED <<leases, session, db, slot, package, journal, ghosts, crashes>>

\* A prepared update that could not be released or bound becomes recovery work.
PrepareWithdraws(p) ==
    /\ At(p, "withdrawing")
    /\ Transition(p, Recovery(Plan(p)), "idle", "idle")
    /\ UNCHANGED <<leases, session, db, slot, package, bound, ghosts, crashes>>

PrepareStep(p) ==
    \/ PrepareChecks(p) \/ PrepareSnapshots(p) \/ PrepareQuits(p) \/ PrepareCompares(p)
    \/ \E u \in Update, from, to \in Release : PrepareRecords(p, u, from, to)
    \/ PrepareReleases(p) \/ PrepareBinds(p) \/ PrepareWithdraws(p)

-----------------------------------------------------------------------------
(* apply(), up to the installation *)

\* The caller has a plan whose binding loads and whose journal is PREPARED.
ApplyBegins(p, u) ==
    /\ At(p, "idle") /\ u \in bound /\ journal[u].state = "PREPARED"
    /\ Continue(p, [Idle EXCEPT !.at = "claiming", !.update = u])
    /\ UNCHANGED <<leases, session, db, slot, package, files, ghosts, crashes, ioFailures>>

ApplyClaims(p) ==
    /\ At(p, "claiming")
    /\ \/ /\ Free(coordination) /\ coordination' = p
          /\ Continue(p, [call[p] EXCEPT !.at = "rereading", !.owns = {"coordination"}])
       \/ Busy(coordination) /\ UNCHANGED coordination /\ Return(p)
    /\ UNCHANGED <<profileLease, session, db, slot, package, files, ghosts, crashes, ioFailures>>

ApplyRereads(p) ==
    /\ At(p, "rereading")
    /\ Goto(p, IF Plan(p).state = "PREPARED" THEN "holding" ELSE "dropping")
    /\ UNCHANGED <<leases, session, db, slot, package, files, ghosts, crashes, ioFailures>>

\* Mutant: ALREADY_OWNED will do.
HoldOrOwn(p) ==
    /\ At(p, "holding")
    /\ \/ /\ profileLease \in {None, Dead, p} /\ profileLease' = p
          /\ Continue(p, [call[p] EXCEPT !.at = "verifying", !.owns = @ \cup {"profile"}])
       \/ Busy(profileLease) /\ UNCHANGED profileLease /\ Goto(p, "dropping")
    /\ UNCHANGED <<coordination, session, db, slot, package, files, ghosts, crashes, ioFailures>>

ApplyHolds(p) ==
    /\ At(p, "holding")
    /\ \/ /\ Free(profileLease) /\ profileLease' = p
          /\ Continue(p, [call[p] EXCEPT !.at = "verifying", !.owns = @ \cup {"profile"}])
       \/ Busy(profileLease) /\ UNCHANGED profileLease /\ Goto(p, "dropping")
    /\ UNCHANGED <<coordination, session, db, slot, package, files, ghosts, crashes, ioFailures>>

\* Mutant: the live database is not compared.
VerifySnapshotOnly(p) ==
    /\ At(p, "verifying")
    /\ Goto(p, IF slot = Plan(p).snapshot THEN "starting" ELSE "dropping")
    /\ UNCHANGED <<leases, session, db, slot, package, files, ghosts, crashes, ioFailures>>

\* _verify_snapshot_and_live; a changed profile is told to prepare a new update.
ApplyVerifies(p) ==
    LET j == Plan(p) IN
    /\ At(p, "verifying")
    /\ Goto(p, IF slot = j.snapshot /\ db = j.snapshot THEN "starting" ELSE "dropping")
    /\ advised' = IF slot = j.snapshot /\ db # j.snapshot THEN advised \cup {call[p].update} ELSE advised
    /\ UNCHANGED <<leases, session, db, slot, package, files, performed, holdDied, crashes, ioFailures>>

\* Mutant: the package is changed before INSTALLING is on record.
StartUnrecorded(p) ==
    /\ At(p, "starting") /\ Goto(p, "installing")
    /\ UNCHANGED <<leases, session, db, slot, package, files, ghosts, crashes, ioFailures>>

ApplyStarts(p) ==
    /\ At(p, "starting")
    /\ Transition(p, [Plan(p) EXCEPT !.state = "INSTALLING"], "installing", "handling")
    /\ UNCHANGED <<leases, session, db, slot, package, bound, ghosts, crashes>>

-----------------------------------------------------------------------------
(* The package driver (external) and what follows its answer *)

\* What the package may be after an answer r to INSTALL or ROLLBACK; None is an
\* exception.  The driver knows what it says, when it says something.
AfterInstall(j, r) ==
    CASE r = "SUCCEEDED" -> {j.to}
      [] r = "FAILED_SAFE" -> {package}
      [] r = "FAILED_CHANGED" -> {Mixed}
      [] OTHER -> {package, Mixed, j.to}

AfterRollback(j, r) ==
    CASE r = "SUCCEEDED" -> {j.from}
      [] r = "FAILED" -> {package, Mixed}
      [] OTHER -> {package, Mixed, j.from}

Counted(u, action) == performed' = [performed EXCEPT ![u][action] = @ + 1]

Install(p, r) ==
    /\ At(p, "installing")
    /\ package' \in AfterInstall(Plan(p), r)
    /\ Counted(call[p].update, "INSTALL")
    /\ Continue(p, [call[p] EXCEPT !.at = "installed", !.receipt = r])
    /\ UNCHANGED <<leases, session, db, slot, files, holdDied, advised, crashes, ioFailures>>

ApplyInstalled(p) ==
    LET r == call[p].receipt
        j == [Plan(p) EXCEPT !.install = r]
    IN
    /\ At(p, "installed")
    /\ \/ r \in {None, "UNKNOWN"} /\ Transition(p, Recovery(j), "finishing", "handling")
       \/ r = "FAILED_SAFE" /\ Transition(p, [j EXCEPT !.state = "FINALIZING"], "freeing", "handling")
       \/ r = "FAILED_CHANGED" /\ Goto(p, "compensating") /\ Works /\ UNCHANGED journal
       \/ r = "SUCCEEDED" /\ Transition(p, [j EXCEPT !.state = "VALIDATING"], "migrating", "handling")
    /\ UNCHANGED <<leases, session, db, slot, package, bound, ghosts, crashes>>

\* Mutant: a migration that rolled back passes for one that succeeded.
MigrateUnseen(p) ==
    LET j == Plan(p)
        target == SchemaOf[j.to]
    IN
    /\ At(p, "migrating")
    /\ \/ Goto(p, "validating") /\ db' \in {db, [db EXCEPT !.schema = target]}
       \/ Goto(p, "compensating") /\ UNCHANGED db
    /\ UNCHANGED <<leases, session, slot, package, files, ghosts, crashes, ioFailures>>

\* _run_bound_schema_migration under the exact hold: nothing to do, an error before
\* the migrated copy is installed, success, failure after it that the snapshot undoes,
\* failure that it does not.
Migrate(p) ==
    LET j == Plan(p)
        target == SchemaOf[j.to]
        migrated == [db EXCEPT !.schema = target]
    IN
    /\ At(p, "migrating")
    /\ \/ profileLease # p /\ Goto(p, "guarded") /\ UNCHANGED db
       \/ Goto(p, "compensating") /\ UNCHANGED db
       \/ /\ profileLease = p /\ slot = j.snapshot
          /\ \/ target = db.schema /\ Goto(p, "validating") /\ UNCHANGED db
             \/ target # db.schema /\ Goto(p, "validating") /\ db' = migrated
             \/ target # db.schema /\ Goto(p, "compensating") /\ db' = slot
             \/ target # db.schema /\ Goto(p, "guarded") /\ db' = migrated
    /\ UNCHANGED <<leases, session, slot, package, files, ghosts, crashes, ioFailures>>

\* The updated Headquarters opens and passes, does not, or does not close again.
Validate(p) ==
    /\ At(p, "validating")
    /\ \/ Transition(p, [Plan(p) EXCEPT !.state = "FINALIZING"], "freeing", "handling")
       \/ Goto(p, "compensating") /\ Works /\ UNCHANGED journal
       \/ Goto(p, "guarded") /\ Fails /\ UNCHANGED journal
    /\ UNCHANGED <<leases, session, db, slot, package, bound, ghosts, crashes>>

-----------------------------------------------------------------------------
(* _compensate *)

Compensate(p) ==
    /\ At(p, "compensating")
    /\ Transition(p, [Plan(p) EXCEPT !.state = "ROLLING_BACK", !.install = call[p].receipt],
                  "rollingBack", "handling")
    /\ UNCHANGED <<leases, session, db, slot, package, bound, ghosts, crashes>>

Rollback(p, r) ==
    /\ At(p, "rollingBack")
    /\ package' \in AfterRollback(Plan(p), r)
    /\ Counted(call[p].update, "ROLLBACK")
    /\ Continue(p, [call[p] EXCEPT !.at = "rolledBack", !.receipt = r])
    /\ UNCHANGED <<leases, session, db, slot, files, holdDied, advised, crashes, ioFailures>>

\* Mutant: the hold is not retained after a rollback that did not succeed.
RolledBackAndFree(p) ==
    LET r == call[p].receipt
        j == [Plan(p) EXCEPT !.rollback = r]
    IN
    /\ At(p, "rolledBack")
    /\ IF r = "SUCCEEDED" THEN Transition(p, [j EXCEPT !.state = "RESTORING"], "restoring", "handling")
       ELSE Transition(p, Recovery(j), "dropping", "handling")
    /\ UNCHANGED <<leases, session, db, slot, package, bound, ghosts, crashes>>

RolledBack(p) ==
    LET r == call[p].receipt
        j == [Plan(p) EXCEPT !.rollback = r]
    IN
    /\ At(p, "rolledBack")
    /\ IF r = "SUCCEEDED" THEN Transition(p, [j EXCEPT !.state = "RESTORING"], "restoring", "handling")
       ELSE Transition(p, Recovery(j), "finishing", "handling")
    /\ UNCHANGED <<leases, session, db, slot, package, bound, ghosts, crashes>>

\* restore_snapshot; an error may come before or after the database is replaced.
Restore(p) ==
    /\ At(p, "restoring")
    /\ \/ slot = Plan(p).snapshot /\ db' = slot /\ Goto(p, "restored")
       \/ Goto(p, "unrestored") /\ db' \in {db} \cup {s \in {slot} : s = Plan(p).snapshot}
    /\ UNCHANGED <<leases, session, slot, package, files, ghosts, crashes, ioFailures>>

Restored(p) ==
    /\ At(p, "restored")
    /\ Transition(p, [Plan(p) EXCEPT !.state = "FINALIZING", !.restored = TRUE], "freeing", "handling")
    /\ UNCHANGED <<leases, session, db, slot, package, bound, ghosts, crashes>>

Unrestored(p) ==
    /\ At(p, "unrestored")
    /\ Transition(p, Recovery(Plan(p)), "finishing", "handling")
    /\ UNCHANGED <<leases, session, db, slot, package, bound, ghosts, crashes>>

-----------------------------------------------------------------------------
(* _finalize *)

Free_profile(p) ==
    /\ At(p, "freeing")
    /\ ReleaseProfile(p, "freeingCoordination", "stranded")
    /\ UNCHANGED <<session, db, slot, package, files, ghosts, crashes>>

Free_coordination(p) ==
    /\ At(p, "freeingCoordination")
    /\ ReleaseCoordination(p, "terminating", "strandedCoordination")
    /\ UNCHANGED <<session, db, slot, package, files, ghosts, crashes>>

\* A lease could not be released: the outcome is known, but it is recovery work.
Stranded(p) ==
    /\ \/ At(p, "stranded") /\ Transition(p, Recovery(Plan(p)), "finishing", "handling")
       \/ At(p, "strandedCoordination") /\ Transition(p, Recovery(Plan(p)), "idle", "handling")
    /\ UNCHANGED <<leases, session, db, slot, package, bound, ghosts, crashes>>

\* The terminal state _finalize was called with.
Outcome(j) == CASE j.install = "FAILED_SAFE" -> "FAILED_SAFE"
                [] j.rollback # None -> "ROLLED_BACK"
                [] OTHER -> "SUCCEEDED"

Terminate(p) ==
    /\ At(p, "terminating")
    /\ Transition(p, [Plan(p) EXCEPT !.state = Outcome(Plan(p))], "idle", "handling")
    /\ UNCHANGED <<leases, session, db, slot, package, bound, ghosts, crashes>>

-----------------------------------------------------------------------------
(* Errors *)

\* _finish_guarded_recovery: release the coordination, then record.
Guarded(p) ==
    /\ At(p, "guarded")
    /\ ReleaseCoordination(p, "guardedMark", "guardedMark")
    /\ UNCHANGED <<session, db, slot, package, files, ghosts, crashes>>

GuardedMark(p) ==
    /\ At(p, "guardedMark")
    /\ Transition(p, Recovery(Plan(p)), "idle", "idle")
    /\ UNCHANGED <<leases, session, db, slot, package, bound, ghosts, crashes>>

\* Mutant: FINALIZING is not in flight.
HandleUnlessFinal(p) ==
    /\ At(p, "handling")
    /\ \/ /\ Plan(p).state \in InFlight \ {"FINALIZING"}
          /\ Transition(p, Recovery(Plan(p)), "finishing", "dropping")
       \/ /\ Plan(p).state \notin InFlight \ {"FINALIZING"}
          /\ Goto(p, IF Plan(p).state = "RECOVERY_REQUIRED" THEN "finishing" ELSE "dropping")
          /\ Works /\ UNCHANGED journal
    /\ UNCHANGED <<leases, session, db, slot, package, bound, ghosts, crashes>>

\* apply's handler of any other exception.
Handle(p) ==
    /\ At(p, "handling")
    /\ \/ /\ Plan(p).state \in InFlight
          /\ Transition(p, Recovery(Plan(p)), "finishing", "dropping")
       \/ /\ Plan(p).state \notin InFlight
          /\ Goto(p, IF Plan(p).state = "RECOVERY_REQUIRED" THEN "finishing" ELSE "dropping")
          /\ Works /\ UNCHANGED journal
    /\ UNCHANGED <<leases, session, db, slot, package, bound, ghosts, crashes>>

\* Give the profile back, if this call still holds it, and then the coordination.
Drop(p) ==
    /\ At(p, "dropping")
    /\ IF "profile" \in call[p].owns THEN ReleaseProfile(p, "finishing", "finishing")
       ELSE UNCHANGED leases /\ Works /\ Goto(p, "finishing")
    /\ UNCHANGED <<session, db, slot, package, files, ghosts, crashes>>

\* _finish_recovery, which retains the hold; also the end of Drop.
Finish(p) ==
    /\ At(p, "finishing")
    /\ IF "coordination" \in call[p].owns THEN ReleaseCoordination(p, "idle", "idle")
       ELSE UNCHANGED leases /\ Works /\ Return(p)
    /\ UNCHANGED <<session, db, slot, package, files, ghosts, crashes>>

\* A process dies, perhaps within the driver, the migration or the restore; its
\* leases are a dead holder's.
Torn(p) ==
    LET j == Plan(p) IN
    CASE At(p, "installing") -> package' \in AfterInstall(j, None) /\ UNCHANGED db
      [] At(p, "rollingBack") -> package' \in AfterRollback(j, None) /\ UNCHANGED db
      [] At(p, "migrating") -> db' \in {db, [db EXCEPT !.schema = SchemaOf[j.to]]} /\ UNCHANGED package
      [] At(p, "restoring") -> db' \in {db, slot} /\ UNCHANGED package
      [] OTHER -> UNCHANGED <<db, package>>

Crash(p) ==
    /\ crashes < MaxCrashes /\ crashes' = crashes + 1
    /\ Torn(p)
    /\ performed' = CASE At(p, "installing") -> [performed EXCEPT ![call[p].update]["INSTALL"] = @ + 1]
                      [] At(p, "rollingBack") -> [performed EXCEPT ![call[p].update]["ROLLBACK"] = @ + 1]
                      [] OTHER -> performed
    /\ holdDied' = (holdDied \/ (profileLease = p /\ runtime[p] = "STOPPED"))
    /\ profileLease' = IF profileLease = p THEN Dead ELSE profileLease
    /\ coordination' = IF coordination = p THEN Dead ELSE coordination
    /\ runtime' = [runtime EXCEPT ![p] = "STOPPED"] /\ open' = open \ {p}
    /\ Return(p)
    /\ UNCHANGED <<slot, files, advised, ioFailures>>

-----------------------------------------------------------------------------
ApplyStep(p) ==
    \/ ApplyClaims(p) \/ ApplyRereads(p) \/ ApplyHolds(p) \/ ApplyVerifies(p) \/ ApplyStarts(p)
    \/ \E r \in Installs \cup {None} : Install(p, r)
    \/ ApplyInstalled(p) \/ Migrate(p) \/ Validate(p)
    \/ Compensate(p) \/ (\E r \in Rollbacks \cup {None} : Rollback(p, r)) \/ RolledBack(p)
    \/ Restore(p) \/ Restored(p) \/ Unrestored(p)
    \/ Free_profile(p) \/ Free_coordination(p) \/ Stranded(p) \/ Terminate(p)
    \/ Guarded(p) \/ GuardedMark(p) \/ Handle(p) \/ Drop(p) \/ Finish(p)

Next == \E p \in Process :
    \/ LaunchClaims(p) \/ LaunchOpens(p) \/ Quit(p) \/ Edit(p)
    \/ PrepareBegins(p) \/ PrepareStep(p)
    \/ (\E u \in Update : ApplyBegins(p, u)) \/ ApplyStep(p)
    \/ Crash(p)

Spec == Init /\ [][Next]_vars

\* A call that has begun goes on: its steps wait for nobody.
FairSpec == Spec /\ \A p \in Process : WF_vars(PrepareStep(p) \/ ApplyStep(p))

-----------------------------------------------------------------------------
(* Properties *)

\* The package is one release and the database has that release's schema.
Whole == package \in Release /\ db.schema = SchemaOf[package]

StateOf(u) == IF journal[u] = None THEN None ELSE journal[u].state
Done(u) == StateOf(u) \in Settled \cup {None}

\* One update of a profile at a time: prepare() refuses while another is prepared, in
\* flight or recovery work (_blocking_updates), and no race of two callers gets past it.
OneUnsettled == \A u, w \in Update : ~Done(u) /\ ~Done(w) => u = w

\* An update installs at most once and rolls back at most once, whatever calls, errors
\* and crashes come (apply is execute-once, INSTALLING is on record first).
MutatesOnce == \A u \in Update : performed[u]["INSTALL"] <= 1 /\ performed[u]["ROLLBACK"] <= 1

Mutating == {p \in Process : call[p].at \in {"installing", "migrating", "validating", "rollingBack", "restoring"}}

\* While package or database are changed, no Headquarters is open on the profile and no
\* other process changes them (the maintenance hold on the runtime's own lease).
MutatesAlone == \A p \in Mutating : Mutating = {p} /\ open = {}

\* A half-changed profile is never launched while its updater lives: the hold is kept
\* through the change and after every ambiguous end (_finish_recovery, retain_profile_hold).
\* And it is always on record as in flight or as recovery work: it is never called prepared
\* or settled, across crashes as well.  The last of apply's handlers has one try only: when
\* its write of the recovery state fails too, the second failure gives the hold back.
TornIsKept ==
    ~Whole =>
       /\ holdDied \/ ioFailures > 1 \/ (profileLease \in Process /\ open = {})
       /\ \E u \in Update : ~Done(u) /\ StateOf(u) # "PREPARED"

\* From preparation to restore, the snapshot an update would restore is in the one slot.
SnapshotIsKept ==
    \A u \in Update : StateOf(u) \in {"PREPARED"} \cup (InFlight \ {"FINALIZING"})
                         => slot = journal[u].snapshot

\* No edit is ever undone: a snapshot is restored only over the content it was taken of,
\* because apply() compares the live database under the hold before it changes anything.
EditsAreNotLost == [][db'.edits >= db.edits]_vars

\* A settled update tells the truth: SUCCEEDED is the target release over its schema,
\* FAILED_SAFE and ROLLED_BACK the old release over the old schema.
SettledIsTrue == [][\A u \in Update :
    (journal'[u] # journal[u] /\ journal'[u].state \in Settled)
       => LET j == journal'[u] IN
          IF j.state = "SUCCEEDED" THEN package' = j.to /\ db'.schema = SchemaOf[j.to]
          ELSE package' = j.from /\ db'.schema = j.snapshot.schema]_vars

\* Without crashes every update that has begun comes to a terminal state, even if one
\* write, close or release fails (apply's handlers).  Only the guard of safe_update, which
\* has no second try, may leave one VALIDATING when it cannot write.
UpdatesEnd == \A u \in Update :
    (StateOf(u) \in InFlight) ~> [](StateOf(u) \in Terminal \/ (StateOf(u) = "VALIDATING" /\ ioFailures > 0))

\* apply() tells a caller whose profile was edited to "prepare a new update"; prepare()
\* should then not refuse because of that very update.
AdviceCanBeFollowed == [][\A p \in Process :
    (call[p].at = "checking" /\ call'[p].at = "releasing") => ~(Blocking \subseteq advised)]_vars
=============================================================================

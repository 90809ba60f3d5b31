# A verification development for N0TE

N0TE is a local-first "Artist Headquarters": a Python application (`n0te/`,
`governance/`) that keeps an artist's songs, plans, evidence and decisions in one
SQLite database per profile and lets assistants act on digital audio workstations
(DAWs), files and services only through recorded, approved, one-time operations.
Most of its 170 modules are memories: one call reads, checks, and then appends rows
in one `BEGIN IMMEDIATE` transaction. What makes it correct under stress is what
happens between the reading and the writing, in the parts that act on something
outside the database, and in those that several processes or threads share. This
directory models these in TLA+, checks them with TLC and proves what can be proved
with TLAPS.

## 1. Inventory

| component | state it keeps | operations | what is hard |
|---|---|---|---|
| Transaction coordinator (`transactions.py`) | `transactions`, `transaction_events`; the local variables of each `run()` | `run`, `_register_plan`, `_compensate`, `history`, `_validate_existing` | a driver whose effects are outside the database; a crash between a host call and its record; two callers of one operation; a reviewer who rules meanwhile |
| Operation journal (`operations.py`) | `operations`, `operation_events`; an operation's state is derived from its events | `prepare`, `claim_execution`, `complete_*`, `mark_unknown`, `reconcile_unknown` | racing callers with one idempotency key; outcomes that must stand |
| Instance lease (`instance.py`) | files `lease.json`, `takeover.json`, `stale/*.json` per profile | `acquire`, `release` | no lock but exclusive creation; read-then-unlink; dying owners and dying takers; reused pids |
| Coordinator execution gate (`execution_permit.py`, `trusted_context.py`, `coordinator_gateway.py`, `coordinator_mcp.py`) | the snapshot store, signed permits, the ledger of consumed permits | `request_execution_permit`, `execute` | a snapshot superseded between issue and use; one permit, two users; a crash after the permit is spent |
| Song and musical transactions (`song_transactions.py`, `musical_transactions.py`, `musical_plan.py`) | the binding of an operation to a Song's current Version; a witness in memory | `prepare`, `bind`, `run` | four transactions in a row; a binding checked outside the transaction that relies on it |
| Application update and migration (`update.py`, `safe_update.py`, `update_migration.py`, `migration.py`) | one journal file per update, two leases, the package, the snapshot, the schema, the database with its `-wal` and `-shm` files | `prepare`, `apply`, its finalisation and compensation, `migrate` | crashes anywhere; releases before the terminal record; several renames that must look like one |
| Application runtime (`app_runtime.py`) | STOPPED, RUNNING or RECOVERY_REQUIRED, the lease, the open Headquarters | `launch`, `quit` | failing opener, close and release |
| Recovery snapshots, profiles, uninstall (`recovery.py`, `profiles.py`, `uninstall.py`) | one snapshot file per profile; profile directories; nothing | snapshot and restore; `discover`, `create`; `plan` | one slot, several users; launches that die half-way; roots inside one another |
| Lineage store (`lineage.py`) | Songs, Versions, the current and the approved one | create, commit, approve, move | pointers that others bind themselves to and that move back |
| Memories of work with people (`professional_handoffs.py`, `collaboration_handoff.py`, `professional_evidence.py`, `person_identity.py`, `credits.py`, `obligations.py`, `people.py`, `career_state.py`, ...) | append-only tables with triggers | one transaction per call, after reads outside it | two calls that both looked before either wrote; profiles that refuse to open because of what a race left |
| Memories of opportunity and learning (`opportunities.py`, `capture_opportunities.py`, `learning_experiment.py`, `skill_model.py`, `suggestion_deferral.py`, `evidence.py`) | claims that supersede claims | record, correct, decide, defer | a judgement of evidence that has changed; forks |
| Sessions (`session.py`) | sessions, scratch items, debriefs, promotions | start, scratch, close, promote | a promotion in two transactions |
| Host shadow and reconciliation (`shadow.py`, `reconcile.py`, `workspace.py`) | placements, batches of observed facts, cases, decisions | `observe`, `record_batch`, `open_case`, `record_decision` | staleness read before the write |
| Observers and bridges (`*_continuous_observer.py`, `*_observer_service.py`, `*_midi_bridge.py`, `*_host_bridge.py`, `integrations/`) | a loop's last observation, a MIDI port, a snapshot file | poll, refresh, stop; write, replace, remove | awaits in the middle of a poll; two threads and one port; lost messages; files of projects that were closed |
| Host runtime (`host_runtime.py`, `*_session_launcher.py`) | one coordinator process, a notice file | ensure, supervise, close | several sessions, one process; every failure must leave nothing running |
| Live bridge (`ableton.py`, `integrations/ableton/`) | a queue between HTTP threads and Live's own | preview, try, keep or restore | both ends time out; the queued call stays |
| Song material and comparison (`material.py`, `version_compare.py`, `version_compare_shell.py`, `version_compare_decision.py`) | files named by their digest, staging files, Assets; a pair heard, decisions | ingest, verify, compare, decide | a file and a database row that must agree after any crash; a pair that moves while it is decided about |
| Consumer window (`consumer_shell.py`) | action tokens, the open profile, the shown page | GET, POST, stop | forms posted late, twice or after the world moved |
| Gates (`authority.py`, `egress.py`, `network.py`, `entitlements.py`, `capability_*.py`, `llm.py`, reference providers) | probes, facts, approvals | decide, confirm, run, search | what was confirmed is edited before it is used |
| Judgement (`professional_ethics.py`, `direct_fan.py`, `fan_journey.py`, `relevance_broker.py`) | signals, consents | assess, prepare, arbitrate | signals heard in another order than they were given |
| Creative analysis, renderings, governance tools | append-only records or none | see `PROJECT.json` | little: pure functions, single transactions |

How they interact: a shell or service prepares an operation in the journal, claims
it, and hands a plan to the transaction coordinator, which drives a DAW adapter and
records the outcome back in the journal. The runtime opens a profile only under an
instance lease; an update takes the same lease, and a second one, for the time of
its work. Coordinators reach a mutation only through the execution gate. Observers
write what a DAW shows into the shadow, which the artist reconciles with what the
profile knows. The memories meet in the profile database: most rest on
evidence claims, and several are bound to the current Version of a Song.

What makes each correct is in the properties of section 3; the hazards are listed
one by one, each at its line, in `PROJECT.json` under `hazards`, with the
properties that watch them.

## 2. Modules

Processes and files:

| module | models | state and actions |
|---|---|---|
| `OperationLifecycle` | what the journal promises of one operation: an abstract specification | `Moves` (a state to its successors), `Settles` (an UNKNOWN operation is reconciled once) |
| `OperationJournal` | `operations.py`, at the level of event rows | `PrepareLooksUp` and `PrepareInserts` are apart because the lookup (334) is outside the inserting transaction; every read derives the state with `Derive`, as `_derive` does |
| `TransactionCoordinator` | `transactions.py` over the operation rows | one action per database transaction and per driver call; `runner` holds the local variables of `run()` and `_compensate()`, `host` what the driver really did, which no action of the code reads |
| `InstanceLease` | `instance.py` | one action per file operation or probe; a file is missing, torn or holds a record; `dead` are launches that crashed or exited |
| `MutationGateway` | the execution gate | `contexts` (the published snapshots, the last one current), `permits`, `ledger`, `effects`; the trusted sync that publishes snapshots is external |
| `SongTransactions` | `musical_transactions.py`, `song_transactions.py` | plans become operations, claims, bindings and witnesses while the artist moves the Song; extends `SongVersions` |
| `ApplicationUpdate` | `ApplicationRuntime`, the update coordinator with its schema guard, the snapshot slot | each process has a runtime and at most one call, whose place is `call[p].at`; `Transition` writes a journal file as `_transition` does, with the evidence rules of `_validate_journal_semantics`; the two leases are locks whose holder may be `Dead` |
| `SchemaMigration` | `migration.py` over `recovery.py` | the database, its `-wal` and `-shm` files, staging, the preserved copy, the snapshot: one action per rename, copy or check |
| `ProfileBootstrap` over `InstanceLease` | `profiles.py` | launches that find no profile and make the first one under a lease, which is taken and given back as in `instance.py`, file by file |
| `RemovalPlan` | `uninstall.py` | the planner's pass over the roots in their order |
| `HostSessions` | `host_runtime.py` and the five launchers | sessions that start, share and stop one coordinator process |
| `ContinuousObserver` | an observer and its service | the loop and a refresh as two tasks that interleave at each `await` |
| `MidiMonitor`, `MidiWire` | the MIDI ports of two hosts; the frames and clocks on them | ports opened and closed from two threads; frames put together from messages any of which is lost; a tempo from ticks, which may come too fast or too slow for one, pause, or go back in time |
| `HostSnapshots` | the snapshot files and notices of FL Studio and REAPER and what the five observers fingerprint | one action per file operation of the script or the reader; the fingerprints as sets of facts |
| `AbletonVolume` | `ableton.py` over `integrations/ableton/N0TEBridge` | preview, confirmation, the HTTP thread, the queue, Live's tick |
| `ConsumerShell` | `consumer_shell.py` | one request per step; `pages` the browser still has, `bindings` of live tokens |

Memories, decisions and gates:

| module | models |
|---|---|
| `VersionCompare` over `SongMaterial` | `material.py` file by file, with deaths of the process and of the power; the comparison page, its reference and the decision about a pair |
| `SongVersions`, `EvidenceMemory` | what the others rest on: the pointers of `lineage.py`; claims of `evidence.py` with supersession |
| `ProfessionalHandoffs`, `CollaborationHandoff` | handoffs and their freshness; packages, feedback, resolutions |
| `ProfessionalEvidence`, `Opportunities`, `Obligations` | revisions, captures and obligations built on claims |
| `PersonIdentity` over `IdentityLink` | reviews of external identities, and what they promise of one identity: an abstract specification |
| `CompositionSplits` | credits, split sheets, confirmations, with the triggers that decide |
| `SongSessions`, `HostReconciliation` | sessions with the two transactions of a promotion; placement, shadow, comparison, cases |
| `Careers`, `Learning` | career states, roles and offers; episodes, skills and deferrals |
| `ProfessionalEthics`, `FansAndRights` | signals in any order; consent, intents, the fan's journey, the chain of rights |
| `Capabilities` | probes, routes, access snapshots, negotiation, the tool inventory |
| `Outbound` | model jobs with their confirmation; reference searches and the network mode |
| `RelevanceBroker` | candidates about any Song or job, prepared in one context and arbitrated in another; scope, bands |

`MC...` modules are instances for TLC (the lease's counterexamples run on `InstanceLease`
itself). `TransactionCoordinatorProofs` and `ApplicationUpdateProofs` hold the theorems
about those two; `PersonIdentity`, `MutationGateway`, `SchemaMigration`,
`MCPermissions` and `MCProcesses` end with theirs. `MCProfileMemories` begins with those
about the operation journal; each of its memories is followed by the lemmas about it, and
the theorems about all of them come last.

Definitions carry the source's names where they have one (`Register_plan`,
`Verify_postcondition`, `Claim_execution`); a piece of a method between two
transactions has a name of its own, and `map` gives its lines. Definitions whose
comment begins with "Mutant:" are plausible bugs: each is the body of the
definition below it with one mistake, and replacing the one by the other makes a
property fail that some run checks.

Abstractions.

* *Data.* Fingerprints, names, refs and evidence are left out or are model values,
  since the code only compares them. A score, a level or a tempo is one of two or
  three numbers. Activity rows, written beside most rows and read by little, are left
  out except in `Learning`.
* *Steps.* SQLite transactions are atomic, as `BEGIN IMMEDIATE` makes them
  (`lineage.py` 338-346). What a call reads before its transaction is a step of its
  own. A runtime has one connection, bound to its thread and guarded by the lease, so
  two calls of one process do not interleave there; the memories are examined with two
  calls at once all the same, because the code has defences for just that (its
  `BEGIN IMMEDIATE`, a timeout of five seconds, triggers, row counts) and these should
  hold. Concurrent calls that are in every respect the same are one member of the set
  of calls.
* *Drivers.* A driver never claims a change it did not make nor denies one it made,
  but it may raise or not know (`TransactionDriver`, 266-271, whose answers are the
  code's only knowledge of the host).
* *Gates.* An envelope is one that matches the policy of the snapshot; any other is
  refused before anything happens. The permit's signature is unforgeable.
* *Leases.* In an update, a migration and a window, a lease is what `instance.py` makes
  of it outside the schedules of section 4: held by one process, replaceable when that
  process is dead, refused otherwise. A bootstrap takes the lease of `InstanceLease`.
* *Databases.* In an update the content of a database is its schema and the number of
  edits made, enough to tell any two states of a profile apart while none is undone
  (`EditsAreNotLost`), and one schema migration is one step with the outcomes its
  result can have; `SchemaMigration` opens that step, with edits that are or are not
  yet in the database file.

## 3. Runs

Modules that share no state are examined by one run, a behaviour being about one of
them (`focus`). Some take turns at the same variables (`v1`, `a1`, ...). A property
of such a run is a family: the same question asked of each part, whose own property
has the comment that matters, in its module. For each family one part's mutant is
listed in `PROJECT.json`; the others stand beside the definitions they break.

| run | instance | shows |
|---|---|---|
| `transaction_race` | two callers, two plans of one operation (three steps, the middle one without compensation; one step), a reviewer, crashes; 115 050 states | the outcome on record, the history and the host agree (`FailedLeavesNothing`, `SucceededIsVerified`, `HistoryTellsTheTruth`); no step of an operation is attempted twice (`OneAttemptPerStep`); compensation goes backwards (`UndoneInReverse`); a history cut off by a crash is up for review and still accepted when the profile opens (`InterruptedNeedsReview`, `HistoryAccepted`); the coordinator refines `OperationLifecycle` |
| `update_race` | two processes, two updates, two releases with different schemas, one edit, one crash, one failing write, close or release; 1 186 424 states | at most one update is unsettled (`OneUnsettled`), its driver actions happen once (`MutatesOnce`) and alone (`MutatesAlone`), a half-changed profile is held while its updater lives and is always on record (`TornIsKept`), the snapshot stays (`SnapshotIsKept`), no edit is undone (`EditsAreNotLost`), settled updates tell the truth (`SettledIsTrue`) |
| `liveness` | five foci: two plans without crashes; three launches, one of them under the pid of a dead one; one update and one failure; an observer; a MIDI port; 128 708 states | `RunSettles`, `CallsEnd`, `UpdatesEnd`, `ReferencesCatchUp` |
| `profile_memories` | fifteen foci, two or three calls at once on each; 650 546 states | the profile opens again, but for captures that two calls crossed on (`EveryMemoryOpens`), outcomes stand (`OutcomesStand`), what is raced for happens once (`OnceInARace`), decisions are not overtaken (`DecisionsHold`), reads tell the truth (`ReadsAreTrue`); `OperationJournal` refines `OperationLifecycle`, `PersonIdentity` refines `IdentityLink` |
| `processes` | twelve foci: the observer, two launcher sessions (of one profile or of two), the window, a migration with one crash, plans on the way to a transaction, a MIDI port, frames, a clock, a volume in Live, snapshot files, the files of a Song with two outages, pairs of Versions; 967 025 states | no process, lease or port is left behind (`NothingLeftBehind`); what is held of a project is of the project that is open (`SeesWhatIsThere`); a migration loses nothing and is all or nothing (`MigrationKeepsEverything`, `StepsAreWhole`, which also has frames, moving playheads, files that are never replaced and references that stand); what ran is what was prepared, what is recorded is what Live did, and a Version has its bytes after any outage (`ResultsAreTrue`); what is done is what was shown (`ActsOnWhatWasShown`) |
| `permissions` | thirteen foci: a lease with three launches and two deaths, the execution gate, ethics, fans, words, probes, grants, tools, models, searches, relevance, the first profile (three launches and two deaths, over the lease), removal; 1 169 220 states | one holder, one takeover (`OneHolder`), only the dead are evicted and only after they are archived (`EvictionsAreLawful`); one effect per permit, under a current context (`AuthorizedOnce`); nothing goes out, ahead or to a fan uncleared (`NothingUncleared`), refusals stand (`RefusalsStand`), what is offered or raised is current (`OnlyCurrentIsOffered`), data is made once and kept (`DataIsMadeOnceAndKept`) |
| `lease_two_crashes`, `lease_clean_exit`, `captures_crossed`, `update_advice`, `handoff_moved`, `volume_preview` | two and four launches; two captures; two updates; two handoffs; one volume | counterexamples: see section 4 |

Why these bounds. Two callers are enough for every race on one operation, key, row or
permit, because each race has two sides and the code keeps no per-caller state beyond
its local variables; three launches are a dead owner and two rivals, and the fourth of
`lease_two_crashes` is needed to have a dead owner, a dead taker and two rivals. Two
plans of one operation are what registration has to tell apart. Three steps with a gap
are the least in which reverse order, a skipped step and an undone one before and after
it all occur. Two updates are one that is pending and one that is prepared meanwhile or
after it; two releases make the second update a downgrade, or a repetition after a
rollback. One failing write is what each handler is for; the proofs are for any number
of them. Two Versions, values or places are before and after, and a pointer may go there
and back; two or three claims of a topic are a chain and a fork. Two project changes and
two outages are one to leave and one to come back, which is what tells a comparison of
states from one of histories; a project opened later counts as a change, because it is
one to the host that has it. Two launcher sessions are one that started the coordinator
and one that found it, of its profile or of another; while Versions are compared no file
is damaged from outside (`MaxDamages` is 0), because the files of a Song, a focus of
their own, have that damage. Sheets get their ids in order. Two frames, each value one
of two, are what a lost message can mix. The paces of a clock are two that have a tempo,
one that a tick may have but a tempo may not, and a pause. Candidates are about one Song
or none and one job or none, which the contexts have, lack or have another in the place
of. Three signals are a consent, its withdrawal and one more at either's time. Two
subjects at a time are what one band can hide from another.

The bounds are constants named `Max...` and stand in guards. They limit how often
something begins or the world changes: a call on a memory begins while there is room for
its row. They do not disable a step of a call that has begun, except the clock's and the
second of two calls that found room for one row more. Symmetry is used where a run has
only safety properties and the members are interchangeable, and only for the sets whose
permutations cost less than the states they save. Deadlock is not checked: a plan ends,
a launch exits, and nothing more need happen. Type invariants (`TypeOK`) are conjuncts
of the families; that of `TransactionCoordinator` is a property of its own. Both it and
that of `ApplicationUpdate`, which is not among the properties of its run, are proved.

Fairness. `LiveSpec` asks weak fairness of `RunStep(r)`, of the lease's `Step(p)` and
of the steps of `prepare` and `apply`: once a call has begun, its thread goes on,
because the code between two steps is straight-line and waits for no one (SQLite's
lock is released by every transaction). Of the observers it asks that the loop polls
or ends, that a task that awaits is resumed, that a backoff runs out and that a port
which ticks keeps publishing: these are asyncio's and the clock's doing. Nobody is
obliged to call, to rule, to crash, to publish a snapshot, to play, or to repair a
bridge. `RunSettles` is checked without crashes: after one, the operation stays
EXECUTING until a person looks at it, as the code intends
(`InterruptedNeedsReview`). `ReferencesCatchUp` is about a session in which bridge,
provider and port stay up from some time on.

## 4. Where code and text disagree

Two of six concern `instance.py`; each is a run that must find its counterexample.

* `lease_two_crashes`. An owner dies; a launch that takes over dies too, leaving
  its marker. Two more launches read that marker. `_remove_marker_exact` compares
  the marker and then unlinks whatever marker is there (504), so the slower one
  removes the faster one's marker, claims a second takeover, and at 569-572, again
  a comparison followed by an unlink, removes the live lease of the faster one.
  Both are told that they own the profile.
* `lease_clean_exit`. The owner releases and exits between another launch's read of
  its lease (604) and the probe (617). The marker is then written for a lease that
  is neither in place nor archived, and `acquire()` raises
  `InstanceLeaseCorruptionError` (534) where nothing is corrupt.
* `captures_crossed`. `set_status` finds the revision of a captured opportunity current
  (`capture_opportunities.py` 553) before the transaction that supersedes it. Two calls
  that both did leave two current revisions, and the memory does not open again:
  `_validate_existing` raises `LineageCorruptionError`, "multiple current revisions exist
  for one capture opportunity" (440). `EveryMemoryOpens` makes exception of this case
  alone (`Crossed`).
* `update_advice`. A profile is prepared for an update and then edited. `apply()`
  refuses, rightly, and says "prepare a new update" (`update.py` 839). `prepare()`
  refuses as long as the old journal is not settled (962-964), and nothing settles or
  withdraws a PREPARED journal but an `apply()` that starts. The profile can never be
  updated again. The tests at `test_safe_update.py` 383 and 527 each confirm one of
  the two refusals.
* `handoff_moved`. `ProfessionalHandoffService` says that work "becomes permanently
  STALE once a watched upstream pointer moves; moving a pointer back later does not
  resurrect the old receipt" (282). That is so only if `verify_freshness` was called
  while the pointer was away; otherwise the receipt stays ACCEPTED and is current.
* `volume_preview`. The level, track and Set shown before the typed confirmation are
  not compared again: `prepare_snapshot` (`ableton.py` 528) takes what it finds then as
  its precondition, although its messages promise that a different Set or a newer
  manual level is refused (846, 854).

Smaller things met on the way, which no property is about:

* `instance.py`: a call that gives up after its claim leaves `takeover.json` behind; a
  later, rightful owner's `release()` then raises "instance lease has an active takeover
  claim" (653) though no takeover is active.
* `professional_ethics.py`: `_latest_signals` raises "share the latest timestamp" for a
  tie even if a later signal of the kind exists.
* `person_identity.py`, `professional_evidence.py` and others: two corrections of one
  revision that race are both recorded; from then on `history()` refuses to read the
  chain. Unlike that of the captures above, these memories open all the same.
* `suggestion_deferral.py` 440: `_defer` reads the active Song before its transaction.
* `logic_midi_bridge.py`, `studio_one_midi_bridge.py`: START or CONTINUE after a pause
  publishes the tempo of before under a fresh timestamp. Studio One's tempo is rounded
  to two digits in the observation's fingerprint and not in the reference bucket.
* `fl_studio_continuous_observer.py` 59-65: the device fingerprint leaves out
  `selected_channel.index`, while `shadow()` names its device by that index, so a
  channel that moves keeps its old name in the shadow. Two FL Studio instances share
  one snapshot path, and the installer calls N0TE's own notice an unexpected file.
* `N0TEBridge.lua`: the snapshot is removed before the new one is renamed into place,
  and saving a project under a name rotates its session. REAPER's fingerprint counts
  `project_saved` and the track's index, though its docstring says that only facts of
  identity, focus or shadow trigger a commit. Live's notices are bound to no Set.
* While a reference search is awaited, `status_projection` shows the session of the
  cycle before beside the tools of the new shadow.
* `capability_negotiation.py`: a declared tool keeps the age of its registration; an
  access snapshot's `as_of` is not compared with the negotiation's, and
  `assert_current` recomputes with the snapshot's own. `entitlements.py`: a grant the
  artist declares may supersede a denial that was observed. `tool_inventory.py`:
  uniqueness is checked outside the transaction, and no trigger repeats it.
* `llm.py`: `ModelRuntime` does not consult `NetworkPolicy`, so a confirmed job goes out
  in OFFLINE mode; an approval is not used up; adapter, credential, tools and the
  structured flag are not part of what is confirmed; "provider/model" can be read in two
  ways. The network mode is read once per process.
* `relevance_broker.py`: one candidate of another Song makes the whole arbitration
  raise, a required alert with it. While no Song is bound, a candidate prepared in that
  very context about any Song is raised, and one about another job always is
  (`_validate_scope`, 443-450); `OnlyCurrentIsRaised` says so.
* `studio_one_midi_bridge.py`: the bounds of one tick (31-32) are wider than those of a
  tempo (232). A steady clock between them is accepted tick by tick, has no estimate, and
  is shown with the tempo it had before; `SteadyClockIsKnown` is about 20 to 400 alone.
* `profiles.py`: a launch that looks while another creates the first profile sees its
  half-made directory and reports RECOVERY_REQUIRED.
* `uninstall.py`: whether a plan is refused depends on the order of the roots; it takes
  one profile's runtime state, while leases of all profiles share `state_root`.
* `material.py` 222-227: an ingest that finds its file there returns without syncing the
  directory. If an earlier ingest died after its link and the power goes before the entry
  is written back, the Version that was committed since has lost its bytes
  (`VersionsHaveTheirBytes` allows just that). The entries of `materials/` and `sha256/`
  themselves are never synced, nor anything where a directory cannot be opened; the model
  takes them as on disk. The staging file of a process that died stays for good.
* `ableton.py`: KEEP says that the verified level remains, without reading it again.

## 5. Proofs

TLAPS checks 56 theorems in eight modules. They hold for every value of the constants
that satisfies the modules' assumptions: any number of processes, callers, plans,
updates, migrators, keys, permits, edits, crashes and failures. The properties are the
ones the runs check; TLC finds every inductive invariant true on the runs' instances
as well (`MemoryInv` on all 650 546 states of `profile_memories`, with its unbounded
quantifiers bounded for the purpose). Where a composed module gives an instance a literal
for a parameter, such as three revisions or two Songs, its theorems hold for that literal.

**The coordinator** (`TransactionCoordinatorProofs`, all nine properties of
`transaction_race`), from `PlanAssumption` (a plan has at least one step and belongs to
one operation). `FailedLeavesNothing` is not inductive: that nothing is left when
`complete_failure` runs depends on what the call has seen since it began. `IInv` adds
that at most one plan of an operation is registered (`OnePlanPerOperation`), that at most
one call runs a plan (`OneCallPerPlan`), that an unregistered plan has touched nothing
(`UnregisteredUntouched`), that a call's local variables account for every change in the
host, as applied, as still to be undone or as a doubt (`Accounted`), and that a FAILED
operation has no call left that could change the host (`FailedIsOver`); `OwnStep` and
`LastStep` carry that proof. The properties about histories rest on `HInv`: every history
is sound by itself (`Sound`: registered first, nothing repeated, each event after those
it needs, undone in reverse, true of the host), the call that writes it remembers what it
says (`Remembers`, forwards and backwards), and an operation with a certain outcome has a
complete history to which nobody writes any more (`OutcomeIsOver`). `OwnEvent`, an event
appended by the call that owns the plan, and `LastWord`, the end of a call, are its two
kinds of step. `LifecycleImplemented` is the refinement of `OperationLifecycle`.

**An update** (`ApplicationUpdateProofs`, all seven properties of `update_race` and the
type invariant), from `UpdateAssumption` and `NoneAssumption` (None is no release,
process, update, state or record). `UInv` has three parts. `LeaseInv` says which leases a
call owns at each label. `ProfileInv` says that one call at most is engaged with the
profile (`OneEngaged`), what it relies on at each label (`PrepareRelies`, `StateRelies`,
`DataRelies`: the journal it wrote last, the package and the database as its driver and
the migrations left them), what each journal has to say for itself (`Recorded`), and that
a torn profile is on record and held (`TornRecorded`, `TornHeld`). The steps are grouped
by what they change: a step outside any hold (`Aside`), one that writes a journal
(`Written`, `RecoveryStep`, `HandleStep`), one of a driver or the database (`Changes`),
one that hands a lease back. `TornIsKept` showed its limit in the proof: `apply`'s last
handler has one try, so when its write of RECOVERY_REQUIRED fails as well it gives both
leases back (`update.py` 1458) and a torn profile can be launched. The property says so
(`ioFailures > 1`); TLC agrees with two failures as well as with one.

**The journal** (`OperationJournal`; the proofs are in `MCProfileMemories`), from
`JournalAssumption`. `JInv`: the events of an operation are one of eight histories
(`IsHistory`), a row is there with its first event, a key has one row, and a caller was
given the row it asked for. `_derive` is a recursive
function over the events; as a history has at most four, it is unrolled (`DeriveIs`) and
needs no induction. `OneOperation` is the point of the race in `prepare()`, which looks a
key up outside the inserting transaction. `JournalImplementsLifecycle` is the refinement,
key by key: `KeysAreRead` says that the key's abstract state is read from its one row.

**Identities** (in `PersonIdentity`). `PInv`: a review takes one of four courses, an
identity has one active review, and a call that has read still knows of what it writes
about. `ReviewsImplementIdentityLink` is the refinement of `IdentityLink`, assuming that
`Nobody` is not one of the people.

**The gate** (in `MutationGateway`, and `PermitsAuthorizeOnce` in `MCPermissions`). `GInv`:
a permit was issued for what its snapshot allowed (`Issued`), an effect has its permit in
the ledger (`Spent`), a call knows at each of its steps what it has checked (`Knows`), and
between the ledger and the executor one call at most has a permit (`OneSpender`), which no
effect has spent.

**A migration** (in `SchemaMigration`, and two theorems in `MCProcesses`). `SInv`: no edit is
missing, no step is applied twice, whoever is past the lease has it, and for each label
what the migration finds and leaves (`Sees`: log empty, snapshot equal to the file, staging
one step ahead). The hypothesis `Distinct` says that no migrator is the runtime, a dead
holder or nobody; `MCProcesses` assumes it of its constants, and TLC evaluates it. The
theorems of the composed modules follow from those of the instance: every step of the
composition is a step of the instance or leaves its variables alone
(`MigrationTakesItsSteps`).

**What is allowed and offered** (in `MCPermissions`, five families). Each family has an
invariant that is a conjunction of its parts', and `StepsOfParts` says that a step of the
composition is a step of one part and a stutter of the others.

* `NothingGoesUncleared` and `RefusalsAreKept` from `ClearedInv`. `ModelsInv`: a call that
  went out had its approval, of just that job, when it left the gate, although the artist
  edits jobs in between. `SearchesInv`: every route is what its provider's registration
  makes of it, and what went out stays inside. `FansInv`: an intent, recorded or on its way
  to be, rests on a contact and an opt-in of its channel that were recorded before it.
  `WordsInv` and `EthicsInv` speak of claims and signals by the order in which they are
  recorded, whatever times they give; they need a last element of a set of numbers, which
  is there because the sets are finite and less-than is well founded.
* `OffersAreCurrent` from `OfferedInv`. `StudioInv`: a probe made of the studio as it is,
  in flight or heard, that found its route AVAILABLE found what is there. `AccessInv`: every
  snapshot taken of the entitlements is backed by the facts it was taken of.
  `InventoryInv`: the inventory opens. `BrokerInv`: an arbitration is of the candidates
  there are, each in scope of the Song there is, and in the context of both, the broker
  and the artist; candidates are about any Song or job.
* `DataIsKept` and `DataIsSafe` from `DataInv`. `BootInv` asks nothing of the lease: a
  launch that looks again, makes a directory or fills it was told that it has the lease,
  its directory is its own, and what any launch was or will be told of is whole. So a
  launch is never told of a profile that is not there, however many race and die, and
  even where two hold the lease (`DataIsKept`). That one profile is made (`OneMaker`: one
  directory at most, and none while a launch is about to make one) does rest on the
  lease: `DataIsSafe` assumes of the behaviour that `Exclusive` holds throughout, which
  the run checks for three launches and `lease_two_crashes` refutes for four.
  `RemovalInv`: what a plan has put together so far is its own.
  The proof showed what the property has to say of roots that overlap: a candidate may lie
  below a root that is kept, if that root is kept for the data it holds and is listed after
  the candidate.

**The processes** (in `MCProcesses`, five families, with those of the migration).
`PartsTakeTheirSteps` reduces a step of the composition to one of the part a behaviour is
about.

* `RecordsAreTrue`. `VolumeInv` relates an operation on a volume to what Live did, at each
  place the HTTP thread, the queue and Live's tick can be in: a call that timed out is
  queued still or has had its effect, and only such a one is recorded UNKNOWN. `PlansInv`:
  a witness is of the operation it was made for, and a call that is past its binding saw
  the Version that is current. `MaterialInv`: a file that is there and not altered has
  the bytes of its name, and a Version was committed when its file was there; it stays
  true of power cuts because of what each `fsync` had written back by then. `CompareInv`
  adds that the reference of a Version, once there is one, stays.
* `EverythingIsGivenBack`. `SessionsInv`: a coordinator process has an owner who can still
  kill it, was unquittable, or lost its owner to a crash; one process listens; it holds of
  any launchers, of any of the profiles (`MachinesAreWhole`). `WindowInv`:
  a window that has ended holds a profile only if its release failed. `MonitorInv` counts:
  the open ports are the loop's own, those leaked by refreshes that crossed and those a
  refresh still owes, at most one for each refresh.
* `ActionsFollowThePage`. Every live token is bound to what the last page showed; a page
  opens a profile, quits, or shows the running window (`PageOpens`, `PageQuits`,
  `PageShows`), and an act finds its binding or is refused.
* `NoStepIsHalf`. `FramesInv`: what is still to be sent of a frame ends with its number,
  whatever was lost, so a frame that is put together is the one being sent. `ScriptsInv`:
  the recorded fingerprint is that of the last snapshot, and no fingerprint has the
  play position in it (`MovingIsNotSeen`).

Their assumptions name what is distinct (`NoneIsNoSong`, `NoneIsNothing`,
`NobodyIsASession`, `MigratorsAreDistinct`), that each launcher on a machine is for one
of the profiles, and that bounds are numbers.

**The memories** (in `MCProfileMemories`, all seven properties of `profile_memories`).
`MemoryInv` has the invariants of the journal, the splits, the handoffs, the packages and
the identities at all times, as nothing else changes what they are of, and that of each
other memory in the behaviours about it: claims, supersessions and pending calls serve
several memories, which put different rows in them. What the invariants add to the
properties is mostly what a call may rely on between looking and writing.

* Splits (`SplitInv`): what is still to be set was checked against the whole, a Song has
  one proposal, and whoever has confirmed a sheet confirmed the share that is in it. Of a
  sum over participants the proof needs only what it is of a blank sheet (`BlankTotal`).
* Handoffs and packages (`HandInv`, `PackInv`): what a handoff's policy watches is what was
  handed over, and it supersedes an earlier, closed one of its Song and policy. A person
  has one package of a Version that is not revoked, a package has its Assets, and what
  addresses a feedback, recorded or about to be, is a later Version than it is about.
* Captures and businesses (`CrossInv`): an edge of supersession stays within a topic, and
  for each topic either nothing is recorded and one call at most is about to record it,
  or every call about to supersede knows a revision that is there; so two revisions that
  are both current supersede one and the same (`Crossed`), and of businesses there is one.
* Evidence (`ProfInv`, `OweInv`, `OppInv`): every supersession, recorded or about to be,
  is one its call was allowed (`MayFollow`), no closed capture is superseded, every
  obligation has a lawful history that rests on claims that are there, and every call
  under way still knows what it writes about. Advice reads the last of what is active;
  that there is a last one is well-foundedness once more.
* Sessions (`SessInv`): one is open, and whoever may still promote an item asks for it by
  the binding that is on record, also between the two transactions of a promotion.
* Places and cases (`PlacesInv`, `CasesInv`): two workspaces were not last seen at one
  place, and a case still says what the shadow and the claims said when it was made
  (`ComparedTruly`); what is DECIDED is so of the present shadow and claims.
* Careers, episodes, skills, deferrals (`CareerInv`, `EpisodeInv`, `SkillInv`,
  `LaterInv`): a declaration, assessment or judgement is of the one it was shown, and of
  deferrals to one moment a single row is in force.

`JournalIsAMemory` says that a behaviour of the memories is one of the journal and one of
the identity reviews; `MemoryOutcomesStand` and the two refinements, `ImplementsLifecycle`
and `ImplementsIdentityLink`, follow from the modules' own theorems. The assumptions are
that bounds are numbers (`BoundsAreNumbers`, `SplitsAreBounded`, `PackagesAreBounded`,
`HandoffsAreBounded`, `ReviewsAreBounded`), that participants are finitely many, and that
the marks of an absence are none of the things they stand beside (`UnboundIsNothing`,
`NobodyIsNobody`).

Only model-checked:

* liveness (`RunSettles`, `CallsEnd`, `UpdatesEnd`, `ReferencesCatchUp`), which is beyond
  this prover;
* `OneHolder` and `EvictionsAreLawful` of the lease: they are false with four launches
  (section 4), so there is no theorem for all constants, and what is true is true of two
  and three launches;
* `SeesWhatIsThere`: its part about a clock's tempo takes the median and the mean of a
  window by sorting and folding, and what a fold computes is an induction over data.

## 6. Not modelled

`PROJECT.json` lists every component with its status. Left out for good: rendering,
parsing and wire formats; creative analysis (`creative_diagnosis.py`, `songwriting.py` and
their like), calibration, ranking, territory, eligibility and occupational safety,
which compute an answer from their arguments and keep nothing; the platform adapters
and the verification of artifacts; the HTTP layers; the historical data under
`migration/`; and the build-time tools of `governance/`. The append-only memories that
no other part reads before writing (activity, timeline, recipes, feedback and the like)
do one insert per call in one transaction and have no race to examine; templates are
chosen and cleared inside one. `attention.py` does read first; a unique index and a row
count refuse whoever comes second, in the way examined for sessions and deferrals. A torn
or unreadable permit ledger fails closed and is left out.

## 7. Plan

In order of importance:

1. The lock that `ApplicationUpdate` and `SchemaMigration` assume, as an abstract
   specification that `InstanceLease` implements within three launches.
2. `SongTransactions` composed with `TransactionCoordinator` and `AbletonVolume`, so
   that one behaviour goes from a plan to Live and back.
3. Retention, plugin discovery and the bridge installers.

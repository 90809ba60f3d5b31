--------------------------- MODULE SchemaMigration ---------------------------
(***************************************************************************)
(* n0te/migration.py over recovery.py: the semantic schema of a stopped    *)
(* profile is raised in a copy of its database, which then replaces it.    *)
(* What is committed and not yet in the database file is in its -wal file, *)
(* as after a crash of the runtime; opening the profile through            *)
(* LineageStore and closing it again brings that into the file.  The lease *)
(* of the profile is a lock, which a dead holder loses to the next.        *)
(***************************************************************************)
EXTENDS Naturals, Sequences, FiniteSets, SequencesExt, TLAPS

CONSTANTS
    Migrators,    \* migrations, each a process with a plan of its own
    Runtime,      \* the process of the artist's Headquarters
    Edits,        \* what the artist may do
    OfIdentity,   \* the Edits of Artist, Songs, Versions and assets
    MaxFailures,  \* failing file operations and validations (a bound)
    MaxCrashes,   \* processes that die (a bound)
    Nothing       \* no holder, no snapshot, no stage

VARIABLES
    file,      \* lineage.sqlite3
    wal,       \* edits in its -wal file
    made,      \* ghost: the edits committed
    slot,      \* the profile's recovery snapshot
    lease,     \* who holds the profile, or "dead"
    run,       \* the calls of prepare() and migrate() of each migrator
    failures, crashes

vars == <<file, wal, made, slot, lease, run, failures, crashes>>

Databases == [history : Seq(Migrators), edits : SUBSET Edits]
Content == [file EXCEPT !.edits = @ \cup wal]
Version(db) == 1 + Len(db.history)

\* SchemaState, without the edits that its fingerprints do not cover.
State(db) == [history |-> db.history, identity |-> db.edits \cap OfIdentity]

Labels == {"idle", "prepared", "planned", "read", "owned", "checked", "saved", "staged",
           "preserved", "moved", "installed", "restoring", "releasing", "ended"}
Results == {"none", "RAISED", "SUCCEEDED", "ROLLED_BACK", "RECOVERY_REQUIRED"}
Runs == [pc : Labels, plan : [history : Seq(Migrators), identity : SUBSET Edits] \cup {Nothing},
         stage : Databases \cup {Nothing}, moved : SUBSET Edits, result : Results]

Idle == [pc |-> "idle", plan |-> Nothing, stage |-> Nothing, moved |-> {}, result |-> "none"]
Is(m, pc) == run[m].pc = pc

TypeOK ==
    /\ file \in Databases /\ wal \subseteq Edits /\ made \subseteq Edits
    /\ slot \in Databases \cup {Nothing} /\ lease \in Migrators \cup {Runtime, "dead", Nothing}
    /\ run \in [Migrators -> Runs]
    /\ failures \in Nat /\ crashes \in Nat

Init ==
    /\ file = [history |-> <<>>, edits |-> {}] /\ wal = {} /\ made = {}
    /\ slot = Nothing /\ lease = Nothing
    /\ run = [m \in Migrators |-> Idle]
    /\ failures = 0 /\ crashes = 0

-----------------------------------------------------------------------------
(* The artist. *)

\* Whatever is in the -wal file stays there until the connection is closed.
Launch ==
    /\ lease \in {Nothing, "dead"}
    /\ lease' = Runtime
    /\ UNCHANGED <<file, wal, made, slot, run, failures, crashes>>

Edit(e) ==
    /\ lease = Runtime /\ e \notin made
    /\ wal' = wal \cup {e} /\ made' = made \cup {e}
    /\ UNCHANGED <<file, slot, lease, run, failures, crashes>>

Quit ==
    /\ lease = Runtime
    /\ file' = Content /\ wal' = {} /\ lease' = Nothing
    /\ UNCHANGED <<made, slot, run, failures, crashes>>

-----------------------------------------------------------------------------
(* prepare() and migrate() *)

Goes(m, pc) == run' = [run EXCEPT ![m].pc = pc]
Ends(m, result) == run' = [run EXCEPT ![m].pc = "ended", ![m].result = result]
Fails == failures < MaxFailures /\ failures' = failures + 1

\* migrate() raises, or says what it did, once it has given the lease back.
Concludes(m, result) == run' = [run EXCEPT ![m].pc = "releasing", ![m].result = result]

\* Even the lease of a dead holder refuses a preparation.
PrepareReads(m) ==
    /\ Is(m, "idle") /\ lease = Nothing
    /\ run' = [run EXCEPT ![m].pc = "prepared", ![m].plan = State(Content)]
    /\ UNCHANGED <<file, wal, made, slot, lease, failures, crashes>>

PrepareChecks(m) ==
    /\ Is(m, "prepared")
    /\ IF lease = Nothing THEN Goes(m, "planned") ELSE run' = [run EXCEPT ![m] = Idle]
    /\ UNCHANGED <<file, wal, made, slot, lease, failures, crashes>>

\* Mutant: _require_prepared_state compares what the artist would notice.
PreparedIdentity(m) == run[m].plan.identity = Content.edits \cap OfIdentity

\* _require_prepared_state; the history the stage starts from is compared again.
Prepared(m) == run[m].plan = State(Content)

MigrateReads(m) ==
    /\ Is(m, "planned")
    /\ IF Prepared(m) THEN Goes(m, "read") ELSE Ends(m, "RAISED")
    /\ UNCHANGED <<file, wal, made, slot, lease, failures, crashes>>

Acquire(m) ==
    /\ Is(m, "read")
    /\ IF lease \in {Nothing, "dead"}
       THEN lease' = m /\ Goes(m, "owned")
       ELSE Ends(m, "RAISED") /\ UNCHANGED lease
    /\ UNCHANGED <<file, wal, made, slot, failures, crashes>>

Rechecks(m) ==
    /\ Is(m, "owned")
    /\ IF lease = m /\ Prepared(m) THEN Goes(m, "checked") ELSE Concludes(m, "RAISED")
    /\ UNCHANGED <<file, wal, made, slot, lease, failures, crashes>>

\* Mutant: the snapshot is taken without opening the profile.
SnapshotOfTheFiles(m) ==
    /\ Is(m, "checked")
    /\ \/ slot' = Content /\ Goes(m, "saved") /\ UNCHANGED <<file, wal, failures>>
       \/ Fails /\ Concludes(m, "RAISED") /\ UNCHANGED <<file, wal, slot>>
    /\ UNCHANGED <<made, lease, crashes>>

\* _create_execution_snapshot, which opens and closes the profile.
Snapshot(m) ==
    /\ Is(m, "checked")
    /\ file' = Content /\ wal' = {}
    /\ \/ slot' = Content /\ Goes(m, "saved") /\ UNCHANGED failures
       \/ Fails /\ Concludes(m, "RAISED") /\ UNCHANGED slot
    /\ UNCHANGED <<made, lease, crashes>>

\* Ownership, the prepared state and the snapshot, looked at before the copy is made.
Holds(m) == lease = m /\ Prepared(m) /\ slot = Content

\* A copy is migrated and checked.
Stage(m) ==
    /\ Is(m, "saved")
    /\ \/ /\ Holds(m)
          /\ run' = [run EXCEPT ![m].pc = "staged",
                                ![m].stage = [Content EXCEPT !.history = Append(@, m)]]
          /\ UNCHANGED failures
       \/ (IF Holds(m) THEN Fails ELSE UNCHANGED failures) /\ Concludes(m, "RAISED")
    /\ UNCHANGED <<file, wal, made, slot, lease, crashes>>

\* ... and again, before the database is copied aside.
Preserve(m) ==
    /\ Is(m, "staged")
    /\ \/ Holds(m) /\ Goes(m, "preserved") /\ UNCHANGED failures
       \/ (IF Holds(m) THEN Fails ELSE UNCHANGED failures) /\ Concludes(m, "RAISED")
    /\ UNCHANGED <<file, wal, made, slot, lease, crashes>>

MoveSidecars(m) ==
    /\ Is(m, "preserved")
    /\ run' = [run EXCEPT ![m].pc = "moved", ![m].moved = wal]
    /\ wal' = {}
    /\ UNCHANGED <<file, made, slot, lease, failures, crashes>>

Install(m) ==
    /\ Is(m, "moved")
    /\ \/ file' = run[m].stage /\ Goes(m, "installed") /\ UNCHANGED <<wal, failures>>
       \/ Fails /\ wal' = run[m].moved /\ Concludes(m, "RAISED") /\ UNCHANGED file
    /\ UNCHANGED <<made, slot, lease, crashes>>

\* The Headquarters is opened and closed again.
Reopen(m) ==
    /\ Is(m, "installed")
    /\ \/ Concludes(m, "SUCCEEDED") /\ UNCHANGED failures
       \/ Fails /\ Goes(m, "restoring")
    /\ UNCHANGED <<file, wal, made, slot, lease, crashes>>

\* Mutant: a restoration that fails is taken for one that was not needed.
RestoreHopes(m) ==
    /\ Is(m, "restoring")
    /\ \/ file' = slot /\ wal' = {} /\ UNCHANGED failures
       \/ Fails /\ UNCHANGED <<file, wal>>
    /\ Concludes(m, "ROLLED_BACK")
    /\ UNCHANGED <<made, slot, lease, crashes>>

Restore(m) ==
    /\ Is(m, "restoring")
    /\ \/ file' = slot /\ wal' = {} /\ Concludes(m, "ROLLED_BACK") /\ UNCHANGED failures
       \/ Fails /\ Concludes(m, "RECOVERY_REQUIRED") /\ UNCHANGED <<file, wal>>
    /\ UNCHANGED <<made, slot, lease, crashes>>

\* A lease that could not be released goes with its process.
Release(m) ==
    /\ Is(m, "releasing")
    /\ \/ lease' = Nothing /\ Ends(m, run[m].result) /\ UNCHANGED failures
       \/ /\ Fails /\ lease' = "dead"
          /\ Ends(m, IF run[m].result = "RAISED" THEN "RAISED" ELSE "RECOVERY_REQUIRED")
    /\ UNCHANGED <<file, wal, made, slot, crashes>>

Crash(p) ==
    /\ crashes < MaxCrashes /\ crashes' = crashes + 1
    /\ IF p = Runtime THEN lease = Runtime /\ UNCHANGED run
       ELSE run[p].pc \notin {"idle", "ended"} /\ Ends(p, "none")
    /\ lease' = IF lease = p THEN "dead" ELSE lease
    /\ UNCHANGED <<file, wal, made, slot, failures>>

Migrate(m) ==
    \/ PrepareReads(m) \/ PrepareChecks(m) \/ MigrateReads(m) \/ Acquire(m) \/ Rechecks(m)
    \/ Snapshot(m) \/ Stage(m) \/ Preserve(m) \/ MoveSidecars(m) \/ Install(m) \/ Reopen(m)
    \/ Restore(m) \/ Release(m)

Next ==
    \/ Launch \/ Quit \/ \E e \in Edits : Edit(e)
    \/ \E m \in Migrators : Migrate(m)
    \/ \E p \in Migrators \cup {Runtime} : Crash(p)

Spec == Init /\ [][Next]_vars

-----------------------------------------------------------------------------
(* Properties.                                                             *)

\* Whatever the artist committed is in the profile's database and -wal at every moment,
\* so also after a crash between moving the one and replacing the other, and a migration
\* prepared before the edit.
NothingIsLost == made \subseteq Content.edits

\* What migrate() answers is what became of the database: SUCCEEDED and its step is in
\* the history; ROLLED_BACK, or an exception, and it is not.  No step is there twice.
ResultsAreTrue ==
    /\ IsInjective(file.history)
    /\ \A m \in Migrators : Is(m, "ended") =>
          /\ run[m].result = "SUCCEEDED" => m \in ToSet(file.history)
          /\ run[m].result \in {"ROLLED_BACK", "RAISED"} => m \notin ToSet(file.history)

\* A migration is one step of the profile: its content changes by an edit, by one more
\* step of the schema on what was planned for, or by that step being taken back.
MigrationIsAtomic ==
    [][\/ Content'.history = Content.history
       \/ \E m \in Migrators :
             /\ Content' = [Content EXCEPT !.history = Append(@, m)]
             /\ run[m].plan = State(Content)
       \/ \E m \in Migrators : Content = [Content' EXCEPT !.history = Append(@, m)]]_vars

-----------------------------------------------------------------------------
(* Proofs, for any migrators, edits and bounds, as long as a migrator is    *)
(* neither the runtime nor what stands for no holder.  The invariant says   *)
(* who has the lease, and what the migration that has it finds and leaves.  *)

Distinct == Runtime \notin Migrators /\ "dead" \notin Migrators /\ Nothing \notin Migrators

Raised(d, m) == [d EXCEPT !.history = Append(@, m)]

Before == {"idle", "prepared", "planned", "read", "owned", "checked", "saved", "staged",
           "preserved", "moved"}
Held == {"owned", "checked", "saved", "staged", "preserved", "moved", "installed", "restoring",
         "releasing"}

Sees(m) ==
    LET me == run[m] IN
    /\ me.pc \in Held => lease = m
    /\ me.pc \in Before => m \notin ToSet(file.history)
    /\ me.pc \in {"saved", "staged", "preserved", "moved"} => wal = {} /\ slot = file
    /\ me.pc \in {"staged", "preserved", "moved"} => me.stage = Raised(file, m)
    /\ me.pc \in {"preserved", "moved"} => me.plan = State(Content)
    /\ me.pc = "moved" => me.moved = {}
    /\ me.pc \in {"installed", "restoring"} =>
          /\ wal = {} /\ slot \in Databases /\ file = Raised(slot, m)
          /\ IsInjective(slot.history) /\ m \notin ToSet(slot.history)
    /\ me.pc \in {"releasing", "ended"} =>
          /\ me.result = "SUCCEEDED" => m \in ToSet(file.history)
          /\ me.result \in {"ROLLED_BACK", "RAISED"} => m \notin ToSet(file.history)

AllSee == \A m \in Migrators : Sees(m)

SInv == TypeOK /\ NothingIsLost /\ IsInjective(file.history) /\ AllSee

\* A step more: the database is well formed, the history has one more migration, and is
\* still without repetition if that migration was not in it.
LEMMA RaisedIs ==
  ASSUME NEW d \in Databases, NEW m \in Migrators
  PROVE  /\ Raised(d, m) \in Databases /\ Raised(d, m).edits = d.edits
         /\ Raised(d, m).history = Append(d.history, m)
         /\ ToSet(Raised(d, m).history) = ToSet(d.history) \cup {m}
         /\ IsInjective(d.history) /\ m \notin ToSet(d.history)
               => IsInjective(Raised(d, m).history)
<1>1. /\ Raised(d, m) \in Databases /\ Raised(d, m).edits = d.edits
      /\ Raised(d, m).history = Append(d.history, m) /\ d.history \in Seq(Migrators)
  BY DEF Raised, Databases
<1> DEFINE h == d.history
           g == Append(h, m)
<1>2. /\ DOMAIN g = DOMAIN h \cup {Len(h) + 1} /\ Len(h) + 1 \notin DOMAIN h
      /\ g[Len(h) + 1] = m /\ \A i \in DOMAIN h : g[i] = h[i]
  BY <1>1
<1> HIDE DEF g
<1>3. ToSet(g) = ToSet(h) \cup {m}
  BY <1>2 DEF ToSet
<1>4. IsInjective(h) /\ m \notin ToSet(h) => IsInjective(g)
  BY <1>2 DEF IsInjective, ToSet
<1> QED BY <1>1, <1>3, <1>4 DEF g

\* The content is the file with what is in the -wal file.
LEMMA ContentIs ==
  ASSUME TypeOK
  PROVE  /\ Content \in Databases /\ Content.history = file.history
         /\ Content.edits = file.edits \cup wal
         /\ wal = {} => Content = file
  BY DEF TypeOK, Content, Databases

\* What a migration that has not the lease knows is only whether its step is in the history.
LEMMA OthersSee ==
  ASSUME SInv, NEW m \in Migrators, run'[m] = run[m],
         \/ UNCHANGED <<file, wal, slot, lease>>
         \/ /\ run[m].pc \notin Held
            /\ m \in ToSet(file'.history) <=> m \in ToSet(file.history)
  PROVE  Sees(m)'
<1>1. Sees(m)
  BY DEF SInv, AllSee
<1>2. CASE UNCHANGED <<file, wal, slot, lease>>
  BY <1>1, <1>2 DEF Sees, Content
<1>3. CASE run[m].pc \notin Held /\ (m \in ToSet(file'.history) <=> m \in ToSet(file.history))
  BY <1>1, <1>3 DEF Sees, Held, Before
<1> QED BY <1>2, <1>3

\* Nobody has the lease but the holder.
LEMMA NobodyHolds ==
  ASSUME SInv, NEW p, lease = p
  PROVE  \A m \in Migrators \ {p} : run[m].pc \notin Held
  BY DEF SInv, AllSee, Sees

\* The artist launches, edits and quits only while no migration has the profile.
LEMMA ArtistStep ==
  ASSUME SInv, Distinct, Launch \/ Quit \/ \E e \in Edits : Edit(e)
  PROVE  SInv'
<1>1. TypeOK
  BY DEF SInv
<1>2. \A m \in Migrators : run[m].pc \notin Held /\ run'[m] = run[m]
  <2>1. lease \in {Nothing, "dead", Runtime}
    BY DEF Launch, Quit, Edit
  <2> QED BY <2>1, NobodyHolds DEF Distinct, Launch, Quit, Edit
<1>3. file'.history = file.history
  BY <1>1, ContentIs DEF Launch, Quit, Edit
<1>4. TypeOK'
  BY <1>1, ContentIs DEF Launch, Quit, Edit, TypeOK
<1>5. Content'.edits = file'.edits \cup wal'
  BY <1>4 DEF Content, TypeOK, Databases
<1>6. NothingIsLost'
  BY <1>1, <1>5, ContentIs DEF SInv, NothingIsLost, Launch, Quit, Edit
<1>7. AllSee' /\ IsInjective(file'.history)
  BY <1>2, <1>3, OthersSee DEF SInv, AllSee
<1> QED BY <1>4, <1>6, <1>7 DEF SInv

\* Setting two locals of a call is setting the call (Ends, Concludes).
LEMMA TwoLocals ==
  ASSUME TypeOK, NEW m \in Migrators, NEW pc, NEW result
  PROVE  [run EXCEPT ![m].pc = pc, ![m].result = result]
            = [run EXCEPT ![m] = [run[m] EXCEPT !.pc = pc, !.result = result]]
  BY DEF TypeOK, Runs

\* What there is to show of a step of one migration.
LEMMA OneMigration ==
  ASSUME SInv, NEW m \in Migrators, NEW me \in Runs, run' = [run EXCEPT ![m] = me],
         file' \in Databases, wal' \subseteq Edits, made' = made,
         slot' \in Databases \cup {Nothing}, lease' \in Migrators \cup {Runtime, "dead", Nothing},
         failures' \in Nat, crashes' \in Nat,
         file.edits \cup wal \subseteq file'.edits \cup wal', IsInjective(file'.history),
         run'[m] = me => Sees(m)',
         \/ UNCHANGED <<file, wal, slot, lease>>
         \/ \A q \in Migrators \ {m} :
               /\ run[q].pc \notin Held
               /\ q \in ToSet(file'.history) <=> q \in ToSet(file.history)
  PROVE  SInv'
<1>1. TypeOK
  BY DEF SInv
<1>2. run' \in [Migrators -> Runs] /\ run'[m] = me /\ \A q \in Migrators \ {m} : run'[q] = run[q]
  BY <1>1 DEF TypeOK
<1>3. TypeOK'
  BY <1>1, <1>2 DEF TypeOK
<1>4. NothingIsLost'
  <2>1. Content'.edits = file'.edits \cup wal'
    BY <1>3 DEF Content, TypeOK, Databases
  <2>2. made \subseteq file.edits \cup wal
    BY <1>1, ContentIs DEF SInv, NothingIsLost
  <2> QED BY <2>1, <2>2 DEF NothingIsLost
<1>5. AllSee'
  BY <1>2, OthersSee DEF AllSee
<1> QED BY <1>3, <1>4, <1>5 DEF SInv

\* A step that only moves the call: the database, its -wal file, the snapshot and the lease
\* stay, and the call has or had to know no more than at its new label.
LEMMA OnlyMoves ==
  ASSUME SInv, NEW m \in Migrators, NEW me \in Runs, run' = [run EXCEPT ![m] = me],
         UNCHANGED <<file, wal, made, slot, lease>>, failures' \in Nat, crashes' \in Nat,
         run'[m] = me => Sees(m)'
  PROVE  SInv'
<1>1. file' \in Databases /\ IsInjective(file'.history)
  BY DEF SInv, TypeOK
<1>2. /\ wal' \subseteq Edits /\ slot' \in Databases \cup {Nothing}
      /\ lease' \in Migrators \cup {Runtime, "dead", Nothing}
  BY DEF SInv, TypeOK
<1> QED BY <1>1, <1>2, OneMigration

\* A failure is counted.
LEMMA FailsCounts ==
  ASSUME SInv, Fails \/ UNCHANGED failures
  PROVE  failures' \in Nat
  BY DEF SInv, TypeOK, Fails

\* prepare() and the checks of migrate() change nothing but the call.
LEMMA CheckStep ==
  ASSUME SInv, NEW m \in Migrators,
         PrepareReads(m) \/ PrepareChecks(m) \/ MigrateReads(m) \/ Rechecks(m)
  PROVE  SInv'
<1> DEFINE me == run[m]
<1>1. /\ UNCHANGED <<file, wal, made, slot, lease>> /\ failures' \in Nat /\ crashes' \in Nat
      /\ TypeOK /\ me \in Runs /\ Sees(m) /\ me.pc \in {"idle", "prepared", "planned", "owned"}
  BY DEF SInv, AllSee, TypeOK, PrepareReads, PrepareChecks, MigrateReads, Rechecks, Is
<1>2. ASSUME NEW n \in Runs, run' = [run EXCEPT ![m] = n],
             \/ n.pc \in {"idle", "prepared", "planned", "read"}
             \/ n.pc = "ended" /\ n.result = "RAISED"
             \/ n.pc \in {"checked", "releasing"} /\ me.pc = "owned" /\ n.result = "RAISED"
             \/ n.pc = "checked" /\ me.pc = "owned"
      PROVE  SInv'
  <2>1. run'[m] = n => Sees(m)'
    BY <1>1, <1>2 DEF Sees, Before, Held
  <2> QED BY <1>1, <1>2, <2>1, OnlyMoves
<1>3. CASE PrepareReads(m)
  <2> DEFINE n == [me EXCEPT !.pc = "prepared", !.plan = State(Content)]
  <2>1. State(Content) \in [history : Seq(Migrators), identity : SUBSET Edits]
    BY <1>1, ContentIs DEF State, Databases
  <2>2. n \in Runs /\ n.pc = "prepared"
    BY <1>1, <2>1 DEF Runs, Labels
  <2>3. run' = [run EXCEPT ![m] = n]
    BY <1>3 DEF PrepareReads
  <2> HIDE DEF n
  <2> QED BY <1>2, <2>2, <2>3
<1>4. CASE PrepareChecks(m)
  <2>1. Idle \in Runs /\ Idle.pc = "idle"
    BY DEF Idle, Runs, Labels, Results
  <2>2. [me EXCEPT !.pc = "planned"] \in Runs /\ [me EXCEPT !.pc = "planned"].pc = "planned"
    BY <1>1 DEF Runs, Labels
  <2>3. \/ run' = [run EXCEPT ![m] = Idle]
        \/ run' = [run EXCEPT ![m] = [me EXCEPT !.pc = "planned"]]
    BY <1>4 DEF PrepareChecks, Goes
  <2> QED BY <1>2, <2>1, <2>2, <2>3
<1>5. CASE MigrateReads(m)
  <2> DEFINE n == [me EXCEPT !.pc = "read"]
             e == [me EXCEPT !.pc = "ended", !.result = "RAISED"]
  <2>1. n \in Runs /\ n.pc = "read" /\ e \in Runs /\ e.pc = "ended" /\ e.result = "RAISED"
    BY <1>1 DEF Runs, Labels, Results
  <2>2. run' = [run EXCEPT ![m] = n] \/ run' = [run EXCEPT ![m] = e]
    BY <1>1, <1>5, TwoLocals DEF MigrateReads, Goes, Ends
  <2> HIDE DEF n, e
  <2> QED BY <1>2, <2>1, <2>2
<1>6. CASE Rechecks(m)
  <2> DEFINE n == [me EXCEPT !.pc = "checked"]
             e == [me EXCEPT !.pc = "releasing", !.result = "RAISED"]
  <2>1. /\ n \in Runs /\ n.pc = "checked" /\ e \in Runs /\ e.pc = "releasing"
        /\ e.result = "RAISED"
    BY <1>1 DEF Runs, Labels, Results
  <2>2. me.pc = "owned" /\ (run' = [run EXCEPT ![m] = n] \/ run' = [run EXCEPT ![m] = e])
    BY <1>1, <1>6, TwoLocals DEF Rechecks, Goes, Concludes, Is
  <2> HIDE DEF n, e
  <2> QED BY <1>2, <2>1, <2>2
<1> QED BY <1>3, <1>4, <1>5, <1>6

\* The lease is taken from nobody, or from the dead.
LEMMA AcquireStep ==
  ASSUME SInv, Distinct, NEW m \in Migrators, Acquire(m)
  PROVE  SInv'
<1> DEFINE me == run[m]
           n == [me EXCEPT !.pc = "owned"]
           e == [me EXCEPT !.pc = "ended", !.result = "RAISED"]
<1>1. /\ UNCHANGED <<file, wal, made, slot>> /\ failures' \in Nat /\ crashes' \in Nat
      /\ TypeOK /\ me \in Runs /\ Sees(m) /\ me.pc = "read" /\ IsInjective(file.history)
  BY DEF SInv, AllSee, TypeOK, Acquire, Is
<1>2. n \in Runs /\ n.pc = "owned" /\ e \in Runs /\ e.pc = "ended" /\ e.result = "RAISED"
  BY <1>1 DEF Runs, Labels, Results
<1>3. \/ run' = [run EXCEPT ![m] = n] /\ lease' = m /\ lease \in {Nothing, "dead"}
      \/ run' = [run EXCEPT ![m] = e] /\ UNCHANGED lease
  BY <1>1, TwoLocals DEF Acquire, Goes, Ends
<1> HIDE DEF n, e
<1>4. CASE run' = [run EXCEPT ![m] = n] /\ lease' = m /\ lease \in {Nothing, "dead"}
  <2>1. \A q \in Migrators : run[q].pc \notin Held
    BY <1>4, NobodyHolds DEF Distinct
  <2>2. run'[m] = n => Sees(m)'
    BY <1>1, <1>2, <1>4 DEF Sees, Before, Held
  <2>3. /\ file' \in Databases /\ wal' \subseteq Edits /\ slot' \in Databases \cup {Nothing}
        /\ lease' \in Migrators \cup {Runtime, "dead", Nothing}
    BY <1>1, <1>4 DEF TypeOK
  <2> QED BY <1>1, <1>2, <1>4, <2>1, <2>2, <2>3, OneMigration
<1>5. CASE run' = [run EXCEPT ![m] = e] /\ UNCHANGED lease
  <2>1. run'[m] = e => Sees(m)'
    BY <1>1, <1>2, <1>5 DEF Sees, Before, Held
  <2> QED BY <1>1, <1>2, <1>5, <2>1, OnlyMoves
<1> QED BY <1>3, <1>4, <1>5

\* The snapshot brings what is in the -wal file into the database first, so that nothing is
\* left to lose when the sidecar files are moved.
LEMMA SnapshotStep ==
  ASSUME SInv, Distinct, NEW m \in Migrators, Snapshot(m)
  PROVE  SInv'
<1> DEFINE me == run[m]
           n == [me EXCEPT !.pc = "saved"]
           e == [me EXCEPT !.pc = "releasing", !.result = "RAISED"]
<1>1. /\ TypeOK /\ me \in Runs /\ Sees(m) /\ me.pc = "checked" /\ IsInjective(file.history)
      /\ made' = made /\ lease' = lease /\ lease = m /\ crashes' \in Nat
      /\ file' = Content /\ wal' = {}
  BY DEF SInv, AllSee, TypeOK, Snapshot, Is, Sees, Held
<1>2. failures' \in Nat
  BY FailsCounts DEF Snapshot
<1>3. /\ n \in Runs /\ n.pc = "saved" /\ e \in Runs /\ e.pc = "releasing" /\ e.result = "RAISED"
  BY <1>1 DEF Runs, Labels, Results
<1>4. \/ run' = [run EXCEPT ![m] = n] /\ slot' = Content
      \/ run' = [run EXCEPT ![m] = e] /\ UNCHANGED slot
  BY <1>1, TwoLocals DEF Snapshot, Goes, Concludes
<1> HIDE DEF n, e
<1>5. /\ file' \in Databases /\ file'.history = file.history /\ wal' \subseteq Edits
      /\ file'.edits = file.edits \cup wal /\ slot' \in Databases \cup {Nothing}
      /\ lease' \in Migrators \cup {Runtime, "dead", Nothing}
  BY <1>1, <1>4, ContentIs DEF TypeOK
<1>6. \A q \in Migrators \ {m} : run[q].pc \notin Held
  BY <1>1, NobodyHolds
<1>7. ASSUME NEW r \in {n, e}, run' = [run EXCEPT ![m] = r]
      PROVE  SInv'
  <2>1. run'[m] = r => Sees(m)'
    BY <1>1, <1>3, <1>4, <1>5, <1>7 DEF Sees, Before, Held, TypeOK
  <2> QED BY <1>1, <1>2, <1>3, <1>5, <1>6, <1>7, <2>1, OneMigration
<1> QED BY <1>4, <1>7

\* The copy is made and looked at, the database is copied aside and its (empty) sidecar
\* files moved: the profile is as it was, and the copy is it with the step.
LEMMA CopyStep ==
  ASSUME SInv, NEW m \in Migrators, Stage(m) \/ Preserve(m) \/ MoveSidecars(m)
  PROVE  SInv'
<1> DEFINE me == run[m]
           e == [me EXCEPT !.pc = "releasing", !.result = "RAISED"]
<1>1. /\ TypeOK /\ me \in Runs /\ Sees(m) /\ me.pc \in {"saved", "staged", "preserved"}
      /\ UNCHANGED <<file, made, slot, lease>> /\ crashes' \in Nat /\ m \notin ToSet(file.history)
      /\ lease = m /\ wal = {} /\ slot = file /\ Content = file /\ file \in Databases
  <2>1. TypeOK /\ Sees(m) /\ me.pc \in {"saved", "staged", "preserved"}
    BY DEF SInv, AllSee, Stage, Preserve, MoveSidecars, Is
  <2> QED BY <2>1, ContentIs DEF Sees, Held, Before, TypeOK, Stage, Preserve, MoveSidecars
<1>2. failures' \in Nat
  BY FailsCounts DEF Stage, Preserve, MoveSidecars
<1>3. wal' = wal
  BY <1>1 DEF Stage, Preserve, MoveSidecars
<1>4. e \in Runs /\ e.pc = "releasing" /\ e.result = "RAISED"
  BY <1>1 DEF Runs, Labels, Results
<1>5. ASSUME NEW n \in Runs, run' = [run EXCEPT ![m] = n],
             \/ n.pc = "releasing" /\ n.result = "RAISED"
             \/ n.pc = "staged" /\ n.stage = Raised(file, m)
             \/ n.pc = "preserved" /\ n.stage = me.stage /\ n.plan = me.plan /\ me.pc = "staged"
                   /\ me.plan = State(Content)
             \/ n.pc = "moved" /\ n.stage = me.stage /\ n.plan = me.plan /\ n.moved = {}
                   /\ me.pc = "preserved"
      PROVE  SInv'
  <2>1. Content' = Content
    BY <1>1, <1>3 DEF Content
  <2>2. run'[m] = n => Sees(m)'
    BY <1>1, <1>3, <1>5, <2>1 DEF Sees, Before, Held, State
  <2> QED BY <1>1, <1>2, <1>3, <1>5, <2>2, OnlyMoves
<1>6. CASE run' = [run EXCEPT ![m] = e]
  <2> HIDE DEF e
  <2> QED BY <1>4, <1>5, <1>6
<1>7. CASE Stage(m)
  <2> DEFINE n == [me EXCEPT !.pc = "staged", !.stage = Raised(file, m)]
  <2>1. n \in Runs /\ n.pc = "staged" /\ n.stage = Raised(file, m)
    BY <1>1, RaisedIs DEF Runs, Labels
  <2>2. run' = [run EXCEPT ![m] = n] \/ run' = [run EXCEPT ![m] = e]
    <3>1. CASE run' = [run EXCEPT ![m].pc = "staged", ![m].stage = Raised(Content, m)]
      BY <1>1, <3>1 DEF TypeOK, Runs
    <3>2. CASE Concludes(m, "RAISED")
      BY <1>1, <3>2, TwoLocals DEF Concludes
    <3> QED BY <1>7, <3>1, <3>2 DEF Stage, Raised
  <2> HIDE DEF n, e
  <2> QED BY <1>5, <1>6, <2>1, <2>2
<1>8. CASE Preserve(m)
  <2> DEFINE n == [me EXCEPT !.pc = "preserved"]
  <2>1. n \in Runs /\ n.pc = "preserved" /\ n.stage = me.stage /\ n.plan = me.plan
    BY <1>1 DEF Runs, Labels
  <2>2. \/ run' = [run EXCEPT ![m] = n] /\ me.pc = "staged" /\ me.plan = State(Content)
        \/ run' = [run EXCEPT ![m] = e]
    <3>1. CASE Goes(m, "preserved") /\ Holds(m)
      BY <1>1, <1>8, <3>1 DEF Preserve, Goes, Holds, Prepared, Is, TypeOK
    <3>2. CASE Concludes(m, "RAISED")
      BY <1>1, <3>2, TwoLocals DEF Concludes
    <3> QED BY <1>8, <3>1, <3>2 DEF Preserve
  <2> HIDE DEF n, e
  <2> QED BY <1>5, <1>6, <2>1, <2>2
<1>9. CASE MoveSidecars(m)
  <2> DEFINE n == [me EXCEPT !.pc = "moved", !.moved = {}]
  <2>1. /\ n \in Runs /\ n.pc = "moved" /\ n.stage = me.stage /\ n.plan = me.plan
        /\ n.moved = {}
    BY <1>1 DEF Runs, Labels
  <2>2. run' = [run EXCEPT ![m] = n] /\ me.pc = "preserved"
    BY <1>1, <1>9 DEF MoveSidecars, Is
  <2> HIDE DEF n
  <2> QED BY <1>5, <2>1, <2>2
<1> QED BY <1>7, <1>8, <1>9

\* The copy takes the place of the database; or it does not, and the sidecar files return.
LEMMA InstallStep ==
  ASSUME SInv, NEW m \in Migrators, Install(m)
  PROVE  SInv'
<1> DEFINE me == run[m]
           n == [me EXCEPT !.pc = "installed"]
           e == [me EXCEPT !.pc = "releasing", !.result = "RAISED"]
<1>1. /\ TypeOK /\ me \in Runs /\ me.pc = "moved" /\ Sees(m)
      /\ UNCHANGED <<made, slot, lease>> /\ crashes' \in Nat /\ m \notin ToSet(file.history)
      /\ lease = m /\ wal = {} /\ slot = file /\ file \in Databases /\ IsInjective(file.history)
      /\ me.stage = Raised(file, m) /\ me.moved = {}
  <2>1. TypeOK /\ Sees(m) /\ me.pc = "moved" /\ IsInjective(file.history)
    BY DEF SInv, AllSee, Install, Is
  <2> QED BY <2>1 DEF Sees, Held, Before, TypeOK, Install
<1>2. failures' \in Nat
  BY FailsCounts DEF Install
<1>3. /\ n \in Runs /\ n.pc = "installed" /\ e \in Runs /\ e.pc = "releasing"
      /\ e.result = "RAISED"
  BY <1>1 DEF Runs, Labels, Results
<1>4. \/ run' = [run EXCEPT ![m] = n] /\ file' = Raised(file, m) /\ wal' = {}
      \/ run' = [run EXCEPT ![m] = e] /\ file' = file /\ wal' = {}
  BY <1>1, TwoLocals DEF Install, Goes, Concludes
<1> HIDE DEF n, e
<1>5. \A q \in Migrators \ {m} : run[q].pc \notin Held
  BY <1>1, NobodyHolds
<1>6. CASE run' = [run EXCEPT ![m] = n] /\ file' = Raised(file, m) /\ wal' = {}
  <2>1. /\ file' \in Databases /\ file'.edits = file.edits /\ IsInjective(file'.history)
        /\ ToSet(file'.history) = ToSet(file.history) \cup {m}
    BY <1>1, <1>6, RaisedIs
  <2>2. run'[m] = n => Sees(m)'
    BY <1>1, <1>3, <1>6 DEF Sees, Before, Held
  <2>3. /\ wal' \subseteq Edits /\ slot' \in Databases \cup {Nothing}
        /\ lease' \in Migrators \cup {Runtime, "dead", Nothing}
    BY <1>1, <1>6 DEF TypeOK
  <2> QED BY <1>1, <1>2, <1>3, <1>5, <1>6, <2>1, <2>2, <2>3, OneMigration
<1>7. CASE run' = [run EXCEPT ![m] = e] /\ file' = file /\ wal' = {}
  <2>1. run'[m] = e => Sees(m)'
    BY <1>1, <1>3, <1>7 DEF Sees, Before, Held
  <2> QED BY <1>1, <1>2, <1>3, <1>7, <2>1, OnlyMoves
<1> QED BY <1>4, <1>6, <1>7

\* The migrated profile opens, or its restoration is tried.
LEMMA ReopenStep ==
  ASSUME SInv, NEW m \in Migrators, Reopen(m)
  PROVE  SInv'
<1> DEFINE me == run[m]
           n == [me EXCEPT !.pc = "restoring"]
           e == [me EXCEPT !.pc = "releasing", !.result = "SUCCEEDED"]
<1>1. /\ TypeOK /\ me \in Runs /\ me.pc = "installed" /\ Sees(m) /\ lease = m
      /\ UNCHANGED <<file, wal, made, slot, lease>> /\ crashes' \in Nat
  BY DEF SInv, AllSee, Reopen, Is, TypeOK, Sees, Held
<1>2. failures' \in Nat
  BY FailsCounts DEF Reopen
<1>3. /\ n \in Runs /\ n.pc = "restoring" /\ e \in Runs /\ e.pc = "releasing"
      /\ e.result = "SUCCEEDED"
  BY <1>1 DEF Runs, Labels, Results
<1>4. run' = [run EXCEPT ![m] = n] \/ run' = [run EXCEPT ![m] = e]
  BY <1>1, TwoLocals DEF Reopen, Goes, Concludes
<1> HIDE DEF n, e
<1>5. m \in ToSet(file.history)
  BY <1>1, RaisedIs DEF Sees
<1>6. ASSUME NEW r \in {n, e}, run' = [run EXCEPT ![m] = r]
      PROVE  SInv'
  <2>1. run'[m] = r => Sees(m)'
    BY <1>1, <1>3, <1>5, <1>6 DEF Sees, Before, Held
  <2> QED BY <1>1, <1>2, <1>3, <1>6, <2>1, OnlyMoves
<1> QED BY <1>4, <1>6

\* The snapshot takes the place of the database, as it was before the step.
LEMMA RestoreStep ==
  ASSUME SInv, NEW m \in Migrators, Restore(m)
  PROVE  SInv'
<1> DEFINE me == run[m]
           n == [me EXCEPT !.pc = "releasing", !.result = "ROLLED_BACK"]
           e == [me EXCEPT !.pc = "releasing", !.result = "RECOVERY_REQUIRED"]
<1>1. /\ TypeOK /\ me \in Runs /\ me.pc = "restoring" /\ Sees(m) /\ lease = m
      /\ UNCHANGED <<made, slot, lease>> /\ crashes' \in Nat
      /\ wal = {} /\ slot \in Databases /\ file = Raised(slot, m)
      /\ IsInjective(slot.history) /\ m \notin ToSet(slot.history)
  BY DEF SInv, AllSee, Restore, Is, TypeOK, Sees, Held
<1>2. failures' \in Nat
  BY FailsCounts DEF Restore
<1>3. /\ n \in Runs /\ n.pc = "releasing" /\ n.result = "ROLLED_BACK"
      /\ e \in Runs /\ e.pc = "releasing" /\ e.result = "RECOVERY_REQUIRED"
  BY <1>1 DEF Runs, Labels, Results
<1>4. \/ run' = [run EXCEPT ![m] = n] /\ file' = slot /\ wal' = {}
      \/ run' = [run EXCEPT ![m] = e] /\ file' = file /\ wal' = wal
  BY <1>1, TwoLocals DEF Restore, Concludes
<1> HIDE DEF n, e
<1>5. \A q \in Migrators \ {m} : run[q].pc \notin Held
  BY <1>1, NobodyHolds
<1>6. CASE run' = [run EXCEPT ![m] = n] /\ file' = slot /\ wal' = {}
  <2>1. file.edits = slot.edits /\ ToSet(file.history) = ToSet(slot.history) \cup {m}
    BY <1>1, RaisedIs
  <2>2. run'[m] = n => Sees(m)'
    BY <1>1, <1>3, <1>6 DEF Sees, Before, Held
  <2>3. /\ wal' \subseteq Edits /\ slot' \in Databases \cup {Nothing}
        /\ lease' \in Migrators \cup {Runtime, "dead", Nothing}
    BY <1>1, <1>6 DEF TypeOK
  <2> QED BY <1>1, <1>2, <1>3, <1>5, <1>6, <2>1, <2>2, <2>3, OneMigration
<1>7. CASE run' = [run EXCEPT ![m] = e] /\ file' = file /\ wal' = wal
  <2>1. run'[m] = e => Sees(m)'
    BY <1>1, <1>3, <1>7 DEF Sees, Before, Held
  <2> QED BY <1>1, <1>2, <1>3, <1>7, <2>1, OnlyMoves
<1> QED BY <1>4, <1>6, <1>7

\* The lease is given back, or goes with the process; the answer is not made better by it.
LEMMA ReleaseStep ==
  ASSUME SInv, NEW m \in Migrators, Release(m)
  PROVE  SInv'
<1>1. PICK answer \in {run[m].result, "RECOVERY_REQUIRED"} :
         run' = [run EXCEPT ![m] = [run[m] EXCEPT !.pc = "ended", !.result = answer]]
  BY TwoLocals, ZenonT(40) DEF Release, Ends, SInv
<1> DEFINE me == run[m]
           n == [me EXCEPT !.pc = "ended", !.result = answer]
<1>2. /\ TypeOK /\ me \in Runs /\ me.pc = "releasing" /\ Sees(m) /\ lease = m
      /\ UNCHANGED <<file, wal, made, slot>> /\ crashes' \in Nat
      /\ file \in Databases /\ IsInjective(file.history)
      /\ wal' \subseteq Edits /\ slot' \in Databases \cup {Nothing}
      /\ lease' \in Migrators \cup {Runtime, "dead", Nothing}
  BY DEF SInv, AllSee, Release, Is, TypeOK, Sees, Held
<1>3. failures' \in Nat
  BY FailsCounts DEF Release
<1>4. n \in Runs /\ n.pc = "ended" /\ n.result = answer
  BY <1>2 DEF Runs, Labels, Results
<1>5. run' = [run EXCEPT ![m] = n]
  BY <1>1
<1> HIDE DEF n
<1>6. \A q \in Migrators \ {m} : run[q].pc \notin Held
  BY <1>2, NobodyHolds
<1>7. run'[m] = n => Sees(m)'
  BY <1>2, <1>4 DEF Sees, Before, Held
<1> QED BY <1>2, <1>3, <1>4, <1>5, <1>6, <1>7, OneMigration

\* A process that dies leaves the files as they are and answers nothing.
LEMMA CrashStep ==
  ASSUME SInv, Distinct, NEW p \in Migrators \cup {Runtime}, Crash(p)
  PROVE  SInv'
<1>1. /\ TypeOK /\ UNCHANGED <<file, wal, made, slot, failures>> /\ crashes' \in Nat
      /\ lease' \in Migrators \cup {Runtime, "dead", Nothing} /\ IsInjective(file.history)
      /\ lease # p => lease' = lease
      /\ lease = p => \A q \in Migrators \ {p} : run[q].pc \notin Held
  <2>1. lease = p => \A q \in Migrators \ {p} : run[q].pc \notin Held
    BY NobodyHolds
  <2> QED BY <2>1 DEF SInv, TypeOK, Crash
<1>2. CASE p = Runtime
  <2>1. UNCHANGED run /\ lease = Runtime /\ \A m \in Migrators : run[m].pc \notin Held
    BY <1>1, <1>2 DEF Crash, Distinct
  <2>2. AllSee'
    BY <1>1, <2>1, OthersSee DEF AllSee
  <2> QED BY <1>1, <2>1, <2>2 DEF SInv, TypeOK, NothingIsLost, Content
<1>3. CASE p \in Migrators
  <2> DEFINE me == run[p]
             n == [me EXCEPT !.pc = "ended", !.result = "none"]
  <2>1. p # Runtime /\ me \in Runs
    BY <1>1, <1>3 DEF Distinct, TypeOK
  <2>2. n \in Runs /\ n.pc = "ended" /\ n.result = "none"
    BY <2>1 DEF Runs, Labels, Results
  <2>3. run' = [run EXCEPT ![p] = n]
    BY <1>1, <1>3, <2>1, TwoLocals DEF Crash, Ends
  <2> HIDE DEF n
  <2>4. run'[p] = n => Sees(p)'
    BY <2>2 DEF Sees, Before, Held
  <2>5. \/ UNCHANGED <<file, wal, slot, lease>>
        \/ \A q \in Migrators \ {p} :
              /\ run[q].pc \notin Held
              /\ q \in ToSet(file'.history) <=> q \in ToSet(file.history)
    BY <1>1
  <2>6. /\ file' \in Databases /\ wal' \subseteq Edits /\ slot' \in Databases \cup {Nothing}
        /\ failures' \in Nat /\ made' = made /\ IsInjective(file'.history)
        /\ file.edits \cup wal \subseteq file'.edits \cup wal'
    BY <1>1 DEF TypeOK
  <2> QED BY <1>1, <1>3, <2>2, <2>3, <2>4, <2>5, <2>6, OneMigration
<1> QED BY <1>2, <1>3

\* At first no migration runs and the profile is empty.
LEMMA SInvInit == Init => SInv
<1> SUFFICES ASSUME Init
             PROVE  SInv
  OBVIOUS
<1>1. Idle \in Runs /\ Idle.pc = "idle"
  BY DEF Idle, Runs, Labels, Results
<1>2. /\ file \in Databases /\ IsInjective(file.history) /\ ToSet(file.history) = {}
      /\ made = {}
  BY DEF Init, Databases, IsInjective, ToSet
<1>3. TypeOK
  BY <1>1, <1>2 DEF Init, TypeOK
<1>4. AllSee
  BY <1>1, <1>2 DEF Init, AllSee, Sees, Held
<1> QED BY <1>2, <1>3, <1>4 DEF SInv, NothingIsLost

\* Every step of the artist, of a migration and of a dying process keeps the invariant.
LEMMA SInvStep ==
  ASSUME Distinct, SInv, [Next]_vars
  PROVE  SInv'
<1>1. CASE Next
  BY <1>1, ArtistStep, CheckStep, AcquireStep, SnapshotStep, CopyStep, InstallStep, ReopenStep,
     RestoreStep, ReleaseStep, CrashStep DEF Next, Migrate
<1>2. CASE UNCHANGED vars
  BY <1>2 DEF vars, SInv, TypeOK, NothingIsLost, Content, AllSee, Sees
<1> QED BY <1>1, <1>2

\* What is said about a migration that has ended is part of what it knows.
LEMMA SInvIsTrue ==
  ASSUME SInv
  PROVE  TypeOK /\ NothingIsLost /\ ResultsAreTrue
  BY DEF SInv, AllSee, Sees, ResultsAreTrue, Is

\* The content after a step is the file and the -wal file then.
LEMMA ContentThen ==
  ASSUME TypeOK'
  PROVE  /\ Content'.history = file'.history
         /\ wal' = {} => Content' = file'
  BY DEF TypeOK, Content, Databases

\* The two steps that change the history: the installation, on what was planned for, and the
\* restoration of what it replaced.
LEMMA StepIsAtomic ==
  ASSUME SInv, SInv', Next
  PROVE  \/ Content'.history = Content.history
         \/ \E m \in Migrators :
               Content' = Raised(Content, m) /\ run[m].plan = State(Content)
         \/ \E m \in Migrators : Content = Raised(Content', m)
<1>1. TypeOK /\ TypeOK' /\ AllSee
  BY DEF SInv
<1>2. CASE file'.history = file.history
  BY <1>1, <1>2, ContentIs, ContentThen
<1>3. ASSUME NEW m \in Migrators, Install(m), file' # file
      PROVE  Content' = Raised(Content, m) /\ run[m].plan = State(Content)
  <2>1. Sees(m) /\ run[m].pc = "moved" /\ file' = run[m].stage /\ wal' = wal
    BY <1>1, <1>3 DEF AllSee, Install, Is
  <2>2. /\ wal = {} /\ run[m].stage = Raised(file, m) /\ run[m].plan = State(Content)
    BY <2>1 DEF Sees
  <2> QED BY <1>1, <2>1, <2>2, ContentIs, ContentThen
<1>4. ASSUME NEW m \in Migrators, Restore(m), file' # file
      PROVE  Content = Raised(Content', m)
  <2>1. Sees(m) /\ run[m].pc = "restoring" /\ file' = slot /\ wal' = {}
    BY <1>1, <1>4 DEF AllSee, Restore, Is
  <2>2. wal = {} /\ file = Raised(slot, m)
    BY <2>1 DEF Sees
  <2> QED BY <1>1, <2>1, <2>2, ContentIs, ContentThen
<1>5. \/ file'.history = file.history
      \/ \E m \in Migrators : (Install(m) \/ Restore(m)) /\ file' # file
  <2>1. file' \in {file, Content} \/ \E m \in Migrators : Install(m) \/ Restore(m)
    BY DEF Next, Migrate, Launch, Edit, Quit, PrepareReads, PrepareChecks, MigrateReads, Acquire,
       Rechecks, Snapshot, Stage, Preserve, MoveSidecars, Reopen, Release, Crash
  <2> QED BY <1>1, <2>1, ContentIs
<1> QED BY <1>2, <1>3, <1>4, <1>5

\* No migration, prepared when and however interrupted, loses what the artist committed
\* (migration.py with the snapshots of recovery.py).
THEOREM MigrationLosesNothing ==
  ASSUME Distinct
  PROVE  Spec => []NothingIsLost
<1>1. SInv => NothingIsLost
  BY SInvIsTrue
<1> QED BY SInvInit, SInvStep, <1>1, PTL DEF Spec

\* What migrate() answers is what became of the database.
THEOREM AnswersAreTrue ==
  ASSUME Distinct
  PROVE  Spec => []ResultsAreTrue
<1>1. SInv => ResultsAreTrue
  BY SInvIsTrue
<1> QED BY SInvInit, SInvStep, <1>1, PTL DEF Spec

\* The content changes by an edit, by one step of the schema on what was planned for, or by
\* that step being taken back; a crash between two file operations leaves nothing between.
THEOREM MigrationSteps ==
  ASSUME Distinct
  PROVE  Spec => MigrationIsAtomic
<1>1. SInv /\ SInv' /\ [Next]_vars
        => [\/ Content'.history = Content.history
            \/ \E m \in Migrators :
                  /\ Content' = [Content EXCEPT !.history = Append(@, m)]
                  /\ run[m].plan = State(Content)
            \/ \E m \in Migrators : Content = [Content' EXCEPT !.history = Append(@, m)]]_vars
  BY StepIsAtomic DEF Raised
<1> QED BY SInvInit, SInvStep, <1>1, PTL DEF Spec, MigrationIsAtomic

=============================================================================

----------------------------- MODULE MCProcesses -----------------------------
(***************************************************************************)
(* The processes around a profile: the observer of a DAW session, the      *)
(* sessions of the launcher with their coordinator processes, the local    *)
(* window of the Headquarters, the migration of a stopped profile, the     *)
(* calls that turn an approved plan into a transaction, the MIDI ports,    *)
(* frames and clocks of two hosts, a volume tried in Live, the snapshots   *)
(* the hosts' scripts leave, the files of a Song and the pairs of Versions *)
(* that are compared.  A behaviour is about one of these; they share no    *)
(* state here.  The last seven take turns at v1 to v14.                    *)
(***************************************************************************)
EXTENDS Naturals, Sequences, FiniteSets, TLC, FiniteSetTheorems, WellFoundedInduction, TLAPS

CONSTANTS
    Musics, Details, Nothing, MaxChanges, MaxFailures, MaxRefreshes, SomeMusic, SomeDetail,
    Launchers, Profiles, Machines, s1, s2, p1, p2, Nobody, AnotherOwner,
    Artists, Songs, Versions, None, MaxSessions,
    Migrators, Runtime, Edits, OfIdentity, MaxCrashes,
    PlanSongs, PlanVersions, Keys, MaxSeen,
    MaxOutages, Values, MaxFrames, Tracks, Levels, MaxLost, Hosts, Tempos, MaxProjectChanges,
    MaxDamages

VARIABLES
    focus,   \* what this behaviour is about
    live, polls, committed, searched, references, backoff, service, stopping,
    failures, refreshes, commits, searches,
    started, at, owned, process, holder, failing, stuck, unquit, result,
    versionOf, current, approved, runtime, profile, artists, artistOf, active, session, focused,
    tokens, shown, blocked, stop, stopError, serving, shellFailures,
    file, wal, made, slot, lease, run, fileFailures, crashes,
    planVersionOf, planCurrent, planApproved, activeSong, seen, ops, call, witness, registered,
    acted,
    v1, v2, v3, v4, v5, v6, v7, v8, v9, v10, v11, v12, v13, v14

observerVars == <<live, polls, committed, searched, references, backoff, service, stopping,
                  failures, refreshes, commits, searches>>
sessionVars == <<started, at, owned, process, holder, failing, stuck, unquit, result>>
windowVars == <<versionOf, current, approved, runtime, profile, artists, artistOf, active, session,
                focused, tokens, shown, blocked, stop, stopError, serving, shellFailures>>
migrationVars == <<file, wal, made, slot, lease, run, fileFailures, crashes>>
planVars == <<planVersionOf, planCurrent, planApproved, activeSong, seen, ops, call, witness,
              registered, acted>>
processVars == <<observerVars, sessionVars, windowVars, migrationVars, planVars>>

\* What a part leaves free, by the first variable it does not use.
Rest1 == <<v1, v2, v3, v4, v5, v6, v7, v8, v9, v10, v11, v12, v13, v14>>
Rest9 == <<v9, v10, v11, v12, v13, v14>>
Rest10 == <<v10, v11, v12, v13, v14>>
Rest12 == <<v12, v13, v14>>
Rest13 == <<v13, v14>>
Free13 == v13 = 0 /\ v14 = 0
Free12 == v12 = 0 /\ Free13
Free10 == v10 = 0 /\ v11 = 0 /\ Free12
Free9 == v9 = 0 /\ Free10
Free1 == v1 = 0 /\ v2 = 0 /\ v3 = 0 /\ v4 = 0 /\ v5 = 0 /\ v6 = 0 /\ v7 = 0 /\ v8 = 0 /\ Free9

\* For a run: two sessions on one machine, of one profile or of two, and the hosts they can
\* run on it.
Start(os, host1, host2, profile2) ==
    [os |-> os, host |-> s1 :> host1 @@ s2 :> host2, profile |-> s1 :> p1 @@ s2 :> profile2]
TwoSessions ==
    {Start("LINUX", "ABLETON_LIVE", "FL_STUDIO", p1), Start("LINUX", "REAPER", "FL_STUDIO", p2),
     Start("MACOS", "LOGIC_PRO", "STUDIO_ONE", p2)}

Observer == INSTANCE ContinuousObserver
Launcher == INSTANCE HostSessions WITH
    Sessions <- Launchers, Starts <- Machines, Elsewhere <- AnotherOwner
Shell == INSTANCE ConsumerShell WITH failures <- shellFailures
Migration == INSTANCE SchemaMigration WITH failures <- fileFailures, MaxFailures <- MaxFailures + 1

\* A migration is neither the artist's process nor what stands for no holder.
ASSUME MigratorsAreDistinct == Migration!Distinct

\* A session, a focus and a page of the window.
WorkSessions == [number : 0..MaxSessions, open : BOOLEAN]
Focuses == [mode : {"MAKE", "MANAGE"}, song : Songs \cup {None}]
Views == [song : Songs \cup {None}, focus : Focuses \cup {None},
          current : Versions \cup {None}, approved : Versions \cup {None},
          session : WorkSessions \cup {None}]

\* What stands for nothing, nobody and somebody else is none of the others, every session is of a
\* profile, and bounds are numbers.
ASSUME NoneIsNoSong == None \notin PlanSongs
ASSUME NoneIsNothing == None \notin Songs \cup Artists \cup Versions \cup Views
ASSUME MachinesAreWhole == \A m \in Machines : \A s \in Launchers : m.profile[s] \in Profiles
ASSUME NobodyIsASession == Nobody \notin Launchers /\ AnotherOwner \notin Launchers
ASSUME BoundOfSeen == MaxSeen \in Nat
ASSUME WindowBounds == MaxSessions \in Nat /\ MaxFailures \in Nat

Plans == INSTANCE SongTransactions WITH Songs <- PlanSongs, Versions <- PlanVersions,
            versionOf <- planVersionOf, current <- planCurrent, approved <- planApproved
Monitor == INSTANCE MidiMonitor WITH
    host <- v1, available <- v2, ticking <- v3, inputs <- v4, held <- v5, latest <- v6,
    polls <- v7, service <- v8, stopping <- v9, outages <- v10, refreshes <- v11
\* Frames of Logic Pro beside a clock that runs evenly ...
Frames == INSTANCE MidiWire WITH
    Tempos <- {20}, Shortest <- 5, Longest <- 188, Fastest <- 7, Slowest <- 125,
    Window <- 3, MinIntervals <- 2, MaxSteady <- 3,
    sending <- v1, sent <- v2, assembler <- v3, frame <- v4,
    intervals <- v5, ticked <- v6, tempo <- v7, pace <- v8, steady <- v9
\* ... and a clock of Studio One that changes its tempo, to one too slow too, pauses and goes back.
Clock == INSTANCE MidiWire WITH
    Values <- {}, Tempos <- {20, 30, 150, 200}, Shortest <- 5, Longest <- 188, Fastest <- 7,
    Slowest <- 125, Window <- 3, MinIntervals <- 2, MaxSteady <- 3,
    sending <- v1, sent <- v2, assembler <- v3, frame <- v4,
    intervals <- v5, ticked <- v6, tempo <- v7, pace <- v8, steady <- v9
Volume == INSTANCE AbletonVolume WITH
    MaxSets <- 2, MaxOps <- 2, MaxTouches <- 2,
    live <- v1, flight <- v2, queue <- v3, try <- v4, ops <- v5, effects <- v6, touches <- v7,
    lost <- v8
Scripts == INSTANCE HostSnapshots WITH
    FirstTempo <- 120000, MaxChanges <- MaxProjectChanges, MaxSessions <- 2, MaxNotices <- 1,
    host <- v1, live <- v2, file <- v3, replacing <- v4, notice <- v5, lastShown <- v6,
    shown <- v7, polled <- v8, twin <- v9, commits <- v10, searched <- v11, found <- v12,
    changes <- v13, crashed <- v14
\* The files of one Song, when the process dies and the power goes ...
Material == INSTANCE SongMaterial WITH
    Songs <- {1}, Contents <- Musics, NoContent <- Nothing, Ingests <- Migrators,
    MaxVersions <- 2, MaxDamages <- 1, MaxOutages <- 2,
    ingests <- v1, staged <- v2, blobs <- v3, damaged <- v4, lost <- v5, versions <- v6,
    current <- v7, outages <- v8
\* ... and the Versions of two, heard in pairs.
Compare == INSTANCE VersionCompare WITH
    Songs <- {1, 2}, Contents <- {SomeMusic}, NoContent <- Nothing, Ingests <- Migrators,
    MaxVersions <- 3, MaxOutages <- 0, MaxPages <- 1, MaxDecisions <- 1,
    ingests <- v1, staged <- v2, blobs <- v3, damaged <- v4, lost <- v5, versions <- v6,
    current <- v7, outages <- v8, active <- v9, pages <- v10, deciding <- v11, decisions <- v12

\* Artists and tracks may change places.
Alike == Permutations(Artists) \cup Permutations(Tracks)

Init ==
    /\ \/ focus \in {"observer", "sessions", "window", "migration", "plans"} /\ Free1
       \/ focus = "monitor" /\ Monitor!Init /\ Free12
       \/ focus = "frames" /\ Frames!Init /\ Free10
       \/ focus = "clock" /\ Clock!Init /\ Free10
       \/ focus = "volume" /\ Volume!Init /\ Free9
       \/ focus = "scripts" /\ Scripts!Init
       \/ focus = "material" /\ Material!Init /\ Free9
       \/ focus = "compare" /\ Compare!CompareInit /\ Free13
    /\ Observer!Init /\ Launcher!Init /\ Shell!ShellInit /\ Migration!Init
    /\ Plans!TxInit
    \* What the other behaviours leave alone is one and the same in all of them.
    /\ focus # "observer" => live = [music |-> SomeMusic, detail |-> SomeDetail, at |-> 0]
    /\ focus # "window" => artists = {}
    /\ focus # "sessions" =>
          process[AnotherOwner] = "none" /\ started = CHOOSE machine \in Machines : TRUE

ProcessNext ==
    \/ focus = "observer" /\ Observer!Next
       /\ UNCHANGED <<sessionVars, windowVars, migrationVars, planVars>>
    \/ focus = "sessions" /\ Launcher!Next
       /\ UNCHANGED <<observerVars, windowVars, migrationVars, planVars>>
    \/ focus = "window" /\ Shell!ShellNext
       /\ UNCHANGED <<observerVars, sessionVars, migrationVars, planVars>>
    \/ focus = "migration" /\ Migration!Next
       /\ UNCHANGED <<observerVars, sessionVars, windowVars, planVars>>
    \/ focus = "plans" /\ Plans!TxNext
       /\ UNCHANGED <<observerVars, sessionVars, windowVars, migrationVars>>

WireNext ==
    \/ focus = "monitor" /\ Monitor!Next /\ UNCHANGED Rest12
    \/ focus = "frames" /\ Frames!Next /\ UNCHANGED Rest10
    \/ focus = "clock" /\ Clock!Next /\ UNCHANGED Rest10
    \/ focus = "volume" /\ Volume!Next /\ UNCHANGED Rest9
    \/ focus = "scripts" /\ Scripts!Next
    \/ focus = "material" /\ Material!Next /\ UNCHANGED Rest9
    \/ focus = "compare" /\ Compare!CompareNext /\ UNCHANGED Rest13

Next ==
    \/ ProcessNext /\ UNCHANGED <<focus, Rest1>>
    \/ WireNext /\ UNCHANGED <<focus, processVars>>

allVars == <<focus, processVars, Rest1>>

Spec == Init /\ [][Next]_allVars

\* ableton_session_launcher.py and its four copies, consumer_shell.py, logic_midi_bridge.py and
\* studio_one_midi_bridge.py: a coordinator process does not outlive the last session on it, nor
\* a window the lease of its profile, nor an open MIDI port the loop that opened it; see
\* HostSessions, ConsumerShell and MidiMonitor.
NothingLeftBehind ==
    /\ Launcher!TypeOK /\ Shell!ShellTypeOK
    /\ Launcher!NothingLeftRunning /\ Shell!EndsReleased
    /\ focus = "monitor" => Monitor!PortsAreGivenBack
    /\ focus = "material" => Material!TypeOK /\ Material!StagingIsCleared

\* The observers of the five hosts and their bridges: what the profile holds of a project, and
\* what is shown of it, is of the project that is open; see ContinuousObserver, HostSnapshots
\* and MidiWire.
SeesWhatIsThere ==
    /\ Observer!TypeOK
    /\ Observer!ReferencesAreOfSearched /\ Observer!PollingIsQuiet
    /\ focus = "scripts" =>
          /\ Scripts!TwinIsCurrent /\ Scripts!ToolsAreKnown
          /\ Scripts!NoticesFindTheirProject /\ Scripts!ClosedIsNotRead
    /\ focus = "clock" => Clock!SteadyClockIsKnown

\* migration.py: nothing the artist committed is lost, and a migration says what it did;
\* see SchemaMigration.
MigrationKeepsEverything ==
    Migration!TypeOK /\ Migration!NothingIsLost /\ Migration!ResultsAreTrue

\* musical_transactions.py, song_transactions.py and ableton.py: what was prepared is what is
\* run, and what an operation is recorded to have done is what Live did; see SongTransactions
\* and AbletonVolume.
ResultsAreTrue ==
    /\ Plans!TxTypeOK /\ Plans!RunsWhatWasPrepared
    /\ focus = "volume" => Volume!OutcomesAreTrue
    /\ focus = "material" => Material!VersionsHaveTheirBytes
    /\ focus = "compare" => Compare!CompareTypeOK /\ Compare!DecisionsAreFound

\* migration.py, logic_midi_bridge.py and the fingerprints of the observers: a step is of one
\* piece; see SchemaMigration, MidiWire and HostSnapshots.
StepsAreWhole ==
    /\ Migration!MigrationIsAtomic
    /\ [][/\ focus = "frames" => Frames!AFrameIsWhole
          /\ focus = "scripts" => Scripts!MovingCommitsNothing
          /\ focus = "material" => Material!NothingIsReplaced
          /\ focus = "compare" => Compare!ReferencesStand]_<<focus, Rest1>>

\* consumer_shell.py and ableton.py: what is done is what was shown, as long as nobody was
\* told that it was not done; see ConsumerShell and AbletonVolume.
ActsOnWhatWasShown ==
    /\ Shell!ActsOnWhatWasShown
    /\ [][/\ focus = "volume" => Volume!LateIsInDoubt
          /\ focus = "compare" => Compare!DecidedAsHeard]_<<focus, Rest1>>

-----------------------------------------------------------------------------
\* Every behaviour of the processes is one of the migration's, most of them without a step of it.
LEMMA MigrationTakesItsSteps == [Next]_allVars => [Migration!Next]_(Migration!vars)
  BY DEF Next, ProcessNext, WireNext, allVars, processVars, migrationVars, Migration!vars

\* Whatever else goes on, a migration of the profile loses nothing the artist committed and
\* says what it did, for any migrators, edits and bounds: its invariant is kept by its own steps
\* and by everybody else's.
THEOREM MigrationsKeepEverything == Spec => []MigrationKeepsEverything
<1>1. Init => Migration!SInv
  BY Migration!SInvInit DEF Init
<1>2. Migration!SInv /\ [Next]_allVars => (Migration!SInv)'
  BY Migration!SInvStep, MigrationTakesItsSteps, MigratorsAreDistinct
<1>3. Migration!SInv => MigrationKeepsEverything
  BY Migration!SInvIsTrue DEF MigrationKeepsEverything
<1> QED BY <1>1, <1>2, <1>3, PTL DEF Spec

\* The processes implement the migration: whatever is proved of SchemaMigration is true of them.
THEOREM ProcessesMigrate == Spec => Migration!Spec /\ Migration!MigrationIsAtomic
<1>1. Init => Migration!Init
  BY DEF Init
<1>2. Spec => Migration!Spec
  BY <1>1, MigrationTakesItsSteps, PTL DEF Spec, Migration!Spec
<1>3. Migration!Spec => Migration!MigrationIsAtomic
  BY Migration!MigrationSteps, MigratorsAreDistinct
<1> QED BY <1>2, <1>3


-----------------------------------------------------------------------------
\* Of any numbers there is a smallest: the first of the Versions, say, that has no parent.
LEMMA Smallest ==
  ASSUME NEW T, T \subseteq Nat, T # {}
  PROVE  \E m \in T : \A n \in T : m <= n
<1> DEFINE R == OpToRel(<, Nat)
<1>1. IsWellFoundedOn(R, Nat)
  BY NatLessThanWellFounded
<1>2. \A x, y \in Nat : x < y => <<x, y>> \in R
  BY DEF OpToRel
<1> HIDE DEF R
<1>3. PICK m \in T : \A n \in T : ~(<<n, m>> \in R)
  BY <1>1, WFMin
<1>4. \A n \in T : ~(n < m)
  BY <1>2, <1>3, Zenon
<1>5. ASSUME NEW n \in T PROVE m <= n
  <2>1. n \in Nat /\ m \in Nat /\ ~(n < m)
    BY <1>4
  <2> QED BY <2>1
<1> QED BY <1>5

\* Of some natural numbers below a bound there is a largest: counted down, it is the smallest.
LEMMA Largest ==
  ASSUME NEW T, NEW N \in Nat, T \subseteq 0..N, T # {}
  PROVE  \E m \in T : \A n \in T : n <= m
<1> DEFINE U == {n \in Nat : N - n \in T}
<1>1. PICK m \in U : \A n \in U : m <= n
  <2>1. PICK t \in T : t \in 0..N
    OBVIOUS
  <2>2. N - t \in Nat /\ N - (N - t) = t
    BY <2>1
  <2>3. U \subseteq Nat /\ U # {}
    BY <2>1, <2>2
  <2> HIDE DEF U
  <2> QED BY <2>3, Smallest
<1>2. N - m \in T
  BY <1>1
<1>3. ASSUME NEW n \in T PROVE n <= N - m
  <2>1. n \in 0..N
    OBVIOUS
  <2>2. N - n \in Nat /\ N - (N - n) = n
    BY <2>1
  <2>3. N - n \in U
    BY <2>2
  <2> QED BY <1>1, <2>1, <2>3
<1> QED BY <1>2, <1>3

-----------------------------------------------------------------------------
(* A level tried in Live.                                                  *)

Sightings == [song : Nat, track : Tracks, level : Levels]
VolumeActions ==
    [op : Nat, kind : {"apply", "undo"}, song : Nat, track : Tracks, expected : Levels,
     desired : Levels, heard : BOOLEAN]
VolumeOps ==
    [outcome : {"EXECUTING", "SUCCEEDED", "FAILED", "UNKNOWN"}, phase : {"TRY", "RESTORE"},
     shown : Sightings, target : Levels]
VolumeEffects ==
    [op : Nat, kind : {"apply", "undo"}, song : Nat, track : Tracks, before : Levels,
     after : Levels]

\* Where a try waits for an answer, and where an operation of it is under way.
Waits == {"executing", "compensating", "compensating in doubt"}
Engaged == Waits \cup {"snapshot", "verifying"}
Showing ==
    [pc : {"shown", "snapshot"}, phase : {"TRY", "RESTORE"}, shown : Sightings, target : Levels]
Sending ==
    [pc : Waits \cup {"verifying", "deciding"}, phase : {"TRY", "RESTORE"}, shown : Sightings,
     target : Levels, base : Sightings, answer : {"none", "applied", "refused"}]

VolumeTyped ==
    /\ v1 \in [song : Nat, track : Tracks, levels : [Tracks -> Levels], enabled : BOOLEAN]
    /\ v2 \subseteq VolumeActions /\ v3 \in Seq(VolumeActions)
    /\ v4 \in {[pc |-> "idle"]} \cup Showing \cup Sending
    /\ v5 \in Seq(VolumeOps) /\ v6 \in Seq(VolumeEffects)

\* What was sent and has not been drained, of no operation twice.
Pending == v2 \cup {v3[i] : i \in DOMAIN v3}
SentOnce ==
    /\ \A a, b \in v2 : a.op = b.op => a = b
    /\ \A i, j \in DOMAIN v3 : v3[i].op = v3[j].op => i = j
    /\ \A a \in v2, i \in DOMAIN v3 : a.op # v3[i].op

\* The answer to it is awaited, and it is what the try sent.
Awaited(a) ==
    /\ a.heard /\ v4.pc \in Waits /\ v4.answer = "none"
    /\ a.track = v4.base.track
    /\ a.expected = IF v4.pc = "executing" THEN v4.base.level ELSE v4.target
    /\ a.desired = IF v4.pc = "executing" THEN v4.target ELSE v4.base.level
SentFor(a) ==
    /\ a.op \in DOMAIN v5 /\ v5[a.op].outcome \in {"EXECUTING", "UNKNOWN"}
    /\ a.heard => a.op = Len(v5) /\ v4.pc \in Waits
    /\ a.op = Len(v5) /\ v4.pc \in Engaged => Awaited(a)

\* What the operation that is under way has done to Live so far.
Done == {i \in DOMAIN v6 : v6[i].op = Len(v5)}
DoneNothing == v4.pc = "snapshot" \/ (v4.pc = "executing" /\ v4.answer # "applied")
DoneTwice == v4.pc \in Waits \ {"executing"} /\ v4.answer = "applied"
FirstDone(i) ==
    /\ v6[i].track = v4.base.track
    /\ v6[i].before = v4.base.level /\ v6[i].after = v4.target
VolumeDone ==
    /\ \A i \in DOMAIN v6 : v6[i].op \in DOMAIN v5
    /\ v4.pc \in Engaged =>
          /\ Len(v5) # 0 /\ v5[Len(v5)].outcome = "EXECUTING"
          /\ v5[Len(v5)].target = v4.target /\ v5[Len(v5)].shown = v4.shown
          /\ v4.pc # "snapshot" => v4.base.track = v4.shown.track
          /\ v4.pc = "verifying" => v4.answer = "applied"
          /\ IF DoneNothing THEN Done = {}
             ELSE IF DoneTwice
             THEN \E i, j \in DOMAIN v6 :
                    /\ i < j /\ Done = {i, j} /\ FirstDone(i)
                    /\ v6[j].after = v4.base.level /\ v6[j].track = v4.base.track
             ELSE \E i \in DOMAIN v6 : Done = {i} /\ FirstDone(i)

VolumeSent == SentOnce /\ \A a \in Pending : SentFor(a)
VolumeInv == VolumeTyped /\ VolumeSent /\ VolumeDone /\ Volume!OutcomesAreTrue

\* Nothing is tried, sent or recorded at the start.
LEMMA VolumeStarts == Volume!Init => VolumeInv
<1> SUFFICES ASSUME Volume!Init PROVE VolumeInv
  OBVIOUS
<1>1. /\ v1 \in [song : Nat, track : Tracks, levels : [Tracks -> Levels], enabled : BOOLEAN]
      /\ v2 = {} /\ v3 = <<>> /\ v4 = [pc |-> "idle"] /\ v5 = <<>> /\ v6 = <<>>
  <2>1. v1 \in [song : {1}, track : Tracks, levels : [Tracks -> Levels], enabled : {TRUE}]
    BY DEF Volume!Init
  <2>2. v1 \in [song : Nat, track : Tracks, levels : [Tracks -> Levels], enabled : BOOLEAN]
    <3>1. v1 = [song |-> v1.song, track |-> v1.track, levels |-> v1.levels,
                enabled |-> v1.enabled]
      BY <2>1
    <3>2. v1.track \in Tracks /\ v1.levels \in [Tracks -> Levels]
      BY <2>1
    <3>3. v1.song \in Nat
      BY <2>1
    <3>4. v1.enabled \in BOOLEAN
      BY <2>1
    <3> QED BY <3>1, <3>2, <3>3, <3>4
  <2> QED BY <2>2 DEF Volume!Init, Volume!Idle
<1> QED BY <1>1 DEF VolumeInv, VolumeTyped, VolumeSent, SentOnce, Pending, VolumeDone, Engaged,
                    Waits, Volume!OutcomesAreTrue

\* What the artist does in Live is no matter of the command's.
LEMMA VolumeTouched == VolumeInv /\ Volume!Touch => VolumeInv'
<1> SUFFICES ASSUME VolumeInv, Volume!Touch PROVE VolumeInv'
  OBVIOUS
<1>1. /\ v1 \in [song : Nat, track : Tracks, levels : [Tracks -> Levels], enabled : BOOLEAN]
      /\ UNCHANGED <<v2, v3, v4, v5, v6>>
  BY DEF Volume!Touch, VolumeInv, VolumeTyped
<1> DEFINE Lives == [song : Nat, track : Tracks, levels : [Tracks -> Levels], enabled : BOOLEAN]
<1>2. v1' \in Lives
  <2>1. CASE \E level \in Levels : v1' = [v1 EXCEPT !.levels[v1.track] = level]
    BY <1>1, <2>1
  <2>2. CASE \E track \in Tracks : v1' = [v1 EXCEPT !.track = track]
    BY <1>1, <2>2
  <2>3. CASE v1' = [v1 EXCEPT !.enabled = ~@]
    BY <1>1, <2>3
  <2>4. CASE \E track \in Tracks, levels \in [Tracks -> Levels] :
               v1' = [song |-> v1.song + 1, track |-> track, levels |-> levels, enabled |-> TRUE]
    BY <1>1, <2>4
  <2> QED BY <2>1, <2>2, <2>3, <2>4 DEF Volume!Touch
<1>3. VolumeTyped' /\ VolumeSent'
  BY <1>1, <1>2 DEF VolumeInv, VolumeTyped, VolumeSent, SentOnce, Pending, SentFor, Awaited
<1>4. VolumeDone' /\ Volume!OutcomesAreTrue'
  BY <1>1 DEF VolumeInv, VolumeDone, Done, DoneNothing, DoneTwice, FirstDone,
              Volume!OutcomesAreTrue, Volume!Of, Volume!ChangedOnce, Volume!ChangedBack
<1> QED BY <1>3, <1>4 DEF VolumeInv

\* A request's thread queues what was sent.
LEMMA VolumeArrives == ASSUME VolumeInv, NEW a \in v2, Volume!Arrive(a) PROVE VolumeInv'
<1>1. /\ v2 \subseteq VolumeActions /\ v3 \in Seq(VolumeActions) /\ a \in v2
      /\ v2' = v2 \ {a} /\ v3' = Append(v3, a) /\ UNCHANGED <<v1, v4, v5, v6>>
  BY DEF Volume!Arrive, VolumeInv, VolumeTyped
<1>2. VolumeTyped'
  BY <1>1 DEF VolumeInv, VolumeTyped
<1>3. /\ DOMAIN v3 = 1..Len(v3) /\ DOMAIN v3' = 1..(Len(v3) + 1) /\ Len(v3) \in Nat
      /\ v3'[Len(v3) + 1] = a /\ \A i \in DOMAIN v3 : v3'[i] = v3[i]
  BY <1>1
<1>4. SentOnce'
  BY <1>1, <1>3 DEF VolumeInv, VolumeSent, SentOnce
<1>5. Pending' = Pending
  BY <1>1, <1>3 DEF Pending
<1>6. (\A b \in Pending : SentFor(b))'
  BY <1>1, <1>5 DEF VolumeInv, VolumeSent, SentFor, Awaited
<1>7. VolumeDone' /\ Volume!OutcomesAreTrue'
  BY <1>1 DEF VolumeInv, VolumeDone, Done, DoneNothing, DoneTwice, FirstDone,
              Volume!OutcomesAreTrue, Volume!Of, Volume!ChangedOnce, Volume!ChangedBack
<1> QED BY <1>2, <1>4, <1>6, <1>7 DEF VolumeInv, VolumeSent

\* N0TEBridge: what is drained next may change Live, and only for an operation in doubt or under
\* way.
LEMMA VolumeDrains == VolumeInv /\ Volume!Drain => VolumeInv'
<1> SUFFICES ASSUME VolumeInv, Volume!Drain PROVE VolumeInv'
  OBVIOUS
<1> DEFINE a == Head(v3)
           effect == [op |-> a.op, kind |-> a.kind, song |-> v1.song, track |-> v1.track,
                      before |-> v1.levels[v1.track], after |-> a.desired]
           answer == IF Volume!Applies(a) THEN "applied" ELSE "refused"
<1>1. VolumeTyped /\ SentOnce /\ (\A b \in Pending : SentFor(b)) /\ VolumeDone
      /\ Volume!OutcomesAreTrue
  BY DEF VolumeInv, VolumeSent
<1>2. /\ v3 # <<>> /\ v3' = Tail(v3) /\ v2' = v2 /\ v5' = v5
      /\ IF Volume!Applies(a)
         THEN v1' = [v1 EXCEPT !.levels[v1.track] = a.desired] /\ v6' = Append(v6, effect)
         ELSE v1' = v1 /\ v6' = v6
      /\ v4' = IF a.heard THEN [v4 EXCEPT !.answer = answer] ELSE v4
  BY DEF Volume!Drain
<1>3. /\ v3 \in Seq(VolumeActions) /\ a = v3[1] /\ 1 \in DOMAIN v3 /\ a \in VolumeActions
      /\ v3' \in Seq(VolumeActions) /\ Len(v3) \in Nat /\ DOMAIN v3 = 1..Len(v3)
      /\ DOMAIN v3' = 1..(Len(v3) - 1) /\ \A i \in DOMAIN v3' : v3'[i] = v3[i + 1]
  BY <1>1, <1>2 DEF VolumeTyped
<1>4. a \in Pending /\ SentFor(a)
  BY <1>1, <1>3 DEF Pending
<1>5. Pending' \subseteq Pending /\ \A b \in Pending' : b.op # a.op
  BY <1>1, <1>2, <1>3 DEF Pending, SentOnce
<1>6. SentOnce'
  BY <1>1, <1>2, <1>3 DEF SentOnce
<1>7. /\ v1 \in [song : Nat, track : Tracks, levels : [Tracks -> Levels], enabled : BOOLEAN]
      /\ v4 \in {[pc |-> "idle"]} \cup Showing \cup Sending
      /\ v6 \in Seq(VolumeEffects)
  BY <1>1 DEF VolumeTyped
<1>8. effect \in VolumeEffects
  BY <1>3, <1>7 DEF VolumeActions, VolumeEffects
<1>9. a.heard => v4 \in Sending /\ v4.pc \in Waits /\ Awaited(a) /\ a.op = Len(v5)
  <2> SUFFICES ASSUME a.heard
               PROVE  v4 \in Sending /\ v4.pc \in Waits /\ Awaited(a) /\ a.op = Len(v5)
    OBVIOUS
  <2>1. a.op = Len(v5) /\ v4.pc \in Waits /\ Awaited(a)
    BY <1>4 DEF SentFor, Engaged
  <2>2. v4 \in Sending
    <3>1. v4.pc \notin {"idle", "shown", "snapshot"}
      BY <2>1 DEF Waits
    <3> QED BY <1>7, <3>1 DEF Showing
  <2> QED BY <2>1, <2>2
<1>10. v4' \in {[pc |-> "idle"]} \cup Showing \cup Sending /\ v4'.pc = v4.pc
       /\ (v4.pc \in Engaged => v4'.target = v4.target /\ v4'.shown = v4.shown)
       /\ (a.heard => v4'.answer = answer /\ v4'.base = v4.base)
  <2>1. CASE a.heard
    <3> HIDE DEF answer
    <3>1. answer \in {"applied", "refused"}
      BY DEF answer
    <3> QED BY <2>1, <1>2, <1>9, <3>1 DEF Sending
  <2>2. CASE ~a.heard
    BY <2>2, <1>2, <1>7
  <2> QED BY <2>1, <2>2
<1> HIDE DEF effect, answer, a
<1>11. VolumeTyped'
  <2>1. v1' \in [song : Nat, track : Tracks, levels : [Tracks -> Levels], enabled : BOOLEAN]
    <3>1. a.desired \in Levels
      BY <1>3 DEF VolumeActions
    <3>2. CASE Volume!Applies(a)
      <4>1. [v1.levels EXCEPT ![v1.track] = a.desired] \in [Tracks -> Levels]
        BY <1>7, <3>1
      <4>2. v1' = [v1 EXCEPT !.levels = [v1.levels EXCEPT ![v1.track] = a.desired]]
        BY <1>2, <1>7, <3>2
      <4> QED BY <1>7, <4>1, <4>2
    <3> QED BY <1>2, <1>7, <3>2
  <2>2. v6' \in Seq(VolumeEffects)
    <3>1. CASE Volume!Applies(a)
      BY <1>2, <1>7, <1>8, <3>1
    <3> QED BY <1>2, <1>7, <3>1
  <2> QED BY <1>1, <1>2, <1>3, <1>10, <2>1, <2>2 DEF VolumeTyped
<1>12. ASSUME NEW b \in Pending' PROVE SentFor(b)'
  <2>1. b.op # a.op /\ SentFor(b)
    BY <1>1, <1>5
  <2>2. a.heard => ~(b.op = Len(v5))
    BY <1>9, <2>1
  <2>3. v4.pc \in Waits => v4.pc \in Engaged
    BY DEF Engaged
  <2> QED BY <1>2, <1>10, <2>1, <2>2, <2>3 DEF SentFor, Awaited
<1>14. CASE ~Volume!Applies(a)
  <2>1. v6' = v6 /\ v5' = v5 /\ v4'.pc = v4.pc /\ (a.heard => v4'.answer = "refused")
    BY <1>2, <1>10, <1>14 DEF answer
  <2>2. Done' = Done
    BY <2>1 DEF Done
  <2>3. (a.heard => v4.answer = "none") /\ (~a.heard => v4' = v4)
    BY <1>2, <1>9 DEF Awaited
  <2>4. a.heard => v4'.base = v4.base
    BY <1>10
  <2>5. DoneNothing' = DoneNothing /\ DoneTwice' = DoneTwice
    BY <2>1, <2>3 DEF DoneNothing, DoneTwice
  <2>6. \A i : v4.pc \in Engaged => FirstDone(i)' = FirstDone(i)
    BY <1>10, <2>1, <2>3, <2>4 DEF FirstDone
  <2>7. VolumeDone'
    <3>1. v4.pc = "verifying" => v4' = v4
      BY <1>9, <2>3 DEF Waits
    <3> QED BY <1>1, <1>10, <2>1, <2>2, <2>3, <2>4, <2>5, <2>6, <3>1 DEF VolumeDone
  <2>8. Volume!OutcomesAreTrue'
    BY <1>1, <2>1 DEF Volume!OutcomesAreTrue, Volume!Of, Volume!ChangedOnce, Volume!ChangedBack
  <2> QED BY <1>6, <1>11, <1>12, <2>7, <2>8 DEF VolumeInv, VolumeSent
<1>15. CASE Volume!Applies(a)
  <2>0. PICK n : n = Len(v6) + 1
    OBVIOUS
  <2>1. /\ v6' = Append(v6, effect) /\ n \in Nat /\ DOMAIN v6 = 1..(n - 1) /\ DOMAIN v6' = 1..n
        /\ v6'[n] = effect /\ \A i \in DOMAIN v6 : v6'[i] = v6[i]
    <3>1. v6 \in Seq(VolumeEffects) /\ v6' = Append(v6, effect)
      BY <1>2, <1>7, <1>15
    <3>2. Len(v6) \in Nat /\ n \in Nat /\ n - 1 = Len(v6) /\ DOMAIN v6 = 1..Len(v6)
      BY <2>0, <3>1
    <3> QED BY <3>1, <3>2
  <2>2. /\ effect.op = a.op /\ effect.track = v1.track /\ effect.before = v1.levels[v1.track]
        /\ effect.after = a.desired
    BY DEF effect
  <2>3. a.track = v1.track /\ a.expected = v1.levels[v1.track]
    BY <1>15 DEF Volume!Applies
  <2>4. a.heard => v4'.answer = "applied" /\ v4.answer = "none" /\ v4'.base = v4.base
    BY <1>9, <1>10, <1>15 DEF answer, Awaited
  <2>5. ~a.heard => v4' = v4 /\ ~(a.op = Len(v5) /\ v4.pc \in Engaged)
    BY <1>2, <1>4 DEF SentFor, Awaited
  <2>6. Done' = IF a.op = Len(v5) THEN Done \cup {n} ELSE Done
    <3>1. n \notin DOMAIN v6 /\ DOMAIN v6' = DOMAIN v6 \cup {n}
      BY <2>1
    <3> QED BY <1>2, <2>1, <2>2, <3>1 DEF Done
  <2>7. ASSUME v4.pc \in Engaged PROVE VolumeDone'
    <3>1. /\ Len(v5)' # 0 /\ v5'[Len(v5')].outcome = "EXECUTING"
          /\ v5'[Len(v5')].target = v4'.target /\ v5'[Len(v5')].shown = v4'.shown
      BY <1>1, <1>2, <1>10, <2>7 DEF VolumeDone
    <3>2. \A i \in DOMAIN v6' : v6'[i].op \in DOMAIN v5'
      BY <1>1, <1>2, <1>4, <2>1, <2>2 DEF VolumeDone, SentFor
    <3>3. CASE ~a.heard
      <4>1. v4' = v4 /\ Done' = Done /\ v5' = v5
        BY <1>2, <2>5, <2>6, <2>7, <3>3
      <4>2. DoneNothing' = DoneNothing /\ DoneTwice' = DoneTwice
        BY <4>1 DEF DoneNothing, DoneTwice
      <4>3. \A i \in DOMAIN v6 : i \in DOMAIN v6' /\ FirstDone(i)' = FirstDone(i)
        BY <2>1, <4>1 DEF FirstDone
      <4> QED BY <1>1, <2>1, <2>7, <3>1, <3>2, <4>1, <4>2, <4>3 DEF VolumeDone
    <3>4. CASE a.heard /\ v4.pc = "executing"
      <4>1. DoneNothing /\ ~DoneNothing' /\ ~DoneTwice'
        BY <1>10, <2>4, <3>4 DEF DoneNothing, DoneTwice
      <4>2. Done' = {n}
        BY <1>1, <1>9, <2>6, <2>7, <3>4, <4>1 DEF VolumeDone
      <4>3. FirstDone(n)'
        BY <1>9, <1>10, <2>1, <2>2, <2>3, <2>4, <2>7, <3>4 DEF FirstDone, Awaited
      <4>4. v4'.pc = "executing" /\ v4'.base.track = v4'.shown.track
        BY <1>1, <1>10, <2>4, <2>7, <3>4 DEF VolumeDone
      <4>5. n \in DOMAIN v6'
        BY <2>1
      <4> QED BY <3>1, <3>2, <4>1, <4>2, <4>3, <4>4, <4>5 DEF VolumeDone
    <3>5. CASE a.heard /\ v4.pc # "executing"
      <4>1. v4.pc \in Waits \ {"executing"} /\ v4'.pc = v4.pc
        BY <1>9, <1>10, <3>5
      <4>2. ~DoneNothing /\ ~DoneTwice /\ ~DoneNothing' /\ DoneTwice'
        BY <2>4, <3>5, <4>1 DEF DoneNothing, DoneTwice, Waits
      <4>3. PICK i \in DOMAIN v6 : Done = {i} /\ FirstDone(i)
        BY <1>1, <2>7, <4>2 DEF VolumeDone
      <4>4. i \in DOMAIN v6' /\ n \in DOMAIN v6' /\ i < n /\ Done' = {i, n}
        BY <1>9, <2>1, <2>6, <3>5, <4>3
      <4>5. FirstDone(i)'
        BY <1>10, <2>1, <2>4, <2>7, <3>5, <4>3 DEF FirstDone
      <4>6. v6'[n].after = v4'.base.level /\ v6'[n].track = v4'.base.track
        BY <1>9, <2>1, <2>2, <2>3, <2>4, <3>5 DEF Awaited
      <4>7. v4'.base.track = v4'.shown.track /\ v4'.pc # "verifying"
        BY <1>1, <1>10, <2>4, <2>7, <3>5, <4>1 DEF VolumeDone, Waits
      <4> QED BY <3>1, <3>2, <4>2, <4>4, <4>5, <4>6, <4>7 DEF VolumeDone
    <3> QED BY <3>3, <3>4, <3>5
  <2>8. VolumeDone'
    <3>1. CASE v4.pc \notin Engaged
      BY <1>1, <1>2, <1>4, <1>10, <2>1, <2>2, <3>1 DEF VolumeDone, SentFor
    <3> QED BY <2>7, <3>1
  <2>9. ASSUME NEW op \in DOMAIN v5, v5[op].outcome \in {"FAILED", "SUCCEEDED"}
        PROVE  Volume!Of(op)' = Volume!Of(op) /\ Volume!Of(op) \subseteq DOMAIN v6
    <3>1. a.op # op
      BY <1>4, <2>9 DEF SentFor
    <3> QED BY <2>1, <2>2, <3>1 DEF Volume!Of
  <2>10. Volume!OutcomesAreTrue'
    <3>1. ASSUME NEW op \in DOMAIN v5, v5[op].outcome = "FAILED"
          PROVE  (Volume!Of(op) = {} \/ \E i, j \in DOMAIN v6 : Volume!ChangedBack(op, i, j))'
      <4>1. CASE Volume!Of(op) = {}
        BY <2>9, <3>1, <4>1
      <4>2. ASSUME NEW i \in DOMAIN v6, NEW j \in DOMAIN v6, Volume!ChangedBack(op, i, j)
            PROVE  i \in DOMAIN v6' /\ j \in DOMAIN v6' /\ Volume!ChangedBack(op, i, j)'
        BY <1>2, <2>1, <2>9, <3>1, <4>2 DEF Volume!ChangedBack
      <4> QED BY <1>1, <3>1, <4>1, <4>2 DEF Volume!OutcomesAreTrue
    <3>2. ASSUME NEW op \in DOMAIN v5, v5[op].outcome = "SUCCEEDED"
          PROVE  (\E i \in DOMAIN v6 : Volume!ChangedOnce(op, i))'
      <4>1. PICK i \in DOMAIN v6 : Volume!ChangedOnce(op, i)
        BY <1>1, <3>2 DEF Volume!OutcomesAreTrue
      <4>2. i \in DOMAIN v6' /\ Volume!ChangedOnce(op, i)'
        BY <1>2, <2>1, <2>9, <3>2, <4>1 DEF Volume!ChangedOnce
      <4> QED BY <4>2
    <3> QED BY <1>2, <3>1, <3>2 DEF Volume!OutcomesAreTrue
  <2> QED BY <1>6, <1>11, <1>12, <2>8, <2>10 DEF VolumeInv, VolumeSent
<1> QED BY <1>14, <1>15

\* While nothing is under way, what is shown or asked changes nothing else.
LEMMA VolumeShows ==
  ASSUME VolumeInv, v4.pc \notin Engaged, UNCHANGED <<v1, v2, v3, v5, v6>>,
         v4' \in {[pc |-> "idle"]} \cup Showing \cup Sending, v4'.pc \notin Engaged
  PROVE  VolumeInv'
<1>1. VolumeTyped'
  BY DEF VolumeInv, VolumeTyped
<1>2. SentOnce' /\ Pending' = Pending
  BY DEF VolumeInv, VolumeSent, SentOnce, Pending
<1>3. ASSUME NEW a \in Pending PROVE SentFor(a)'
  <2>1. SentFor(a) /\ ~a.heard
    BY <1>3 DEF VolumeInv, VolumeSent, SentFor, Engaged
  <2> QED BY <2>1 DEF SentFor
<1>4. VolumeDone'
  BY DEF VolumeInv, VolumeDone
<1>5. Volume!OutcomesAreTrue'
  BY DEF VolumeInv, Volume!OutcomesAreTrue, Volume!Of, Volume!ChangedOnce, Volume!ChangedBack
<1> QED BY <1>1, <1>2, <1>3, <1>4, <1>5 DEF VolumeInv, VolumeSent

\* What was sent and is not waited for any more stays where it is.
LEMMA VolumeForgets ==
  ASSUME VolumeTyped, SentOnce, Volume!GivesUp
  PROVE  /\ v2' \subseteq VolumeActions /\ v3' \in Seq(VolumeActions) /\ SentOnce'
         /\ \A b \in Pending' : ~b.heard /\ \E a \in Pending : a.op = b.op
<1>1. /\ v2' = {Volume!Forget(a) : a \in v2} /\ v3' = [i \in DOMAIN v3 |-> Volume!Forget(v3[i])]
      /\ v2 \subseteq VolumeActions /\ v3 \in Seq(VolumeActions)
  BY DEF Volume!GivesUp, VolumeTyped
<1>2. ASSUME NEW a \in VolumeActions
      PROVE  /\ Volume!Forget(a) \in VolumeActions
             /\ Volume!Forget(a).op = a.op /\ ~Volume!Forget(a).heard
  BY DEF Volume!Forget, VolumeActions
<1>3. /\ DOMAIN v3 = 1..Len(v3) /\ Len(v3) \in Nat /\ DOMAIN v3' = DOMAIN v3
      /\ \A i \in DOMAIN v3 : v3[i] \in VolumeActions /\ v3'[i] = Volume!Forget(v3[i])
  BY <1>1
<1> HIDE DEF Volume!Forget
<1>4. v2' \subseteq VolumeActions
  BY <1>1, <1>2
<1>5. v3' \in Seq(VolumeActions)
  BY <1>1, <1>2, <1>3
<1>6. SentOnce'
  BY <1>1, <1>2, <1>3 DEF SentOnce
<1>7. ASSUME NEW b \in Pending' PROVE ~b.heard /\ \E a \in Pending : a.op = b.op
  <2>1. CASE b \in v2'
    <3>1. PICK a \in v2 : b = Volume!Forget(a)
      BY <1>1, <2>1
    <3> QED BY <1>1, <1>2, <3>1 DEF Pending
  <2>2. CASE b \notin v2'
    <3>1. PICK i \in DOMAIN v3 : b = Volume!Forget(v3[i])
      BY <1>1, <1>3, <1>7, <2>2 DEF Pending
    <3> QED BY <1>2, <1>3, <3>1 DEF Pending
  <2> QED BY <2>1, <2>2
<1> QED BY <1>4, <1>5, <1>6, <1>7

\* What an outcome on record needs to be true.
TrueOf(op, outcome) ==
    /\ outcome = "FAILED" =>
          Volume!Of(op) = {} \/ \E i, j \in DOMAIN v6 : Volume!ChangedBack(op, i, j)
    /\ outcome = "SUCCEEDED" => \E i \in DOMAIN v6 : Volume!ChangedOnce(op, i)

\* The operation under way ends with an outcome that is true of it; only one in doubt may leave
\* something behind that was sent.
LEMMA VolumeEnds ==
  ASSUME VolumeInv, v4.pc \in Engaged, NEW outcome \in {"FAILED", "SUCCEEDED", "UNKNOWN"},
         v5' = [v5 EXCEPT ![Len(v5)].outcome = outcome], UNCHANGED <<v1, v6>>,
         v4' \in {[pc |-> "idle"]} \cup Showing \cup Sending, v4'.pc \notin Engaged,
         TrueOf(Len(v5), outcome),
         \/ Volume!GivesUp /\ outcome = "UNKNOWN"
         \/ UNCHANGED <<v2, v3>> /\ ~(v4.pc \in Waits /\ v4.answer = "none")
  PROVE  VolumeInv'
<1>1. /\ v5 \in Seq(VolumeOps) /\ DOMAIN v5 = 1..Len(v5) /\ Len(v5) \in Nat /\ Len(v5) # 0
      /\ Len(v5) \in DOMAIN v5 /\ v5[Len(v5)].outcome = "EXECUTING"
  BY DEF VolumeInv, VolumeTyped, VolumeDone
<1>2. /\ v5' \in Seq(VolumeOps) /\ Len(v5') = Len(v5) /\ DOMAIN v5' = DOMAIN v5
      /\ v5'[Len(v5)].outcome = outcome
      /\ v5'[Len(v5)].target = v5[Len(v5)].target /\ v5'[Len(v5)].shown = v5[Len(v5)].shown
      /\ \A op \in DOMAIN v5 : op # Len(v5) => v5'[op] = v5[op]
  <2>1. v5[Len(v5)] \in VolumeOps
    BY <1>1
  <2>2. [v5[Len(v5)] EXCEPT !.outcome = outcome] \in VolumeOps
    BY <2>1 DEF VolumeOps
  <2>3. v5' = [v5 EXCEPT ![Len(v5)] = [v5[Len(v5)] EXCEPT !.outcome = outcome]]
    BY <1>1
  <2>4. v5' \in Seq(VolumeOps) /\ Len(v5') = Len(v5) /\ DOMAIN v5' = DOMAIN v5
    BY <1>1, <2>2, <2>3
  <2> QED BY <1>1, <2>1, <2>3, <2>4 DEF VolumeOps
<1>3. /\ v2' \subseteq VolumeActions /\ v3' \in Seq(VolumeActions) /\ SentOnce'
      /\ \A b \in Pending' :
            /\ ~b.heard /\ b.op \in DOMAIN v5 /\ v5[b.op].outcome \in {"EXECUTING", "UNKNOWN"}
            /\ b.op = Len(v5) => outcome = "UNKNOWN"
  <2>1. CASE Volume!GivesUp /\ outcome = "UNKNOWN"
    <3>1. /\ v2' \subseteq VolumeActions /\ v3' \in Seq(VolumeActions) /\ SentOnce'
          /\ \A b \in Pending' : ~b.heard /\ \E a \in Pending : a.op = b.op
      BY <2>1, VolumeForgets DEF VolumeInv, VolumeSent
    <3>2. \A a \in Pending : a.op \in DOMAIN v5 /\ v5[a.op].outcome \in {"EXECUTING", "UNKNOWN"}
      BY DEF VolumeInv, VolumeSent, SentFor
    <3> QED BY <2>1, <3>1, <3>2
  <2>2. CASE UNCHANGED <<v2, v3>> /\ ~(v4.pc \in Waits /\ v4.answer = "none")
    <3>1. /\ v2' \subseteq VolumeActions /\ v3' \in Seq(VolumeActions) /\ SentOnce'
          /\ Pending' = Pending
      BY <2>2 DEF VolumeInv, VolumeTyped, VolumeSent, SentOnce, Pending
    <3>2. ASSUME NEW a \in Pending
          PROVE  /\ ~a.heard /\ a.op \in DOMAIN v5
                 /\ v5[a.op].outcome \in {"EXECUTING", "UNKNOWN"} /\ a.op # Len(v5)
      BY <2>2, <3>2 DEF VolumeInv, VolumeSent, SentFor, Awaited
    <3> QED BY <3>1, <3>2
  <2> QED BY <2>1, <2>2
<1>4. VolumeTyped'
  BY <1>2, <1>3 DEF VolumeInv, VolumeTyped
<1>5. ASSUME NEW b \in Pending' PROVE SentFor(b)'
  BY <1>1, <1>2, <1>3, <1>5 DEF SentFor
<1>6. VolumeDone'
  BY <1>2 DEF VolumeInv, VolumeDone
<1>7. ASSUME NEW op \in DOMAIN v5, NEW o, o = v5'[op].outcome PROVE TrueOf(op, o)'
  <2>1. TrueOf(op, o)
    <3>1. CASE op = Len(v5)
      BY <1>2, <1>7, <3>1
    <3>2. CASE op # Len(v5)
      BY <1>2, <1>7, <3>2 DEF VolumeInv, Volume!OutcomesAreTrue, TrueOf
    <3> QED BY <3>1, <3>2
  <2>2. \A i, j : /\ Volume!ChangedOnce(op, i) => Volume!ChangedOnce(op, i)'
                  /\ Volume!ChangedBack(op, i, j) => Volume!ChangedBack(op, i, j)'
    BY <1>2, <1>7 DEF Volume!ChangedOnce, Volume!ChangedBack, Volume!Of
  <2>3. Volume!Of(op)' = Volume!Of(op)
    BY DEF Volume!Of
  <2> QED BY <2>1, <2>2, <2>3 DEF TrueOf
<1>8. Volume!OutcomesAreTrue'
  <2>1. \A op \in DOMAIN v5 : \A o : o = v5'[op].outcome => TrueOf(op, o)'
    BY <1>7
  <2> QED BY <1>2, <2>1 DEF Volume!OutcomesAreTrue, TrueOf
<1> QED BY <1>3, <1>4, <1>5, <1>6, <1>8 DEF VolumeInv, VolumeSent

\* The driver sends the change, or sends it back.
LEMMA VolumeSends ==
  ASSUME VolumeInv, NEW kind \in {"apply", "undo"}, NEW base \in Sightings,
         NEW expected \in Levels, NEW desired \in Levels, NEW pc \in Waits,
         Volume!Sends(kind, base, expected, desired, pc), UNCHANGED <<v1, v3, v5, v6>>,
         base.track = v4.shown.track,
         \/ /\ v4.pc = "snapshot" /\ pc = "executing"
            /\ expected = base.level /\ desired = v4.target
         \/ /\ v4.pc = "verifying" /\ pc # "executing" /\ base = v4.base
            /\ expected = v4.target /\ desired = base.level
  PROVE  VolumeInv'
<1>0. PICK a :
        a = [op |-> Len(v5), kind |-> kind, song |-> base.song, track |-> base.track,
             expected |-> expected, desired |-> desired, heard |-> TRUE]
  OBVIOUS
<1>1. /\ v2' = v2 \cup {a}
      /\ v4' = [pc |-> pc, phase |-> v4.phase, shown |-> v4.shown, target |-> v4.target,
                base |-> base, answer |-> "none"]
  BY <1>0 DEF Volume!Sends, Volume!Op
<1>2. /\ VolumeTyped /\ SentOnce /\ (\A b \in Pending : SentFor(b)) /\ VolumeDone
      /\ Volume!OutcomesAreTrue /\ v4.pc \in Engaged /\ v4.pc \notin Waits
  BY DEF VolumeInv, VolumeSent, Engaged, Waits
<1>3. /\ v4.phase \in {"TRY", "RESTORE"} /\ v4.shown \in Sightings /\ v4.target \in Levels
      /\ v5 \in Seq(VolumeOps) /\ Len(v5) \in Nat /\ DOMAIN v5 = 1..Len(v5) /\ Len(v5) # 0
  <2>1. v4.pc # "idle"
    BY <1>2 DEF Engaged, Waits
  <2>2. v4 \in Showing \cup Sending
    BY <1>2, <2>1 DEF VolumeTyped
  <2> QED BY <1>2, <2>2 DEF VolumeTyped, Showing, Sending, VolumeDone
<1>4. a \in VolumeActions
  BY <1>0, <1>3 DEF VolumeActions, Sightings
<1>5. /\ a.op = Len(v5) /\ a.heard /\ a.track = base.track /\ a.expected = expected
      /\ a.desired = desired
  BY <1>0
<1>6. v4' \in Sending
  BY <1>1, <1>3 DEF Sending
<1>7. VolumeTyped'
  BY <1>1, <1>2, <1>4, <1>6 DEF VolumeTyped
<1>8. ASSUME NEW b \in Pending PROVE b.op # Len(v5) /\ ~b.heard
  BY <1>2, <1>8 DEF SentFor, Awaited
<1>9. SentOnce'
  BY <1>1, <1>2, <1>5, <1>8 DEF SentOnce, Pending
<1>10. Pending' = Pending \cup {a}
  BY <1>1 DEF Pending
<1>11. /\ v4'.pc = pc /\ v4'.answer = "none" /\ v4'.base = base /\ v4'.target = v4.target
       /\ v4'.shown = v4.shown
  BY <1>1
<1>12. ASSUME NEW b \in Pending PROVE SentFor(b)'
  BY <1>2, <1>8, <1>12 DEF SentFor
<1>13. SentFor(a)'
  <2>1. Awaited(a)'
    BY <1>5, <1>11 DEF Awaited, Waits
  <2> QED BY <1>2, <1>3, <1>5, <1>11, <2>1 DEF SentFor, VolumeDone
<1>14. VolumeDone'
  <2>1. Done' = Done
    BY DEF Done
  <2>2. CASE v4.pc = "snapshot"
    <3>1. DoneNothing /\ DoneNothing'
      BY <1>11, <2>2 DEF DoneNothing
    <3>2. Done' = {}
      BY <1>2, <2>1, <3>1 DEF VolumeDone
    <3> QED BY <1>2, <1>11, <2>2, <3>1, <3>2 DEF VolumeDone
  <2>3. CASE v4.pc = "verifying"
    <3>1. ~DoneNothing /\ ~DoneTwice /\ ~DoneNothing' /\ ~DoneTwice'
      BY <1>11, <2>3 DEF DoneNothing, DoneTwice, Waits
    <3>2. PICK i \in DOMAIN v6 : Done = {i} /\ FirstDone(i)
      BY <1>2, <3>1 DEF VolumeDone
    <3>3. Done' = {i} /\ FirstDone(i)'
      BY <1>11, <2>1, <2>3, <3>2 DEF FirstDone
    <3> QED BY <1>2, <1>11, <2>3, <3>1, <3>3 DEF VolumeDone, Waits
  <2> QED BY <2>2, <2>3
<1>15. Volume!OutcomesAreTrue'
  BY <1>2 DEF Volume!OutcomesAreTrue, Volume!Of, Volume!ChangedOnce, Volume!ChangedBack
<1> QED BY <1>7, <1>9, <1>10, <1>12, <1>13, <1>14, <1>15 DEF VolumeInv, VolumeSent

\* A try at a place has what it needs there.
LEMMA VolumeAt ==
  ASSUME VolumeInv
  PROVE  /\ v4.pc \in {"shown", "snapshot"} => v4 \in Showing
         /\ v4.pc \in Waits \cup {"verifying", "deciding"} => v4 \in Sending
         /\ v4.pc \in Engaged => v4.pc # "shown" /\ v4.pc # "idle" /\ v4.pc # "deciding"
         /\ Volume!Here.song \in Nat
         /\ Volume!Here.track \in Tracks
         /\ v1.track \in Tracks => Volume!Here \in Sightings
         /\ v1.track \in Tracks
<1>1. /\ v1 \in [song : Nat, track : Tracks, levels : [Tracks -> Levels], enabled : BOOLEAN]
      /\ v4 \in {[pc |-> "idle"]} \cup Showing \cup Sending
  BY DEF VolumeInv, VolumeTyped
<1>2. v4.pc \in {"shown", "snapshot"} => v4 \in Showing
  <2>1. v4.pc \in {"shown", "snapshot"} =>
           v4.pc \notin Waits \cup {"verifying", "deciding"} /\ v4.pc # "idle"
    BY DEF Waits
  <2>2. v4 \in Sending => v4.pc \in Waits \cup {"verifying", "deciding"}
    BY DEF Sending
  <2> QED BY <1>1, <2>1, <2>2
<1>3. v4.pc \in Waits \cup {"verifying", "deciding"} => v4 \in Sending
  <2>1. v4.pc \in Waits \cup {"verifying", "deciding"} => v4.pc \notin {"idle", "shown", "snapshot"}
    BY DEF Waits
  <2> QED BY <1>1, <2>1 DEF Showing
<1>4. v4.pc \in Engaged => v4.pc # "shown" /\ v4.pc # "idle" /\ v4.pc # "deciding"
  BY DEF Engaged, Waits
<1> QED BY <1>1, <1>2, <1>3, <1>4 DEF Volume!Here, Sightings

\* The artist asks for a level, is shown what there is, and confirms it or not.
LEMMA VolumeAsks ==
  ASSUME VolumeInv,
         \/ \E target \in Levels : Volume!Try(target)
         \/ Volume!Cancel \/ Volume!Restore
  PROVE  VolumeInv'
<1>1. [pc |-> "idle"] \in {[pc |-> "idle"]} \cup Showing \cup Sending
  OBVIOUS
<1>2. CASE \E target \in Levels : Volume!Try(target)
  <2>1. PICK target \in Levels : Volume!Try(target)
    BY <1>2
  <2>2. /\ v4.pc = "idle"
        /\ v4' = [pc |-> "shown", phase |-> "TRY", shown |-> Volume!Here, target |-> target]
        /\ UNCHANGED <<v1, v2, v3, v5, v6>>
    BY <2>1 DEF Volume!Try, Volume!liveVars
  <2>3. v4' \in Showing
    BY <2>2, VolumeAt DEF Showing
  <2> QED BY <2>2, <2>3, VolumeShows DEF Engaged, Waits
<1>3. CASE Volume!Cancel
  <2>1. /\ v4.pc \in {"shown", "deciding"} /\ v4' = [pc |-> "idle"]
        /\ UNCHANGED <<v1, v2, v3, v5, v6>>
    BY <1>3 DEF Volume!Cancel, Volume!liveVars, Volume!Idle
  <2> QED BY <1>1, <2>1, VolumeShows DEF Engaged, Waits
<1>4. CASE Volume!Restore
  <2>1. /\ v4.pc = "deciding" /\ UNCHANGED <<v1, v2, v3, v5, v6>>
        /\ \/ v4' = [pc |-> "shown", phase |-> "RESTORE", shown |-> Volume!Here,
                     target |-> v4.shown.level]
           \/ v4' = [pc |-> "idle"]
    BY <1>4 DEF Volume!Restore, Volume!liveVars, Volume!Idle
  <2>2. v4.shown.level \in Levels
    BY <2>1, VolumeAt DEF Sending, Sightings
  <2>3. CASE v4' = [pc |-> "idle"]
    BY <1>1, <2>1, <2>3, VolumeShows DEF Engaged, Waits
  <2>4. CASE v4' = [pc |-> "shown", phase |-> "RESTORE", shown |-> Volume!Here,
                    target |-> v4.shown.level]
    <3>1. v4' \in Showing
      BY <2>2, <2>4, VolumeAt DEF Showing
    <3> QED BY <2>1, <2>4, <3>1, VolumeShows DEF Engaged, Waits
  <2> QED BY <2>1, <2>3, <2>4
<1> QED BY <1>2, <1>3, <1>4

\* ableton.py: an operation begins with what was shown, and nothing was done for it yet.
LEMMA VolumeConfirms == VolumeInv /\ Volume!Confirm => VolumeInv'
<1> SUFFICES ASSUME VolumeInv, Volume!Confirm PROVE VolumeInv'
  OBVIOUS
<1>0. PICK op : op = [outcome |-> "EXECUTING", phase |-> v4.phase, shown |-> v4.shown,
                      target |-> v4.target]
  OBVIOUS
<1>1. /\ v4.pc = "shown" /\ v5' = Append(v5, op) /\ v4' = [v4 EXCEPT !.pc = "snapshot"]
      /\ UNCHANGED <<v1, v2, v3, v6>>
  BY <1>0 DEF Volume!Confirm, Volume!Goes, Volume!liveVars
<1>2. v4 \in Showing
  BY <1>1, VolumeAt
<1>3. op \in VolumeOps
  BY <1>0, <1>2 DEF Showing, VolumeOps
<1>4. /\ v4' \in Showing /\ v4'.pc = "snapshot" /\ v4'.target = v4.target
      /\ v4'.shown = v4.shown
  BY <1>1, <1>2 DEF Showing
<1>5. /\ v5 \in Seq(VolumeOps) /\ Len(v5) \in Nat /\ DOMAIN v5 = 1..Len(v5)
  BY DEF VolumeInv, VolumeTyped
<1>6. /\ v5' \in Seq(VolumeOps) /\ Len(v5') = Len(v5) + 1 /\ DOMAIN v5' = 1..(Len(v5) + 1)
      /\ v5'[Len(v5) + 1] = op /\ \A i \in DOMAIN v5 : v5'[i] = v5[i]
  BY <1>1, <1>3, <1>5
<1>7. VolumeTyped'
  BY <1>1, <1>4, <1>6 DEF VolumeInv, VolumeTyped
<1>8. SentOnce' /\ Pending' = Pending
  BY <1>1 DEF VolumeInv, VolumeSent, SentOnce, Pending
<1>9. ASSUME NEW a \in Pending PROVE SentFor(a)'
  <2>1. SentFor(a) /\ ~a.heard
    BY <1>1, <1>9 DEF VolumeInv, VolumeSent, SentFor, Engaged, Waits
  <2>2. a.op \in 1..Len(v5)
    BY <1>5, <2>1 DEF SentFor
  <2>3. a.op # Len(v5') /\ a.op \in DOMAIN v5'
    BY <1>5, <1>6, <2>2
  <2> QED BY <1>5, <1>6, <2>1, <2>2, <2>3 DEF SentFor
<1>10. \A i \in DOMAIN v6 : v6[i].op \in 1..Len(v5)
  BY <1>5 DEF VolumeInv, VolumeDone
<1>11. VolumeDone'
  <2>1. Done' = {}
    BY <1>1, <1>5, <1>6, <1>10 DEF Done
  <2>2. DoneNothing'
    BY <1>4 DEF DoneNothing
  <2>3. /\ op.outcome = "EXECUTING" /\ op.target = v4.target /\ op.shown = v4.shown
    BY <1>0
  <2> QED BY <1>1, <1>4, <1>5, <1>6, <1>10, <2>1, <2>2, <2>3 DEF VolumeDone
<1>12. Volume!OutcomesAreTrue'
  <2>1. ASSUME NEW o \in DOMAIN v5
        PROVE  /\ Volume!Of(o)' = Volume!Of(o) /\ v5'[o] = v5[o]
               /\ \A i, j : /\ Volume!ChangedOnce(o, i)' <=> Volume!ChangedOnce(o, i)
                            /\ Volume!ChangedBack(o, i, j)' <=> Volume!ChangedBack(o, i, j)
    BY <1>1, <1>6, <2>1 DEF Volume!Of, Volume!ChangedOnce, Volume!ChangedBack
  <2>2. v5'[Len(v5) + 1].outcome = "EXECUTING"
    BY <1>0, <1>6
  <2>3. \A o \in DOMAIN v5' : o \in DOMAIN v5 \/ o = Len(v5) + 1
    BY <1>5, <1>6
  <2> QED BY <1>1, <2>1, <2>2, <2>3 DEF VolumeInv, Volume!OutcomesAreTrue
<1> QED BY <1>7, <1>8, <1>9, <1>11, <1>12 DEF VolumeInv, VolumeSent

\* ableton.py: before anything is sent a failure leaves nothing; an answer that says so as well.
LEMMA VolumeFails ==
  ASSUME VolumeInv, Volume!Ends("FAILED"), UNCHANGED <<v1, v2, v3, v6>>,
         v4.pc = "snapshot" \/ (v4.pc = "executing" /\ v4.answer = "refused")
  PROVE  VolumeInv'
<1>1. /\ v5' = [v5 EXCEPT ![Len(v5)].outcome = "FAILED"] /\ v4' = [pc |-> "idle"]
  BY DEF Volume!Ends, Volume!Records, Volume!Op, Volume!Idle
<1>2. v4.pc \in Engaged /\ DoneNothing
  BY DEF Engaged, Waits, DoneNothing
<1>3. Done = {}
  BY <1>2 DEF VolumeInv, VolumeDone
<1>4. TrueOf(Len(v5), "FAILED")
  BY <1>3 DEF TrueOf, Done, Volume!Of
<1>5. v4'.pc \notin Engaged
  BY <1>1 DEF Engaged, Waits
<1>6. ~(v4.pc \in Waits /\ v4.answer = "none")
  BY DEF Waits
<1> QED BY <1>1, <1>2, <1>4, <1>5, <1>6, VolumeEnds

\* ableton.py, execute_action: what is sent is what was read for the operation just before.
LEMMA VolumeReads == VolumeInv /\ (Volume!Snapshot \/ Volume!SnapshotFails) => VolumeInv'
<1>1. ASSUME VolumeInv, Volume!SnapshotFails PROVE VolumeInv'
  BY <1>1, VolumeFails DEF Volume!SnapshotFails, Volume!liveVars
<1>2. ASSUME VolumeInv, Volume!Snapshot, ~(v1.track = v4.shown.track /\ v1.enabled)
      PROVE  VolumeInv'
  BY <1>2, VolumeFails DEF Volume!Snapshot, Volume!liveVars
<1>3. ASSUME VolumeInv, Volume!Snapshot, v1.track = v4.shown.track /\ v1.enabled
      PROVE  VolumeInv'
  <2>1. /\ v4.pc = "snapshot" /\ UNCHANGED <<v1, v3, v5, v6>>
        /\ Volume!Sends("apply", Volume!Here, Volume!Here.level, v4.target, "executing")
    BY <1>3 DEF Volume!Snapshot
  <2>2. Volume!Here \in Sightings /\ Volume!Here.track = v1.track
    BY <1>3, VolumeAt DEF Volume!Here
  <2>3. Volume!Here.level \in Levels
    BY <2>2 DEF Sightings
  <2>4. v4.target \in Levels
    BY <1>3, <2>1, VolumeAt DEF Showing
  <2> HIDE DEF Volume!Here, Volume!Sends
  <2>5. "executing" \in Waits
    BY DEF Waits
  <2> QED BY <1>3, <2>1, <2>2, <2>3, <2>4, <2>5, VolumeSends
<1> QED BY <1>1, <1>2, <1>3

\* ableton.py: an answer is heard, or not, and then the operation is in doubt.
LEMMA VolumeHears ==
  VolumeInv /\ (Volume!Executed \/ Volume!Unanswered \/ Volume!Crash) => VolumeInv'
<1>1. ASSUME VolumeInv, Volume!Executed PROVE VolumeInv'
  <2>1. v4.pc = "executing" /\ v4 \in Sending
    BY <1>1, VolumeAt DEF Volume!Executed, Waits
  <2>2. CASE v4.answer = "applied"
    <3>1. v4' = [v4 EXCEPT !.pc = "verifying"] /\ UNCHANGED <<v1, v2, v3, v5, v6>>
      BY <1>1, <2>2 DEF Volume!Executed, Volume!Goes, Volume!liveVars
    <3>2. /\ v4' \in Sending /\ v4'.pc = "verifying" /\ v4'.answer = "applied"
          /\ v4'.base = v4.base /\ v4'.target = v4.target /\ v4'.shown = v4.shown
      BY <2>1, <2>2, <3>1 DEF Sending
    <3>3. VolumeTyped'
      BY <1>1, <3>1, <3>2 DEF VolumeInv, VolumeTyped
    <3>4. SentOnce' /\ Pending' = Pending
      BY <1>1, <3>1 DEF VolumeInv, VolumeSent, SentOnce, Pending
    <3>5. v4.pc \in Engaged /\ v4.pc \in Waits
      BY <2>1 DEF Engaged, Waits
    <3>6. ASSUME NEW a \in Pending PROVE SentFor(a)'
      <4>1. SentFor(a) /\ a.op # Len(v5) /\ ~a.heard
        BY <1>1, <2>2, <3>5, <3>6 DEF VolumeInv, VolumeSent, SentFor, Awaited
      <4> QED BY <3>1, <4>1 DEF SentFor
    <3>7. ~DoneNothing /\ ~DoneTwice /\ ~DoneNothing' /\ ~DoneTwice'
      BY <2>1, <2>2, <3>2 DEF DoneNothing, DoneTwice, Waits
    <3>8. PICK i \in DOMAIN v6 : Done = {i} /\ FirstDone(i)
      BY <1>1, <3>5, <3>7 DEF VolumeInv, VolumeDone
    <3>9. Done' = {i} /\ FirstDone(i)'
      BY <3>1, <3>2, <3>8 DEF Done, FirstDone
    <3>10. VolumeDone'
      BY <1>1, <2>1, <3>1, <3>2, <3>5, <3>7, <3>9 DEF VolumeInv, VolumeDone
    <3>11. Volume!OutcomesAreTrue'
      BY <1>1, <3>1 DEF VolumeInv, Volume!OutcomesAreTrue, Volume!Of, Volume!ChangedOnce,
                        Volume!ChangedBack
    <3> QED BY <3>3, <3>4, <3>6, <3>10, <3>11 DEF VolumeInv, VolumeSent
  <2>3. CASE v4.answer = "refused"
    BY <1>1, <2>1, <2>3, VolumeFails DEF Volume!Executed, Volume!liveVars
  <2>4. v4.answer \in {"applied", "refused"}
    BY <1>1, <2>1 DEF Volume!Executed, Sending
  <2> QED BY <2>2, <2>3, <2>4
<1>2. ASSUME VolumeInv, Volume!Unanswered PROVE VolumeInv'
  <2>1. /\ v4.pc \in Engaged /\ v4' = [pc |-> "idle"] /\ UNCHANGED <<v1, v6>>
        /\ v5' = [v5 EXCEPT ![Len(v5)].outcome = "UNKNOWN"] /\ Volume!GivesUp
    BY <1>2 DEF Volume!Unanswered, Volume!UnansweredIs, Volume!Ends, Volume!Records, Volume!Op,
                Volume!Idle, Volume!GivesUp, Engaged, Waits
  <2>2. TrueOf(Len(v5), "UNKNOWN") /\ v4'.pc \notin Engaged
    BY <2>1 DEF TrueOf, Engaged, Waits
  <2> QED BY <1>2, <2>1, <2>2, VolumeEnds
<1>3. ASSUME VolumeInv, Volume!Crash PROVE VolumeInv'
  <2>1. /\ v4' = [pc |-> "idle"] /\ UNCHANGED <<v1, v5, v6>> /\ Volume!GivesUp
    BY <1>3 DEF Volume!Crash, Volume!Idle, Volume!GivesUp
  <2>2. /\ v2' \subseteq VolumeActions /\ v3' \in Seq(VolumeActions) /\ SentOnce'
        /\ \A b \in Pending' : ~b.heard /\ \E a \in Pending : a.op = b.op
    BY <1>3, <2>1, VolumeForgets DEF VolumeInv, VolumeSent
  <2>3. VolumeTyped'
    BY <1>3, <2>1, <2>2 DEF VolumeInv, VolumeTyped
  <2>4. v4'.pc \notin Engaged
    BY <2>1 DEF Engaged, Waits
  <2>5. ASSUME NEW b \in Pending' PROVE SentFor(b)'
    BY <1>3, <2>1, <2>2, <2>4 DEF VolumeInv, VolumeSent, SentFor
  <2>6. VolumeDone'
    BY <1>3, <2>1, <2>4 DEF VolumeInv, VolumeDone
  <2>7. Volume!OutcomesAreTrue'
    BY <1>3, <2>1 DEF VolumeInv, Volume!OutcomesAreTrue, Volume!Of, Volume!ChangedOnce,
                      Volume!ChangedBack
  <2> QED BY <2>2, <2>3, <2>5, <2>6, <2>7 DEF VolumeInv, VolumeSent
<1> QED BY <1>1, <1>2, <1>3

\* ableton.py, verify_action: a level that reads as approved was set once; any other is sent back.
LEMMA VolumeVerifies == VolumeInv /\ (Volume!Verify \/ Volume!VerifyFails) => VolumeInv'
<1>1. ASSUME VolumeInv, v4.pc = "verifying"
      PROVE  /\ v4 \in Sending /\ v4.base \in Sightings /\ v4.target \in Levels
             /\ v4.base.level \in Levels /\ v4.base.track = v4.shown.track
             /\ v4.pc \in Engaged /\ v4.answer = "applied"
             /\ \E i \in DOMAIN v6 : Done = {i} /\ FirstDone(i)
  <2>1. v4 \in Sending /\ v4.pc \in Engaged
    BY <1>1, VolumeAt DEF Engaged
  <2>2. ~DoneNothing /\ ~DoneTwice
    BY <1>1 DEF DoneNothing, DoneTwice, Waits
  <2> QED BY <1>1, <2>1, <2>2 DEF VolumeInv, VolumeDone, Sending, Sightings
<1>2. ASSUME VolumeInv, v4.pc = "verifying", UNCHANGED <<v1, v3, v5, v6>>,
             NEW pc \in {"compensating", "compensating in doubt"},
             Volume!Sends("undo", v4.base, v4.target, v4.base.level, pc)
      PROVE  VolumeInv'
  <2>1. pc \in Waits /\ pc # "executing"
    BY <1>2 DEF Waits
  <2> HIDE DEF Volume!Sends
  <2> QED BY <1>1, <1>2, <2>1, VolumeSends
<1>3. ASSUME VolumeInv, Volume!VerifyFails PROVE VolumeInv'
  BY <1>2, <1>3 DEF Volume!VerifyFails
<1>4. ASSUME VolumeInv, Volume!Verify,
             ~Volume!Is(v4.base.song, v4.base.track, v4.target)
      PROVE  VolumeInv'
  <2>1. PICK pc \in {"compensating", "compensating in doubt"} :
          Volume!Sends("undo", v4.base, v4.target, v4.base.level, pc)
    BY <1>4 DEF Volume!Verify
  <2>2. v4.pc = "verifying" /\ UNCHANGED <<v1, v3, v5, v6>>
    BY <1>4 DEF Volume!Verify
  <2> QED BY <1>2, <1>4, <2>1, <2>2
<1>5. ASSUME VolumeInv, Volume!Verify, Volume!Is(v4.base.song, v4.base.track, v4.target)
      PROVE  VolumeInv'
  <2>1. /\ v4.pc = "verifying" /\ UNCHANGED <<v1, v2, v3, v6>>
        /\ v5' = [v5 EXCEPT ![Len(v5)].outcome = "SUCCEEDED"]
        /\ v4' = IF v4.phase = "TRY" THEN [v4 EXCEPT !.pc = "deciding"] ELSE [pc |-> "idle"]
    BY <1>5 DEF Volume!Verify, Volume!Records, Volume!Op, Volume!Goes, Volume!Idle,
                Volume!liveVars
  <2>2. v4' \in {[pc |-> "idle"]} \cup Showing \cup Sending /\ v4'.pc \in {"deciding", "idle"}
    <3>1. v4 \in Sending
      BY <1>1, <1>5, <2>1
    <3>2. [v4 EXCEPT !.pc = "deciding"] \in Sending /\ [v4 EXCEPT !.pc = "deciding"].pc = "deciding"
      BY <3>1 DEF Sending
    <3> QED BY <2>1, <3>2
  <2>3. v4'.pc \notin Engaged /\ v4.pc \notin Waits
    BY <2>1, <2>2 DEF Engaged, Waits
  <2>4. PICK i \in DOMAIN v6 : Done = {i} /\ FirstDone(i)
    BY <1>1, <1>5, <2>1
  <2>5. Volume!ChangedOnce(Len(v5), i)
    BY <1>1, <1>5, <2>1, <2>4
       DEF VolumeInv, VolumeDone, Done, FirstDone, Volume!ChangedOnce, Volume!Of
  <2>6. TrueOf(Len(v5), "SUCCEEDED")
    BY <2>5 DEF TrueOf
  <2> QED BY <1>1, <1>5, <2>1, <2>2, <2>3, <2>6, VolumeEnds
<1>6. Volume!Verify => v4.pc = "verifying"
  BY DEF Volume!Verify
<1> QED BY <1>3, <1>4, <1>5

\* ableton.py, compensate_action: what reads as before again was changed and changed back.
LEMMA VolumeCompensates == VolumeInv /\ Volume!Compensated => VolumeInv'
<1> SUFFICES ASSUME VolumeInv, Volume!Compensated PROVE VolumeInv'
  OBVIOUS
<1>0. PICK outcome : outcome = IF Volume!Restored(v4.pc) THEN "FAILED" ELSE "UNKNOWN"
  OBVIOUS
<1>1. /\ v4.pc \in {"compensating", "compensating in doubt"} /\ v4.answer # "none"
      /\ UNCHANGED <<v1, v2, v3, v6>> /\ v4' = [pc |-> "idle"]
      /\ v5' = [v5 EXCEPT ![Len(v5)].outcome = outcome]
  BY <1>0 DEF Volume!Compensated, Volume!Ends, Volume!Records, Volume!Op, Volume!Idle,
              Volume!liveVars
<1>2. v4.pc \in Engaged /\ v4'.pc \notin Engaged
  BY <1>1 DEF Engaged, Waits
<1>3. TrueOf(Len(v5), outcome)
  <2>1. CASE Volume!Restored(v4.pc)
    <3>1. ~DoneNothing /\ DoneTwice
      BY <1>1, <2>1 DEF DoneNothing, DoneTwice, Waits, Volume!Restored
    <3>2. PICK i, j \in DOMAIN v6 :
            /\ i < j /\ Done = {i, j} /\ FirstDone(i)
            /\ v6[j].after = v4.base.level /\ v6[j].track = v4.base.track
      BY <1>2, <3>1 DEF VolumeInv, VolumeDone
    <3>3. Volume!ChangedBack(Len(v5), i, j)
      BY <3>2 DEF Done, FirstDone, Volume!ChangedBack, Volume!Of
    <3> QED BY <1>0, <2>1, <3>3 DEF TrueOf
  <2>2. CASE ~Volume!Restored(v4.pc)
    BY <1>0, <2>2 DEF TrueOf
  <2> QED BY <2>1, <2>2
<1> HIDE DEF Volume!Restored
<1>4. outcome \in {"FAILED", "UNKNOWN"}
  BY <1>0
<1> QED BY <1>1, <1>2, <1>3, <1>4, VolumeEnds

\* ableton.py and N0TEBridge: so every step keeps it.
LEMMA VolumeKeeps == VolumeInv /\ [Volume!Next]_(Volume!vars) => VolumeInv'
<1> SUFFICES ASSUME VolumeInv, [Volume!Next]_(Volume!vars) PROVE VolumeInv'
  OBVIOUS
<1>1. CASE Volume!Next
  BY <1>1, VolumeTouched, VolumeDrains, VolumeArrives, VolumeAsks, VolumeConfirms, VolumeReads,
     VolumeHears, VolumeVerifies, VolumeCompensates DEF Volume!Next
<1>2. CASE UNCHANGED Volume!vars
  <2>1. UNCHANGED <<v1, v2, v3, v4, v5, v6>>
    BY <1>2 DEF Volume!vars
  <2>2. VolumeTyped' /\ VolumeSent'
    BY <2>1 DEF VolumeInv, VolumeTyped, VolumeSent, SentOnce, Pending, SentFor, Awaited
  <2>3. VolumeDone' /\ Volume!OutcomesAreTrue'
    BY <2>1 DEF VolumeInv, VolumeDone, Done, DoneNothing, DoneTwice, FirstDone,
                Volume!OutcomesAreTrue, Volume!Of, Volume!ChangedOnce, Volume!ChangedBack
  <2> QED BY <2>2, <2>3 DEF VolumeInv
<1> QED BY <1>1, <1>2

\* N0TEBridge: what a step does to Live is done for an operation that is under way or in doubt.
LEMMA VolumeActsInDoubt == VolumeInv /\ [Volume!Next]_(Volume!vars) => Volume!LateIsInDoubt
<1> SUFFICES ASSUME VolumeInv, [Volume!Next]_(Volume!vars), NEW i \in DOMAIN v6' \ DOMAIN v6
             PROVE  v5[v6'[i].op].outcome \in {"EXECUTING", "UNKNOWN"}
  BY DEF Volume!LateIsInDoubt
<1>1. v6' # v6
  OBVIOUS
<1>2. Volume!Drain
  BY <1>1 DEF Volume!Next, Volume!vars, Volume!Touch, Volume!Arrive, Volume!Try, Volume!Confirm,
              Volume!Cancel, Volume!Snapshot, Volume!SnapshotFails, Volume!Executed,
              Volume!Unanswered, Volume!Verify, Volume!VerifyFails, Volume!Compensated,
              Volume!Restore, Volume!Crash, Volume!GivesUp, Volume!liveVars
<1>3. v3 \in Seq(VolumeActions) /\ v6 \in Seq(VolumeEffects) /\ v3 # <<>>
  BY <1>2 DEF VolumeInv, VolumeTyped, Volume!Drain
<1>4. Head(v3) \in Pending /\ SentFor(Head(v3))
  BY <1>3 DEF Pending, VolumeInv, VolumeSent
<1>5. PICK e : v6' = Append(v6, e) /\ e.op = Head(v3).op
  BY <1>1, <1>2 DEF Volume!Drain
<1>6. v6'[i] = e
  BY <1>3, <1>5
<1> QED BY <1>4, <1>5, <1>6 DEF SentFor
-----------------------------------------------------------------------------
(* An approved plan becomes a transaction.                                 *)

Outcomes == {"PREPARED", "EXECUTING", "SUCCEEDED", "FAILED", "UNKNOWN"}
PlansTyped ==
    /\ planVersionOf \in [PlanVersions -> PlanSongs \cup {None}]
    /\ planCurrent \in [PlanSongs -> PlanVersions \cup {None}]
    /\ planApproved \in [PlanSongs -> PlanVersions \cup {None}]
    /\ Plans!LineageTypeOK
    /\ activeSong \in PlanSongs \cup {None} /\ seen \in 0..MaxSeen
    /\ ops \in [Keys -> {Plans!Absent} \cup
                        [plan : Plans!Plans, target : PlanVersions \cup {None}, state : Outcomes]]
    /\ registered \subseteq Keys
    /\ call \in {Plans!Idle} \cup [at : {"claim", "bind", "running"}, key : Keys]

Taken(k) == k \in Keys /\ ops[k] # Plans!Absent
\* A call that has its key is for the Version that is current ...
CallsAreCurrent ==
    /\ call.at # "idle" => Taken(call.key)
    /\ call.at \in {"claim", "bind"} =>
          ops[call.key].target = planCurrent[ops[call.key].plan.song]
    /\ call.at = "running" => \E a \in acted : a.key = call.key
\* ... a witness says what was recorded under its key ...
WitnessesAreTrue ==
    \A w \in witness :
        /\ Taken(w.key) /\ w.plan = ops[w.key].plan
        /\ w.target = ops[w.key].target /\ w.expected = w.target
\* ... and whatever ran was registered, of a key that was taken.
ActedIsRegistered == \A a \in acted : Taken(a.key) /\ a.key \in registered

PlansInv ==
    /\ PlansTyped /\ CallsAreCurrent /\ WitnessesAreTrue /\ ActedIsRegistered
    /\ Plans!RunsWhatWasPrepared

PlansMove == [Plans!TxNext]_planVars

\* Nothing is prepared at the start ...
LEMMA PlansStart == Plans!TxInit => PlansInv
<1> SUFFICES ASSUME Plans!TxInit PROVE PlansInv
  OBVIOUS
<1>1. PlansTyped
  <2>1. 0 \in 0..MaxSeen
    BY BoundOfSeen
  <2> QED BY <2>1 DEF PlansTyped, Plans!TxInit, Plans!LineageInit, Plans!LineageTypeOK,
                      Plans!Idle, Plans!Absent
<1> QED BY <1>1 DEF PlansInv, Plans!TxInit, CallsAreCurrent, WitnessesAreTrue, ActedIsRegistered,
           Plans!RunsWhatWasPrepared, Plans!Idle, Plans!Absent

\* A Version is made, taken up or approved while no call is under way.
LEMMA PlansLineage ==
  ASSUME PlansTyped, Plans!LineageNext
  PROVE  /\ planVersionOf' \in [PlanVersions -> PlanSongs \cup {None}]
         /\ planCurrent' \in [PlanSongs -> PlanVersions \cup {None}]
         /\ planApproved' \in [PlanSongs -> PlanVersions \cup {None}]
         /\ (Plans!LineageTypeOK)'
<1>1. PICK song \in PlanSongs, v \in PlanVersions :
         \/ \E makeCurrent \in BOOLEAN : Plans!Create_version(song, v, makeCurrent)
         \/ Plans!Set_current_version(song, v)
         \/ Plans!Approve_version(song, v)
  BY DEF Plans!LineageNext
<1> USE NoneIsNoSong DEF PlansTyped, Plans!LineageTypeOK, Plans!VersionsOf
<1>2. CASE \E makeCurrent \in BOOLEAN : Plans!Create_version(song, v, makeCurrent)
  BY <1>2 DEF Plans!Create_version
<1>3. CASE Plans!Set_current_version(song, v)
  BY <1>3 DEF Plans!Set_current_version
<1>4. CASE Plans!Approve_version(song, v)
  BY <1>4 DEF Plans!Approve_version
<1> QED BY <1>1, <1>2, <1>3, <1>4

\* An operation that goes on keeps its plan and its target.
LEMMA PlansGoOn ==
  ASSUME PlansInv, NEW k \in Keys, Taken(k), NEW state \in Outcomes,
         ops' = [ops EXCEPT ![k].state = state]
  PROVE  /\ ops' \in [Keys -> {Plans!Absent} \cup
                        [plan : Plans!Plans, target : PlanVersions \cup {None}, state : Outcomes]]
         /\ \A l \in Keys : l # k => ops'[l] = ops[l]
         /\ ops'[k].state = state
         /\ \A l \in Keys : Taken(l) =>
               ops'[l].plan = ops[l].plan /\ ops'[l].target = ops[l].target /\ Taken(l)'
         /\ witness' = witness => WitnessesAreTrue'
         /\ UNCHANGED <<acted, registered>> => ActedIsRegistered'
<1>1. /\ ops' \in [Keys -> {Plans!Absent} \cup
                        [plan : Plans!Plans, target : PlanVersions \cup {None}, state : Outcomes]]
      /\ \A l \in Keys : l # k => ops'[l] = ops[l]
      /\ ops'[k].state = state
      /\ \A l \in Keys : Taken(l) =>
            ops'[l].plan = ops[l].plan /\ ops'[l].target = ops[l].target /\ Taken(l)'
  BY DEF PlansInv, PlansTyped, Taken, Outcomes, Plans!Absent
<1>2. witness' = witness => WitnessesAreTrue'
  <2> SUFFICES ASSUME witness' = witness, NEW w \in witness
               PROVE  /\ Taken(w.key)' /\ w.plan = ops'[w.key].plan
                      /\ w.target = ops'[w.key].target /\ w.expected = w.target
    BY DEF WitnessesAreTrue
  <2>1. /\ w.key \in Keys /\ Taken(w.key) /\ w.plan = ops[w.key].plan
        /\ w.target = ops[w.key].target /\ w.expected = w.target
    BY DEF PlansInv, WitnessesAreTrue, Taken
  <2> QED BY <1>1, <2>1
<1>3. UNCHANGED <<acted, registered>> => ActedIsRegistered'
  BY <1>1 DEF PlansInv, ActedIsRegistered, Taken
<1> QED BY <1>1, <1>2, <1>3

\* ... every step of a plan, of the desk beside it and of a call keeps that ...
LEMMA PlansStep ==
  ASSUME PlansInv, Plans!TxNext
  PROVE  PlansInv'
<1> USE DEF PlansInv
<1>1. CASE Plans!Works
  <2>1. call.at = "idle" /\ UNCHANGED <<ops, call, witness, registered, acted>>
    BY <1>1 DEF Plans!Works, Plans!At, Plans!txVars
  <2>2. PlansTyped'
    <3>1. CASE Plans!LineageNext /\ UNCHANGED <<activeSong, seen>>
      BY <2>1, <3>1, PlansLineage DEF PlansTyped
    <3>2. CASE /\ activeSong' \in PlanSongs
               /\ UNCHANGED <<planVersionOf, planCurrent, planApproved, seen>>
      BY <2>1, <3>2 DEF PlansTyped, Plans!LineageTypeOK, Plans!VersionsOf
    <3>3. CASE seen < MaxSeen /\ seen' = seen + 1
               /\ UNCHANGED <<planVersionOf, planCurrent, planApproved, activeSong>>
      <4>1. seen' \in 0..MaxSeen
        BY <3>3, BoundOfSeen DEF PlansTyped
      <4> QED BY <2>1, <3>3, <4>1 DEF PlansTyped, Plans!LineageTypeOK, Plans!VersionsOf
    <3> QED BY <1>1, <3>1, <3>2, <3>3 DEF Plans!Works, Plans!lineage
  <2> QED BY <2>1, <2>2 DEF CallsAreCurrent, WitnessesAreTrue, ActedIsRegistered, Taken,
             Plans!RunsWhatWasPrepared
<1>2. ASSUME NEW k \in Keys, NEW plan \in Plans!Plans, Plans!Prepare(k, plan)
      PROVE  PlansInv'
  <2>1. /\ UNCHANGED <<planVersionOf, planCurrent, planApproved, activeSong, seen, witness,
                       registered, acted>>
        /\ call' = [at |-> "claim", key |-> k]
    BY <1>2 DEF Plans!Prepare, Plans!songVars, Plans!lineage
  <2>2. planCurrent[plan.song] \in PlanVersions \cup {None}
    BY DEF PlansTyped, Plans!Plans
  <2>3. CASE ops[k] = Plans!Absent
    <3>1. ops' = [ops EXCEPT ![k] =
                     [plan |-> plan, target |-> planCurrent[plan.song], state |-> "PREPARED"]]
      BY <1>2, <2>3 DEF Plans!Prepare
    <3>2. /\ ops'[k] = [plan |-> plan, target |-> planCurrent[plan.song], state |-> "PREPARED"]
          /\ \A l \in Keys : l # k => ops'[l] = ops[l]
          /\ ops'[k] # Plans!Absent
      BY <3>1 DEF PlansTyped, Plans!Absent
    <3>3. PlansTyped'
      BY <2>1, <2>2, <3>1 DEF PlansTyped, Plans!LineageTypeOK, Plans!VersionsOf, Outcomes
    <3>4. CallsAreCurrent' /\ WitnessesAreTrue' /\ ActedIsRegistered'
      BY <2>1, <2>3, <3>2 DEF CallsAreCurrent, WitnessesAreTrue, ActedIsRegistered, Taken
    <3>5. (Plans!RunsWhatWasPrepared)'
      BY <2>1, <2>3, <3>2 DEF ActedIsRegistered, Taken, Plans!RunsWhatWasPrepared
    <3> QED BY <3>3, <3>4, <3>5
  <2>4. CASE ops[k] # Plans!Absent
    <3>1. UNCHANGED ops /\ ops[k].plan = plan /\ ops[k].target = planCurrent[plan.song]
      BY <1>2, <2>4 DEF Plans!Prepare
    <3> QED BY <2>1, <2>4, <3>1 DEF PlansTyped, Plans!LineageTypeOK, Plans!VersionsOf,
               CallsAreCurrent, WitnessesAreTrue, ActedIsRegistered, Taken,
               Plans!RunsWhatWasPrepared
  <2> QED BY <2>3, <2>4
<1>3. CASE Plans!ClaimExecution
  <2>1. /\ UNCHANGED <<planVersionOf, planCurrent, planApproved, activeSong, seen, witness,
                       registered, acted>>
        /\ call.at = "claim" /\ call.key \in Keys /\ Taken(call.key)
    BY <1>3 DEF Plans!ClaimExecution, Plans!songVars, Plans!lineage, Plans!At, CallsAreCurrent,
       Taken
  <2>2. CASE ops[call.key].state = "PREPARED"
    <3>1. ops' = [ops EXCEPT ![call.key].state = "EXECUTING"] /\ call' = [call EXCEPT !.at = "bind"]
      BY <1>3, <2>2 DEF Plans!ClaimExecution
    <3>2. call \in [at : {"claim", "bind", "running"}, key : Keys]
      BY <2>1 DEF PlansTyped, Plans!Idle
    <3>3. call' = [at |-> "bind", key |-> call.key]
      BY <3>1, <3>2
    <3>4. PlansTyped'
      BY <2>1, <3>1, <3>3, PlansGoOn DEF PlansTyped, Plans!LineageTypeOK, Plans!VersionsOf, Outcomes
    <3>5. CallsAreCurrent' /\ WitnessesAreTrue' /\ ActedIsRegistered'
      <4>1. CallsAreCurrent'
        <5>1. call'.at = "bind" /\ call'.key = call.key
          BY <3>3
        <5>2. /\ Taken(call.key)' /\ ops'[call.key].target = ops[call.key].target
              /\ ops'[call.key].plan = ops[call.key].plan
          <6>1. "EXECUTING" \in Outcomes
            BY DEF Outcomes
          <6>2. \A l \in Keys : Taken(l) =>
                   ops'[l].plan = ops[l].plan /\ ops'[l].target = ops[l].target /\ Taken(l)'
            BY <2>1, <3>1, <6>1, PlansGoOn
          <6> QED BY <2>1, <5>1, <6>2
        <5>3. ops[call.key].target = planCurrent[ops[call.key].plan.song]
          BY <2>1 DEF CallsAreCurrent
        <5> QED BY <2>1, <5>1, <5>2, <5>3 DEF CallsAreCurrent
      <4>2. WitnessesAreTrue'
        BY <2>1, <3>1, PlansGoOn DEF Outcomes
      <4>3. ActedIsRegistered'
        BY <2>1, <3>1, PlansGoOn DEF Outcomes
      <4> QED BY <4>1, <4>2, <4>3
    <3>6. (Plans!RunsWhatWasPrepared)'
      BY <2>1, <3>1, PlansGoOn DEF ActedIsRegistered, Taken, Outcomes, Plans!RunsWhatWasPrepared
    <3> QED BY <3>4, <3>5, <3>6
  <2>3. CASE ops[call.key].state # "PREPARED"
    <3>1. UNCHANGED ops /\ call' = [at |-> "idle"]
      BY <1>3, <2>3 DEF Plans!ClaimExecution, Plans!Idle
    <3> QED BY <2>1, <3>1 DEF PlansTyped, Plans!LineageTypeOK, Plans!VersionsOf, Plans!Idle,
               CallsAreCurrent, WitnessesAreTrue, ActedIsRegistered, Taken,
               Plans!RunsWhatWasPrepared
  <2> QED BY <2>2, <2>3
<1>4. CASE Plans!Bind
  <2>1. /\ UNCHANGED <<planVersionOf, planCurrent, planApproved, activeSong, seen, ops,
                       registered, acted>>
        /\ call.at = "bind" /\ call' = [at |-> "idle"] /\ Taken(call.key)
        /\ witness' = witness \cup
              {[key |-> call.key, plan |-> ops[call.key].plan, target |-> ops[call.key].target,
                expected |-> planCurrent[ops[call.key].plan.song]]}
    BY <1>4 DEF Plans!Bind, Plans!songVars, Plans!lineage, Plans!At, Plans!Idle, CallsAreCurrent
  <2>2. PlansTyped' /\ CallsAreCurrent' /\ ActedIsRegistered' /\ (Plans!RunsWhatWasPrepared)'
    BY <2>1 DEF PlansTyped, Plans!LineageTypeOK, Plans!VersionsOf, Plans!Idle,
       CallsAreCurrent, ActedIsRegistered, Taken, Plans!RunsWhatWasPrepared
  <2>3. WitnessesAreTrue'
    BY <2>1 DEF WitnessesAreTrue, CallsAreCurrent, Taken
  <2> QED BY <2>2, <2>3
<1>5. ASSUME NEW w \in witness, Plans!Run(w)
      PROVE  PlansInv'
  <2>1. /\ UNCHANGED <<planVersionOf, planCurrent, planApproved, activeSong, seen, ops, witness>>
        /\ call' = [at |-> "running", key |-> w.key]
        /\ registered' = registered \cup {w.key} /\ w.key \notin registered
        /\ w.plan.song = activeSong /\ w.plan.seen = seen
        /\ planCurrent[w.plan.song] = w.expected
    BY <1>5 DEF Plans!Run, Plans!Valid, Plans!Current, Plans!songVars, Plans!lineage
  <2>2. Taken(w.key) /\ w.plan = ops[w.key].plan /\ w.expected = ops[w.key].target
    BY DEF WitnessesAreTrue
  <2>3. {a \in acted : a.key = w.key} = {}
    BY <2>1 DEF ActedIsRegistered
  <2>4. Plans!Cardinality({a \in acted : a.key = w.key}) + 1 = 1
    <3>1. Plans!Cardinality({}) = Cardinality({})
      BY DEF Cardinality, Plans!Cardinality
    <3>2. Cardinality({}) = 0
      BY FS_EmptySet
    <3>3. Plans!Cardinality({a \in acted : a.key = w.key}) = 0
      BY <2>3, <3>1, <3>2
    <3> QED BY <3>3
  <2>5. acted' = acted \cup
           {[key |-> w.key, song |-> activeSong, current |-> planCurrent[w.plan.song],
             seen |-> seen, nth |-> 1]}
    BY <1>5, <2>4 DEF Plans!Run
  <2>6. PlansTyped'
    BY <2>1, <2>2 DEF PlansTyped, Plans!LineageTypeOK, Plans!VersionsOf, Taken
  <2>7. CallsAreCurrent' /\ WitnessesAreTrue' /\ ActedIsRegistered'
    <3>1. CallsAreCurrent'
      <4>1. call'.at = "running" /\ call'.key = w.key
        BY <2>1
      <4>2. \E a \in acted' : a.key = w.key
        <5>1. PICK a : a = [key |-> w.key, song |-> activeSong,
                            current |-> planCurrent[w.plan.song], seen |-> seen, nth |-> 1]
          OBVIOUS
        <5> QED BY <2>5, <5>1
      <4>3. Taken(w.key)'
        BY <2>1, <2>2 DEF Taken
      <4> QED BY <4>1, <4>2, <4>3 DEF CallsAreCurrent
    <3>2. WitnessesAreTrue'
      BY <2>1, <2>2, <2>5 DEF WitnessesAreTrue, Taken, Outcomes
    <3>3. ActedIsRegistered'
      BY <2>1, <2>2, <2>5 DEF ActedIsRegistered, Taken, Outcomes
    <3> QED BY <3>1, <3>2, <3>3
  <2>8. (Plans!RunsWhatWasPrepared)'
    BY <2>1, <2>2, <2>5 DEF Plans!RunsWhatWasPrepared, Taken
  <2> QED BY <2>6, <2>7, <2>8
<1>6. CASE Plans!RunEnds
  <2>1. /\ UNCHANGED <<planVersionOf, planCurrent, planApproved, activeSong, seen, witness,
                       registered, acted>>
        /\ call.at = "running" /\ call' = [at |-> "idle"] /\ Taken(call.key)
    BY <1>6 DEF Plans!RunEnds, Plans!songVars, Plans!lineage, Plans!At, Plans!Idle, CallsAreCurrent
  <2>2. PICK outcome \in {"SUCCEEDED", "FAILED", "UNKNOWN"} :
           ops' = [ops EXCEPT ![call.key].state = outcome]
    BY <1>6 DEF Plans!RunEnds
  <2>3. PlansTyped'
    BY <2>1, <2>2, PlansGoOn DEF PlansTyped, Plans!LineageTypeOK, Plans!VersionsOf, Plans!Idle,
       Outcomes, Taken
  <2>4. CallsAreCurrent' /\ WitnessesAreTrue' /\ ActedIsRegistered'
    <3>1. CallsAreCurrent'
      BY <2>1, <2>2, PlansGoOn DEF CallsAreCurrent, ActedIsRegistered, Taken, Outcomes
    <3>2. WitnessesAreTrue'
      <4>1. outcome \in Outcomes
        BY DEF Outcomes
      <4> QED BY <2>1, <2>2, <4>1, PlansGoOn DEF Taken
    <3>3. ActedIsRegistered'
      BY <2>1, <2>2, PlansGoOn DEF ActedIsRegistered, Taken, Outcomes
    <3> QED BY <3>1, <3>2, <3>3
  <2>5. (Plans!RunsWhatWasPrepared)'
    BY <2>1, <2>2, PlansGoOn
       DEF ActedIsRegistered, CallsAreCurrent, Taken, Outcomes, Plans!RunsWhatWasPrepared
  <2> QED BY <2>3, <2>4, <2>5
<1>7. CASE Plans!Crash
  <2>1. /\ UNCHANGED <<planVersionOf, planCurrent, planApproved, activeSong, seen, ops,
                       registered, acted>>
        /\ call' = [at |-> "idle"] /\ witness' = {}
    BY <1>7 DEF Plans!Crash, Plans!songVars, Plans!lineage, Plans!Idle
  <2> QED BY <2>1 DEF PlansTyped, Plans!LineageTypeOK, Plans!VersionsOf, Plans!Idle,
             CallsAreCurrent, WitnessesAreTrue, ActedIsRegistered, Taken,
             Plans!RunsWhatWasPrepared
<1>8. ASSUME NEW k \in Keys, Plans!Review(k)
      PROVE  PlansInv'
  <2>1. /\ UNCHANGED <<planVersionOf, planCurrent, planApproved, activeSong, seen, call, witness,
                       registered, acted>>
        /\ call.at = "idle" /\ Taken(k) /\ ops' = [ops EXCEPT ![k].state = "UNKNOWN"]
    BY <1>8 DEF Plans!Review, Plans!songVars, Plans!lineage, Plans!At, Plans!Absent, Taken
  <2>2. PlansTyped'
    BY <2>1, PlansGoOn DEF PlansTyped, Plans!LineageTypeOK, Plans!VersionsOf, Outcomes
  <2>3. CallsAreCurrent' /\ WitnessesAreTrue' /\ ActedIsRegistered'
    <3>1. CallsAreCurrent'
      BY <2>1, PlansGoOn DEF CallsAreCurrent, ActedIsRegistered, Taken, Outcomes
    <3>2. WitnessesAreTrue'
      BY <2>1, PlansGoOn DEF Outcomes
    <3>3. ActedIsRegistered'
      BY <2>1, PlansGoOn DEF ActedIsRegistered, Taken, Outcomes
    <3> QED BY <3>1, <3>2, <3>3
  <2>4. (Plans!RunsWhatWasPrepared)'
    BY <2>1, PlansGoOn DEF ActedIsRegistered, Taken, Outcomes, Plans!RunsWhatWasPrepared
  <2> QED BY <2>2, <2>3, <2>4
<1> QED BY <1>1, <1>2, <1>3, <1>4, <1>5, <1>6, <1>7, <1>8 DEF Plans!TxNext

\* ... as does whatever else goes on ...
LEMMA PlansKeep == PlansInv /\ PlansMove => PlansInv'
<1> SUFFICES ASSUME PlansInv, UNCHANGED planVars PROVE PlansInv'
  BY PlansStep DEF PlansMove
<1> QED BY DEF planVars, PlansInv, PlansTyped, Plans!LineageTypeOK, Plans!VersionsOf,
           CallsAreCurrent, WitnessesAreTrue, ActedIsRegistered, Taken, Plans!RunsWhatWasPrepared

\* ... so that what runs is what was prepared for the Versions that are still current.
LEMMA PlansAreTrue == PlansInv => Plans!TxTypeOK /\ Plans!RunsWhatWasPrepared
<1> SUFFICES ASSUME PlansInv PROVE Plans!TxTypeOK
  BY DEF PlansInv
<1>1. \A k \in Keys :
         ops[k].state \in {"ABSENT", "PREPARED", "EXECUTING", "SUCCEEDED", "FAILED", "UNKNOWN"}
  BY DEF PlansInv, PlansTyped, Plans!Absent, Outcomes
<1> QED BY <1>1 DEF PlansInv, PlansTyped, Plans!TxTypeOK
-----------------------------------------------------------------------------
(* The files of a Song's Versions.                                         *)

AtWork == {"staged", "absent", "linked", "placed", "installed"}
Files == [bytes : {"none", "whole", "altered"}, onDisk : BOOLEAN]
MaterialCalls ==
    [at : AtWork \cup {"idle", "ended", "died"}, song : {1} \cup {0}, of : Musics \cup {Nothing},
     found : BOOLEAN]
MaterialVersions == [song : {1}, parent : 0 .. 2, of : Musics \cup {Nothing}, found : BOOLEAN]

\* A Version's parent is one of its Song.
MaterialParents ==
    \A v \in DOMAIN v6 : v6[v].parent # 0 => v6[v].parent \in Material!VersionsOf(v6[v].song)
\* What is current of a Song is one of it.
MaterialCurrent ==
    /\ v7 \in [{1} -> Nat]
    /\ \A song \in {1} : v7[song] \in Material!VersionsOf(song) \cup {0}
MaterialTyped ==
    /\ v1 \in [Migrators -> MaterialCalls]
    /\ \A i \in Migrators : v1[i].at \in AtWork => v1[i].song \in {1} /\ v1[i].of \in Musics
    /\ v2 \subseteq Migrators
    /\ v3 \in [Musics -> Files] /\ v4 \subseteq Musics /\ v5 \subseteq Musics
    /\ v6 \in Seq(MaterialVersions) /\ Len(v6) <= 2
    /\ MaterialParents
    /\ MaterialCurrent
    /\ v8 \in 0 .. 2

\* A Song's files and calls are what the module calls its types.
LEMMA MaterialIsTyped == MaterialTyped => Material!TypeOK
<1> SUFFICES ASSUME MaterialTyped PROVE Material!TypeOK
  OBVIOUS
<1>1. \A i \in Migrators : v1[i] \in
          [at : {"idle", "staged", "absent", "linked", "placed", "installed", "ended", "died"},
           song : {1} \cup {Material!Null}, of : Musics \cup {Nothing}, found : BOOLEAN]
  BY DEF MaterialTyped, MaterialCalls, AtWork, Material!Null
<1>2. \A v \in DOMAIN v6 : v6[v] \in MaterialVersions
  BY DEF MaterialTyped
<1> QED BY <1>1, <1>2
       DEF MaterialTyped, MaterialParents, MaterialCurrent, MaterialVersions, Files,
           Material!TypeOK,
       Material!Null

\* There are no files and no calls at the start.
LEMMA MaterialStarts == Material!Init => MaterialTyped
<1> SUFFICES ASSUME Material!Init PROVE MaterialTyped
  OBVIOUS
<1>1. /\ v1 = [i \in Migrators |-> [at |-> "idle", song |-> 0, of |-> Nothing, found |-> FALSE]]
      /\ v2 = {} /\ v3 = [c \in Musics |-> [bytes |-> "none", onDisk |-> FALSE]]
      /\ v4 = {} /\ v5 = {} /\ v6 = <<>> /\ v7 = [song \in {1} |-> 0] /\ v8 = 0
  BY DEF Material!Init, Material!NoCall, Material!Null
<1>2. v6 \in Seq(MaterialVersions) /\ Len(v6) = 0 /\ DOMAIN v6 = {}
  BY <1>1
<1> QED BY <1>1, <1>2
       DEF MaterialTyped, MaterialParents, MaterialCurrent, MaterialCalls, Files, AtWork

\* A Version is added: its parent is one of its Song.
LEMMA MaterialAdds ==
  ASSUME MaterialTyped, NEW song \in {1}, NEW parent \in 0 .. 2,
         parent \in DOMAIN v6 => v6[parent].song = song, parent \in DOMAIN v6 \cup {0},
         NEW of \in Musics \cup {Nothing}, NEW found \in BOOLEAN, Len(v6) < 2,
         v6' = Append(v6, [song |-> song, parent |-> parent, of |-> of, found |-> found]),
         v7' = v7 \/ v7' = [v7 EXCEPT ![song] = Len(v6) + 1]
  PROVE  /\ Len(v6') = Len(v6) + 1 /\ \A v \in DOMAIN v6 : v6'[v] = v6[v]
         /\ DOMAIN v6' = DOMAIN v6 \cup {Len(v6) + 1}
         /\ v6'[Len(v6) + 1] = [song |-> song, parent |-> parent, of |-> of, found |-> found]
         /\ v6' \in Seq(MaterialVersions) /\ Len(v6') <= 2
         /\ MaterialParents' /\ MaterialCurrent'
<1>1. PICK new : new = [song |-> song, parent |-> parent, of |-> of, found |-> found]
  OBVIOUS
<1>2. v6 \in Seq(MaterialVersions) /\ Len(v6) < 2 /\ v6' = Append(v6, new)
  BY <1>1 DEF MaterialTyped
<1>4. new \in MaterialVersions
  BY <1>1 DEF MaterialVersions
<1>5. /\ v6' \in Seq(MaterialVersions) /\ Len(v6') = Len(v6) + 1
      /\ DOMAIN v6' = DOMAIN v6 \cup {Len(v6) + 1}
      /\ \A v \in DOMAIN v6 : v6'[v] = v6[v]
      /\ v6'[Len(v6) + 1] = new
  BY <1>2, <1>4
<1>6. \A s : Material!VersionsOf(s) \subseteq Material!VersionsOf(s)'
  BY <1>5 DEF Material!VersionsOf
<1>7. Len(v6) + 1 \in Material!VersionsOf(song)'
  BY <1>1, <1>5 DEF Material!VersionsOf
<1>8. MaterialParents'
  <2>1. ASSUME NEW v \in DOMAIN v6, v6'[v].parent # 0
        PROVE  v6'[v].parent \in Material!VersionsOf(v6[v].song)'
    <3>1. v6[v].parent \in Material!VersionsOf(v6[v].song)
      BY <2>1, <1>5 DEF MaterialTyped, MaterialParents
    <3> QED BY <3>1, <1>5, <1>6
  <2>2. new.parent # 0 => new.parent \in Material!VersionsOf(song)'
    <3>1. parent # 0 => parent \in Material!VersionsOf(song)
      BY DEF Material!VersionsOf
    <3> QED BY <3>1, <1>1, <1>6
  <2> QED BY <2>1, <2>2, <1>1, <1>5 DEF MaterialParents, Material!VersionsOf
<1>9. MaterialCurrent'
  BY <1>2, <1>6, <1>7 DEF MaterialTyped, MaterialCurrent
<1> QED BY <1>1, <1>2, <1>5, <1>8, <1>9

\* The calls and the files have their types, and the lineage is left alone.
LEMMA MaterialLeavesLineage ==
  ASSUME MaterialTyped, UNCHANGED <<v6, v7>>,
         v1' \in [Migrators -> MaterialCalls],
         \A i \in Migrators : v1'[i].at \in AtWork => v1'[i].song \in {1} /\ v1'[i].of \in Musics,
         v2' \subseteq Migrators, v3' \in [Musics -> Files], v4' \subseteq Musics,
         v5' \subseteq Musics, v8' \in 0 .. 2
  PROVE  MaterialTyped'
BY DEF MaterialTyped, MaterialParents, MaterialCurrent, Material!VersionsOf

\* A call goes on.
LEMMA MaterialGoes ==
  ASSUME MaterialTyped, NEW i \in Migrators, NEW to \in AtWork, v1[i].at \in AtWork,
         NEW found \in BOOLEAN,
         v1' = [v1 EXCEPT ![i] = [at |-> to, song |-> v1[i].song, of |-> v1[i].of,
                                  found |-> found]]
  PROVE  /\ v1' \in [Migrators -> MaterialCalls]
         /\ \A j \in Migrators : v1'[j].at \in AtWork => v1'[j].song \in {1} /\ v1'[j].of \in Musics
BY DEF MaterialTyped, MaterialCalls

\* A call stops.
LEMMA MaterialEnds ==
  ASSUME MaterialTyped, NEW i \in Migrators, v1' = [v1 EXCEPT ![i] = Material!Ended]
  PROVE  /\ v1' \in [Migrators -> MaterialCalls]
         /\ \A j \in Migrators : v1'[j].at \in AtWork => v1'[j].song \in {1} /\ v1'[j].of \in Musics
         /\ v1'[i].at = "ended" /\ \A j \in Migrators : j # i => v1'[j] = v1[j]
<1>1. PICK ended : ended = [at |-> "ended", song |-> 0, of |-> Nothing, found |-> FALSE]
  OBVIOUS
<1>2. v1' = [v1 EXCEPT ![i] = ended]
  <2>1. Material!Ended = ended
    BY <1>1 DEF Material!Ended, Material!NoCall, Material!Null
  <2> QED BY <2>1
<1>3. ended \in MaterialCalls /\ ended.at \notin AtWork /\ ended.at = "ended"
  BY <1>1 DEF MaterialCalls, AtWork
<1> QED BY <1>2, <1>3 DEF MaterialTyped

\* What the process's death does to its calls.
LEMMA MaterialDies ==
  ASSUME MaterialTyped, Material!Die
  PROVE  /\ v1' \in [Migrators -> MaterialCalls]
         /\ \A i \in Migrators : v1'[i].at \notin AtWork
         /\ \A i \in Migrators : v1[i].at \in AtWork => v1'[i].at = "died"
         /\ \A i \in Migrators : v1[i].at \notin AtWork => v1'[i] = v1[i]
         /\ v8' \in 0 .. 2
<1>1. PICK died : died = [at |-> "died", song |-> 0, of |-> Nothing, found |-> FALSE]
  OBVIOUS
<1>2. v1' = [i \in Migrators |-> IF v1[i].at \in AtWork THEN died ELSE v1[i]]
  <2>1. \A i \in Migrators : i \in Material!UnderWay <=> v1[i].at \in AtWork
    BY DEF Material!UnderWay, AtWork, MaterialTyped, MaterialCalls
  <2>2. Material!NoCall("died") = died
    BY <1>1 DEF Material!NoCall, Material!Null
  <2> QED BY <2>1, <2>2 DEF Material!Die
<1>3. died \in MaterialCalls /\ died.at \notin AtWork /\ died.at = "died"
  BY <1>1 DEF MaterialCalls, AtWork
<1>4. v8' \in 0 .. 2
  BY DEF MaterialTyped, Material!Die
<1> QED BY <1>2, <1>3, <1>4 DEF MaterialTyped

\* A file that is there, and one that is there for good, unless somebody touched it.
Present(c) == v3[c].bytes # "none" \/ c \in v4
Kept(c) == v3[c].onDisk \/ c \in v4
FilesAreTrue ==
    \A c \in Musics :
        /\ v3[c].bytes = "altered" => c \in v4
        /\ v3[c].onDisk => v3[c].bytes # "none"
\* A call has put its file where it says, ...
CallsHaveFiles ==
    \A i \in Migrators :
        /\ v1[i].at \in {"staged", "absent", "linked"} => ~v1[i].found
        /\ v1[i].at \in {"linked", "installed"} => Present(v1[i].of)
        /\ v1[i].at \in {"placed", "installed"} /\ ~v1[i].found => Kept(v1[i].of)
\* ... and a Version has its file for good, or its call found the file there.
VersionsHaveFiles ==
    \A v \in DOMAIN v6 : v6[v].of # Nothing =>
        /\ v6[v].found => Present(v6[v].of) \/ v6[v].of \in v5
        /\ ~v6[v].found => Kept(v6[v].of)
\* A staging file is there while its call is before the verification, or died.
StagingIsOfCalls ==
    \A i \in v2 : v1[i].at \in (AtWork \ {"installed"}) \cup {"died"}

MaterialInv ==
    MaterialTyped /\ FilesAreTrue /\ CallsHaveFiles /\ VersionsHaveFiles /\ StagingIsOfCalls

\* No step of a process takes a file away.
FilesStay ==
    \A c \in Musics :
        /\ Present(c) => Present(c)'
        /\ Kept(c) => Kept(c)'
        /\ Present(c) \/ c \in v5 => Present(c)' \/ c \in v5'

\* Whatever is linked, synced or damaged: a file that is there was not lost, and one that is
\* not altered has the bytes of its name.
LEMMA MaterialFiles ==
  ASSUME MaterialTyped, FilesAreTrue,
         \/ \E i \in Migrators : Material!Link(i) \/ Material!Sync_dirs(i)
         \/ \E c \in Musics, into \in {"none", "altered"} : Material!Damage(c, into)
         \/ UNCHANGED <<v3, v4, v5>>
  PROVE  /\ v3' \in [Musics -> Files] /\ v4' \subseteq Musics /\ v5' \subseteq Musics
         /\ FilesAreTrue' /\ FilesStay
<1> USE DEF FilesAreTrue, FilesStay, Present, Kept
<1>1. /\ v3 \in [Musics -> Files] /\ v4 \subseteq Musics /\ v5 \subseteq Musics
      /\ \A i \in Migrators : v1[i].at \in AtWork => v1[i].of \in Musics
  BY DEF MaterialTyped
<1>2. ASSUME NEW i \in Migrators, Material!Link(i)
      PROVE  /\ v3' \in [Musics -> Files] /\ v4' \subseteq Musics /\ v5' \subseteq Musics
             /\ FilesAreTrue' /\ FilesStay
  <2>1. PICK c : c = v1[i].of
    OBVIOUS
  <2>2. PICK entry : entry = [bytes |-> "whole", onDisk |-> FALSE]
    OBVIOUS
  <2>3. /\ c \in Musics /\ v4' = v4 /\ v5' = v5 \ {c}
        /\ v3' = [v3 EXCEPT ![c] = IF v3[c].bytes = "none" THEN entry ELSE v3[c]]
    BY <1>1, <1>2, <2>1, <2>2 DEF Material!Link, AtWork
  <2>4. entry \in Files /\ entry.bytes = "whole" /\ entry.onDisk = FALSE
    BY <2>2 DEF Files
  <2>5. /\ v3' \in [Musics -> Files]
        /\ v3'[c] = IF v3[c].bytes = "none" THEN entry ELSE v3[c]
        /\ \A d \in Musics : d # c => v3'[d] = v3[d]
    BY <1>1, <2>3, <2>4
  <2> QED BY <1>1, <2>3, <2>4, <2>5
<1>3. ASSUME NEW i \in Migrators, Material!Sync_dirs(i)
      PROVE  /\ v3' \in [Musics -> Files] /\ v4' \subseteq Musics /\ v5' \subseteq Musics
             /\ FilesAreTrue' /\ FilesStay
  <2>1. PICK c : c = v1[i].of
    OBVIOUS
  <2>2. PICK on : on = (v3[c].onDisk \/ v3[c].bytes # "none")
    OBVIOUS
  <2>3. /\ c \in Musics /\ v4' = v4 /\ v5' = v5
        /\ v3' = [v3 EXCEPT ![c].onDisk = on]
    BY <1>1, <1>3, <2>1, <2>2 DEF Material!Sync_dirs, AtWork
  <2>4. on \in BOOLEAN
    BY <2>2
  <2>5. /\ v3' \in [Musics -> Files]
        /\ v3'[c].bytes = v3[c].bytes /\ v3'[c].onDisk = on
        /\ \A d \in Musics : d # c => v3'[d] = v3[d]
    BY <1>1, <2>3, <2>4 DEF Files
  <2> QED BY <1>1, <2>2, <2>3, <2>5
<1>4. ASSUME NEW c \in Musics, NEW into \in {"none", "altered"}, Material!Damage(c, into)
      PROVE  /\ v3' \in [Musics -> Files] /\ v4' \subseteq Musics /\ v5' \subseteq Musics
             /\ FilesAreTrue' /\ FilesStay
  <2>1. PICK on : on = (v3[c].onDisk /\ into # "none")
    OBVIOUS
  <2>2. PICK entry : entry = [bytes |-> into, onDisk |-> on]
    OBVIOUS
  <2>3. v3[c] \in Files /\ on \in BOOLEAN
    BY <1>1, <2>1
  <2>4. entry \in Files
    BY <2>2, <2>3 DEF Files
  <2>5. v4' = v4 \cup {c} /\ v5' = v5 /\ v3' = [v3 EXCEPT ![c] = entry]
    BY <1>1, <1>4, <2>1, <2>2 DEF Material!Damage
  <2>6. /\ v3' \in [Musics -> Files] /\ v3'[c] = entry
        /\ \A d \in Musics : d # c => v3'[d] = v3[d]
    BY <1>1, <2>4, <2>5
  <2> QED BY <1>1, <2>1, <2>2, <2>5, <2>6
<1>5. CASE UNCHANGED <<v3, v4, v5>>
  BY <1>1, <1>5
<1> QED BY <1>2, <1>3, <1>4, <1>5

\* What a call does when it goes from one place to the next.
LEMMA MaterialCallGoes ==
  ASSUME MaterialInv, NEW i \in Migrators, NEW to \in AtWork, v1[i].at \in AtWork,
         NEW found \in BOOLEAN,
         v1' = [v1 EXCEPT ![i] = [at |-> to, song |-> v1[i].song, of |-> v1[i].of,
                                  found |-> found]],
         v2' \subseteq v2, i \in v2' => to # "installed", UNCHANGED <<v6, v7, v8>>,
         v3' \in [Musics -> Files], v4' \subseteq Musics, v5' \subseteq Musics,
         FilesAreTrue', FilesStay,
         to \in {"staged", "absent", "linked"} => ~found,
         to \in {"linked", "installed"} => v3'[v1[i].of].bytes # "none" \/ v1[i].of \in v4',
         to \in {"placed", "installed"} /\ ~found => v3'[v1[i].of].onDisk \/ v1[i].of \in v4'
  PROVE  MaterialInv'
<1> USE DEF MaterialInv
<1>1. MaterialTyped'
  <2>1. v2' \subseteq Migrators /\ v8' \in 0 .. 2
    BY DEF MaterialTyped
  <2> QED BY <2>1, MaterialGoes, MaterialLeavesLineage
<1>2. /\ v1'[i].at = to /\ v1'[i].of = v1[i].of /\ v1'[i].found = found
      /\ \A j \in Migrators : j # i => v1'[j] = v1[j]
  BY DEF MaterialTyped
<1>3. \A j \in Migrators : v1[j].at \in AtWork => v1[j].of \in Musics
  BY DEF MaterialTyped
<1>4. CallsHaveFiles'
  <2>1. ASSUME NEW j \in Migrators, j # i
        PROVE  /\ v1'[j].at \in {"staged", "absent", "linked"} => ~v1'[j].found
               /\ v1'[j].at \in {"linked", "installed"} => Present(v1[j].of)'
               /\ v1'[j].at \in {"placed", "installed"} /\ ~v1'[j].found => Kept(v1[j].of)'
    BY <1>2, <1>3, <2>1 DEF CallsHaveFiles, FilesStay, Present, Kept, AtWork
  <2> QED BY <1>2, <2>1 DEF CallsHaveFiles, Present, Kept
<1>5. VersionsHaveFiles'
  <2>1. \A v \in DOMAIN v6 : v6[v].of \in Musics \cup {Nothing}
    <3>1. \A v \in DOMAIN v6 : v6[v] \in MaterialVersions
      BY DEF MaterialTyped
    <3> QED BY <3>1 DEF MaterialVersions
  <2> QED BY <2>1 DEF VersionsHaveFiles, FilesStay
<1>6. StagingIsOfCalls'
  BY <1>2 DEF StagingIsOfCalls, MaterialTyped
<1> QED BY <1>1, <1>4, <1>5, <1>6

\* A call ends: what it had staged is gone.
LEMMA MaterialCallEnds ==
  ASSUME MaterialInv, NEW i \in Migrators, v1' = [v1 EXCEPT ![i] = Material!Ended],
         v2' = v2 \ {i}, UNCHANGED <<v3, v4, v5, v6, v7, v8>>
  PROVE  MaterialInv'
<1> USE DEF MaterialInv
<1>1. MaterialTyped'
  <2>1. v2' \subseteq Migrators
    BY DEF MaterialTyped
  <2>2. /\ v3' \in [Musics -> Files] /\ v4' \subseteq Musics /\ v5' \subseteq Musics
        /\ v8' \in 0 .. 2
    BY DEF MaterialTyped
  <2> QED BY <2>1, <2>2, MaterialEnds, MaterialLeavesLineage
<1>2. v1'[i].at = "ended" /\ \A j \in Migrators : j # i => v1'[j] = v1[j]
  BY MaterialEnds
<1>3. CallsHaveFiles' /\ VersionsHaveFiles' /\ StagingIsOfCalls' /\ FilesAreTrue'
  BY <1>2 DEF CallsHaveFiles, VersionsHaveFiles, StagingIsOfCalls, FilesAreTrue, Present, Kept,
     MaterialTyped
<1> QED BY <1>1, <1>3

\* A Version is added to the lineage, by a call that has its file or without one.
LEMMA MaterialVersionMade ==
  ASSUME MaterialInv, NEW song \in {1}, NEW parent \in 0 .. 2,
         parent \in DOMAIN v6 => v6[parent].song = song, parent \in DOMAIN v6 \cup {0},
         NEW of \in Musics \cup {Nothing}, NEW found \in BOOLEAN, Len(v6) < 2,
         v6' = Append(v6, [song |-> song, parent |-> parent, of |-> of, found |-> found]),
         v7' = v7 \/ v7' = [v7 EXCEPT ![song] = Len(v6) + 1],
         \/ UNCHANGED v1
         \/ \E i \in Migrators \ v2 : v1' = [v1 EXCEPT ![i] = Material!Ended],
         UNCHANGED <<v2, v3, v4, v5, v8>>,
         of # Nothing =>
            /\ v3[of].bytes # "none" \/ of \in v4
            /\ ~found => v3[of].onDisk \/ of \in v4
  PROVE  MaterialInv'
<1> USE DEF MaterialInv
<1>1. /\ v1' \in [Migrators -> MaterialCalls]
      /\ \A j \in Migrators : v1'[j].at \in AtWork => v1'[j].song \in {1} /\ v1'[j].of \in Musics
      /\ CallsHaveFiles' /\ StagingIsOfCalls'
  <2>1. CASE UNCHANGED v1
    BY <2>1 DEF MaterialTyped, CallsHaveFiles, StagingIsOfCalls, Present, Kept
  <2>2. ASSUME NEW i \in Migrators \ v2, v1' = [v1 EXCEPT ![i] = Material!Ended]
        PROVE  /\ v1' \in [Migrators -> MaterialCalls]
               /\ \A j \in Migrators :
                     v1'[j].at \in AtWork => v1'[j].song \in {1} /\ v1'[j].of \in Musics
               /\ CallsHaveFiles' /\ StagingIsOfCalls'
    <3>1. /\ v1' \in [Migrators -> MaterialCalls]
          /\ \A j \in Migrators :
                v1'[j].at \in AtWork => v1'[j].song \in {1} /\ v1'[j].of \in Musics
          /\ v1'[i].at = "ended" /\ \A j \in Migrators : j # i => v1'[j] = v1[j]
      BY <2>2, MaterialEnds
    <3>2. CallsHaveFiles' /\ StagingIsOfCalls'
      BY <3>1 DEF MaterialTyped, CallsHaveFiles, StagingIsOfCalls, Present, Kept
    <3> QED BY <3>1, <3>2
  <2> QED BY <2>1, <2>2
<1>a. /\ v6' \in Seq(MaterialVersions) /\ Len(v6') <= 2 /\ MaterialParents'
      /\ MaterialCurrent'
      /\ \A v \in DOMAIN v6 : v6'[v] = v6[v]
      /\ DOMAIN v6' = DOMAIN v6 \cup {Len(v6) + 1}
      /\ v6'[Len(v6) + 1] = [song |-> song, parent |-> parent, of |-> of, found |-> found]
  <2>1. MaterialTyped
    BY DEF MaterialInv
  <2> QED BY <2>1, MaterialAdds
<1>2. MaterialTyped'
  BY <1>1, <1>a DEF MaterialTyped
<1>3. VersionsHaveFiles'
  <2>1. /\ \A v \in DOMAIN v6 : v6'[v] = v6[v]
        /\ DOMAIN v6' = DOMAIN v6 \cup {Len(v6) + 1}
        /\ v6'[Len(v6) + 1] = [song |-> song, parent |-> parent, of |-> of, found |-> found]
    BY <1>a
  <2> QED BY <2>1 DEF VersionsHaveFiles, Present, Kept
<1>4. FilesAreTrue'
  BY DEF FilesAreTrue
<1> QED BY <1>1, <1>2, <1>3, <1>4

\* The process dies, and the power may take what is not on the disk.
LEMMA MaterialOutage ==
  ASSUME MaterialInv,
         Material!Crash \/ \E gone \in SUBSET Musics : Material!Power_fails(gone)
  PROVE  MaterialInv'
<1> USE DEF MaterialInv
<1>1. Material!Die /\ UNCHANGED <<v2, v4, v6, v7>>
  BY DEF Material!Crash, Material!Power_fails, Material!fileVars, Material!lineageVars
<1>2. /\ v1' \in [Migrators -> MaterialCalls] /\ v8' \in 0 .. 2
      /\ \A i \in Migrators : v1'[i].at \notin AtWork
      /\ \A i \in Migrators : v1[i].at \in AtWork => v1'[i].at = "died"
      /\ \A i \in Migrators : v1[i].at \notin AtWork => v1'[i] = v1[i]
  BY <1>1, MaterialDies
<1>3. CallsHaveFiles' /\ StagingIsOfCalls'
  <2>1. CallsHaveFiles'
    BY <1>2 DEF CallsHaveFiles, AtWork
  <2>2. StagingIsOfCalls'
    BY <1>1, <1>2 DEF StagingIsOfCalls, MaterialTyped
  <2> QED BY <2>1, <2>2
<1>4. /\ v3' \in [Musics -> Files] /\ v5' \subseteq Musics /\ FilesAreTrue'
      /\ \A c \in Musics : Kept(c) => Kept(c)'
      /\ \A c \in Musics : Present(c) \/ c \in v5 => Present(c)' \/ c \in v5'
  <2>1. CASE Material!Crash
    BY <1>1, <2>1 DEF Material!Crash, Material!fileVars, MaterialTyped, FilesAreTrue, Present, Kept
  <2>2. ASSUME NEW gone \in SUBSET Musics, Material!Power_fails(gone)
        PROVE  /\ v3' \in [Musics -> Files] /\ v5' \subseteq Musics /\ FilesAreTrue'
               /\ \A c \in Musics : Kept(c) => Kept(c)'
               /\ \A c \in Musics : Present(c) \/ c \in v5 => Present(c)' \/ c \in v5'
    <3>1. /\ v5' = v5 \cup gone
          /\ \A c \in gone : ~v3[c].onDisk
      BY <2>2 DEF Material!Power_fails
    <3>2. /\ v3' \in [Musics -> Files]
          /\ \A c \in Musics :
                IF c \in gone THEN v3'[c].bytes = "none" /\ v3'[c].onDisk = FALSE
                ELSE /\ v3'[c].bytes = v3[c].bytes
                     /\ v3'[c].onDisk = (v3[c].onDisk \/ v3[c].bytes # "none")
      BY <2>2 DEF Material!Power_fails, MaterialTyped, Files
    <3> QED BY <1>1, <3>1, <3>2 DEF MaterialTyped, FilesAreTrue, Present, Kept
  <2> QED BY <2>1, <2>2
<1>5. MaterialTyped'
  BY <1>1, <1>2, <1>4, MaterialLeavesLineage DEF MaterialTyped
<1>6. VersionsHaveFiles'
  <2>1. \A v \in DOMAIN v6 : v6[v].of \in Musics \cup {Nothing}
    <3>1. \A v \in DOMAIN v6 : v6[v] \in MaterialVersions
      BY DEF MaterialTyped
    <3> QED BY <3>1 DEF MaterialVersions
  <2> QED BY <1>1, <1>4, <2>1 DEF VersionsHaveFiles
<1> QED BY <1>3, <1>4, <1>5, <1>6

\* A call steps on.
LEMMA MaterialCallSteps ==
  ASSUME MaterialInv, NEW i \in Migrators,
         \/ \E song \in {1}, c \in Musics : Material!Stage(i, song, c)
         \/ Material!Look(i) \/ Material!Link(i) \/ Material!Sync_dirs(i)
         \/ Material!Verify_blob(i) \/ Material!Commit_asset_version(i) \/ Material!Fail(i)
  PROVE  MaterialInv'
<1> USE DEF MaterialInv
<1>1. /\ v1 \in [Migrators -> MaterialCalls] /\ v2 \subseteq Migrators
      /\ v1[i].at \in AtWork => v1[i].song \in {1} /\ v1[i].of \in Musics
      /\ v1[i] \in MaterialCalls
  BY DEF MaterialTyped
<1>2. CASE \E song \in {1}, c \in Musics : Material!Stage(i, song, c)
  <2>1. PICK song \in {1}, c \in Musics : Material!Stage(i, song, c)
    BY <1>2
  <2>2. PICK begun : begun = [at |-> "staged", song |-> song, of |-> c, found |-> FALSE]
    OBVIOUS
  <2>3. /\ v1[i].at = "idle" /\ v1' = [v1 EXCEPT ![i] = begun] /\ v2' = v2 \cup {i}
        /\ UNCHANGED <<v3, v4, v5, v6, v7, v8>>
    BY <2>1, <2>2 DEF Material!Stage, Material!fileVars, Material!lineageVars
  <2>4. begun \in MaterialCalls /\ begun.at = "staged" /\ begun.found = FALSE
        /\ begun.song \in {1} /\ begun.of \in Musics
    BY <2>2 DEF MaterialCalls, AtWork
  <2>5. /\ v1' \in [Migrators -> MaterialCalls] /\ v1'[i] = begun
        /\ \A j \in Migrators : j # i => v1'[j] = v1[j]
    BY <1>1, <2>3, <2>4
  <2>6. \A j \in Migrators : v1'[j].at \in AtWork => v1'[j].song \in {1} /\ v1'[j].of \in Musics
    BY <2>4, <2>5 DEF MaterialTyped
  <2>7. MaterialTyped'
    <3>1. /\ v2' \subseteq Migrators /\ v3' \in [Musics -> Files] /\ v4' \subseteq Musics
          /\ v5' \subseteq Musics /\ v8' \in 0 .. 2
      BY <2>3 DEF MaterialTyped
    <3> QED BY <2>3, <2>5, <2>6, <3>1, MaterialLeavesLineage
  <2>8. FilesAreTrue' /\ VersionsHaveFiles'
    BY <2>3 DEF FilesAreTrue, VersionsHaveFiles, Present, Kept
  <2>9. CallsHaveFiles' /\ StagingIsOfCalls'
    BY <1>1, <2>3, <2>4, <2>5 DEF CallsHaveFiles, StagingIsOfCalls, Present, Kept, AtWork
  <2> QED BY <2>7, <2>8, <2>9
<1>3. CASE Material!Look(i)
  <2>1. v1[i].at = "staged" /\ UNCHANGED <<v2, v3, v4, v5, v6, v7, v8>>
    BY <1>3 DEF Material!Look, Material!fileVars, Material!lineageVars
  <2>2. /\ v3' \in [Musics -> Files] /\ v4' \subseteq Musics /\ v5' \subseteq Musics
        /\ FilesAreTrue' /\ FilesStay
    BY <2>1, MaterialFiles
  <2>3. ~v1[i].found /\ v1[i].at \in AtWork
    BY <2>1 DEF CallsHaveFiles, AtWork
  <2>4. CASE v3[v1[i].of].bytes = "none"
    <3>1. v1' = [v1 EXCEPT ![i] = [at |-> "absent", song |-> v1[i].song, of |-> v1[i].of,
                                   found |-> FALSE]]
      BY <1>1, <1>3, <2>3, <2>4 DEF Material!Look, Material!Goes, MaterialCalls
    <3>2. "absent" \in AtWork
      BY DEF AtWork
    <3> QED BY <2>1, <2>2, <2>3, <3>1, <3>2, MaterialCallGoes
  <2>5. CASE v3[v1[i].of].bytes # "none"
    <3>1. v1' = [v1 EXCEPT ![i] = [at |-> "placed", song |-> v1[i].song, of |-> v1[i].of,
                                   found |-> TRUE]]
      BY <1>1, <1>3, <2>3, <2>5 DEF Material!Look, MaterialCalls
    <3>2. "placed" \in AtWork
      BY DEF AtWork
    <3> QED BY <2>1, <2>2, <2>3, <3>1, <3>2, MaterialCallGoes
  <2> QED BY <2>4, <2>5
<1>4. CASE Material!Link(i)
  <2>1. /\ v1[i].at = "absent" /\ UNCHANGED <<v2, v4, v6, v7, v8>>
        /\ v1' = [v1 EXCEPT ![i].at = "linked"]
    BY <1>4 DEF Material!Link, Material!Goes, Material!lineageVars
  <2>2. /\ v3' \in [Musics -> Files] /\ v4' \subseteq Musics /\ v5' \subseteq Musics
        /\ FilesAreTrue' /\ FilesStay
    BY <1>4, MaterialFiles
  <2>3. ~v1[i].found /\ v1[i].at \in AtWork /\ "linked" \in AtWork
    BY <2>1 DEF CallsHaveFiles, AtWork
  <2>4. v1' = [v1 EXCEPT ![i] = [at |-> "linked", song |-> v1[i].song, of |-> v1[i].of,
                                 found |-> FALSE]]
    <3>1. v1[i].found = FALSE
      BY <1>1, <2>3 DEF MaterialCalls
    <3>2. [v1[i] EXCEPT !.at = "linked"] =
             [at |-> "linked", song |-> v1[i].song, of |-> v1[i].of, found |-> v1[i].found]
      BY <1>1 DEF MaterialCalls
    <3> QED BY <2>1, <3>1, <3>2
  <2>5. v3'[v1[i].of].bytes # "none" \/ v1[i].of \in v4'
    <3>1. /\ v1'[i].of = v1[i].of /\ v1[i].of \in Musics
      BY <1>1, <2>3, <2>4
    <3>2. v3'[v1[i].of].bytes # "none"
      BY <1>4, <3>1 DEF Material!Link, MaterialTyped
    <3> QED BY <3>1, <3>2
  <2> QED BY <2>1, <2>2, <2>3, <2>4, <2>5, MaterialCallGoes
<1>5. CASE Material!Sync_dirs(i)
  <2>1. /\ v1[i].at = "linked" /\ UNCHANGED <<v2, v4, v5, v6, v7, v8>>
        /\ v1' = [v1 EXCEPT ![i].at = "placed"]
    BY <1>5 DEF Material!Sync_dirs, Material!Goes, Material!lineageVars
  <2>2. /\ v3' \in [Musics -> Files] /\ v4' \subseteq Musics /\ v5' \subseteq Musics
        /\ FilesAreTrue' /\ FilesStay
    BY <1>5, MaterialFiles
  <2>3. ~v1[i].found /\ v1[i].at \in AtWork /\ "placed" \in AtWork /\ Present(v1[i].of)
    BY <2>1 DEF CallsHaveFiles, AtWork
  <2>4. v1' = [v1 EXCEPT ![i] = [at |-> "placed", song |-> v1[i].song, of |-> v1[i].of,
                                 found |-> FALSE]]
    <3>1. v1[i].found = FALSE
      BY <1>1, <2>3 DEF MaterialCalls
    <3>2. [v1[i] EXCEPT !.at = "placed"] =
             [at |-> "placed", song |-> v1[i].song, of |-> v1[i].of, found |-> v1[i].found]
      BY <1>1 DEF MaterialCalls
    <3> QED BY <2>1, <3>1, <3>2
  <2>5. v3'[v1[i].of].onDisk \/ v1[i].of \in v4'
    <3>1. /\ v1'[i].of = v1[i].of /\ v1[i].of \in Musics
      BY <1>1, <2>3, <2>4
    <3>2. v3'[v1[i].of].onDisk = (v3[v1[i].of].onDisk \/ v3[v1[i].of].bytes # "none")
      BY <1>5, <3>1 DEF Material!Sync_dirs, MaterialTyped, Files
    <3> QED BY <2>1, <2>3, <3>1, <3>2 DEF Present
  <2> QED BY <2>1, <2>2, <2>3, <2>4, <2>5, MaterialCallGoes
<1>6. CASE Material!Verify_blob(i)
  <2>1. v1[i].at = "placed" /\ v2' = v2 \ {i} /\ UNCHANGED <<v3, v4, v5, v6, v7, v8>>
    BY <1>6 DEF Material!Verify_blob, Material!fileVars, Material!lineageVars
  <2>2. CASE v3[v1[i].of].bytes = "whole"
    <3>1. /\ v3' \in [Musics -> Files] /\ v4' \subseteq Musics /\ v5' \subseteq Musics
          /\ FilesAreTrue' /\ FilesStay
      BY <2>1, MaterialFiles
    <3>2. v1' = [v1 EXCEPT ![i] = [at |-> "installed", song |-> v1[i].song, of |-> v1[i].of,
                                   found |-> v1[i].found]]
      BY <1>1, <1>6, <2>2 DEF Material!Verify_blob, Material!Goes, MaterialCalls
    <3>3. /\ v1[i].at \in AtWork /\ "installed" \in AtWork /\ v1[i].found \in BOOLEAN
          /\ v1[i].of \in Musics /\ v1'[i].of = v1[i].of
      BY <1>1, <2>1, <3>2 DEF AtWork, MaterialCalls
    <3>4. /\ v3'[v1[i].of].bytes # "none"
          /\ ~v1[i].found => v3'[v1[i].of].onDisk \/ v1[i].of \in v4'
      BY <2>1, <2>2, <3>3 DEF Present, Kept, CallsHaveFiles
    <3>5. v2' \subseteq v2 /\ i \notin v2'
      BY <2>1
    <3> QED BY <2>1, <3>1, <3>2, <3>3, <3>4, <3>5, MaterialCallGoes
  <2>3. CASE v3[v1[i].of].bytes # "whole"
    <3>1. v1' = [v1 EXCEPT ![i] = Material!Ended]
      BY <1>6, <2>3 DEF Material!Verify_blob
    <3> QED BY <2>1, <3>1, MaterialCallEnds
  <2> QED BY <2>2, <2>3
<1>7. CASE Material!Commit_asset_version(i)
  <2>1. /\ v1[i].at = "installed" /\ v1' = [v1 EXCEPT ![i] = Material!Ended]
        /\ UNCHANGED <<v2, v3, v4, v5, v8>>
        /\ Material!Add(v1[i].song, v7[v1[i].song], v1[i].of, v1[i].found, TRUE)
    BY <1>7 DEF Material!Commit_asset_version, Material!fileVars
  <2>2. /\ v1[i].song \in {1} /\ v1[i].of \in Musics /\ v1[i].found \in BOOLEAN
        /\ i \notin v2
    BY <1>1, <2>1 DEF AtWork, MaterialCalls, StagingIsOfCalls
  <2>3. PICK song, parent, of, found :
           song = v1[i].song /\ parent = v7[v1[i].song] /\ of = v1[i].of /\ found = v1[i].found
    OBVIOUS
  <2>4. /\ v3[of].bytes # "none" \/ of \in v4
        /\ ~found => v3[of].onDisk \/ of \in v4
    BY <2>1, <2>3 DEF CallsHaveFiles, Present, Kept
  <2>5. /\ Len(v6) < 2 /\ v7' = [v7 EXCEPT ![song] = Len(v6) + 1]
        /\ v6' = Append(v6, [song |-> song, parent |-> parent, of |-> of, found |-> found])
    BY <2>1, <2>3 DEF Material!Add
  <2>6. /\ parent \in DOMAIN v6 => v6[parent].song = song
        /\ parent \in DOMAIN v6 \cup {0} /\ parent \in 0 .. 2
    <3>1. parent \in Material!VersionsOf(song) \cup {0} /\ v6 \in Seq(MaterialVersions)
      BY <2>2, <2>3 DEF MaterialTyped, MaterialCurrent
    <3> QED BY <2>5, <3>1 DEF Material!VersionsOf
  <2>7. song \in {1} /\ of \in Musics \cup {Nothing} /\ found \in BOOLEAN
    BY <2>2, <2>3
  <2> QED BY <2>1, <2>2, <2>4, <2>5, <2>6, <2>7, MaterialVersionMade
<1>8. CASE Material!Fail(i)
  BY <1>8, MaterialCallEnds DEF Material!Fail, Material!fileVars, Material!lineageVars
<1> QED BY <1>2, <1>3, <1>4, <1>5, <1>6, <1>7, <1>8

\* Every step of an ingest, of the file system and of a crash keeps what is true of the files.
LEMMA MaterialStep ==
  ASSUME MaterialInv, Material!Next
  PROVE  MaterialInv'
<1>1. MaterialTyped
  BY DEF MaterialInv
<1>2. ASSUME NEW song \in {1}, NEW makeCurrent \in BOOLEAN,
             NEW parent \in Material!VersionsOf(song) \cup {Material!Null},
             Material!Create_version(song, parent, makeCurrent)
      PROVE  MaterialInv'
  <2>1. PICK found : found = FALSE
    OBVIOUS
  <2>2. /\ UNCHANGED <<v1, v2, v3, v4, v5, v8>> /\ Len(v6) < 2
        /\ v6' = Append(v6, [song |-> song, parent |-> parent, of |-> Nothing, found |-> found])
        /\ v7' = v7 \/ v7' = [v7 EXCEPT ![song] = Len(v6) + 1]
    BY <1>1, <1>2, <2>1
       DEF Material!Create_version, Material!Add, Material!fileVars, MaterialTyped, MaterialCurrent
  <2>3. /\ parent \in DOMAIN v6 => v6[parent].song = song
        /\ parent \in DOMAIN v6 \cup {0} /\ parent \in 0 .. 2
    BY <1>1, <2>2 DEF MaterialTyped, Material!VersionsOf, Material!Null
  <2>4. found \in BOOLEAN /\ Nothing \in Musics \cup {Nothing}
    BY <2>1
  <2> QED BY <2>2, <2>3, <2>4, MaterialVersionMade
<1>3. ASSUME NEW v \in DOMAIN v6, Material!Set_current_version(v)
      PROVE  MaterialInv'
  <2>1. UNCHANGED <<v1, v2, v3, v4, v5, v6, v8>> /\ v7' = [v7 EXCEPT ![v6[v].song] = v]
    BY <1>3 DEF Material!Set_current_version, Material!fileVars
  <2>2. v \in Nat /\ v \in Material!VersionsOf(v6[v].song)
    BY <1>1 DEF MaterialTyped, Material!VersionsOf
  <2>3. MaterialCurrent'
    BY <1>1, <2>1, <2>2 DEF MaterialTyped, MaterialCurrent, Material!VersionsOf
  <2>4. MaterialTyped'
    BY <1>1, <2>1, <2>3 DEF MaterialTyped, MaterialParents, Material!VersionsOf
  <2> QED BY <2>1, <2>4 DEF MaterialInv, FilesAreTrue, CallsHaveFiles, VersionsHaveFiles,
             StagingIsOfCalls, Present, Kept
<1>4. ASSUME NEW c \in Musics, NEW into \in {"none", "altered"}, Material!Damage(c, into)
      PROVE  MaterialInv'
  <2>1. UNCHANGED <<v1, v2, v6, v7, v8>>
    BY <1>4 DEF Material!Damage, Material!lineageVars
  <2>2. /\ v3' \in [Musics -> Files] /\ v4' \subseteq Musics /\ v5' \subseteq Musics
        /\ FilesAreTrue' /\ FilesStay
    BY <1>1, <1>4, MaterialFiles DEF MaterialInv
  <2>3. MaterialTyped'
    BY <1>1, <2>1, <2>2, MaterialLeavesLineage DEF MaterialTyped
  <2>4. CallsHaveFiles' /\ StagingIsOfCalls'
    BY <1>1, <2>1, <2>2 DEF MaterialInv, CallsHaveFiles, StagingIsOfCalls, FilesStay, MaterialTyped,
       AtWork
  <2>5. VersionsHaveFiles'
    <3>1. \A v \in DOMAIN v6 : v6[v] \in MaterialVersions
      BY <1>1 DEF MaterialTyped
    <3>2. \A v \in DOMAIN v6 : v6[v].of \in Musics \cup {Nothing}
      BY <3>1 DEF MaterialVersions
    <3> QED BY <2>1, <2>2, <3>2 DEF MaterialInv, VersionsHaveFiles, FilesStay
  <2> QED BY <2>2, <2>3, <2>4, <2>5 DEF MaterialInv
<1>5. CASE \E i \in Migrators :
              \/ \E song \in {1}, c \in Musics : Material!Stage(i, song, c)
              \/ Material!Look(i) \/ Material!Link(i) \/ Material!Sync_dirs(i)
              \/ Material!Verify_blob(i) \/ Material!Commit_asset_version(i) \/ Material!Fail(i)
  BY <1>5, MaterialCallSteps
<1>6. CASE Material!Crash \/ \E gone \in SUBSET Musics : Material!Power_fails(gone)
  BY <1>6, MaterialOutage
<1> QED BY <1>2, <1>3, <1>4, <1>5, <1>6 DEF Material!Next

\* So does everything else that goes on ...
LEMMA MaterialKeeps == MaterialInv /\ [Material!Next]_(Material!vars) => MaterialInv'
<1> SUFFICES ASSUME MaterialInv, UNCHANGED Material!vars PROVE MaterialInv'
  BY MaterialStep
<1> QED BY DEF Material!vars, MaterialInv, MaterialTyped, MaterialParents, MaterialCurrent,
           Material!VersionsOf, FilesAreTrue, CallsHaveFiles, VersionsHaveFiles, StagingIsOfCalls,
           Present, Kept

\* ... and it is true at the start ...
LEMMA MaterialBegins == Material!Init => MaterialInv
<1> SUFFICES ASSUME Material!Init PROVE MaterialInv
  OBVIOUS
<1>1. MaterialTyped
  BY MaterialStarts
<1>2. /\ v1 = [i \in Migrators |-> [at |-> "idle", song |-> 0, of |-> Nothing, found |-> FALSE]]
      /\ v2 = {} /\ v3 = [c \in Musics |-> [bytes |-> "none", onDisk |-> FALSE]] /\ DOMAIN v6 = {}
  BY DEF Material!Init, Material!NoCall, Material!Null
<1> QED BY <1>1, <1>2 DEF MaterialInv, FilesAreTrue, CallsHaveFiles, VersionsHaveFiles,
           StagingIsOfCalls

\* ... so that a Version has its bytes, and a call that ended has left no staged file.
LEMMA MaterialIsTrue ==
  MaterialInv => /\ Material!TypeOK /\ Material!VersionsHaveTheirBytes /\ Material!StagingIsCleared
<1> SUFFICES ASSUME MaterialInv
             PROVE  /\ Material!TypeOK /\ Material!VersionsHaveTheirBytes
                    /\ Material!StagingIsCleared
  OBVIOUS
<1> USE DEF MaterialInv
<1>1. Material!TypeOK
  BY MaterialIsTyped
<1>2. \A v \in DOMAIN v6 : v6[v].of \in Musics \cup {Nothing} /\ v6[v].found \in BOOLEAN
  <2>1. \A v \in DOMAIN v6 : v6[v] \in MaterialVersions
    BY DEF MaterialTyped
  <2> QED BY <2>1 DEF MaterialVersions
<1>3. \A c \in Musics : v3[c].bytes \in {"none", "whole", "altered"}
  BY DEF MaterialTyped, Files
<1>4. Material!VersionsHaveTheirBytes
  BY <1>2, <1>3 DEF Material!VersionsHaveTheirBytes, Material!View_asset, FilesAreTrue,
     VersionsHaveFiles, Present, Kept
<1>5. Material!StagingIsCleared
  BY DEF Material!StagingIsCleared, StagingIsOfCalls, MaterialTyped, Material!UnderWay, AtWork
<1> QED BY <1>1, <1>4, <1>5

\* An ingest never replaces a file, an altered one included.
LEMMA MaterialReplacesNothing ==
  MaterialInv /\ [Material!Next]_(Material!vars) => Material!NothingIsReplaced
<1> SUFFICES ASSUME MaterialInv, [Material!Next]_(Material!vars), NEW c \in Musics,
                    v3[c].bytes # "none", v4' = v4, v8' = v8
             PROVE  v3'[c].bytes = v3[c].bytes
  BY DEF Material!NothingIsReplaced
<1>1. /\ v3 \in [Musics -> Files] /\ v8 \in Nat
      /\ \A i \in Migrators : v1[i].at \in AtWork => v1[i].of \in Musics
  BY DEF MaterialInv, MaterialTyped
<1>2. ASSUME NEW i \in Migrators, Material!Link(i)
      PROVE  v3'[c].bytes = v3[c].bytes
  BY <1>1, <1>2 DEF Material!Link, AtWork, Files
<1>3. ASSUME NEW i \in Migrators, Material!Sync_dirs(i)
      PROVE  v3'[c].bytes = v3[c].bytes
  BY <1>1, <1>3 DEF Material!Sync_dirs, AtWork, Files
<1>4. ASSUME NEW d \in Musics, NEW into \in {"none", "altered"}, Material!Damage(d, into)
      PROVE  FALSE
  BY <1>4 DEF Material!Damage
<1>5. ASSUME Material!Die
      PROVE  FALSE
  BY <1>1, <1>5 DEF Material!Die
<1>6. ASSUME UNCHANGED v3
      PROVE  v3'[c].bytes = v3[c].bytes
  BY <1>6
<1> QED BY <1>2, <1>3, <1>4, <1>5, <1>6
        DEF Material!Next, Material!vars, Material!fileVars, Material!Stage, Material!Look,
            Material!Verify_blob, Material!Commit_asset_version, Material!Fail,
            Material!Create_version, Material!Set_current_version, Material!Crash,
            Material!Power_fails
-----------------------------------------------------------------------------
CompareCalls ==
    [at : AtWork \cup {"idle", "ended", "died"}, song : {1, 2} \cup {0},
     of : {SomeMusic} \cup {Nothing},
     found : BOOLEAN]
CompareVersions ==
    [song : {1, 2}, parent : 0 .. 3, of : {SomeMusic} \cup {Nothing}, found : BOOLEAN]

\* A Version's parent is one of its Song.
CompareParents ==
    \A v \in DOMAIN v6 : v6[v].parent # 0 => v6[v].parent \in Compare!VersionsOf(v6[v].song)
\* What is current of a Song is one of it.
CompareCurrent ==
    /\ v7 \in [{1, 2} -> Nat]
    /\ \A song \in {1, 2} : v7[song] \in Compare!VersionsOf(song) \cup {0}
CompareFilesTyped ==
    /\ v1 \in [Migrators -> CompareCalls]
    /\ \A i \in Migrators : v1[i].at \in AtWork => v1[i].song \in {1, 2} /\ v1[i].of \in {SomeMusic}
    /\ v2 \subseteq Migrators
    /\ v3 \in [{SomeMusic} -> Files] /\ v4 \subseteq {SomeMusic} /\ v5 \subseteq {SomeMusic}
    /\ v6 \in Seq(CompareVersions) /\ Len(v6) <= 3
    /\ CompareParents
    /\ CompareCurrent
    /\ v8 \in 0 .. 0

\* The files and calls of two Songs are what the module calls their types.
LEMMA CompareIsTyped == CompareFilesTyped => Compare!TypeOK
<1> SUFFICES ASSUME CompareFilesTyped PROVE Compare!TypeOK
  OBVIOUS
<1>1. \A i \in Migrators : v1[i] \in
          [at : {"idle", "staged", "absent", "linked", "placed", "installed", "ended", "died"},
           song : {1, 2} \cup {Compare!Null}, of : {SomeMusic} \cup {Nothing}, found : BOOLEAN]
  BY DEF CompareFilesTyped, CompareCalls, AtWork, Compare!Null
<1>2. \A v \in DOMAIN v6 : v6[v] \in CompareVersions
  BY DEF CompareFilesTyped
<1> QED BY <1>1, <1>2
       DEF CompareFilesTyped, CompareParents, CompareCurrent, CompareVersions, Files,
           Compare!TypeOK,
       Compare!Null

\* There are none at the start.
LEMMA CompareStarts == Compare!Init => CompareFilesTyped
<1> SUFFICES ASSUME Compare!Init PROVE CompareFilesTyped
  OBVIOUS
<1>1. /\ v1 = [i \in Migrators |-> [at |-> "idle", song |-> 0, of |-> Nothing, found |-> FALSE]]
      /\ v2 = {} /\ v3 = [c \in {SomeMusic} |-> [bytes |-> "none", onDisk |-> FALSE]]
      /\ v4 = {} /\ v5 = {} /\ v6 = <<>> /\ v7 = [song \in {1, 2} |-> 0] /\ v8 = 0
  BY DEF Compare!Init, Compare!NoCall, Compare!Null
<1>2. v6 \in Seq(CompareVersions) /\ Len(v6) = 0 /\ DOMAIN v6 = {}
  BY <1>1
<1> QED BY <1>1, <1>2
       DEF CompareFilesTyped, CompareParents, CompareCurrent, CompareCalls, Files, AtWork

\* A Version is added: its parent is one of its Song.
LEMMA CompareAdds ==
  ASSUME CompareFilesTyped, NEW song \in {1, 2}, NEW parent \in 0 .. 3,
         parent \in DOMAIN v6 => v6[parent].song = song, parent \in DOMAIN v6 \cup {0},
         NEW of \in {SomeMusic} \cup {Nothing}, NEW found \in BOOLEAN, Len(v6) < 3,
         v6' = Append(v6, [song |-> song, parent |-> parent, of |-> of, found |-> found]),
         v7' = v7 \/ v7' = [v7 EXCEPT ![song] = Len(v6) + 1]
  PROVE  /\ Len(v6') = Len(v6) + 1 /\ \A v \in DOMAIN v6 : v6'[v] = v6[v]
         /\ DOMAIN v6' = DOMAIN v6 \cup {Len(v6) + 1}
         /\ v6'[Len(v6) + 1] = [song |-> song, parent |-> parent, of |-> of, found |-> found]
         /\ v6' \in Seq(CompareVersions) /\ Len(v6') <= 3
         /\ CompareParents' /\ CompareCurrent'
<1>1. PICK new : new = [song |-> song, parent |-> parent, of |-> of, found |-> found]
  OBVIOUS
<1>2. v6 \in Seq(CompareVersions) /\ Len(v6) < 3 /\ v6' = Append(v6, new)
  BY <1>1 DEF CompareFilesTyped
<1>4. new \in CompareVersions
  BY <1>1 DEF CompareVersions
<1>5. /\ v6' \in Seq(CompareVersions) /\ Len(v6') = Len(v6) + 1
      /\ DOMAIN v6' = DOMAIN v6 \cup {Len(v6) + 1}
      /\ \A v \in DOMAIN v6 : v6'[v] = v6[v]
      /\ v6'[Len(v6) + 1] = new
  BY <1>2, <1>4
<1>6. \A s : Compare!VersionsOf(s) \subseteq Compare!VersionsOf(s)'
  BY <1>5 DEF Compare!VersionsOf
<1>7. Len(v6) + 1 \in Compare!VersionsOf(song)'
  BY <1>1, <1>5 DEF Compare!VersionsOf
<1>8. CompareParents'
  <2>1. ASSUME NEW v \in DOMAIN v6, v6'[v].parent # 0
        PROVE  v6'[v].parent \in Compare!VersionsOf(v6[v].song)'
    <3>1. v6[v].parent \in Compare!VersionsOf(v6[v].song)
      BY <2>1, <1>5 DEF CompareFilesTyped, CompareParents
    <3> QED BY <3>1, <1>5, <1>6
  <2>2. new.parent # 0 => new.parent \in Compare!VersionsOf(song)'
    <3>1. parent # 0 => parent \in Compare!VersionsOf(song)
      BY DEF Compare!VersionsOf
    <3> QED BY <3>1, <1>1, <1>6
  <2> QED BY <2>1, <2>2, <1>1, <1>5 DEF CompareParents, Compare!VersionsOf
<1>9. CompareCurrent'
  BY <1>2, <1>6, <1>7 DEF CompareFilesTyped, CompareCurrent
<1> QED BY <1>1, <1>2, <1>5, <1>8, <1>9

\* The calls and the files have their types, and the lineage is left alone.
LEMMA CompareLeavesLineage ==
  ASSUME CompareFilesTyped, UNCHANGED <<v6, v7>>,
         v1' \in [Migrators -> CompareCalls],
         \A i \in Migrators : v1'[i].at \in AtWork =>
            v1'[i].song \in {1, 2} /\ v1'[i].of \in {SomeMusic},
         v2' \subseteq Migrators, v3' \in [{SomeMusic} -> Files], v4' \subseteq {SomeMusic},
         v5' \subseteq {SomeMusic}, v8' \in 0 .. 0
  PROVE  CompareFilesTyped'
BY DEF CompareFilesTyped, CompareParents, CompareCurrent, Compare!VersionsOf

\* A call goes on.
LEMMA CompareGoes ==
  ASSUME CompareFilesTyped, NEW i \in Migrators, NEW to \in AtWork, v1[i].at \in AtWork,
         NEW found \in BOOLEAN,
         v1' = [v1 EXCEPT ![i] = [at |-> to, song |-> v1[i].song, of |-> v1[i].of,
                                  found |-> found]]
  PROVE  /\ v1' \in [Migrators -> CompareCalls]
         /\ \A j \in Migrators : v1'[j].at \in AtWork =>
               v1'[j].song \in {1, 2} /\ v1'[j].of \in {SomeMusic}
BY DEF CompareFilesTyped, CompareCalls

\* A call stops.
LEMMA CompareEnds ==
  ASSUME CompareFilesTyped, NEW i \in Migrators, v1' = [v1 EXCEPT ![i] = Compare!Ended]
  PROVE  /\ v1' \in [Migrators -> CompareCalls]
         /\ \A j \in Migrators : v1'[j].at \in AtWork =>
               v1'[j].song \in {1, 2} /\ v1'[j].of \in {SomeMusic}
         /\ v1'[i].at = "ended" /\ \A j \in Migrators : j # i => v1'[j] = v1[j]
<1>1. PICK ended : ended = [at |-> "ended", song |-> 0, of |-> Nothing, found |-> FALSE]
  OBVIOUS
<1>2. v1' = [v1 EXCEPT ![i] = ended]
  <2>1. Compare!Ended = ended
    BY <1>1 DEF Compare!Ended, Compare!NoCall, Compare!Null
  <2> QED BY <2>1
<1>3. ended \in CompareCalls /\ ended.at \notin AtWork /\ ended.at = "ended"
  BY <1>1 DEF CompareCalls, AtWork
<1> QED BY <1>2, <1>3 DEF CompareFilesTyped

\* What the process's death does to its calls.
LEMMA CompareDies ==
  ASSUME CompareFilesTyped, Compare!Die
  PROVE  /\ v1' \in [Migrators -> CompareCalls]
         /\ \A i \in Migrators : v1'[i].at \notin AtWork
         /\ \A i \in Migrators : v1[i].at \in AtWork => v1'[i].at = "died"
         /\ \A i \in Migrators : v1[i].at \notin AtWork => v1'[i] = v1[i]
         /\ v8' \in 0 .. 0
<1>1. PICK died : died = [at |-> "died", song |-> 0, of |-> Nothing, found |-> FALSE]
  OBVIOUS
<1>2. v1' = [i \in Migrators |-> IF v1[i].at \in AtWork THEN died ELSE v1[i]]
  <2>1. \A i \in Migrators : i \in Compare!UnderWay <=> v1[i].at \in AtWork
    BY DEF Compare!UnderWay, AtWork, CompareFilesTyped, CompareCalls
  <2>2. Compare!NoCall("died") = died
    BY <1>1 DEF Compare!NoCall, Compare!Null
  <2> QED BY <2>1, <2>2 DEF Compare!Die
<1>3. died \in CompareCalls /\ died.at \notin AtWork /\ died.at = "died"
  BY <1>1 DEF CompareCalls, AtWork
<1>4. v8' \in 0 .. 0
  BY DEF CompareFilesTyped, Compare!Die
<1> QED BY <1>2, <1>3, <1>4 DEF CompareFilesTyped

\* A step of the files leaves the lineage alone, takes up a Version of it, or adds one at its end.
CompareVersionsGrow ==
    v6' = v6 \/ (\E new \in CompareVersions : v6' = Append(v6, new))

\* A step of an ingest appends one Version at most and alters none.
LEMMA CompareFileStep ==
  ASSUME CompareFilesTyped, Compare!Next
  PROVE  CompareFilesTyped' /\ CompareVersionsGrow
<1>1. /\ v1 \in [Migrators -> CompareCalls] /\ v2 \subseteq Migrators
      /\ \A i \in Migrators : v1[i].at \in AtWork =>
            v1[i].song \in {1, 2} /\ v1[i].of \in {SomeMusic}
      /\ v3 \in [{SomeMusic} -> Files] /\ v4 \subseteq {SomeMusic} /\ v5 \subseteq {SomeMusic}
      /\ v8 \in 0 .. 0
  BY DEF CompareFilesTyped
<1>2. ASSUME NEW i \in Migrators, NEW song \in {1, 2}, NEW c \in {SomeMusic},
             Compare!Stage(i, song, c)
      PROVE  CompareFilesTyped' /\ CompareVersionsGrow
  <2>1. PICK begun : begun = [at |-> "staged", song |-> song, of |-> c, found |-> FALSE]
    OBVIOUS
  <2>2. /\ v1' = [v1 EXCEPT ![i] = begun] /\ v2' = v2 \cup {i}
        /\ UNCHANGED <<v3, v4, v5, v6, v7, v8>>
    BY <1>2, <2>1 DEF Compare!Stage, Compare!fileVars, Compare!lineageVars
  <2>3. begun \in CompareCalls /\ begun.song \in {1, 2} /\ begun.of \in {SomeMusic}
    BY <2>1 DEF CompareCalls, AtWork
  <2>4. /\ v1' \in [Migrators -> CompareCalls]
        /\ \A j \in Migrators :
              v1'[j].at \in AtWork => v1'[j].song \in {1, 2} /\ v1'[j].of \in {SomeMusic}
    BY <1>1, <2>2, <2>3
  <2> QED BY <1>1, <2>2, <2>4, CompareLeavesLineage DEF CompareVersionsGrow
<1>3. ASSUME NEW i \in Migrators, NEW to \in AtWork, NEW found \in BOOLEAN, v1[i].at \in AtWork,
             v1' = [v1 EXCEPT ![i] = [at |-> to, song |-> v1[i].song, of |-> v1[i].of,
                                      found |-> found]],
             v2' \subseteq v2, UNCHANGED <<v6, v7, v8>>,
             v3' \in [{SomeMusic} -> Files], v4' \subseteq {SomeMusic}, v5' \subseteq {SomeMusic}
      PROVE  CompareFilesTyped' /\ CompareVersionsGrow
  <2>1. v2' \subseteq Migrators /\ v8' \in 0 .. 0
    BY <1>1, <1>3
  <2> QED BY <1>3, <2>1, CompareGoes, CompareLeavesLineage DEF CompareVersionsGrow
<1>4. ASSUME NEW i \in Migrators, NEW to \in AtWork, v1[i].at \in AtWork
      PROVE  [v1[i] EXCEPT !.at = to] =
                [at |-> to, song |-> v1[i].song, of |-> v1[i].of, found |-> v1[i].found]
             /\ v1[i].found \in BOOLEAN
  BY <1>1 DEF CompareCalls
<1>5. ASSUME NEW i \in Migrators, v1' = [v1 EXCEPT ![i] = Compare!Ended], v2' \subseteq v2,
             UNCHANGED <<v3, v4, v5, v6, v7, v8>>
      PROVE  CompareFilesTyped' /\ CompareVersionsGrow
  <2>1. /\ v2' \subseteq Migrators /\ v8' \in 0 .. 0 /\ v3' \in [{SomeMusic} -> Files]
        /\ v4' \subseteq {SomeMusic} /\ v5' \subseteq {SomeMusic}
    BY <1>1, <1>5
  <2> QED BY <1>5, <2>1, CompareEnds, CompareLeavesLineage DEF CompareVersionsGrow
<1>6. ASSUME NEW i \in Migrators, Compare!Look(i)
      PROVE  CompareFilesTyped' /\ CompareVersionsGrow
  <2>1. /\ v1[i].at \in AtWork /\ UNCHANGED <<v2, v3, v4, v5, v6, v7, v8>>
        /\ "absent" \in AtWork /\ "placed" \in AtWork
    BY <1>6 DEF Compare!Look, Compare!fileVars, Compare!lineageVars, AtWork
  <2>2. CASE v3[v1[i].of].bytes = "none"
    <3>1. v1' = [v1 EXCEPT ![i].at = "absent"]
      BY <1>6, <2>2 DEF Compare!Look, Compare!Goes
    <3>2. v1' = [v1 EXCEPT ![i] = [at |-> "absent", song |-> v1[i].song, of |-> v1[i].of,
                                   found |-> v1[i].found]]
      BY <1>4, <2>1, <3>1
    <3>3. v1[i].found \in BOOLEAN
      BY <1>4, <2>1
    <3> QED BY <1>1, <1>3, <2>1, <3>2, <3>3
  <2>3. CASE v3[v1[i].of].bytes # "none"
    <3>1. v1[i] \in CompareCalls
      BY <1>1
    <3>2. v1' = [v1 EXCEPT ![i] = [at |-> "placed", song |-> v1[i].song, of |-> v1[i].of,
                                   found |-> TRUE]]
      BY <1>1, <1>6, <2>3, <3>1 DEF Compare!Look, CompareCalls
    <3> QED BY <1>1, <1>3, <2>1, <3>2
  <2> QED BY <2>2, <2>3
<1>7. ASSUME NEW i \in Migrators, Compare!Link(i)
      PROVE  CompareFilesTyped' /\ CompareVersionsGrow
  <2>1. /\ v1[i].at \in AtWork /\ "linked" \in AtWork /\ UNCHANGED <<v2, v4, v6, v7, v8>>
        /\ v1' = [v1 EXCEPT ![i].at = "linked"] /\ v5' \subseteq v5
    BY <1>7 DEF Compare!Link, Compare!Goes, Compare!lineageVars, AtWork
  <2>2. PICK entry : entry = [bytes |-> "whole", onDisk |-> FALSE]
    OBVIOUS
  <2>3. entry \in Files
    BY <2>2 DEF Files
  <2>4. v3' \in [{SomeMusic} -> Files]
    BY <1>1, <1>7, <2>1, <2>2, <2>3 DEF Compare!Link
  <2>5. v1' = [v1 EXCEPT ![i] = [at |-> "linked", song |-> v1[i].song, of |-> v1[i].of,
                                 found |-> v1[i].found]]
    BY <1>4, <2>1
  <2>6. v1[i].found \in BOOLEAN /\ v4' \subseteq {SomeMusic} /\ v5' \subseteq {SomeMusic}
    BY <1>1, <1>4, <2>1
  <2> QED BY <1>3, <2>1, <2>4, <2>5, <2>6
<1>8. ASSUME NEW i \in Migrators, Compare!Sync_dirs(i)
      PROVE  CompareFilesTyped' /\ CompareVersionsGrow
  <2>1. /\ v1[i].at \in AtWork /\ "placed" \in AtWork /\ UNCHANGED <<v2, v4, v5, v6, v7, v8>>
        /\ v1' = [v1 EXCEPT ![i].at = "placed"]
    BY <1>8 DEF Compare!Sync_dirs, Compare!Goes, Compare!lineageVars, AtWork
  <2>2. PICK on : on = (v3[v1[i].of].onDisk \/ v3[v1[i].of].bytes # "none")
    OBVIOUS
  <2>3. on \in BOOLEAN /\ v3' = [v3 EXCEPT ![v1[i].of].onDisk = on]
    BY <1>8, <2>2 DEF Compare!Sync_dirs
  <2>4. v3' \in [{SomeMusic} -> Files]
    BY <1>1, <2>3 DEF Files
  <2>5. v1' = [v1 EXCEPT ![i] = [at |-> "placed", song |-> v1[i].song, of |-> v1[i].of,
                                 found |-> v1[i].found]]
    BY <1>4, <2>1
  <2>6. v1[i].found \in BOOLEAN /\ v4' \subseteq {SomeMusic} /\ v5' \subseteq {SomeMusic}
    BY <1>1, <1>4, <2>1
  <2> QED BY <1>3, <2>1, <2>4, <2>5, <2>6
<1>9. ASSUME NEW i \in Migrators, Compare!Verify_blob(i)
      PROVE  CompareFilesTyped' /\ CompareVersionsGrow
  <2>1. /\ v1[i].at \in AtWork /\ "installed" \in AtWork /\ v2' \subseteq v2
        /\ UNCHANGED <<v3, v4, v5, v6, v7, v8>>
        /\ v1' = [v1 EXCEPT ![i].at = "installed"] \/ v1' = [v1 EXCEPT ![i] = Compare!Ended]
    BY <1>9 DEF Compare!Verify_blob, Compare!Goes, Compare!fileVars, Compare!lineageVars, AtWork
  <2>2. CASE v1' = [v1 EXCEPT ![i].at = "installed"]
    <3>1. v1' = [v1 EXCEPT ![i] = [at |-> "installed", song |-> v1[i].song, of |-> v1[i].of,
                                   found |-> v1[i].found]]
      BY <1>4, <2>1, <2>2
    <3>2. v1[i].found \in BOOLEAN
      BY <1>4, <2>1
    <3> QED BY <1>1, <1>3, <2>1, <3>1, <3>2
  <2>3. CASE v1' = [v1 EXCEPT ![i] = Compare!Ended]
    BY <1>5, <2>1, <2>3
  <2> QED BY <2>1, <2>2, <2>3
<1>10. ASSUME NEW i \in Migrators, Compare!Fail(i)
       PROVE  CompareFilesTyped' /\ CompareVersionsGrow
  BY <1>5, <1>10 DEF Compare!Fail, Compare!fileVars, Compare!lineageVars
<1>11. ASSUME NEW song \in {1, 2}, NEW parent \in Compare!VersionsOf(song) \cup {0},
              NEW of \in {SomeMusic} \cup {Nothing}, NEW found \in BOOLEAN, Len(v6) < 3,
              v6' = Append(v6, [song |-> song, parent |-> parent, of |-> of, found |-> found]),
              v7' = v7 \/ v7' = [v7 EXCEPT ![song] = Len(v6) + 1],
              v1' = v1 \/ \E i \in Migrators : v1' = [v1 EXCEPT ![i] = Compare!Ended],
              UNCHANGED <<v2, v3, v4, v5, v8>>
       PROVE  CompareFilesTyped' /\ CompareVersionsGrow
  <2>1. v6 \in Seq(CompareVersions)
    BY DEF CompareFilesTyped
  <2>2. /\ parent \in DOMAIN v6 => v6[parent].song = song
        /\ parent \in DOMAIN v6 \cup {0} /\ parent \in 0 .. 3
    BY <1>11, <2>1 DEF Compare!VersionsOf
  <2>3. /\ v6' \in Seq(CompareVersions) /\ Len(v6') <= 3 /\ CompareParents' /\ CompareCurrent'
    BY <1>11, <2>2, CompareAdds
  <2>4. /\ v1' \in [Migrators -> CompareCalls]
        /\ \A j \in Migrators :
              v1'[j].at \in AtWork => v1'[j].song \in {1, 2} /\ v1'[j].of \in {SomeMusic}
    <3>1. CASE v1' = v1
      BY <1>1, <3>1
    <3>2. CASE \E i \in Migrators : v1' = [v1 EXCEPT ![i] = Compare!Ended]
      BY <3>2, CompareEnds
    <3> QED BY <1>11, <3>1, <3>2
  <2>5. [song |-> song, parent |-> parent, of |-> of, found |-> found] \in CompareVersions
    BY <2>2 DEF CompareVersions
  <2> QED BY <1>1, <1>11, <2>3, <2>4, <2>5 DEF CompareFilesTyped, CompareVersionsGrow
<1>12. ASSUME NEW i \in Migrators, Compare!Commit_asset_version(i)
       PROVE  CompareFilesTyped' /\ CompareVersionsGrow
  <2>1. /\ v1[i].at = "installed" /\ v1' = [v1 EXCEPT ![i] = Compare!Ended]
        /\ UNCHANGED <<v2, v3, v4, v5, v8>>
        /\ Compare!Add(v1[i].song, v7[v1[i].song], v1[i].of, v1[i].found, TRUE)
    BY <1>12 DEF Compare!Commit_asset_version, Compare!fileVars
  <2>2. /\ v1[i].song \in {1, 2} /\ v1[i].of \in {SomeMusic} \cup {Nothing}
        /\ v1[i].found \in BOOLEAN
    BY <1>1, <2>1 DEF AtWork, CompareCalls
  <2>3. v7[v1[i].song] \in Compare!VersionsOf(v1[i].song) \cup {0}
    BY <2>2 DEF CompareFilesTyped, CompareCurrent
  <2>4. PICK song, parent, of, found :
           song = v1[i].song /\ parent = v7[v1[i].song] /\ of = v1[i].of /\ found = v1[i].found
    OBVIOUS
  <2>5. /\ Len(v6) < 3 /\ v7' = [v7 EXCEPT ![song] = Len(v6) + 1]
        /\ v6' = Append(v6, [song |-> song, parent |-> parent, of |-> of, found |-> found])
    BY <2>1, <2>4 DEF Compare!Add
  <2> QED BY <1>11, <2>1, <2>2, <2>3, <2>4, <2>5
<1>13. ASSUME NEW song \in {1, 2}, NEW makeCurrent \in BOOLEAN,
              NEW parent \in Compare!VersionsOf(song) \cup {Compare!Null},
              Compare!Create_version(song, parent, makeCurrent)
       PROVE  CompareFilesTyped' /\ CompareVersionsGrow
  <2>1. PICK found : found = FALSE
    OBVIOUS
  <2>2. /\ UNCHANGED <<v1, v2, v3, v4, v5, v8>> /\ Len(v6) < 3
        /\ v6' = Append(v6, [song |-> song, parent |-> parent, of |-> Nothing, found |-> found])
        /\ v7' = v7 \/ v7' = [v7 EXCEPT ![song] = Len(v6) + 1]
    BY <1>13, <2>1 DEF Compare!Create_version, Compare!Add, Compare!fileVars, CompareFilesTyped,
       CompareCurrent
  <2>3. parent \in Compare!VersionsOf(song) \cup {0} /\ found \in BOOLEAN
    BY <2>1 DEF Compare!Null
  <2> QED BY <1>11, <2>2, <2>3
<1>14. ASSUME NEW v \in DOMAIN v6, Compare!Set_current_version(v)
       PROVE  CompareFilesTyped' /\ CompareVersionsGrow
  <2>1. UNCHANGED <<v1, v2, v3, v4, v5, v6, v8>> /\ v7' = [v7 EXCEPT ![v6[v].song] = v]
    BY <1>14 DEF Compare!Set_current_version, Compare!fileVars
  <2>2. v \in Nat /\ v \in Compare!VersionsOf(v6[v].song)
    BY DEF CompareFilesTyped, Compare!VersionsOf
  <2>3. CompareCurrent'
    BY <2>1, <2>2 DEF CompareFilesTyped, CompareCurrent, Compare!VersionsOf
  <2> QED BY <2>1, <2>3 DEF CompareFilesTyped, CompareParents, Compare!VersionsOf,
             CompareVersionsGrow
<1>15. ASSUME NEW c \in {SomeMusic}, NEW into \in {"none", "altered"}, Compare!Damage(c, into)
       PROVE  CompareFilesTyped' /\ CompareVersionsGrow
  <2>1. PICK on : on = (v3[c].onDisk /\ into # "none")
    OBVIOUS
  <2>2. PICK entry : entry = [bytes |-> into, onDisk |-> on]
    OBVIOUS
  <2>3. v4' = v4 \cup {c} /\ v3' = [v3 EXCEPT ![c] = entry] /\ UNCHANGED <<v1, v2, v5, v6, v7, v8>>
    BY <1>1, <1>15, <2>1, <2>2 DEF Compare!Damage, Compare!lineageVars
  <2>4. on \in BOOLEAN /\ entry \in Files
    BY <1>1, <2>1, <2>2 DEF Files
  <2> QED BY <1>1, <2>3, <2>4, CompareLeavesLineage DEF CompareVersionsGrow
<1>16. ASSUME Compare!Die
       PROVE  FALSE
  BY <1>1, <1>16 DEF Compare!Die
<1> QED BY <1>2, <1>6, <1>7, <1>8, <1>9, <1>10, <1>12, <1>13, <1>14, <1>15, <1>16
        DEF Compare!Next, Compare!Crash, Compare!Power_fails

\* The nearest of some Versions is one of them.
LEMMA NearestIs ==
  /\ \A T \in SUBSET Nat : T # {} => Compare!Min(T) \in T /\ \A n \in T : Compare!Min(T) <= n
  /\ \A N \in Nat : \A T \in SUBSET (0 .. N) : T # {} => Compare!Max(T) \in T
<1>1. ASSUME NEW T \in SUBSET Nat, T # {}
      PROVE  Compare!Min(T) \in T /\ \A n \in T : Compare!Min(T) <= n
  <2>1. \E m \in T : \A n \in T : m <= n
    BY <1>1, Smallest
  <2> QED BY <2>1 DEF Compare!Min
<1>2. ASSUME NEW N \in Nat, NEW T \in SUBSET (0 .. N), T # {}
      PROVE  Compare!Max(T) \in T
  <2>1. PICK m \in T : \A n \in T : n <= m
    BY <1>2, Largest
  <2>2. \A n \in T : m >= n
    BY <2>1
  <2> QED BY <2>2 DEF Compare!Max
<1> QED BY <1>1, <1>2

\* The reference of each Version.
References == [v \in DOMAIN v6 |-> Compare!ReferenceFor(v)]

\* The reference of a Version is a Version, or there is none.
LEMMA CompareReferences ==
  ASSUME CompareFilesTyped
  PROVE  \A v \in DOMAIN v6 : References[v] \in DOMAIN v6 \cup {0}
<1> SUFFICES ASSUME NEW v \in DOMAIN v6 PROVE Compare!ReferenceFor(v) \in DOMAIN v6 \cup {0}
  BY DEF References
<1>1. v6 \in Seq(CompareVersions) /\ DOMAIN v6 \subseteq 0 .. Len(v6) /\ Len(v6) \in Nat
  BY DEF CompareFilesTyped
<1>2. PICK peers : peers = Compare!VersionsOf(v6[v].song) \ {v}
  OBVIOUS
<1>3. PICK earlier : earlier = {p \in peers : p < v}
  OBVIOUS
<1>4. peers \subseteq DOMAIN v6 /\ earlier \subseteq DOMAIN v6
  BY <1>2, <1>3 DEF Compare!VersionsOf
<1>5. Compare!ReferenceFor(v) =
         IF v6[v].parent # 0 THEN v6[v].parent
         ELSE IF earlier # {} THEN Compare!Max(earlier)
         ELSE IF peers # {} THEN Compare!Min(peers)
         ELSE 0
  BY <1>2, <1>3 DEF Compare!ReferenceFor, Compare!Null
<1>6. v6[v].parent # 0 => v6[v].parent \in DOMAIN v6
  BY DEF CompareFilesTyped, CompareParents, Compare!VersionsOf
<1>7. earlier # {} => Compare!Max(earlier) \in earlier
  BY <1>1, <1>4, NearestIs
<1>8. peers # {} => Compare!Min(peers) \in peers
  BY <1>1, <1>4, NearestIs
<1> QED BY <1>4, <1>5, <1>6, <1>7, <1>8

\* A Version that is made later is no nearer to one that has a reference.
LEMMA CompareReferencesStand ==
  ASSUME CompareFilesTyped, CompareVersionsGrow
  PROVE  /\ Compare!ReferencesStand
         /\ DOMAIN v6 \subseteq DOMAIN v6'
         /\ \A v \in DOMAIN v6 : References[v] # 0 => References'[v] = References[v]
<1>1. v6 \in Seq(CompareVersions) /\ DOMAIN v6 \subseteq 0 .. Len(v6) /\ Len(v6) \in Nat
  BY DEF CompareFilesTyped
<1>2. CASE v6' = v6
  <2>1. Compare!ReferencesStand
    BY <1>2 DEF Compare!ReferencesStand, Compare!ReferenceFor, Compare!VersionsOf
  <2>2. References' = References
    BY <1>2 DEF References, Compare!ReferenceFor, Compare!VersionsOf
  <2> QED BY <1>2, <2>1, <2>2
<1>3. ASSUME NEW new \in CompareVersions, v6' = Append(v6, new)
      PROVE  /\ DOMAIN v6 \subseteq DOMAIN v6'
             /\ \A v \in DOMAIN v6 :
                   Compare!ReferenceFor(v) # 0 => Compare!ReferenceFor(v)' = Compare!ReferenceFor(v)
  <2>1. /\ DOMAIN v6' = DOMAIN v6 \cup {Len(v6) + 1}
        /\ \A v \in DOMAIN v6 : v6'[v] = v6[v] /\ v < Len(v6) + 1
    BY <1>1, <1>3
  <2>2. ASSUME NEW v \in DOMAIN v6, Compare!ReferenceFor(v) # 0
        PROVE  Compare!ReferenceFor(v)' = Compare!ReferenceFor(v)
    <3>1. PICK peers, peersNow :
             /\ peers = {p \in DOMAIN v6 : v6[p].song = v6[v].song} \ {v}
             /\ peersNow = {p \in DOMAIN v6' : v6'[p].song = v6'[v].song} \ {v}
      OBVIOUS
    <3>2. PICK earlier, earlierNow :
             earlier = {p \in peers : p < v} /\ earlierNow = {p \in peersNow : p < v}
      OBVIOUS
    <3>3. Compare!ReferenceFor(v) =
             IF v6[v].parent # 0 THEN v6[v].parent
             ELSE IF earlier # {} THEN Compare!Max(earlier)
             ELSE IF peers # {} THEN Compare!Min(peers)
             ELSE 0
      BY <3>1, <3>2 DEF Compare!ReferenceFor, Compare!Null, Compare!VersionsOf
    <3>4. Compare!ReferenceFor(v)' =
             IF v6'[v].parent # 0 THEN v6'[v].parent
             ELSE IF earlierNow # {} THEN Compare!Max(earlierNow)
             ELSE IF peersNow # {} THEN Compare!Min(peersNow)
             ELSE 0
      BY <3>1, <3>2 DEF Compare!ReferenceFor, Compare!Null, Compare!VersionsOf
    <3>5. v6'[v] = v6[v] /\ peers \subseteq peersNow /\ peersNow \subseteq peers \cup {Len(v6) + 1}
      BY <2>1, <3>1
    <3>6. earlierNow = earlier
      <4>1. ~(Len(v6) + 1 < v)
        BY <1>1, <2>1
      <4> QED BY <3>2, <3>5, <4>1
    <3>7. ASSUME peers # {}
          PROVE  peersNow # {} /\ Compare!Min(peersNow) = Compare!Min(peers)
      <4>1. peers \in SUBSET Nat /\ peersNow \in SUBSET Nat /\ peersNow # {}
        BY <1>1, <2>1, <3>1, <3>5, <3>7
      <4>2. PICK m, n : m = Compare!Min(peers) /\ n = Compare!Min(peersNow)
        OBVIOUS
      <4>3. /\ m \in peers /\ \A p \in peers : m <= p
            /\ n \in peersNow /\ \A p \in peersNow : n <= p
        BY <3>7, <4>1, <4>2, NearestIs
      <4>4. n <= m /\ m < Len(v6) + 1
        BY <2>1, <3>1, <3>5, <4>3
      <4>5. n \in peers
        BY <1>1, <3>5, <4>1, <4>3, <4>4
      <4>6. m <= n /\ m \in Nat /\ n \in Nat
        BY <4>1, <4>3, <4>5
      <4> QED BY <4>1, <4>2, <4>4, <4>6
    <3> QED BY <2>2, <3>3, <3>4, <3>5, <3>6, <3>7
  <2> QED BY <2>1, <2>2
<1>4. ASSUME NEW new \in CompareVersions, v6' = Append(v6, new)
      PROVE  /\ Compare!ReferencesStand
             /\ \A v \in DOMAIN v6 : References[v] # 0 => References'[v] = References[v]
  BY <1>3, <1>4 DEF References, Compare!ReferencesStand, Compare!Null
<1> QED BY <1>2, <1>3, <1>4 DEF CompareVersionsGrow

\* A comparison is of two Versions there are, and what was heard or decided is of a pair that
\* can be prepared again.
Decided == [song : {1, 2}, reference : Nat, current : Nat]
CompareInv ==
    /\ CompareFilesTyped
    /\ v9 \in {1, 2} \cup {0} /\ v10 \subseteq Compare!Pairs
    /\ v11 \in [at : {"idle", "posted", "current heard", "both heard"},
                pair : Compare!Pairs \cup {Compare!NoPair}]
    /\ v11.at # "idle" => v11.pair \in Compare!Pairs
    /\ v11.at = "both heard" => References[v11.pair.current] = v11.pair.reference
    /\ v12 \in Seq(Decided)
    /\ \A i \in DOMAIN v12 : v12[i] \in Compare!Pairs
    /\ \A i \in DOMAIN v12 : References[v12[i].current] = v12[i].reference

\* Nothing was compared at the start ...
LEMMA CompareBegins == Compare!CompareInit => CompareInv
<1> SUFFICES ASSUME Compare!CompareInit PROVE CompareInv
  OBVIOUS
<1>1. CompareFilesTyped
  BY CompareStarts DEF Compare!CompareInit
<1>2. /\ v9 = 0 /\ v10 = {} /\ v12 = <<>>
      /\ v11 = [at |-> "idle", pair |-> Compare!NoPair]
  BY DEF Compare!CompareInit, Compare!Null, Compare!NotDeciding
<1>3. v12 \in Seq(Decided) /\ DOMAIN v12 = {}
  BY <1>2
<1> QED BY <1>1, <1>2, <1>3 DEF CompareInv

\* The files and the lineage move below the page.
LEMMA CompareBelow ==
  ASSUME CompareInv, Compare!Next, UNCHANGED <<v9, v10, v11, v12>>
  PROVE  CompareInv'
<1>1. CompareFilesTyped' /\ CompareVersionsGrow
  BY CompareFileStep DEF CompareInv
<1>2. /\ DOMAIN v6 \subseteq DOMAIN v6'
      /\ \A v \in DOMAIN v6 : References[v] # 0 => References'[v] = References[v]
  BY <1>1, CompareReferencesStand DEF CompareInv
<1>3. Compare!Pairs \subseteq (Compare!Pairs)'
  BY <1>2 DEF Compare!Pairs
<1>4. \A pair \in Compare!Pairs : References[pair.current] = pair.reference =>
         References'[pair.current] = pair.reference
  <2>1. \A v \in DOMAIN v6 : v # 0
    <3>1. v6 \in Seq(CompareVersions)
      BY DEF CompareInv, CompareFilesTyped
    <3> QED BY <3>1
  <2> QED BY <1>2, <2>1 DEF Compare!Pairs
<1>5. (Compare!NoPair)' = Compare!NoPair
  BY DEF Compare!NoPair
<1> QED BY <1>1, <1>3, <1>4, <1>5 DEF CompareInv

\* The page, the decision and the artist's choice of a Song leave the files alone.
LEMMA CompareAbove ==
  ASSUME CompareInv, UNCHANGED <<v1, v2, v3, v4, v5, v6, v7, v8>>
  PROVE  /\ CompareFilesTyped' /\ References' = References
         /\ (Compare!Pairs)' = Compare!Pairs /\ (Compare!NoPair)' = Compare!NoPair
<1>1. CompareFilesTyped'
  BY DEF CompareInv, CompareFilesTyped, CompareParents, CompareCurrent, Compare!VersionsOf
<1>2. References' = References
  BY DEF References, Compare!ReferenceFor, Compare!VersionsOf
<1>3. (Compare!Pairs)' = Compare!Pairs /\ (Compare!NoPair)' = Compare!NoPair
  BY DEF Compare!Pairs, Compare!NoPair
<1> QED BY <1>1, <1>2, <1>3

\* ... every step of a page, a post, a hearing and an ingest keeps what is true of the pairs ...
LEMMA CompareStep ==
  ASSUME CompareInv, Compare!CompareNext
  PROVE  CompareInv'
<1>1. CASE Compare!Next /\ UNCHANGED <<v9, v10, v11, v12>>
  BY <1>1, CompareBelow
<1>2. CASE Compare!Render_page
  <2>1. PICK pair : pair = Compare!PairOf(v9)
    OBVIOUS
  <2>2. /\ UNCHANGED <<v1, v2, v3, v4, v5, v6, v7, v8, v9, v11, v12>>
        /\ v9 # 0 /\ pair.reference # 0 /\ v10' = v10 \cup {pair}
    BY <1>2, <2>1 DEF Compare!Render_page, Compare!vars, Compare!Null
  <2>3. pair = [song |-> v9, current |-> v7[v9],
                reference |-> IF v7[v9] = 0 THEN 0 ELSE Compare!ReferenceFor(v7[v9])]
    BY <2>1 DEF Compare!PairOf, Compare!Null
  <2>4. v9 \in {1, 2} /\ v7[v9] # 0 /\ v7[v9] \in DOMAIN v6
    BY <2>2, <2>3 DEF CompareInv, CompareFilesTyped, CompareCurrent, Compare!VersionsOf
  <2>5. pair.reference = References[v7[v9]]
    BY <2>3, <2>4 DEF References
  <2>6. pair \in Compare!Pairs
    BY <2>2, <2>3, <2>4, <2>5, CompareReferences DEF CompareInv, Compare!Pairs
  <2> QED BY <2>2, <2>6, CompareAbove DEF CompareInv
<1>3. ASSUME NEW pair \in v10, Compare!Post_decision(pair)
      PROVE  CompareInv'
  <2>1. /\ UNCHANGED <<v1, v2, v3, v4, v5, v6, v7, v8, v9, v12>>
        /\ v10' = v10 \ {pair} /\ v11' = [at |-> "posted", pair |-> pair]
    BY <1>3 DEF Compare!Post_decision, Compare!vars
  <2> QED BY <2>1, CompareAbove DEF CompareInv
<1>4. ASSUME v11' = Compare!NotDeciding, UNCHANGED <<v1, v2, v3, v4, v5, v6, v7, v8, v9, v10, v12>>
      PROVE  CompareInv'
  <2>1. v11' = [at |-> "idle", pair |-> Compare!NoPair]
    BY <1>4 DEF Compare!NotDeciding
  <2>2. /\ v11' \in [at : {"idle", "posted", "current heard", "both heard"},
                     pair : Compare!Pairs \cup {Compare!NoPair}]
        /\ v11'.at = "idle"
    BY <2>1
  <2>3. v9' = v9 /\ v10' = v10 /\ v12' = v12
    BY <1>4
  <2>4. /\ CompareFilesTyped' /\ References' = References
        /\ (Compare!Pairs)' = Compare!Pairs /\ (Compare!NoPair)' = Compare!NoPair
    BY <1>4, CompareAbove
  <2> QED BY <2>2, <2>3, <2>4 DEF CompareInv
<1>5. CASE Compare!Hear_current
  <2>1. v11.at = "posted" /\ UNCHANGED <<v1, v2, v3, v4, v5, v6, v7, v8, v9, v10, v12>>
    BY <1>5 DEF Compare!Hear_current, Compare!vars
  <2>2. CASE v11' = [v11 EXCEPT !.at = "current heard"]
    <3>1. v11' = [at |-> "current heard", pair |-> v11.pair]
      BY <2>2 DEF CompareInv
    <3> QED BY <2>1, <3>1, CompareAbove DEF CompareInv
  <2> QED BY <1>4, <1>5, <2>1, <2>2 DEF Compare!Hear_current
<1>6. CASE Compare!Hear_reference
  <2>1. v11.at = "current heard" /\ UNCHANGED <<v1, v2, v3, v4, v5, v6, v7, v8, v9, v10, v12>>
    BY <1>6 DEF Compare!Hear_reference, Compare!vars
  <2>2. CASE /\ Compare!ReferenceFor(v11.pair.current) = v11.pair.reference
             /\ v11' = [v11 EXCEPT !.at = "both heard"]
    <3>1. v11' = [at |-> "both heard", pair |-> v11.pair]
      BY <2>2 DEF CompareInv
    <3>2. v11.pair \in Compare!Pairs /\ v11.pair.current \in DOMAIN v6
      BY <2>1 DEF CompareInv, Compare!Pairs
    <3>3. References[v11.pair.current] = v11.pair.reference
      BY <2>2, <3>2 DEF References
    <3> QED BY <2>1, <3>1, <3>2, <3>3, CompareAbove DEF CompareInv
  <2> QED BY <1>4, <1>6, <2>1, <2>2 DEF Compare!Hear_reference
<1>7. CASE Compare!Record
  <2>1. /\ v11.at = "both heard" /\ v11' = [at |-> "idle", pair |-> Compare!NoPair]
        /\ UNCHANGED <<v1, v2, v3, v4, v5, v6, v7, v8, v9, v10>>
        /\ v12' = v12 \/ v12' = Append(v12, v11.pair)
    BY <1>7 DEF Compare!Record, Compare!vars, Compare!NotDeciding
  <2>2. CASE v12' = v12
    BY <1>4, <2>1, <2>2 DEF Compare!NotDeciding
  <2>3. CASE v12' = Append(v12, v11.pair)
    <3>1. v11.pair \in Compare!Pairs /\ References[v11.pair.current] = v11.pair.reference
      BY <2>1 DEF CompareInv
    <3>2. v11.pair \in Decided
      <4>1. v6 \in Seq(CompareVersions)
        BY DEF CompareInv, CompareFilesTyped
      <4>2. DOMAIN v6 = 1 .. Len(v6) /\ Len(v6) \in Nat
        BY <4>1
      <4> QED BY <3>1, <4>2 DEF Compare!Pairs, Decided
    <3>3. /\ v12' \in Seq(Decided)
          /\ \A i \in DOMAIN v12' : v12'[i] \in Compare!Pairs
          /\ \A i \in DOMAIN v12' : References[v12'[i].current] = v12'[i].reference
      <4>1. PICK pair : pair = v11.pair
        OBVIOUS
      <4>2. /\ v12' \in Seq(Decided) /\ DOMAIN v12' = DOMAIN v12 \cup {Len(v12) + 1}
            /\ v12'[Len(v12) + 1] = pair /\ \A i \in DOMAIN v12 : v12'[i] = v12[i]
        <5>1. v12 \in Seq(Decided) /\ pair \in Decided /\ v12' = Append(v12, pair)
          BY <2>3, <3>2, <4>1 DEF CompareInv
        <5> QED BY <5>1
      <4> QED BY <3>1, <4>1, <4>2 DEF CompareInv
    <3> QED BY <2>1, <3>3, CompareAbove DEF CompareInv
  <2> QED BY <2>1, <2>2, <2>3
<1>8. ASSUME NEW song \in {1, 2}, Compare!Select_song(song)
      PROVE  CompareInv'
  <2>1. /\ UNCHANGED <<v1, v2, v3, v4, v5, v6, v7, v8, v10, v11, v12>> /\ v9' = song
    BY <1>8 DEF Compare!Select_song, Compare!vars
  <2> QED BY <2>1, CompareAbove DEF CompareInv
<1> QED BY <1>1, <1>2, <1>3, <1>5, <1>6, <1>7, <1>8 DEF Compare!CompareNext

\* ... as does whatever else goes on ...
LEMMA CompareKeeps ==
  CompareInv /\ [Compare!CompareNext]_(Compare!compareVars) => CompareInv'
<1> SUFFICES ASSUME CompareInv, UNCHANGED Compare!compareVars PROVE CompareInv'
  BY CompareStep
<1>1. UNCHANGED <<v1, v2, v3, v4, v5, v6, v7, v8, v9, v10, v11, v12>>
  BY DEF Compare!compareVars, Compare!vars
<1> QED BY <1>1, CompareAbove DEF CompareInv

\* ... so that a decision is of two Versions of one Song, of which one is the other's reference.
LEMMA CompareIsTrue == CompareInv => Compare!CompareTypeOK /\ Compare!DecisionsAreFound
<1> SUFFICES ASSUME CompareInv PROVE Compare!CompareTypeOK /\ Compare!DecisionsAreFound
  OBVIOUS
<1>1. Compare!TypeOK
  BY CompareIsTyped DEF CompareInv
<1>2. \A i \in DOMAIN v12 : v12[i] \in Compare!Pairs /\ v12[i].current \in DOMAIN v6
  BY DEF CompareInv, Compare!Pairs
<1> QED BY <1>1, <1>2
        DEF CompareInv, Compare!CompareTypeOK, Compare!DecisionsAreFound, References, Compare!Null

\* A decision is recorded about the pair that was heard, while it is the one to decide about.
LEMMA CompareDecides ==
  CompareInv /\ [Compare!CompareNext]_(Compare!compareVars) =>
     Compare!ReferencesStand /\ Compare!DecidedAsHeard
<1> SUFFICES ASSUME CompareInv, [Compare!CompareNext]_(Compare!compareVars)
             PROVE  Compare!ReferencesStand /\ Compare!DecidedAsHeard
  OBVIOUS
<1>1. CompareVersionsGrow
  BY CompareFileStep
     DEF CompareInv, CompareVersionsGrow, Compare!CompareNext, Compare!compareVars, Compare!vars,
         Compare!Render_page, Compare!Post_decision, Compare!Hear_current,
         Compare!Hear_reference, Compare!Record, Compare!Select_song
<1>2. Compare!ReferencesStand
  BY <1>1, CompareReferencesStand DEF CompareInv
<1>3. CASE Compare!Record
  <2>1. /\ v11.at = "both heard" /\ v11.pair \in Compare!Pairs
        /\ References[v11.pair.current] = v11.pair.reference
    BY <1>3 DEF CompareInv, Compare!Record
  <2>2. Compare!ReferenceFor(v11.pair.current) = v11.pair.reference
    BY <2>1 DEF References, Compare!Pairs
  <2>3. \/ v12' = v12
        \/ /\ v12' = Append(v12, v11.pair)
           /\ v9 = v11.pair.song /\ v7[v11.pair.song] = v11.pair.current
    BY <1>3 DEF Compare!Record, Compare!StillThePair
  <2>4. v12 \in Seq(Decided)
    BY DEF CompareInv
  <2>5. \A i \in DOMAIN v12' \ DOMAIN v12 :
           v12'[i] = v11.pair /\ v9 = v11.pair.song /\ v7[v11.pair.song] = v11.pair.current
    <3>1. PICK pair : pair = v11.pair
      OBVIOUS
    <3>2. v12' = Append(v12, pair) => \A i \in DOMAIN v12' \ DOMAIN v12 : v12'[i] = pair
      BY <2>4
    <3> QED BY <2>3, <3>1, <3>2
  <2> QED BY <1>2, <2>2, <2>5 DEF Compare!DecidedAsHeard
<1>4. CASE UNCHANGED v12
  BY <1>2, <1>4 DEF Compare!DecidedAsHeard
<1> QED BY <1>3, <1>4
        DEF Compare!CompareNext, Compare!compareVars, Compare!Render_page,
            Compare!Post_decision, Compare!Hear_current, Compare!Hear_reference,
            Compare!Select_song
-----------------------------------------------------------------------------
(* The MIDI port of an observer.                                           *)

\* Inputs that are open and out of reach ...
Leaked == IF v5 THEN v4 - 1 ELSE v4
\* ... one that will be when the loop opens what a refresh has opened below it ...
Crossed == IF v7["loop"].pc = "opening" /\ v5 THEN 1 ELSE 0
\* ... and one that a refresh may still open.
Owing == IF v7["refresh"].pc \in {"ensuring", "opening"} THEN 1 ELSE 0

MonitorTyped ==
    /\ v4 \in Nat /\ v5 \in BOOLEAN /\ v11 \in Nat
    /\ v5 => v4 > 0
    /\ v7 \in [{"loop", "refresh"} ->
                  [pc : {"idle", "off", "ensuring", "opening"}]
                  \cup [pc : {"fetching"}, silence : BOOLEAN]]
    /\ v3 \in BOOLEAN
MonitorInv ==
    /\ MonitorTyped
    /\ Leaked + Crossed + Owing <= v11
    /\ v7["loop"].pc = "opening" /\ v7["refresh"].pc = "opening" => ~v5
    /\ v8 = "STOPPED" => v7["loop"].pc = "off"
    /\ v8 = "STOPPED" /\ v7["refresh"].pc = "off" => ~v5

\* No port is open at the start.
LEMMA MonitorStarts == Monitor!Init => MonitorInv
<1> SUFFICES ASSUME Monitor!Init PROVE MonitorInv
  OBVIOUS
<1>1. /\ v4 = 0 /\ v5 = FALSE /\ v11 = 0 /\ v8 = "READY" /\ v3 \in BOOLEAN
      /\ v7 = [t \in {"loop", "refresh"} |-> [pc |-> "off"]]
  BY DEF Monitor!Init, Monitor!Tasks, Monitor!Off
<1>2. [pc |-> "off"] \in [pc : {"idle", "off", "ensuring", "opening"}]
  OBVIOUS
<1>3. /\ v7["loop"].pc = "off" /\ v7["refresh"].pc = "off"
      /\ v7 \in [{"loop", "refresh"} ->
                    [pc : {"idle", "off", "ensuring", "opening"}]
                    \cup [pc : {"fetching"}, silence : BOOLEAN]]
  BY <1>1, <1>2
<1>4. Leaked = 0 /\ Crossed = 0 /\ Owing = 0
  BY <1>1, <1>3 DEF Leaked, Crossed, Owing
<1>5. MonitorTyped
  BY <1>1, <1>3 DEF MonitorTyped
<1> QED BY <1>1, <1>3, <1>4, <1>5 DEF MonitorInv

\* A task of the observer goes from one place to another, while the port is as it was.
LEMMA MonitorGoes ==
  ASSUME MonitorTyped, NEW t \in {"loop", "refresh"}, NEW poll,
         v7' = [v7 EXCEPT ![t] = poll],
         poll \in [pc : {"idle", "off", "ensuring", "opening"}]
                  \cup [pc : {"fetching"}, silence : BOOLEAN]
  PROVE  /\ v7' \in [{"loop", "refresh"} ->
                        [pc : {"idle", "off", "ensuring", "opening"}]
                        \cup [pc : {"fetching"}, silence : BOOLEAN]]
         /\ v7'[t].pc = poll.pc
         /\ t = "loop" => v7'["refresh"] = v7["refresh"]
         /\ t = "refresh" => v7'["loop"] = v7["loop"]
<1>1. v7 \in [{"loop", "refresh"} ->
                  [pc : {"idle", "off", "ensuring", "opening"}]
                  \cup [pc : {"fetching"}, silence : BOOLEAN]]
  BY DEF MonitorTyped
<1> HIDE DEF MonitorTyped
<1> QED BY <1>1

\* The places of a task.
LEMMA MonitorPlaces ==
  /\ Monitor!Off = [pc |-> "off"] /\ Monitor!Idle = [pc |-> "idle"]
  /\ Monitor!Ensuring = [pc |-> "ensuring"] /\ Monitor!Opening = [pc |-> "opening"]
BY DEF Monitor!Off, Monitor!Idle, Monitor!Ensuring, Monitor!Opening

\* A task is done with its port: what it held is closed, or it has its answer.
LEMMA MonitorEnds ==
  ASSUME MonitorInv, NEW t \in {"loop", "refresh"},
         v7' = [v7 EXCEPT ![t] = Monitor!After(t)], v7[t].pc \in {"opening", "fetching"},
         \/ UNCHANGED <<v4, v5>>
            /\ v7[t].pc = "fetching"
         \/ Monitor!Close,
         v8' # "STOPPED", UNCHANGED <<v3, v11>>
  PROVE  MonitorInv'
<1>1. PICK poll : poll = Monitor!After(t)
  OBVIOUS
<1>2. poll = IF t = "loop" THEN [pc |-> "idle"] ELSE [pc |-> "off"]
  BY <1>1, MonitorPlaces DEF Monitor!After
<1>3. poll \in [pc : {"idle", "off", "ensuring", "opening"}] /\ poll.pc \in {"idle", "off"}
  BY <1>2
<1>4. /\ v7' \in [{"loop", "refresh"} ->
                     [pc : {"idle", "off", "ensuring", "opening"}]
                     \cup [pc : {"fetching"}, silence : BOOLEAN]]
      /\ v7'[t].pc = poll.pc
      /\ t = "loop" => v7'["refresh"] = v7["refresh"]
      /\ t = "refresh" => v7'["loop"] = v7["loop"]
  BY <1>1, <1>3, MonitorGoes DEF MonitorInv
<1>5. v4 \in Nat /\ v5 \in BOOLEAN /\ v11 \in Nat /\ (v5 => v4 > 0) /\ v3 \in BOOLEAN
  BY DEF MonitorInv, MonitorTyped
<1>6. v4' \in Nat /\ v5' \in BOOLEAN /\ (v5' => v4' > 0) /\ (v5' => v5)
  <2>1. CASE UNCHANGED <<v4, v5>>
    BY <1>5, <2>1
  <2>2. CASE Monitor!Close
    <3>1. v5' = FALSE /\ v4' = IF v5 THEN v4 - 1 ELSE v4
      BY <2>2 DEF Monitor!Close
    <3>2. v4' \in Nat
      BY <1>5, <3>1
    <3> QED BY <3>1, <3>2
  <2> QED BY <2>1, <2>2
<1>7. Leaked' = Leaked /\ Leaked \in Nat
  <2>1. CASE UNCHANGED <<v4, v5>>
    BY <1>5, <2>1 DEF Leaked
  <2>2. CASE Monitor!Close
    <3>1. v5' = FALSE /\ v4' = IF v5 THEN v4 - 1 ELSE v4
      BY <2>2 DEF Monitor!Close
    <3>2. Leaked' = v4'
      BY <3>1 DEF Leaked
    <3>3. Leaked = IF v5 THEN v4 - 1 ELSE v4
      BY DEF Leaked
    <3> QED BY <1>5, <3>1, <3>2, <3>3
  <2> QED BY <2>1, <2>2
<1>8. Crossed' <= Crossed /\ Crossed \in Nat /\ Crossed' \in Nat
  BY <1>3, <1>4, <1>6 DEF Crossed
<1>9. Owing' <= Owing /\ Owing \in Nat /\ Owing' \in Nat
  BY <1>3, <1>4 DEF Owing
<1>10. (Leaked + Crossed + Owing)' <= v11'
  <2>1. Leaked + Crossed + Owing <= v11 /\ v11' = v11
    BY DEF MonitorInv
  <2>2. \A a, b, c, d, e \in Nat, n \in Nat :
           a + b + c <= n /\ d <= b /\ e <= c => a + d + e <= n
    OBVIOUS
  <2>3. Leaked + Crossed' + Owing' <= v11
    BY <1>5, <1>7, <1>8, <1>9, <2>1, <2>2
  <2> QED BY <1>7, <2>1, <2>3
<1>11. MonitorTyped'
  BY <1>4, <1>5, <1>6 DEF MonitorTyped
<1>12. v7'["loop"].pc = "opening" => v7["loop"].pc = "opening"
  BY <1>3, <1>4
<1>13. v7'["refresh"].pc = "opening" => v7["refresh"].pc = "opening"
  BY <1>3, <1>4
<1> QED BY <1>6, <1>10, <1>11, <1>12, <1>13 DEF MonitorInv

\* open() has opened a port, whether or not the other task had.
LEMMA MonitorOpens ==
  ASSUME MonitorInv, NEW t \in {"loop", "refresh"},
         v7[t].pc = "opening", v4' = v4 + 1, v5' = TRUE,
         v7' = [v7 EXCEPT ![t] = Monitor!Fetching(~v3)], UNCHANGED <<v3, v8, v11>>
  PROVE  MonitorInv'
<1>1. PICK poll : poll = Monitor!Fetching(~v3)
  OBVIOUS
<1>2. v4 \in Nat /\ v5 \in BOOLEAN /\ v11 \in Nat /\ (v5 => v4 > 0) /\ v3 \in BOOLEAN
  BY DEF MonitorInv, MonitorTyped
<1>3. poll \in [pc : {"fetching"}, silence : BOOLEAN] /\ poll.pc = "fetching"
  BY <1>1, <1>2 DEF Monitor!Fetching
<1>4. /\ v7' \in [{"loop", "refresh"} ->
                     [pc : {"idle", "off", "ensuring", "opening"}]
                     \cup [pc : {"fetching"}, silence : BOOLEAN]]
      /\ v7'[t].pc = "fetching"
      /\ t = "loop" => v7'["refresh"] = v7["refresh"]
      /\ t = "refresh" => v7'["loop"] = v7["loop"]
  BY <1>1, <1>3, MonitorGoes DEF MonitorInv
<1>5. MonitorTyped'
  BY <1>2, <1>4 DEF MonitorTyped
<1>6. v8 # "STOPPED" \/ (t = "refresh" /\ v7'["refresh"].pc # "off")
  BY <1>4 DEF MonitorInv
<1>7. (Leaked + Crossed + Owing)' <= v11'
  BY <1>2, <1>4 DEF MonitorInv, Leaked, Crossed, Owing
<1> QED BY <1>4, <1>5, <1>6, <1>7 DEF MonitorInv

\* Every port that is open is the loop's or owed to a refresh that crossed with another.
LEMMA MonitorStep ==
  ASSUME MonitorInv, Monitor!Next
  PROVE  MonitorInv'
<1>1. /\ v4 \in Nat /\ v5 \in BOOLEAN /\ v11 \in Nat /\ (v5 => v4 > 0) /\ v3 \in BOOLEAN
  BY DEF MonitorInv, MonitorTyped
<1>2. CASE UNCHANGED <<v3, v4, v5, v7, v8, v11>>
  BY <1>2 DEF MonitorInv, MonitorTyped, Leaked, Crossed, Owing
<1>3. CASE Monitor!ClockComesOrGoes
  <2>1. /\ UNCHANGED <<v4, v5, v8, v11>> /\ v3' \in BOOLEAN
        /\ v7' = [t \in {"loop", "refresh"} |->
                     IF v7[t].pc = "fetching" THEN [pc |-> "fetching", silence |-> TRUE] ELSE v7[t]]
    BY <1>3 DEF Monitor!ClockComesOrGoes, Monitor!Tasks, Monitor!Fetching
  <2>2. PICK silent : silent = [pc |-> "fetching", silence |-> TRUE]
    OBVIOUS
  <2>3. silent \in [pc : {"fetching"}, silence : BOOLEAN] /\ silent.pc = "fetching"
    BY <2>2
  <2>4. /\ v7' \in [{"loop", "refresh"} ->
                       [pc : {"idle", "off", "ensuring", "opening"}]
                       \cup [pc : {"fetching"}, silence : BOOLEAN]]
        /\ v7'["loop"].pc = v7["loop"].pc /\ v7'["refresh"].pc = v7["refresh"].pc
    BY <2>1, <2>2, <2>3 DEF MonitorInv, MonitorTyped
  <2> QED BY <2>1, <2>4 DEF MonitorInv, MonitorTyped, Leaked, Crossed, Owing
<1>4. ASSUME NEW t \in {"loop", "refresh"},
             NEW poll \in [pc : {"idle", "off", "ensuring", "opening"}],
             v7' = [v7 EXCEPT ![t] = poll], UNCHANGED <<v3, v4, v5>>, v11' \in Nat,
             \/ v8' # "STOPPED"
             \/ /\ v8' = v8 /\ v7[t].pc = "off" /\ t = "refresh"
                /\ poll.pc # "off",
             v7[t].pc \in {"idle", "off"}, v11' = IF t = "loop" THEN v11 ELSE v11 + 1,
             poll.pc # "opening"
      PROVE  MonitorInv'
  <2>1. /\ v7' \in [{"loop", "refresh"} ->
                       [pc : {"idle", "off", "ensuring", "opening"}]
                       \cup [pc : {"fetching"}, silence : BOOLEAN]]
        /\ v7'[t].pc = poll.pc
        /\ t = "loop" => v7'["refresh"] = v7["refresh"]
        /\ t = "refresh" => v7'["loop"] = v7["loop"]
    BY <1>4, MonitorGoes DEF MonitorInv
  <2>2. MonitorTyped'
    BY <1>1, <1>4, <2>1 DEF MonitorTyped
  <2>3. (Leaked + Crossed + Owing)' <= v11'
    BY <1>1, <1>4, <2>1 DEF MonitorInv, Leaked, Crossed, Owing
  <2> QED BY <1>4, <2>1, <2>2, <2>3 DEF MonitorInv
<1>5. CASE Monitor!Run
  <2>1. /\ v7["loop"].pc = "off" /\ v7' = [v7 EXCEPT !["loop"] = [pc |-> "idle"]]
        /\ UNCHANGED <<v3, v4, v5, v11>> /\ v8' = "READY"
    BY <1>5, MonitorPlaces DEF Monitor!Run, Monitor!Goes, Monitor!World
  <2>2. PICK idle : idle = [pc |-> "idle"]
    OBVIOUS
  <2>3. idle \in [pc : {"idle", "off", "ensuring", "opening"}] /\ idle.pc = "idle"
    BY <2>2
  <2> QED BY <1>1, <1>4, <2>1, <2>2, <2>3
<1>6. CASE Monitor!LoopPolls
  <2>1. /\ v7["loop"].pc = "idle" /\ v7' = [v7 EXCEPT !["loop"] = [pc |-> "ensuring"]]
        /\ UNCHANGED <<v3, v4, v5, v8, v11>>
    BY <1>6, MonitorPlaces DEF Monitor!LoopPolls, Monitor!Goes, Monitor!World
  <2>2. v8 # "STOPPED"
    BY <2>1 DEF MonitorInv
  <2>3. PICK ensuring : ensuring = [pc |-> "ensuring"]
    OBVIOUS
  <2>4. /\ ensuring \in [pc : {"idle", "off", "ensuring", "opening"}]
        /\ ensuring.pc = "ensuring"
    BY <2>3
  <2> QED BY <1>1, <1>4, <2>1, <2>2, <2>3, <2>4
<1>7. CASE Monitor!LoopEnds
  <2>1. /\ v7["loop"].pc = "idle" /\ v7' = [v7 EXCEPT !["loop"] = [pc |-> "off"]]
        /\ UNCHANGED <<v3, v11>> /\ v8' = "STOPPED" /\ v5' = FALSE /\ v4' = Leaked
    BY <1>7, MonitorPlaces DEF Monitor!LoopEnds, Monitor!Goes, Monitor!World, Monitor!Close, Leaked
  <2>2. PICK off : off = [pc |-> "off"]
    OBVIOUS
  <2>3. off \in [pc : {"idle", "off", "ensuring", "opening"}] /\ off.pc = "off"
    BY <2>2
  <2>4. /\ v7' \in [{"loop", "refresh"} ->
                       [pc : {"idle", "off", "ensuring", "opening"}]
                       \cup [pc : {"fetching"}, silence : BOOLEAN]]
        /\ v7'["loop"].pc = "off" /\ v7'["refresh"] = v7["refresh"]
    BY <2>1, <2>2, <2>3, MonitorGoes DEF MonitorInv
  <2>7. Leaked \in Nat /\ Leaked' = Leaked
    <3>1. CASE v5
      BY <1>1, <2>1, <3>1 DEF Leaked
    <3>2. CASE ~v5
      BY <1>1, <2>1, <3>2 DEF Leaked
    <3> QED BY <3>1, <3>2
  <2>5. MonitorTyped'
    BY <1>1, <2>1, <2>4, <2>7 DEF MonitorTyped
  <2>8. Crossed \in Nat /\ Crossed' = 0
    BY <2>4 DEF Crossed
  <2>9. Owing \in Nat /\ Owing' = Owing
    BY <2>4 DEF Owing
  <2>6. (Leaked + Crossed + Owing)' <= v11'
    BY <1>1, <2>1, <2>7, <2>8, <2>9 DEF MonitorInv
  <2> QED BY <2>1, <2>4, <2>5, <2>6 DEF MonitorInv
<1>8. CASE Monitor!Refresh
  <2>1. /\ v7["refresh"].pc = "off" /\ v7' = [v7 EXCEPT !["refresh"] = [pc |-> "ensuring"]]
        /\ UNCHANGED <<v3, v4, v5, v8>> /\ v11' = v11 + 1
    BY <1>8, MonitorPlaces DEF Monitor!Refresh, Monitor!Goes, Monitor!World
  <2>2. PICK ensuring : ensuring = [pc |-> "ensuring"]
    OBVIOUS
  <2>3. /\ ensuring \in [pc : {"idle", "off", "ensuring", "opening"}]
        /\ ensuring.pc = "ensuring"
    BY <2>2
  <2>4. v7["refresh"].pc \in {"idle", "off"} /\ v8' = v8 /\ v11' \in Nat
    BY <1>1, <2>1
  <2> QED BY <1>4, <2>1, <2>2, <2>3, <2>4
<1>9. ASSUME NEW t \in {"loop", "refresh"}, Monitor!EnsureOpen(t)
      PROVE  MonitorInv'
  <2>1. v7[t].pc = "ensuring" /\ UNCHANGED <<v3, v4, v5, v8, v11>>
    BY <1>9, MonitorPlaces DEF Monitor!EnsureOpen, Monitor!World
  <2>2. PICK poll : poll = IF v5 THEN Monitor!Fetching(~v3) ELSE [pc |-> "opening"]
    OBVIOUS
  <2>3. v7' = [v7 EXCEPT ![t] = poll]
    BY <1>9, <2>2, MonitorPlaces DEF Monitor!EnsureOpen, Monitor!Goes
  <2>4. /\ poll \in [pc : {"idle", "off", "ensuring", "opening"}]
                    \cup [pc : {"fetching"}, silence : BOOLEAN]
        /\ poll.pc = IF v5 THEN "fetching" ELSE "opening"
    BY <1>1, <2>2 DEF Monitor!Fetching
  <2>5. /\ v7' \in [{"loop", "refresh"} ->
                       [pc : {"idle", "off", "ensuring", "opening"}]
                       \cup [pc : {"fetching"}, silence : BOOLEAN]]
        /\ v7'[t].pc = poll.pc
        /\ t = "loop" => v7'["refresh"] = v7["refresh"]
        /\ t = "refresh" => v7'["loop"] = v7["loop"]
    BY <2>3, <2>4, MonitorGoes DEF MonitorInv
  <2>6. MonitorTyped'
    BY <1>1, <2>1, <2>5 DEF MonitorTyped
  <2>7. (Leaked + Crossed + Owing)' <= v11'
    BY <1>1, <2>1, <2>4, <2>5 DEF MonitorInv, Leaked, Crossed, Owing
  <2> QED BY <1>1, <2>1, <2>4, <2>5, <2>6, <2>7 DEF MonitorInv
<1>10. ASSUME NEW t \in {"loop", "refresh"}, Monitor!OpenLogic(t) \/ Monitor!OpenStudioOne(t)
       PROVE  MonitorInv'
  <2>1. /\ v7[t].pc = "opening" /\ v4' = v4 + 1 /\ v5' = TRUE
        /\ v7' = [v7 EXCEPT ![t] = Monitor!Fetching(~v3)] /\ UNCHANGED <<v3, v8, v11>>
    BY <1>10, MonitorPlaces
       DEF Monitor!OpenLogic, Monitor!OpenStudioOne, Monitor!Goes, Monitor!World
  <2> QED BY <2>1, MonitorOpens
<1>11. ASSUME NEW t \in {"loop", "refresh"},
              \/ Monitor!OpenFails(t) \/ Monitor!FetchAnswers(t)
              \/ Monitor!LogicFails(t) \/ Monitor!StudioOneFails(t)
       PROVE  MonitorInv'
  <2>1. /\ v7' = [v7 EXCEPT ![t] = Monitor!After(t)] /\ v7[t].pc \in {"opening", "fetching"}
        /\ \/ UNCHANGED <<v4, v5>> /\ v7[t].pc = "fetching"
           \/ Monitor!Close
        /\ v8' # "STOPPED" /\ UNCHANGED <<v3, v11>>
    BY <1>11, MonitorPlaces
       DEF Monitor!OpenFails, Monitor!FetchAnswers, Monitor!LogicFails, Monitor!StudioOneFails,
           Monitor!Goes, Monitor!World
  <2> QED BY <2>1, MonitorEnds
<1> QED BY <1>2, <1>3, <1>5, <1>6, <1>7, <1>8, <1>9, <1>10, <1>11
        DEF Monitor!Next, Monitor!Step, Monitor!Tasks, Monitor!PortComesOrGoes, Monitor!Publish,
            Monitor!Ages, Monitor!Stop, Monitor!state

\* So it stays whatever else goes on ...
LEMMA MonitorKeeps == MonitorInv /\ [Monitor!Next]_(Monitor!vars) => MonitorInv'
<1> SUFFICES ASSUME MonitorInv, UNCHANGED Monitor!vars PROVE MonitorInv'
  BY MonitorStep
<1> QED BY DEF Monitor!vars, Monitor!state, MonitorInv, MonitorTyped, Leaked, Crossed, Owing

\* ... and a loop that has stopped holds none.
LEMMA MonitorIsTrue == MonitorInv => Monitor!PortsAreGivenBack
<1> SUFFICES ASSUME MonitorInv PROVE Monitor!PortsAreGivenBack
  OBVIOUS
<1>1. v4 \in Nat /\ v5 \in BOOLEAN /\ v11 \in Nat /\ Leaked + Crossed + Owing <= v11
  BY DEF MonitorInv, MonitorTyped
<1>2. v4 <= 1 + v11 /\ (~v5 => v4 <= v11)
  BY <1>1 DEF Leaked, Crossed, Owing
<1> QED BY <1>2, MonitorPlaces DEF MonitorInv, Monitor!PortsAreGivenBack
-----------------------------------------------------------------------------
(* The frames of Logic Pro.                                                *)

\* The messages of a frame: its number, the fields with their checksum, and its number again.
FrameSums == {Frames!Checksum(n, values) : n \in Nat, values \in [1..3 -> Values]}
FrameMessages ==
    [start : BOOLEAN, value : Nat]
    \cup [start : BOOLEAN, index : 1..5, value : (Values \cup Nat) \cup FrameSums]

\* What is still to be sent of a frame ends with its number, whatever of it was lost.
FramesTyped == v1 \in Seq(FrameMessages) /\ v2 \in Nat
FramesInv ==
    /\ FramesTyped
    /\ v1 # <<>> => v2 > 0
    /\ \A i \in 1..Len(v1) : ~v1[i].start /\ v1[i].index = 5 =>
          i = Len(v1) /\ v1[i].value = v2 - 1

\* Nothing is sent at the start.
LEMMA FramesStart == Frames!Init => FramesInv
<1> SUFFICES ASSUME Frames!Init PROVE FramesInv
  OBVIOUS
<1>1. v1 = <<>> /\ v2 = 0
  BY DEF Frames!Init
<1>2. v1 \in Seq(FrameMessages)
  BY <1>1
<1> QED BY <1>1, <1>2 DEF FramesInv, FramesTyped

\* One sequence after another.
LEMMA OneAfterTheOther ==
  ASSUME NEW S, NEW a \in Seq(S), NEW b \in Seq(S)
  PROVE  /\ a \o b \in Seq(S) /\ Len(a \o b) = Len(a) + Len(b)
         /\ \A i \in 1..Len(a) : (a \o b)[i] = a[i]
         /\ \A i \in 1..Len(b) : (a \o b)[Len(a) + i] = b[i]
<1>1. a \o b \in Seq(S)
  OBVIOUS
<1>2. Len(a \o b) = Len(a) + Len(b)
  OBVIOUS
<1>3. \A i \in 1..Len(a) : (a \o b)[i] = a[i]
  OBVIOUS
<1>4. \A i \in 1..Len(b) : (a \o b)[Len(a) + i] = b[i]
  OBVIOUS
<1> QED BY <1>1, <1>2, <1>3, <1>4

\* What is sent of a frame is its messages, the last of which is its number.
LEMMA FramesAreSent ==
  ASSUME NEW n \in Nat, NEW values \in [1..3 -> Values], NEW frame,
         frame = Frames!Messages([sequence |-> n, values |-> values])
  PROVE  /\ frame \in Seq(FrameMessages) /\ frame # <<>>
         /\ \A i \in 1..Len(frame) : ~frame[i].start /\ frame[i].index = 5 =>
               i = Len(frame) /\ frame[i].value = n
<1>1. PICK f : f = [sequence |-> n, values |-> values]
  OBVIOUS
<1>2. f.sequence = n /\ f.values = values
  BY <1>1
<1>3. PICK head, body, end :
        /\ head = [start |-> TRUE, value |-> n]
        /\ body = [i \in 1..3 |-> [start |-> FALSE, index |-> i, value |-> values[i]]]
        /\ end = <<[start |-> FALSE, index |-> 4, value |-> Frames!Checksum(n, values)],
                   [start |-> FALSE, index |-> 5, value |-> n]>>
  OBVIOUS
<1>4. frame = <<head>> \o body \o end
  BY <1>1, <1>2, <1>3 DEF Frames!Messages, Frames!Fields
<1>5. head \in FrameMessages
  <2>1. TRUE \in BOOLEAN
    OBVIOUS
  <2>2. head \in [start : BOOLEAN, value : Nat]
    BY <1>3, <2>1
  <2> QED BY <2>2 DEF FrameMessages
<1>6. \A i \in 1..3 : body[i] \in FrameMessages
  <2> SUFFICES ASSUME NEW i \in 1..3 PROVE body[i] \in FrameMessages
    OBVIOUS
  <2>1. body[i] = [start |-> FALSE, index |-> i, value |-> values[i]]
    BY <1>3
  <2>2. FALSE \in BOOLEAN /\ i \in 1..5 /\ values[i] \in Values
    OBVIOUS
  <2>3. body[i] \in [start : BOOLEAN, index : 1..5, value : (Values \cup Nat) \cup FrameSums]
    BY <2>1, <2>2
  <2> QED BY <2>3 DEF FrameMessages
<1>7. end[1] \in FrameMessages /\ end[2] \in FrameMessages
  <2>1. FALSE \in BOOLEAN /\ 4 \in 1..5 /\ 5 \in 1..5
    OBVIOUS
  <2>2. Frames!Checksum(n, values) \in FrameSums
    BY DEF FrameSums
  <2>3. /\ end[1] \in [start : BOOLEAN, index : 1..5, value : (Values \cup Nat) \cup FrameSums]
        /\ end[2] \in [start : BOOLEAN, index : 1..5, value : (Values \cup Nat) \cup FrameSums]
    BY <1>3, <2>1, <2>2
  <2> QED BY <2>3 DEF FrameMessages
<1>8. /\ body \in Seq(FrameMessages) /\ Len(body) = 3
      /\ end \in Seq(FrameMessages) /\ Len(end) = 2
      /\ <<head>> \in Seq(FrameMessages) /\ Len(<<head>>) = 1
  BY <1>3, <1>5, <1>6, <1>7
<1>9. /\ frame \in Seq(FrameMessages) /\ Len(frame) = 6
      /\ frame[1] = head /\ frame[5] = end[1] /\ frame[6] = end[2]
      /\ \A i \in 1..3 : frame[i + 1] = body[i]
  <2>1. PICK begun : begun = <<head>> \o body
    OBVIOUS
  <2>2. /\ begun \in Seq(FrameMessages) /\ Len(begun) = 1 + 3
        /\ \A i \in 1..1 : begun[i] = <<head>>[i]
        /\ \A i \in 1..3 : begun[1 + i] = body[i]
    <3>1. PICK one : one = <<head>>
      OBVIOUS
    <3>2. one \in Seq(FrameMessages) /\ Len(one) = 1 /\ begun = one \o body
      BY <1>8, <2>1, <3>1
    <3>3. begun \in Seq(FrameMessages) /\ Len(begun) = Len(one) + Len(body)
      BY <1>8, <3>2, OneAfterTheOther
    <3>4. \A i \in 1..Len(one) : begun[i] = one[i]
      BY <1>8, <3>2, OneAfterTheOther
    <3>5. \A i \in 1..Len(body) : begun[Len(one) + i] = body[i]
      BY <1>8, <3>2, OneAfterTheOther
    <3>6. Len(one) = 1 /\ Len(body) = 3
      BY <1>8, <3>2
    <3> QED BY <3>1, <3>3, <3>4, <3>5, <3>6
  <2>3. frame = begun \o end
    BY <1>4, <2>1
  <2>4. /\ frame \in Seq(FrameMessages) /\ Len(frame) = 4 + 2
        /\ \A i \in 1..4 : frame[i] = begun[i]
        /\ \A i \in 1..2 : frame[4 + i] = end[i]
    <3>1. begun \in Seq(FrameMessages) /\ end \in Seq(FrameMessages) /\ frame = begun \o end
      BY <1>8, <2>2, <2>3
    <3>2. frame \in Seq(FrameMessages) /\ Len(frame) = Len(begun) + Len(end)
      BY <3>1, OneAfterTheOther
    <3>3. \A i \in 1..Len(begun) : frame[i] = begun[i]
      BY <3>1, OneAfterTheOther
    <3>4. \A i \in 1..Len(end) : frame[Len(begun) + i] = end[i]
      BY <3>1, OneAfterTheOther
    <3>5. Len(begun) = 4 /\ Len(end) = 2
      BY <1>8, <2>2
    <3> QED BY <3>2, <3>3, <3>4, <3>5
  <2>5. frame[4 + 1] = end[1] /\ frame[4 + 2] = end[2] /\ begun[1] = head
    BY <2>2, <2>4
  <2>6. \A i \in 1..3 : frame[1 + i] = body[i]
    BY <2>2, <2>4
  <2> QED BY <2>2, <2>4, <2>5, <2>6
<1>10. head.start /\ end[1].index = 4 /\ end[2].value = n /\ \A i \in 1..3 : body[i].index = i
  BY <1>3
<1>11. ASSUME NEW i \in 1..6, ~frame[i].start, frame[i].index = 5
       PROVE  i = 6 /\ frame[i].value = n
  <2>1. i # 1
    BY <1>9, <1>10, <1>11
  <2>2. i # 5
    BY <1>9, <1>10, <1>11
  <2>3. ASSUME i \in 2..4 PROVE FALSE
    <3>1. i - 1 \in 1..3 /\ frame[i] = body[i - 1]
      BY <1>9, <2>3
    <3> QED BY <1>10, <1>11, <3>1
  <2>4. i = 6
    BY <2>1, <2>2, <2>3
  <2> QED BY <1>9, <1>10, <2>4
<1>12. frame # <<>>
  BY <1>9
<1>13. 1..Len(frame) = 1..6
  BY <1>9
<1> QED BY <1>9, <1>11, <1>12, <1>13

\* A message is sent, and heard or lost: the others are as they were.
LEMMA FramesGoOn ==
  ASSUME FramesInv, v1 # <<>>, v1' = Tail(v1), v2' = v2
  PROVE  FramesInv'
<1>1. v1 \in Seq(FrameMessages) /\ v2 \in Nat /\ v2 > 0
  BY DEF FramesInv, FramesTyped
<1>2. /\ v1' \in Seq(FrameMessages) /\ Len(v1') = Len(v1) - 1
      /\ \A i \in 1..Len(v1') : v1'[i] = v1[i + 1] /\ i + 1 \in 1..Len(v1)
  BY <1>1
<1>3. ASSUME NEW i \in 1..Len(v1'), ~v1'[i].start, v1'[i].index = 5
      PROVE  i = Len(v1') /\ v1'[i].value = v2 - 1
  <2>1. i + 1 = Len(v1) /\ v1[i + 1].value = v2 - 1
    BY <1>2, <1>3 DEF FramesInv
  <2>2. Len(v1) \in Nat
    BY <1>1
  <2>3. i = Len(v1')
    <3>1. Len(v1') \in Nat /\ i \in Nat
      BY <1>2
    <3>2. Len(v1') = Len(v1) - 1
      BY <1>2
    <3> QED BY <2>1, <2>2, <3>1, <3>2
  <2>4. v1'[i] = v1[i + 1]
    BY <1>2
  <2> QED BY <2>1, <2>3, <2>4
<1> QED BY <1>1, <1>2, <1>3 DEF FramesInv, FramesTyped

\* Every step of the wire keeps it.
LEMMA FramesKeep == FramesInv /\ [Frames!Next]_(Frames!vars) => FramesInv'
<1> SUFFICES ASSUME FramesInv, [Frames!Next]_(Frames!vars) PROVE FramesInv'
  OBVIOUS
<1>1. CASE UNCHANGED <<v1, v2>>
  BY <1>1 DEF FramesInv, FramesTyped
<1>2. ASSUME NEW values \in [1..3 -> Values], Frames!Begin(values)
      PROVE  FramesInv'
  <2>1. v1' = Frames!Messages([sequence |-> v2, values |-> values]) /\ v2' = v2 + 1
    BY <1>2 DEF Frames!Begin
  <2>2. v2 \in Nat
    BY DEF FramesInv, FramesTyped
  <2>3. PICK frame : frame = Frames!Messages([sequence |-> v2, values |-> values])
    OBVIOUS
  <2>4. /\ frame \in Seq(FrameMessages) /\ frame # <<>>
        /\ \A i \in 1..Len(frame) : ~frame[i].start /\ frame[i].index = 5 =>
              i = Len(frame) /\ frame[i].value = v2
    BY <2>2, <2>3, FramesAreSent
  <2>5. v1' = frame /\ v2' - 1 = v2 /\ v2' \in Nat /\ v2' > 0
    BY <2>1, <2>2, <2>3
  <2> QED BY <2>4, <2>5 DEF FramesInv, FramesTyped
<1>3. CASE Frames!Lose \/ Frames!Feed
  BY <1>3, FramesGoOn DEF Frames!Lose, Frames!Feed
<1>4. CASE Frames!vars' = Frames!vars
  BY <1>1, <1>4 DEF Frames!vars, Frames!frameVars
<1>5. CASE \E interval \in {20} : Frames!Tick(interval)
  BY <1>1, <1>5 DEF Frames!Tick, Frames!frameVars
<1>6. CASE Frames!TickBack
  BY <1>1, <1>6 DEF Frames!TickBack, Frames!frameVars
<1> QED BY <1>2, <1>3, <1>4, <1>5, <1>6 DEF Frames!Next, Frames!Fields

\* A frame is put together when its number has come, and that is the end of the one being sent.
LEMMA FramesAreWhole == FramesInv /\ [Frames!Next]_(Frames!vars) => Frames!AFrameIsWhole
<1> SUFFICES ASSUME FramesInv, [Frames!Next]_(Frames!vars), v4' # v4
             PROVE  v2 > 0 /\ v4'.sequence = v2 - 1 /\ v1' = <<>>
  BY DEF Frames!AFrameIsWhole
<1>1. Frames!Feed
  BY DEF Frames!Next, Frames!vars, Frames!frameVars, Frames!Begin, Frames!Lose, Frames!Tick,
              Frames!TickBack
<1>2. PICK message : message = Head(v1)
  OBVIOUS
<1>3. /\ v1 # <<>> /\ v1' = Tail(v1) /\ ~message.start /\ message.index = 5
      /\ message.value = v3.sequence /\ v4'.sequence = v3.sequence
  BY <1>1, <1>2 DEF Frames!Feed, Frames!Finish, Frames!Fields
<1>4. v1 \in Seq(FrameMessages)
  BY DEF FramesInv, FramesTyped
<1>5. message = v1[1] /\ Len(v1) \in Nat /\ Len(v1) > 0
  BY <1>2, <1>3, <1>4
<1>6. 1 = Len(v1) /\ v1[1].value = v2 - 1
  <2>1. ~v1[1].start /\ v1[1].index = 5 /\ 1 \in 1..Len(v1)
    BY <1>3, <1>5
  <2> QED BY <2>1 DEF FramesInv
<1>7. v1' = <<>>
  BY <1>3, <1>4, <1>6
<1> QED BY <1>3, <1>5, <1>6, <1>7 DEF FramesInv
-----------------------------------------------------------------------------
(* The snapshots of the hosts' scripts.                                    *)

\* What a script says of a project.
ProjectFields == {"session", "saved", "tempo", "playing", "position", "mode", "tracks", "names",
                  "chain", "channel", "generator", "window"}

\* The twin was recorded of the last snapshot, or of one with its fingerprint.
ScriptsInv ==
    /\ DOMAIN v2 = {"running", "project"} /\ DOMAIN v2.project = ProjectFields
    /\ v3 # Scripts!Nil => DOMAIN v3 = {"fresh", "project"} /\ DOMAIN v3.project = ProjectFields
    /\ v8 # Scripts!Nil =>
          /\ DOMAIN v8 = ProjectFields /\ v9 # Scripts!Nil
          /\ v1 = "ABLETON_LIVE" => v9.fingerprint = Scripts!AbletonObserved(v8)
          /\ v1 = "FL_STUDIO" => v9.fingerprint = Scripts!FLStudioObserved(v8)
          /\ v1 = "REAPER" => v9.fingerprint = Scripts!ReaperObserved(v8)
          /\ v1 = "LOGIC_PRO" => v9.fingerprint = Scripts!LogicObserved(v8)
          /\ v1 = "STUDIO_ONE" => v9.fingerprint = Scripts!StudioOneObserved(v8)

\* A new project has all the fields.
LEMMA ProjectsHaveFields ==
  ASSUME NEW n PROVE DOMAIN Scripts!Project(n) = ProjectFields
  BY DEF Scripts!Project, ProjectFields

\* No observer's fingerprint has the play position in it.
LEMMA MovingIsNotSeen ==
  ASSUME NEW p, NEW q, NEW x, DOMAIN p = ProjectFields, q = [p EXCEPT !.position = x]
  PROVE  /\ Scripts!AbletonObserved(q) = Scripts!AbletonObserved(p)
         /\ Scripts!FLStudioObserved(q) = Scripts!FLStudioObserved(p)
         /\ Scripts!ReaperObserved(q) = Scripts!ReaperObserved(p)
         /\ Scripts!LogicObserved(q) = Scripts!LogicObserved(p)
         /\ Scripts!StudioOneObserved(q) = Scripts!StudioOneObserved(p)
<1>1. /\ q.session = p.session /\ q.saved = p.saved /\ q.tempo = p.tempo
      /\ q.playing = p.playing /\ q.mode = p.mode /\ q.tracks = p.tracks /\ q.names = p.names
      /\ q.chain = p.chain /\ q.channel = p.channel /\ q.generator = p.generator
      /\ q.window = p.window
  BY DEF ProjectFields
<1>2. Scripts!Named(q) = Scripts!Named(p)
  BY <1>1 DEF Scripts!Named
<1>3. /\ Scripts!ChainSeen(q) = Scripts!ChainSeen(p)
      /\ Scripts!GeneratorSeen(q) = Scripts!GeneratorSeen(p)
  BY <1>1 DEF Scripts!ChainSeen, Scripts!GeneratorSeen
<1>4. /\ Scripts!AbletonLocation(q) = Scripts!AbletonLocation(p)
      /\ Scripts!SessionLocation(q) = Scripts!SessionLocation(p)
  BY <1>1 DEF Scripts!AbletonLocation, Scripts!SessionLocation
<1>5. Scripts!AbletonObserved(q) = Scripts!AbletonObserved(p)
  BY <1>1, <1>2, <1>4 DEF Scripts!AbletonObserved
<1>6. Scripts!FLStudioObserved(q) = Scripts!FLStudioObserved(p)
  BY <1>1, <1>2, <1>3, <1>4 DEF Scripts!FLStudioObserved
<1>7. Scripts!ReaperObserved(q) = Scripts!ReaperObserved(p)
  BY <1>1, <1>2, <1>3, <1>4 DEF Scripts!ReaperObserved
<1>8. Scripts!LogicObserved(q) = Scripts!LogicObserved(p)
  BY <1>1, <1>4 DEF Scripts!LogicObserved
<1>9. Scripts!StudioOneObserved(q) = Scripts!StudioOneObserved(p)
  BY <1>1, <1>4 DEF Scripts!StudioOneObserved
<1> QED BY <1>5, <1>6, <1>7, <1>8, <1>9

\* Nothing is known at the start.
LEMMA ScriptsStart == Scripts!Init => ScriptsInv
<1> SUFFICES ASSUME Scripts!Init PROVE ScriptsInv
  OBVIOUS
<1>1. v2 = [running |-> TRUE, project |-> Scripts!Project(1)] /\ v3 = Scripts!Nil
      /\ v8 = Scripts!Nil
  BY DEF Scripts!Init
<1>2. DOMAIN Scripts!Project(1) = ProjectFields
  BY ProjectsHaveFields
<1>3. DOMAIN v2 = {"running", "project"} /\ v2.project = Scripts!Project(1)
  BY <1>1
<1> QED BY <1>1, <1>2, <1>3 DEF ScriptsInv

\* A poll records the snapshot it read, or has recorded one that says the same.
LEMMA ScriptsPoll ==
  ASSUME ScriptsInv, NEW p, NEW observed, NEW evidence, DOMAIN p = ProjectFields,
         Scripts!Polls(p, observed, evidence)
  PROVE  /\ v1' = v1 /\ v2' = v2 /\ v3' = v3 /\ v8' = p
         /\ v9' # Scripts!Nil /\ v9'.fingerprint = observed
         /\ v9 # Scripts!Nil /\ v9.fingerprint = observed => v10' = v10
<1>1. v1' = v1 /\ v2' = v2 /\ v3' = v3 /\ v8' = p
  BY DEF Scripts!Polls, Scripts!hostVars, Scripts!fileVars
<1>2. CASE v9 # Scripts!Nil /\ v9.fingerprint = observed
  BY <1>1, <1>2 DEF Scripts!Polls, Scripts!Records
<1>3. CASE ~(v9 # Scripts!Nil /\ v9.fingerprint = observed)
  <2>1. v9' = [fingerprint |-> observed, evidence |-> evidence]
    BY <1>3 DEF Scripts!Polls, Scripts!Records
  <2>2. DOMAIN v9' = {"fingerprint", "evidence"} /\ v9'.fingerprint = observed
    BY <2>1
  <2>3. DOMAIN Scripts!Nil = {"none"}
    BY DEF Scripts!Nil
  <2>4. v9' # Scripts!Nil
    BY <2>2, <2>3
  <2> QED BY <1>1, <1>3, <2>2, <2>4
<1> QED BY <1>2, <1>3

\* What is polled is what a script can say.
LEMMA ScriptsAreRead ==
  ASSUME ScriptsInv, NEW p, p \in Scripts!Asked \cup Scripts!Readable
  PROVE  DOMAIN p = ProjectFields /\ p # Scripts!Nil
<1>1. DOMAIN p = ProjectFields
  BY DEF ScriptsInv, Scripts!Asked, Scripts!Readable, Scripts!OnFile
<1>2. DOMAIN Scripts!Nil = {"none"}
  BY DEF Scripts!Nil
<1> QED BY <1>1, <1>2 DEF ProjectFields

\* A poll of any of the five hosts keeps it, and appends nothing where only the position moved.
LEMMA ScriptsArePolled ==
  ASSUME ScriptsInv,
         \/ Scripts!AbletonPolls \/ Scripts!FLStudioPolls \/ Scripts!ReaperPolls
         \/ Scripts!LogicPolls \/ Scripts!StudioOnePolls
  PROVE  ScriptsInv' /\ Scripts!MovingCommitsNothing
<1>1. ASSUME NEW p \in Scripts!Asked, v1 = "ABLETON_LIVE",
             Scripts!Polls(p, Scripts!AbletonObserved(p), Scripts!AbletonEvidence(p))
      PROVE  ScriptsInv' /\ Scripts!MovingCommitsNothing
  <2>1. DOMAIN p = ProjectFields
    BY <1>1, ScriptsAreRead
  <2>2. /\ v1' = v1 /\ v2' = v2 /\ v3' = v3 /\ v8' = p
        /\ v9' # Scripts!Nil /\ v9'.fingerprint = Scripts!AbletonObserved(p)
        /\ v9 # Scripts!Nil /\ v9.fingerprint = Scripts!AbletonObserved(p) => v10' = v10
    BY <1>1, <2>1, ScriptsPoll
  <2>3. (Scripts!AbletonObserved(v8))' = Scripts!AbletonObserved(p)
    BY <2>2
  <2>4. ScriptsInv'
    BY <1>1, <2>1, <2>2, <2>3 DEF ScriptsInv
  <2>5. ASSUME v8 # Scripts!Nil, v8' = [v8 EXCEPT !.position = 1 - @] PROVE v10' = v10
    <3>1. Scripts!AbletonObserved(p) = Scripts!AbletonObserved(v8)
      BY <2>2, <2>5, MovingIsNotSeen DEF ScriptsInv
    <3> QED BY <1>1, <2>2, <2>5, <3>1 DEF ScriptsInv
  <2> QED BY <2>4, <2>5 DEF Scripts!MovingCommitsNothing
<1>2. ASSUME NEW p \in Scripts!Readable, v1 = "FL_STUDIO",
             Scripts!Polls(p, Scripts!FLStudioObserved(p), Scripts!FLStudioEvidence(p))
      PROVE  ScriptsInv' /\ Scripts!MovingCommitsNothing
  <2>1. DOMAIN p = ProjectFields
    BY <1>2, ScriptsAreRead
  <2>2. /\ v1' = v1 /\ v2' = v2 /\ v3' = v3 /\ v8' = p
        /\ v9' # Scripts!Nil /\ v9'.fingerprint = Scripts!FLStudioObserved(p)
        /\ v9 # Scripts!Nil /\ v9.fingerprint = Scripts!FLStudioObserved(p) => v10' = v10
    BY <1>2, <2>1, ScriptsPoll
  <2>3. (Scripts!FLStudioObserved(v8))' = Scripts!FLStudioObserved(p)
    BY <2>2
  <2>4. ScriptsInv'
    BY <1>2, <2>1, <2>2, <2>3 DEF ScriptsInv
  <2>5. ASSUME v8 # Scripts!Nil, v8' = [v8 EXCEPT !.position = 1 - @] PROVE v10' = v10
    <3>1. Scripts!FLStudioObserved(p) = Scripts!FLStudioObserved(v8)
      BY <2>2, <2>5, MovingIsNotSeen DEF ScriptsInv
    <3> QED BY <1>2, <2>2, <2>5, <3>1 DEF ScriptsInv
  <2> QED BY <2>4, <2>5 DEF Scripts!MovingCommitsNothing
<1>3. ASSUME NEW p \in Scripts!Readable, v1 = "REAPER",
             Scripts!Polls(p, Scripts!ReaperObserved(p), Scripts!ReaperEvidence(p))
      PROVE  ScriptsInv' /\ Scripts!MovingCommitsNothing
  <2>1. DOMAIN p = ProjectFields
    BY <1>3, ScriptsAreRead
  <2>2. /\ v1' = v1 /\ v2' = v2 /\ v3' = v3 /\ v8' = p
        /\ v9' # Scripts!Nil /\ v9'.fingerprint = Scripts!ReaperObserved(p)
        /\ v9 # Scripts!Nil /\ v9.fingerprint = Scripts!ReaperObserved(p) => v10' = v10
    BY <1>3, <2>1, ScriptsPoll
  <2>3. (Scripts!ReaperObserved(v8))' = Scripts!ReaperObserved(p)
    BY <2>2
  <2>4. ScriptsInv'
    BY <1>3, <2>1, <2>2, <2>3 DEF ScriptsInv
  <2>5. ASSUME v8 # Scripts!Nil, v8' = [v8 EXCEPT !.position = 1 - @] PROVE v10' = v10
    <3>1. Scripts!ReaperObserved(p) = Scripts!ReaperObserved(v8)
      BY <2>2, <2>5, MovingIsNotSeen DEF ScriptsInv
    <3> QED BY <1>3, <2>2, <2>5, <3>1 DEF ScriptsInv
  <2> QED BY <2>4, <2>5 DEF Scripts!MovingCommitsNothing
<1>4. ASSUME NEW p \in Scripts!Asked, v1 = "LOGIC_PRO",
             Scripts!Polls(p, Scripts!LogicObserved(p), Scripts!LogicEvidence(p))
      PROVE  ScriptsInv' /\ Scripts!MovingCommitsNothing
  <2>1. DOMAIN p = ProjectFields
    BY <1>4, ScriptsAreRead
  <2>2. /\ v1' = v1 /\ v2' = v2 /\ v3' = v3 /\ v8' = p
        /\ v9' # Scripts!Nil /\ v9'.fingerprint = Scripts!LogicObserved(p)
        /\ v9 # Scripts!Nil /\ v9.fingerprint = Scripts!LogicObserved(p) => v10' = v10
    BY <1>4, <2>1, ScriptsPoll
  <2>3. (Scripts!LogicObserved(v8))' = Scripts!LogicObserved(p)
    BY <2>2
  <2>4. ScriptsInv'
    BY <1>4, <2>1, <2>2, <2>3 DEF ScriptsInv
  <2>5. ASSUME v8 # Scripts!Nil, v8' = [v8 EXCEPT !.position = 1 - @] PROVE v10' = v10
    <3>1. Scripts!LogicObserved(p) = Scripts!LogicObserved(v8)
      BY <2>2, <2>5, MovingIsNotSeen DEF ScriptsInv
    <3> QED BY <1>4, <2>2, <2>5, <3>1 DEF ScriptsInv
  <2> QED BY <2>4, <2>5 DEF Scripts!MovingCommitsNothing
<1>5. ASSUME NEW p \in Scripts!Asked, v1 = "STUDIO_ONE",
             Scripts!Polls(p, Scripts!StudioOneObserved(p), Scripts!StudioOneEvidence(p))
      PROVE  ScriptsInv' /\ Scripts!MovingCommitsNothing
  <2>1. DOMAIN p = ProjectFields
    BY <1>5, ScriptsAreRead
  <2>2. /\ v1' = v1 /\ v2' = v2 /\ v3' = v3 /\ v8' = p
        /\ v9' # Scripts!Nil /\ v9'.fingerprint = Scripts!StudioOneObserved(p)
        /\ v9 # Scripts!Nil /\ v9.fingerprint = Scripts!StudioOneObserved(p) => v10' = v10
    BY <1>5, <2>1, ScriptsPoll
  <2>3. (Scripts!StudioOneObserved(v8))' = Scripts!StudioOneObserved(p)
    BY <2>2
  <2>4. ScriptsInv'
    BY <1>5, <2>1, <2>2, <2>3 DEF ScriptsInv
  <2>5. ASSUME v8 # Scripts!Nil, v8' = [v8 EXCEPT !.position = 1 - @] PROVE v10' = v10
    <3>1. Scripts!StudioOneObserved(p) = Scripts!StudioOneObserved(v8)
      BY <2>2, <2>5, MovingIsNotSeen DEF ScriptsInv
    <3> QED BY <1>5, <2>2, <2>5, <3>1 DEF ScriptsInv
  <2> QED BY <2>4, <2>5 DEF Scripts!MovingCommitsNothing
<1> QED BY <1>1, <1>2, <1>3, <1>4, <1>5
       DEF Scripts!AbletonPolls, Scripts!FLStudioPolls, Scripts!ReaperPolls,
           Scripts!LogicPolls, Scripts!StudioOnePolls

\* Whatever the artist alters, the script has the same to say of it.
LEMMA ScriptsChange ==
  ASSUME ScriptsInv, Scripts!Change
  PROVE  ScriptsInv'
<1>1. UNCHANGED <<v1, v3, v8, v9>>
  BY DEF Scripts!Change, Scripts!fileVars, Scripts!observer
<1>2. ASSUME NEW field, NEW value, Scripts!Alters(field, value)
      PROVE  DOMAIN v2' = {"running", "project"} /\ DOMAIN v2'.project = ProjectFields
  BY <1>2 DEF ScriptsInv, Scripts!Alters
<1>3. ASSUME NEW tracks, NEW chain,
             v2' = [v2 EXCEPT !.project.tracks = tracks, !.project.chain = chain]
      PROVE  DOMAIN v2' = {"running", "project"} /\ DOMAIN v2'.project = ProjectFields
  BY <1>3 DEF ScriptsInv
<1>4. ASSUME NEW channel, NEW generator,
             v2' = [v2 EXCEPT !.project.channel = channel, !.project.generator = generator]
      PROVE  DOMAIN v2' = {"running", "project"} /\ DOMAIN v2'.project = ProjectFields
  BY <1>4 DEF ScriptsInv
<1>5. ASSUME v2' = [v2 EXCEPT !.project.saved = TRUE, !.project.session = @ + 1]
      PROVE  DOMAIN v2' = {"running", "project"} /\ DOMAIN v2'.project = ProjectFields
  BY <1>5 DEF ScriptsInv
<1>6. ASSUME NEW t, v2' = [v2 EXCEPT !.project.names[t] = IF @ = "a" THEN "b" ELSE "a"]
      PROVE  DOMAIN v2' = {"running", "project"} /\ DOMAIN v2'.project = ProjectFields
  BY <1>6 DEF ScriptsInv
<1>7. DOMAIN v2' = {"running", "project"} /\ DOMAIN v2'.project = ProjectFields
  BY <1>2, <1>3, <1>4, <1>5, <1>6 DEF Scripts!Change
<1> QED BY <1>1, <1>7 DEF ScriptsInv

\* Every step keeps it.
LEMMA ScriptsKeep ==
  ScriptsInv /\ [Scripts!Next]_(Scripts!vars) =>
     ScriptsInv' /\ Scripts!MovingCommitsNothing
<1> SUFFICES ASSUME ScriptsInv, [Scripts!Next]_(Scripts!vars)
             PROVE  ScriptsInv' /\ Scripts!MovingCommitsNothing
  OBVIOUS
<1> DEFINE Shaped(l) == DOMAIN l = {"running", "project"} /\ DOMAIN l.project = ProjectFields
<1>1. ASSUME v1' = v1, v8' = v8, v9' = v9, v10' = v10, Shaped(v2)',
             v3' \in {v3, Scripts!Nil} \/ v3' = Scripts!Fresh(v2'.project)
                \/ v3' = Scripts!Fresh(v2.project)
      PROVE  ScriptsInv' /\ Scripts!MovingCommitsNothing
  <2>1. ASSUME NEW p, DOMAIN p = ProjectFields, v3' = Scripts!Fresh(p)
        PROVE  DOMAIN v3' = {"fresh", "project"} /\ DOMAIN v3'.project = ProjectFields
    BY <2>1 DEF Scripts!Fresh
  <2>2. v3' # Scripts!Nil =>
           DOMAIN v3' = {"fresh", "project"} /\ DOMAIN v3'.project = ProjectFields
    BY <1>1, <2>1 DEF ScriptsInv
  <2>3. ScriptsInv'
    BY <1>1, <2>2 DEF ScriptsInv
  <2> QED BY <1>1, <2>3 DEF Scripts!MovingCommitsNothing
<1>2. Shaped(v2)
  BY DEF ScriptsInv
<1>3. CASE Scripts!Change
  BY <1>3, ScriptsChange
     DEF Scripts!Change, Scripts!observer, Scripts!MovingCommitsNothing
<1>4. CASE Scripts!FLStudioIdles
  <2>1. UNCHANGED <<v1, v2, v8, v9, v10>> /\ v3' = Scripts!Fresh(v2.project)
    BY <1>4 DEF Scripts!FLStudioIdles, Scripts!hostVars, Scripts!observer
  <2> QED BY <1>1, <1>2, <2>1
<1>5. CASE Scripts!ReaperRemoves \/ Scripts!ReaperRenames
  <2>1. /\ UNCHANGED <<v1, v2, v8, v9, v10>>
        /\ v3' = Scripts!Nil \/ v3' = Scripts!Fresh(v2.project)
    BY <1>5 DEF Scripts!ReaperRemoves, Scripts!ReaperRenames, Scripts!hostVars, Scripts!observer
  <2> QED BY <1>1, <1>2, <2>1
<1>6. CASE Scripts!OpenProject
  <2>1. /\ UNCHANGED <<v1, v8, v9, v10>> /\ v3' \in {v3, Scripts!Fresh(v2'.project)}
        /\ v2' = [v2 EXCEPT !.project = Scripts!Project(v2.project.session + 1)]
    BY <1>6 DEF Scripts!OpenProject, Scripts!observer
  <2>2. Shaped(v2)'
    BY <1>2, <2>1, ProjectsHaveFields
  <2> QED BY <1>1, <2>1, <2>2
<1>7. CASE Scripts!Close \/ Scripts!Crash
  <2>1. /\ UNCHANGED <<v1, v8, v9, v10>> /\ v3' \in {v3, Scripts!Nil}
        /\ v2' = [v2 EXCEPT !.running = FALSE]
    BY <1>7 DEF Scripts!Close, Scripts!Crash, Scripts!observer, Scripts!RemovesSnapshot
  <2>2. Shaped(v2)'
    BY <1>2, <2>1
  <2> QED BY <1>1, <2>1, <2>2
<1>8. CASE Scripts!Start
  <2>1. /\ UNCHANGED <<v1, v8, v9, v10>> /\ v3' \in {v3, Scripts!Fresh(v2'.project)}
        /\ v2' = [running |-> TRUE, project |-> Scripts!Project(v2.project.session + 1)]
    BY <1>8 DEF Scripts!Start, Scripts!observer
  <2>2. Shaped(v2)'
    BY <2>1, ProjectsHaveFields
  <2> QED BY <1>1, <2>1, <2>2
<1>9. CASE Scripts!Age
  <2>1. UNCHANGED <<v1, v2, v8, v9, v10>>
    BY <1>9 DEF Scripts!Age, Scripts!hostVars, Scripts!observer
  <2>2. v3' = v3 \/ (v3 # Scripts!Nil /\ v3' = [v3 EXCEPT !.fresh = FALSE])
    BY <1>9 DEF Scripts!Age
  <2>3. v3' # Scripts!Nil =>
           DOMAIN v3' = {"fresh", "project"} /\ DOMAIN v3'.project = ProjectFields
    BY <2>2 DEF ScriptsInv
  <2>4. ScriptsInv'
    BY <2>1, <2>3 DEF ScriptsInv
  <2> QED BY <2>1, <2>4 DEF Scripts!MovingCommitsNothing
<1>10. CASE UNCHANGED Scripts!vars
  BY <1>10 DEF ScriptsInv, Scripts!vars, Scripts!hostVars, Scripts!fileVars, Scripts!observer,
               Scripts!MovingCommitsNothing
<1> QED BY <1>3, <1>4, <1>5, <1>6, <1>7, <1>8, <1>9, <1>10, ScriptsArePolled DEF Scripts!Next
-----------------------------------------------------------------------------
(* The coordinator processes of the launchers.                             *)

\* The places of a run_session, and those between the start of its process and its cleanup.
Places == {"idle", "launching", "starting", "spawning", "waiting", "serving",
           "observing", "ending", "quitting", "ended", "crashed"}
Owning == {"waiting", "serving", "observing", "ending"}

SessionsTyped ==
    /\ started \in Machines
    /\ at \in [Launchers -> Places]
    /\ owned \subseteq Launchers
    /\ process \in [Launchers \cup {AnotherOwner} -> {"starting", "listening", "none", "dead"}]
    /\ holder \in [Profiles -> Launchers \cup {Nobody}]
    /\ failing \subseteq Launchers /\ stuck \subseteq Launchers
    /\ unquit \subseteq Launchers
    /\ result \in [Launchers -> {"none", "ok", "error"}]
    /\ \A s \in Launchers : started.profile[s] \in Profiles

\* One process at a time has the port of the machine.
OneListens ==
    \A p, q \in Launchers \cup {AnotherOwner} :
        process[p] = "listening" /\ process[q] = "listening" => p = q

\* A process that runs is its supervisor's, or one that could not be stopped or nobody was
\* left to stop; a supervisor has one until its cleanup.
ProcessesHaveOwners ==
    \A s \in Launchers :
        /\ process[s] \in {"starting", "listening"} =>
              s \in owned \/ s \in stuck \/ at[s] = "crashed"
        /\ s \in owned => at[s] \in Owning

\* Success is said once, at the end, after the lease is given back.
SuccessIsAtTheEnd ==
    \A s \in Launchers : result[s] = "ok" =>
        at[s] = "ended" /\ s \notin stuck /\ holder[started.profile[s]] # s

SessionsInv == SessionsTyped /\ OneListens /\ ProcessesHaveOwners /\ SuccessIsAtTheEnd

\* No session was launched at the start.
LEMMA SessionsStart == Launcher!Init => SessionsInv
<1> SUFFICES ASSUME Launcher!Init PROVE SessionsInv
  OBVIOUS
<1>1. started \in Machines
  BY DEF Launcher!Init
<1>2. \A s \in Launchers : started.profile[s] \in Profiles
  BY <1>1, MachinesAreWhole
<1>3. /\ at = [s \in Launchers |-> "idle"] /\ owned = {}
      /\ holder = [p \in Profiles |-> Nobody]
      /\ failing = {} /\ stuck = {} /\ unquit = {}
      /\ result = [s \in Launchers |-> "none"]
  BY DEF Launcher!Init
<1>4. PICK there \in {"none", "listening"} :
         process = [p \in Launchers \cup {AnotherOwner} |->
                       IF p = AnotherOwner THEN there ELSE "none"]
  BY DEF Launcher!Init, Launcher!Processes
<1>5. SessionsTyped
  BY <1>1, <1>2, <1>3, <1>4 DEF SessionsTyped, Places
<1>6. OneListens
  BY <1>4 DEF OneListens
<1>7. ProcessesHaveOwners
  BY <1>3, <1>4, NobodyIsASession DEF ProcessesHaveOwners
<1>8. SuccessIsAtTheEnd
  BY <1>3 DEF SuccessIsAtTheEnd
<1> QED BY <1>5, <1>6, <1>7, <1>8 DEF SessionsInv

\* A session goes on; its process, if it has one, is still its own or is no more.
LEMMA SessionGoesOn ==
  ASSUME SessionsInv, NEW s \in Launchers, NEW pc \in Places,
         at' = [at EXCEPT ![s] = pc], UNCHANGED <<started, process, stuck>>,
         owned' = owned \/ (owned' = owned \ {s} /\ process[s] = "dead"),
         at[s] \notin {"ended", "crashed"}, s \in owned' => pc \in Owning,
         result' \in [Launchers -> {"none", "ok", "error"}],
         holder' \in [Profiles -> Launchers \cup {Nobody}],
         failing' \subseteq Launchers, unquit' \subseteq Launchers,
         \A q \in Launchers : result'[q] = "ok" =>
            /\ \/ q # s /\ result[q] = "ok"
               \/ q = s /\ pc = "ended" /\ s \notin stuck
            /\ holder'[started.profile[q]] # q
  PROVE  SessionsInv'
<1>1. SessionsTyped'
  BY DEF SessionsInv, SessionsTyped
<1>2. OneListens'
  BY DEF SessionsInv, OneListens
<1>3. /\ at \in [Launchers -> Places] /\ at'[s] = pc
      /\ \A q \in Launchers : q # s => at'[q] = at[q] /\ (q \in owned' <=> q \in owned)
  BY DEF SessionsInv, SessionsTyped
<1>4. ProcessesHaveOwners'
  <2> SUFFICES ASSUME NEW q \in Launchers
               PROVE  /\ process[q] \in {"starting", "listening"} =>
                            q \in owned' \/ q \in stuck \/ at'[q] = "crashed"
                      /\ q \in owned' => at'[q] \in Owning
    BY DEF ProcessesHaveOwners
  <2>1. CASE q = s
    BY <1>3, <2>1 DEF SessionsInv, ProcessesHaveOwners
  <2>2. CASE q # s
    BY <1>3, <2>2 DEF SessionsInv, ProcessesHaveOwners
  <2> QED BY <2>1, <2>2
<1>5. SuccessIsAtTheEnd'
  <2> SUFFICES ASSUME NEW q \in Launchers, result'[q] = "ok"
               PROVE  at'[q] = "ended" /\ q \notin stuck /\ holder'[started.profile[q]] # q
    BY DEF SuccessIsAtTheEnd
  <2> QED BY <1>3 DEF SessionsInv, SuccessIsAtTheEnd
<1> QED BY <1>1, <1>2, <1>4, <1>5 DEF SessionsInv

\* A session stops its process, which is dead then, was not there, or would not die.
LEMMA SessionStops ==
  ASSUME SessionsInv, NEW s \in Launchers, NEW killed \in BOOLEAN, NEW pc \in Places,
         at' = [at EXCEPT ![s] = pc], at[s] \in {"waiting", "ending"},
         owned' = owned \ {s},
         process' = [process EXCEPT ![s] =
                        IF s \in owned /\ process[s] \in {"starting", "listening"} /\ killed
                        THEN "dead" ELSE process[s]],
         stuck' = IF killed \/ s \notin owned \/ process[s] \notin {"starting", "listening"}
                  THEN stuck ELSE stuck \cup {s},
         failing' \subseteq Launchers, UNCHANGED <<started, holder, unquit, result>>
  PROVE  SessionsInv'
<1>1. /\ at \in [Launchers -> Places] /\ at'[s] = pc
      /\ \A q \in Launchers : q # s => at'[q] = at[q] /\ (q \in owned' <=> q \in owned)
  BY DEF SessionsInv, SessionsTyped
<1>2. /\ process \in [Launchers \cup {AnotherOwner} ->
                         {"starting", "listening", "none", "dead"}]
      /\ \A q \in Launchers \cup {AnotherOwner} : q # s => process'[q] = process[q]
      /\ process'[s] = IF s \in owned /\ process[s] \in {"starting", "listening"} /\ killed
                       THEN "dead" ELSE process[s]
  BY DEF SessionsInv, SessionsTyped
<1>3. SessionsTyped'
  BY <1>2 DEF SessionsInv, SessionsTyped
<1>4. OneListens'
  <2> SUFFICES ASSUME NEW p \in Launchers \cup {AnotherOwner},
                      NEW q \in Launchers \cup {AnotherOwner},
                      process'[p] = "listening", process'[q] = "listening"
               PROVE  p = q
    BY DEF OneListens
  <2>1. process[p] = "listening" /\ process[q] = "listening"
    BY <1>2
  <2> QED BY <2>1 DEF SessionsInv, OneListens
<1>5. ProcessesHaveOwners'
  <2> SUFFICES ASSUME NEW q \in Launchers
               PROVE  /\ process'[q] \in {"starting", "listening"} =>
                            q \in owned' \/ q \in stuck' \/ at'[q] = "crashed"
                      /\ q \in owned' => at'[q] \in Owning
    BY DEF ProcessesHaveOwners
  <2>1. CASE q = s
    <3>1. /\ process[s] \in {"starting", "listening"} =>
                s \in owned \/ s \in stuck \/ at[s] = "crashed"
          /\ s \notin owned'
      BY DEF SessionsInv, ProcessesHaveOwners
    <3> QED BY <1>2, <2>1, <3>1
  <2>2. CASE q # s
    <3>1. /\ process[q] \in {"starting", "listening"} =>
                q \in owned \/ q \in stuck \/ at[q] = "crashed"
          /\ q \in owned => at[q] \in Owning
      BY DEF SessionsInv, ProcessesHaveOwners
    <3>2. q \in stuck => q \in stuck'
      OBVIOUS
    <3> QED BY <1>1, <1>2, <2>2, <3>1, <3>2
  <2> QED BY <2>1, <2>2
<1>6. SuccessIsAtTheEnd'
  <2> SUFFICES ASSUME NEW q \in Launchers, result[q] = "ok"
               PROVE  at'[q] = "ended" /\ q \notin stuck' /\ holder[started.profile[q]] # q
    BY DEF SuccessIsAtTheEnd
  <2>1. at[q] = "ended" /\ q \notin stuck /\ holder[started.profile[q]] # q
    BY DEF SessionsInv, SuccessIsAtTheEnd
  <2>2. q # s
    BY <2>1
  <2>3. q \notin stuck'
    BY <2>1, <2>2
  <2> QED BY <1>1, <2>1, <2>2, <2>3
<1> QED BY <1>3, <1>4, <1>5, <1>6 DEF SessionsInv

\* Where a configured session may go, with its coordinator as it is.
LEMMA SessionIsConfigured ==
  ASSUME SessionsInv, NEW s \in Launchers,
         \/ Launcher!AbletonConfigures(s) \/ Launcher!FLStudioConfigures(s)
         \/ Launcher!ReaperConfigures(s) \/ Launcher!LogicConfigures(s)
         \/ Launcher!StudioOneConfigures(s)
  PROVE  SessionsInv'
<1>1. /\ at[s] = "idle" /\ UNCHANGED <<started, owned, process, holder, failing, stuck, unquit>>
      /\ \/ at' = [at EXCEPT ![s] = "launching"] /\ result' = result
         \/ at' = [at EXCEPT ![s] = "ended"] /\ result' = [result EXCEPT ![s] = "error"]
  BY DEF Launcher!AbletonConfigures, Launcher!FLStudioConfigures, Launcher!ReaperConfigures,
         Launcher!LogicConfigures, Launcher!StudioOneConfigures, Launcher!Configures,
         Launcher!Goes, Launcher!Returns, Launcher!errors
<1>2. /\ result \in [Launchers -> {"none", "ok", "error"}]
      /\ holder \in [Profiles -> Launchers \cup {Nobody}]
      /\ failing \subseteq Launchers /\ unquit \subseteq Launchers
  BY DEF SessionsInv, SessionsTyped
<1>3. s \notin owned /\ result[s] # "ok"
  BY <1>1 DEF SessionsInv, ProcessesHaveOwners, SuccessIsAtTheEnd, Owning
<1>4. \A q \in Launchers : result'[q] = "ok" => q # s /\ result[q] = "ok"
  BY <1>1, <1>2, <1>3
<1>5. \A q \in Launchers : result[q] = "ok" => holder[started.profile[q]] # q
  BY DEF SessionsInv, SuccessIsAtTheEnd
<1>6. result' \in [Launchers -> {"none", "ok", "error"}]
  BY <1>1, <1>2
<1>7. PICK pc \in {"launching", "ended"} : at' = [at EXCEPT ![s] = pc]
  BY <1>1
<1>8. pc \in Places
  BY DEF Places
<1> QED BY <1>1, <1>2, <1>3, <1>4, <1>5, <1>6, <1>7, <1>8, SessionGoesOn

\* The lease of a profile is given to a session of it, which has not ended.
LEMMA SessionIsLaunched ==
  ASSUME SessionsInv, NEW s \in Launchers, Launcher!Launch(s)
  PROVE  SessionsInv'
<1>1. /\ at[s] = "launching" /\ UNCHANGED <<started, owned, process, failing, stuck, unquit>>
      /\ \/ /\ at' = [at EXCEPT ![s] = "starting"] /\ result' = result
            /\ holder' = [holder EXCEPT ![started.profile[s]] = s]
         \/ /\ at' = [at EXCEPT ![s] = "ended"] /\ result' = [result EXCEPT ![s] = "error"]
            /\ holder' = holder
  BY DEF Launcher!Launch, Launcher!Goes, Launcher!Returns, Launcher!errors
<1>2. /\ result \in [Launchers -> {"none", "ok", "error"}]
      /\ holder \in [Profiles -> Launchers \cup {Nobody}]
      /\ failing \subseteq Launchers /\ unquit \subseteq Launchers
      /\ \A q \in Launchers : started.profile[q] \in Profiles
  BY DEF SessionsInv, SessionsTyped
<1>3. s \notin owned /\ result[s] # "ok"
  BY <1>1 DEF SessionsInv, ProcessesHaveOwners, SuccessIsAtTheEnd, Owning
<1>4. \A q \in Launchers : result'[q] = "ok" => q # s /\ result[q] = "ok"
  BY <1>1, <1>2, <1>3
<1>5. \A q \in Launchers : result[q] = "ok" => holder[started.profile[q]] # q
  BY DEF SessionsInv, SuccessIsAtTheEnd
<1>6. \A q \in Launchers : result'[q] = "ok" => holder'[started.profile[q]] # q
  BY <1>1, <1>2, <1>4, <1>5
<1>7. /\ result' \in [Launchers -> {"none", "ok", "error"}]
      /\ holder' \in [Profiles -> Launchers \cup {Nobody}]
  BY <1>1, <1>2
<1>8. PICK pc \in {"starting", "ended"} : at' = [at EXCEPT ![s] = pc]
  BY <1>1
<1>9. pc \in Places
  BY DEF Places
<1> QED BY <1>1, <1>2, <1>3, <1>4, <1>6, <1>7, <1>8, <1>9, SessionGoesOn

\* A session looks for a coordinator, observes, or has not got its process.
LEMMA SessionWorks ==
  ASSUME SessionsInv, NEW s \in Launchers,
         \/ Launcher!Looks(s) \/ Launcher!SpawnFails(s) \/ Launcher!Waits(s)
         \/ Launcher!Observes(s)
  PROVE  SessionsInv'
<1>1. /\ UNCHANGED <<started, process, holder, stuck, unquit, result>>
      /\ at[s] \in {"starting", "spawning", "waiting", "serving", "observing"}
      /\ failing' = failing \/ failing' = failing \cup {s}
      /\ owned' = owned \/ (owned' = owned \ {s} /\ process[s] = "dead")
      /\ \/ at[s] \in {"starting", "spawning"} /\ owned' = owned
            /\ \E pc \in {"spawning", "serving", "ending"} : at' = [at EXCEPT ![s] = pc]
         \/ at[s] \in {"waiting", "serving", "observing"}
            /\ \E pc \in {"serving", "observing", "ending"} : at' = [at EXCEPT ![s] = pc]
  BY DEF Launcher!Looks, Launcher!SpawnFails, Launcher!Waits, Launcher!Observes,
         Launcher!Raises, Launcher!Goes, Launcher!errors
<1>2. PICK pc \in {"spawning", "serving", "observing", "ending"} :
         /\ at' = [at EXCEPT ![s] = pc]
         /\ pc = "spawning" => at[s] \in {"starting", "spawning"} /\ owned' = owned
  BY <1>1
<1>3. pc \in Places /\ (pc = "spawning" \/ pc \in Owning)
  BY DEF Places, Owning
<1>4. /\ result \in [Launchers -> {"none", "ok", "error"}]
      /\ holder \in [Profiles -> Launchers \cup {Nobody}]
      /\ failing' \subseteq Launchers /\ unquit \subseteq Launchers
  BY <1>1 DEF SessionsInv, SessionsTyped
<1>5. at[s] \in {"starting", "spawning"} => s \notin owned
  BY DEF SessionsInv, ProcessesHaveOwners, Owning
<1>6. \A q \in Launchers : result[q] = "ok" => q # s /\ holder[started.profile[q]] # q
  BY <1>1 DEF SessionsInv, SuccessIsAtTheEnd
<1> QED BY <1>1, <1>2, <1>3, <1>4, <1>5, <1>6, SessionGoesOn

\* quit() gives the lease back and the session ends, or says that it did not.
LEMMA SessionQuits ==
  ASSUME SessionsInv, NEW s \in Launchers, Launcher!Quits(s)
  PROVE  SessionsInv'
<1>1. /\ at[s] = "quitting" /\ at' = [at EXCEPT ![s] = "ended"]
      /\ UNCHANGED <<started, owned, process, failing, stuck>>
      /\ \/ holder' = [holder EXCEPT ![started.profile[s]] = Nobody] /\ unquit' = unquit
         \/ unquit' = unquit \cup {s} /\ holder' = holder
      /\ result' = [result EXCEPT ![s] =
                       IF s \in (failing \cup stuck) \cup unquit' THEN "error" ELSE "ok"]
  BY DEF Launcher!Quits, Launcher!Goes, Launcher!Returns
<1>2. /\ result \in [Launchers -> {"none", "ok", "error"}]
      /\ holder \in [Profiles -> Launchers \cup {Nobody}]
      /\ failing \subseteq Launchers /\ unquit' \subseteq Launchers
      /\ \A q \in Launchers : started.profile[q] \in Profiles
  BY <1>1 DEF SessionsInv, SessionsTyped
<1>3. s \notin owned
  BY <1>1 DEF SessionsInv, ProcessesHaveOwners, Owning
<1>4. ASSUME NEW q \in Launchers, result'[q] = "ok"
      PROVE  /\ \/ q # s /\ result[q] = "ok"
                \/ q = s /\ s \notin stuck
             /\ holder'[started.profile[q]] # q
  <2>1. CASE q = s
    <3>1. s \notin stuck /\ s \notin unquit'
      BY <1>1, <1>2, <1>4, <2>1
    <3>2. holder' = [holder EXCEPT ![started.profile[s]] = Nobody]
      BY <1>1, <3>1
    <3> QED BY <1>2, <2>1, <3>1, <3>2, NobodyIsASession
  <2>2. CASE q # s
    <3>1. result[q] = "ok"
      BY <1>1, <1>2, <1>4, <2>2
    <3>2. holder[started.profile[q]] # q
      BY <3>1 DEF SessionsInv, SuccessIsAtTheEnd
    <3> QED BY <1>1, <1>2, <2>2, <3>1, <3>2, NobodyIsASession
  <2> QED BY <2>1, <2>2
<1>5. /\ result' \in [Launchers -> {"none", "ok", "error"}]
      /\ holder' \in [Profiles -> Launchers \cup {Nobody}]
  BY <1>1, <1>2
<1>6. PICK pc : pc = "ended"
  OBVIOUS
<1>7. pc \in Places /\ at' = [at EXCEPT ![s] = pc]
  BY <1>1, <1>6 DEF Places
<1>8. \A q \in Launchers : result'[q] = "ok" =>
            /\ \/ q # s /\ result[q] = "ok"
               \/ q = s /\ pc = "ended" /\ s \notin stuck
            /\ holder'[started.profile[q]] # q
  BY <1>4, <1>6
<1>9. /\ UNCHANGED <<started, process, stuck>> /\ owned' = owned
      /\ at[s] \notin {"ended", "crashed"} /\ s \notin owned' /\ failing' \subseteq Launchers
  BY <1>1, <1>2, <1>3
<1> QED BY <1>2, <1>5, <1>7, <1>8, <1>9, SessionGoesOn

\* The session's own cleanup, and the one of a start that took too long.
LEMMA SessionCleansUp ==
  ASSUME SessionsInv, NEW s \in Launchers, Launcher!TimesOut(s) \/ Launcher!Cleanup(s)
  PROVE  SessionsInv'
<1>1. PICK killed \in BOOLEAN, pc \in {"ending", "quitting"} :
         /\ at' = [at EXCEPT ![s] = pc] /\ at[s] \in {"waiting", "ending"}
         /\ owned' = owned \ {s}
         /\ process' = [process EXCEPT ![s] =
                          IF s \in owned /\ process[s] \in {"starting", "listening"} /\ killed
                          THEN "dead" ELSE process[s]]
         /\ stuck' = IF killed \/ s \notin owned \/ process[s] \notin {"starting", "listening"}
                     THEN stuck ELSE stuck \cup {s}
         /\ failing' = failing \/ failing' = failing \cup {s}
         /\ UNCHANGED <<started, holder, unquit, result>>
  BY DEF Launcher!TimesOut, Launcher!Cleanup, Launcher!StopsOwn, Launcher!Goes, Launcher!Alive
<1>2. pc \in Places
  BY DEF Places
<1>3. failing' \subseteq Launchers
  BY <1>1 DEF SessionsInv, SessionsTyped
<1> QED BY <1>1, <1>2, <1>3, SessionStops

\* A session starts a process of its own, which it owns from then on.
LEMMA SessionSpawns ==
  ASSUME SessionsInv, NEW s \in Launchers, Launcher!Spawns(s)
  PROVE  SessionsInv'
<1>1. /\ at[s] = "spawning" /\ at' = [at EXCEPT ![s] = "waiting"]
      /\ process' = [process EXCEPT ![s] = "starting"] /\ owned' = owned \cup {s}
      /\ UNCHANGED <<started, holder, failing, stuck, unquit, result>>
  BY DEF Launcher!Spawns, Launcher!Goes, Launcher!errors
<1>2. /\ at \in [Launchers -> Places] /\ at'[s] = "waiting"
      /\ process \in [Launchers \cup {AnotherOwner} ->
                         {"starting", "listening", "none", "dead"}]
      /\ \A q \in Launchers : q # s => at'[q] = at[q] /\ (q \in owned' <=> q \in owned)
      /\ \A q \in Launchers \cup {AnotherOwner} :
            process'[q] = IF q = s THEN "starting" ELSE process[q]
  BY <1>1 DEF SessionsInv, SessionsTyped
<1>3. at' \in [Launchers -> Places]
  BY <1>1, <1>2 DEF Places
<1>4. SessionsTyped'
  BY <1>1, <1>2, <1>3 DEF SessionsInv, SessionsTyped
<1>5. OneListens'
  <2> SUFFICES ASSUME NEW p \in Launchers \cup {AnotherOwner},
                      NEW q \in Launchers \cup {AnotherOwner},
                      process'[p] = "listening", process'[q] = "listening"
               PROVE  p = q
    BY DEF OneListens
  <2>1. process[p] = "listening" /\ process[q] = "listening"
    BY <1>2
  <2> QED BY <2>1 DEF SessionsInv, OneListens
<1>6. ProcessesHaveOwners'
  <2> SUFFICES ASSUME NEW q \in Launchers
               PROVE  /\ process'[q] \in {"starting", "listening"} =>
                            q \in owned' \/ q \in stuck' \/ at'[q] = "crashed"
                      /\ q \in owned' => at'[q] \in Owning
    BY DEF ProcessesHaveOwners
  <2>1. CASE q = s
    BY <1>1, <1>2, <2>1 DEF Owning
  <2>2. CASE q # s
    BY <1>1, <1>2, <2>2 DEF SessionsInv, ProcessesHaveOwners
  <2> QED BY <2>1, <2>2
<1>7. SuccessIsAtTheEnd'
  BY <1>1, <1>2 DEF SessionsInv, SuccessIsAtTheEnd
<1> QED BY <1>4, <1>5, <1>6, <1>7 DEF SessionsInv

\* A coordinator process gets the port if nobody has it; and it may exit at any time.
LEMMA CoordinatorSteps ==
  ASSUME SessionsInv, NEW p \in Launchers \cup {AnotherOwner},
         Launcher!Binds(p) \/ Launcher!Exits(p)
  PROVE  SessionsInv'
<1>1. PICK to \in {"dead", "listening"} :
         /\ process' = [process EXCEPT ![p] = to]
         /\ process[p] \in {"starting", "listening"}
         /\ to = "listening" =>
               \A q \in Launchers \cup {AnotherOwner} : process[q] # "listening"
         /\ UNCHANGED <<started, at, owned, holder, failing, stuck, unquit, result>>
  BY DEF Launcher!Binds, Launcher!Exits, Launcher!Listening, Launcher!Processes, Launcher!Alive,
         Launcher!errors
<1>2. /\ process \in [Launchers \cup {AnotherOwner} ->
                         {"starting", "listening", "none", "dead"}]
      /\ \A q \in Launchers \cup {AnotherOwner} :
            process'[q] = IF q = p THEN to ELSE process[q]
  BY <1>1 DEF SessionsInv, SessionsTyped
<1>3. SessionsTyped'
  BY <1>1, <1>2 DEF SessionsInv, SessionsTyped
<1>4. OneListens'
  <2> SUFFICES ASSUME NEW q \in Launchers \cup {AnotherOwner},
                      NEW r \in Launchers \cup {AnotherOwner},
                      process'[q] = "listening", process'[r] = "listening"
               PROVE  q = r
    BY DEF OneListens
  <2>1. CASE to = "listening"
    BY <1>1, <1>2, <2>1
  <2>2. CASE to = "dead"
    <3>1. process[q] = "listening" /\ process[r] = "listening"
      BY <1>2, <2>2
    <3> QED BY <3>1 DEF SessionsInv, OneListens
  <2> QED BY <2>1, <2>2
<1>5. ProcessesHaveOwners'
  BY <1>1, <1>2 DEF SessionsInv, ProcessesHaveOwners
<1>6. SuccessIsAtTheEnd'
  BY <1>1 DEF SessionsInv, SuccessIsAtTheEnd
<1> QED BY <1>3, <1>4, <1>5, <1>6 DEF SessionsInv

\* A launcher dies: its process is nobody's from then on.
LEMMA SessionCrashes ==
  ASSUME SessionsInv, NEW s \in Launchers, Launcher!Crash(s)
  PROVE  SessionsInv'
<1>1. /\ at[s] # "ended" /\ at' = [at EXCEPT ![s] = "crashed"] /\ owned' = owned \ {s}
      /\ UNCHANGED <<started, process, holder, failing, stuck, unquit, result>>
  BY DEF Launcher!Crash, Launcher!Goes, Launcher!errors
<1>2. /\ at \in [Launchers -> Places] /\ at'[s] = "crashed"
      /\ \A q \in Launchers : q # s => at'[q] = at[q] /\ (q \in owned' <=> q \in owned)
  BY <1>1 DEF SessionsInv, SessionsTyped
<1>3. at' \in [Launchers -> Places]
  BY <1>1, <1>2 DEF Places
<1>4. SessionsTyped'
  BY <1>1, <1>3 DEF SessionsInv, SessionsTyped
<1>5. OneListens'
  BY <1>1 DEF SessionsInv, OneListens
<1>6. ProcessesHaveOwners'
  BY <1>1, <1>2 DEF SessionsInv, ProcessesHaveOwners
<1>7. SuccessIsAtTheEnd'
  BY <1>1, <1>2 DEF SessionsInv, SuccessIsAtTheEnd
<1> QED BY <1>4, <1>5, <1>6, <1>7 DEF SessionsInv

\* Every step of a session, of its coordinator process and of a crash keeps it.
LEMMA SessionsStep ==
  ASSUME SessionsInv, Launcher!Next
  PROVE  SessionsInv'
<1>1. ASSUME NEW s \in Launchers, Launcher!SessionStep(s)
      PROVE  SessionsInv'
  BY <1>1, SessionIsLaunched, SessionWorks, SessionSpawns, SessionCleansUp, SessionQuits
     DEF Launcher!SessionStep
<1> QED BY <1>1, SessionIsConfigured, SessionCrashes, CoordinatorSteps
        DEF Launcher!Next, Launcher!AbletonSession, Launcher!FLStudioSession,
            Launcher!ReaperSession, Launcher!LogicSession, Launcher!StudioOneSession,
            Launcher!Processes

\* So does everything else ...
LEMMA SessionsKeep == SessionsInv /\ [Launcher!Next]_(Launcher!vars) => SessionsInv'
<1> SUFFICES ASSUME SessionsInv, UNCHANGED Launcher!vars PROVE SessionsInv'
  BY SessionsStep
<1> QED BY DEF Launcher!vars, SessionsInv, SessionsTyped, OneListens, ProcessesHaveOwners,
               SuccessIsAtTheEnd

\* ... so that no process outlives the last session that could have killed it.
LEMMA SessionsAreTrue == SessionsInv => Launcher!TypeOK /\ Launcher!NothingLeftRunning
<1> SUFFICES ASSUME SessionsInv PROVE Launcher!TypeOK /\ Launcher!NothingLeftRunning
  OBVIOUS
<1>1. PICK listening :
         listening = {p \in Launchers \cup {AnotherOwner} : process[p] = "listening"}
  OBVIOUS
<1>2. \A p, q \in listening : p = q
  BY <1>1 DEF SessionsInv, OneListens
<1>3. Cardinality(listening) <= 1
  <2>1. CASE listening = {}
    BY <2>1, FS_EmptySet
  <2>2. CASE listening # {}
    <3>1. PICK p : listening = {p}
      BY <1>2, <2>2
    <3>2. Cardinality({p}) = 1
      BY FS_Singleton
    <3> QED BY <3>1, <3>2
  <2> QED BY <2>1, <2>2
<1>4. Launcher!Cardinality(listening) = Cardinality(listening)
  BY DEF Cardinality, Launcher!Cardinality
<1>5. Launcher!TypeOK
  BY <1>1, <1>3, <1>4
     DEF SessionsInv, SessionsTyped, Places, Launcher!TypeOK, Launcher!Processes, Launcher!Alive
<1>6. Launcher!NothingLeftRunning
  BY DEF SessionsInv, ProcessesHaveOwners, SuccessIsAtTheEnd, Owning,
         Launcher!NothingLeftRunning, Launcher!Alive
<1> QED BY <1>5, <1>6
-----------------------------------------------------------------------------
(* The window of the Headquarters.                                         *)

WindowTyped ==
    /\ versionOf \in [Versions -> Songs \cup {None}]
    /\ current \in [Songs -> Versions \cup {None}]
    /\ approved \in [Songs -> Versions \cup {None}]
    /\ Shell!LineageTypeOK
    /\ artists \subseteq Artists
    /\ artistOf \in [Songs -> Artists \cup {None}]
    /\ active \in [Artists -> Songs \cup {None}]
    /\ \A a \in Artists : active[a] = None \/ artistOf[active[a]] = a
    /\ session \in [Songs -> WorkSessions]
    /\ focused \in [Artists -> Focuses \cup {None}]
    /\ shown \in Views \cup {None}
RuntimeTyped ==
    /\ runtime \in {"STOPPED", "RUNNING", "RECOVERY_REQUIRED"}
    /\ profile \in Artists \cup {None} /\ (profile = None <=> runtime = "STOPPED")
    /\ blocked \in {"no", "notice", "select"}
    /\ stop \in BOOLEAN /\ stopError \in BOOLEAN /\ serving \in BOOLEAN
    /\ shellFailures \in 0..MaxFailures

\* An action of a page says what the page showed ...
IsShown(t, view) ==
    \/ /\ t.kind \in {"song-material", "song-version-resume", "song-version-approve"}
       /\ view.song # None /\ t.song = view.song
       /\ t.kind = "song-version-approve" =>
             t.current = view.current /\ t.approved = view.approved
    \/ /\ t.kind = "session-start" /\ t.song = view.song /\ view.song # None
       /\ view.session \in WorkSessions /\ ~view.session.open
    \/ /\ t.kind \in {"session-capture", "session-finish"}
       /\ t.session = <<view.song, view.session.number>> /\ view.song # None
       /\ view.session \in WorkSessions /\ view.session.open
    \/ t.kind = "focus-set" /\ t.mode \in {"MAKE", "MANAGE"}
    \/ t.kind = "focus-end"
    \/ t.kind = "song-start" /\ view.song = None
\* ... and a page starts one thing, if it does.
PageIsShown(page, view) ==
    /\ \A t \in page : IsShown(t, view)
    /\ \A t, u \in page : t.kind \in {"session-start", "song-start"} /\ u.kind = t.kind => u = t
    /\ \A t, u \in page : t.kind = "song-start" => u = t

\* The page that was rendered last is one that opens a profile, one that quits, or one of the
\* running window, whose profile has not changed since in what the page would change.
PageOpens == \A t \in tokens : /\ t.kind \in {"profile-create", "profile-select"}
                               /\ t.kind = "profile-select" => t.artist \in Artists
PageQuits == \A t \in tokens : t.kind = "quit"
PageShows ==
    /\ PageIsShown(tokens, shown) /\ shown \in Views
    /\ serving => runtime # "STOPPED"
    /\ runtime = "RUNNING" =>
          /\ tokens # {} => shown.song = active[profile]
          /\ \A t \in tokens : t.kind = "session-start" => session[shown.song] = shown.session

WindowInv ==
    /\ WindowTyped /\ RuntimeTyped
    /\ PageOpens \/ PageQuits \/ PageShows
    /\ ~serving => runtime = "STOPPED"

\* The window has no profile open at the start.
LEMMA WindowStarts == Shell!ShellInit => WindowInv
<1> SUFFICES ASSUME Shell!ShellInit PROVE WindowInv
  OBVIOUS
<1>1. 0 \in 0..MaxSessions /\ 0 \in 0..MaxFailures
  BY WindowBounds
<1>2. [number |-> 0, open |-> FALSE] \in WorkSessions
  BY <1>1 DEF WorkSessions
<1>3. WindowTyped
  BY <1>2 DEF WindowTyped, Shell!ShellInit, Shell!LineageInit, Shell!LineageTypeOK
<1>4. RuntimeTyped
  BY <1>1 DEF RuntimeTyped, Shell!ShellInit
<1> QED BY <1>3, <1>4 DEF WindowInv, PageQuits, Shell!ShellInit

\* A Version is made and becomes current, or is taken up, or is approved.
LEMMA WindowLineage ==
  ASSUME WindowTyped, NEW song \in Songs, NEW v \in Versions,
         \/ /\ versionOf[v] = None /\ versionOf' = [versionOf EXCEPT ![v] = song]
            /\ current' = [current EXCEPT ![song] = v] /\ approved' = approved
         \/ /\ versionOf[v] = song /\ current' = [current EXCEPT ![song] = v]
            /\ UNCHANGED <<versionOf, approved>>
         \/ /\ versionOf[v] = song /\ approved' = [approved EXCEPT ![song] = v]
            /\ UNCHANGED <<versionOf, current>>
  PROVE  /\ versionOf' \in [Versions -> Songs \cup {None}]
         /\ current' \in [Songs -> Versions \cup {None}]
         /\ approved' \in [Songs -> Versions \cup {None}]
         /\ (Shell!LineageTypeOK)'
<1> USE NoneIsNothing DEF WindowTyped, Shell!LineageTypeOK, Shell!VersionsOf
<1>1. CASE /\ versionOf[v] = None /\ versionOf' = [versionOf EXCEPT ![v] = song]
           /\ current' = [current EXCEPT ![song] = v] /\ approved' = approved
  BY <1>1
<1>2. CASE /\ versionOf[v] = song /\ current' = [current EXCEPT ![song] = v]
           /\ UNCHANGED <<versionOf, approved>>
  BY <1>2
<1>3. CASE /\ versionOf[v] = song /\ approved' = [approved EXCEPT ![song] = v]
           /\ UNCHANGED <<versionOf, current>>
  BY <1>3
<1> QED BY <1>1, <1>2, <1>3

\* What the running window shows is a view.
LEMMA WindowIsAView ==
  ASSUME WindowTyped, runtime = "RUNNING", profile \in Artists
  PROVE  Shell!View \in Views
<1>1. active[profile] \in Songs \cup {None} /\ focused[profile] \in Focuses \cup {None}
  BY DEF WindowTyped
<1>2. active[profile] \in Songs =>
         /\ current[active[profile]] \in Versions \cup {None}
         /\ approved[active[profile]] \in Versions \cup {None}
         /\ session[active[profile]] \in WorkSessions
  BY DEF WindowTyped
<1>3. CASE active[profile] = None
  BY <1>1, <1>3 DEF Shell!View, Views
<1>4. CASE active[profile] \in Songs
  BY <1>1, <1>2, <1>4, NoneIsNothing DEF Shell!View, Views
<1> QED BY <1>1, <1>3, <1>4

\* The page of a Song shows what its actions are bound to ...
LEMMA SongPages ==
  ASSUME NEW song, NEW cur, NEW app, NEW ses \in WorkSessions, NEW view, NEW page,
         view.song = song, song # None,
         view.current = cur, view.approved = app, view.session = ses,
         \A t \in page :
            \/ t.kind = "song-material" /\ t.song = song
            \/ t.kind = "song-version-resume" /\ t.song = song
            \/ t.kind = "song-version-approve" /\ t.song = song /\ t.current = cur
                  /\ t.approved = app
            \/ t.kind = "session-start" /\ ~ses.open
                  /\ t = [kind |-> "session-start", song |-> song]
            \/ t.kind \in {"session-capture", "session-finish"} /\ ses.open
                  /\ t.session = <<song, ses.number>>
  PROVE  PageIsShown(page, view)
<1>1. \A t \in page : IsShown(t, view)
  BY DEF IsShown
<1>2. \A t \in page : /\ t.kind # "song-start"
                      /\ t.kind = "session-start" => t = [kind |-> "session-start", song |-> song]
  OBVIOUS
<1> QED BY <1>1, <1>2 DEF PageIsShown

\* ... and so do the others, which are bound to no more than the Song that was active.
LEMMA OtherPages ==
  ASSUME NEW view, NEW page,
         \/ page = {[kind |-> "focus-set", mode |-> m] : m \in {"MAKE", "MANAGE"}}
         \/ page = {[kind |-> "focus-set", mode |-> m] : m \in {"MAKE", "MANAGE"}}
                   \cup {[kind |-> "focus-end"]}
         \/ page = {[kind |-> "song-start"]} /\ view.song = None
         \/ page = {}
  PROVE  PageIsShown(page, view)
<1>1. CASE \/ page = {[kind |-> "focus-set", mode |-> m] : m \in {"MAKE", "MANAGE"}}
           \/ page = {[kind |-> "focus-set", mode |-> m] : m \in {"MAKE", "MANAGE"}}
                   \cup {[kind |-> "focus-end"]}
  <2>1. \A t \in page : \/ t.kind = "focus-set" /\ t.mode \in {"MAKE", "MANAGE"}
                        \/ t.kind = "focus-end"
    BY <1>1
  <2> QED BY <2>1 DEF PageIsShown, IsShown
<1>2. CASE page = {[kind |-> "song-start"]} /\ view.song = None
  <2>1. \A t \in page : t.kind = "song-start" /\ t = [kind |-> "song-start"]
    BY <1>2
  <2> QED BY <1>2, <2>1 DEF PageIsShown, IsShown
<1>3. CASE page = {}
  BY <1>3 DEF PageIsShown
<1> QED BY <1>1, <1>2, <1>3

\* Actions of a page are used up, and the profile is as it was in what the page would change.
LEMMA PageShrinks ==
  ASSUME PageOpens \/ PageQuits \/ PageShows, tokens' \subseteq tokens,
         UNCHANGED <<shown, runtime, profile, serving, session>>,
         runtime = "RUNNING" => active'[profile] = active[profile]
  PROVE  (PageOpens \/ PageQuits \/ PageShows)'
<1>1. CASE PageOpens
  BY <1>1 DEF PageOpens
<1>2. CASE PageQuits
  BY <1>2 DEF PageQuits
<1>3. CASE PageShows
  <2>1. PageIsShown(tokens', shown)
    BY <1>3 DEF PageShows, PageIsShown
  <2> QED BY <1>3, <2>1 DEF PageShows
<1> QED BY <1>1, <1>2, <1>3

\* An action of a running window's page is one that the page showed.
LEMMA TokenIsShown ==
  ASSUME WindowInv, runtime = "RUNNING", NEW t \in tokens,
         t.kind \notin {"profile-create", "profile-select", "quit"}
  PROVE  /\ IsShown(t, shown) /\ shown.song = active[profile] /\ shown \in Views
         /\ shown # None /\ PageShows /\ profile \in Artists
<1>1. PageShows
  BY DEF WindowInv, PageOpens, PageQuits
<1>2. shown # None /\ profile \in Artists
  BY <1>1, NoneIsNothing DEF PageShows, WindowInv, RuntimeTyped
<1> QED BY <1>1, <1>2 DEF PageShows, PageIsShown

\* What the artist is shown is changed: a Song, a Version or a Session of it, a Focus.
LEMMA DeskIsTyped ==
  ASSUME WindowInv, NEW t \in tokens,
         \/ Shell!AddMaterial(t) \/ Shell!ResumeVersion(t) \/ Shell!ApproveVersion(t)
  PROVE  WindowInv'
<1>1. /\ runtime = "RUNNING" /\ tokens' \subseteq tokens /\ active[profile] = t.song
      /\ UNCHANGED <<runtime, profile, artists, shown, blocked, stop, stopError, serving,
                     shellFailures, artistOf, active, session, focused>>
      /\ t.kind \in {"song-material", "song-version-resume", "song-version-approve"}
  BY DEF Shell!AddMaterial, Shell!ResumeVersion, Shell!ApproveVersion, Shell!Acts, Shell!Uses,
         Shell!Is, Shell!desk
<1>2. t.song \in Songs
  BY <1>1, TokenIsShown, NoneIsNothing DEF IsShown, WindowInv, WindowTyped
<1>3. PICK song \in Songs, v \in Versions :
         \/ /\ versionOf[v] = None /\ versionOf' = [versionOf EXCEPT ![v] = song]
            /\ current' = [current EXCEPT ![song] = v] /\ approved' = approved
         \/ /\ versionOf[v] = song /\ current' = [current EXCEPT ![song] = v]
            /\ UNCHANGED <<versionOf, approved>>
         \/ /\ versionOf[v] = song /\ approved' = [approved EXCEPT ![song] = v]
            /\ UNCHANGED <<versionOf, current>>
  BY <1>2 DEF Shell!AddMaterial, Shell!ResumeVersion, Shell!ApproveVersion,
              Shell!Create_version, Shell!Set_current_version, Shell!Approve_version,
              Shell!VersionsOf
<1>4. /\ versionOf' \in [Versions -> Songs \cup {None}]
      /\ current' \in [Songs -> Versions \cup {None}]
      /\ approved' \in [Songs -> Versions \cup {None}]
      /\ (Shell!LineageTypeOK)'
  BY <1>3, WindowLineage DEF WindowInv
<1>5. WindowTyped'
  BY <1>1, <1>4 DEF WindowInv, WindowTyped
<1>6. (PageOpens \/ PageQuits \/ PageShows)'
  BY <1>1, PageShrinks DEF WindowInv
<1> QED BY <1>1, <1>5, <1>6 DEF WindowInv, RuntimeTyped

\* A focus is set and ended for the Songs and sessions there are.
LEMMA FocusIsTyped ==
  ASSUME WindowInv, NEW t \in tokens, Shell!SetFocus(t) \/ Shell!EndFocus(t)
  PROVE  WindowInv'
<1>1. /\ runtime = "RUNNING" /\ tokens' \subseteq tokens
      /\ UNCHANGED <<runtime, profile, artists, shown, blocked, stop, stopError, serving,
                     shellFailures, versionOf, current, approved, artistOf, active, session>>
      /\ t.kind \in {"focus-set", "focus-end"}
  BY DEF Shell!SetFocus, Shell!EndFocus, Shell!Acts, Shell!Uses, Shell!Is, Shell!lineage
<1>2. /\ t.kind = "focus-set" => t.mode \in {"MAKE", "MANAGE"}
      /\ profile \in Artists
  BY <1>1, TokenIsShown DEF IsShown
<1>3. active[profile] \in Songs \cup {None}
  BY <1>2 DEF WindowInv, WindowTyped
<1>4. PICK what \in Focuses \cup {None} : focused' = [focused EXCEPT ![profile] = what]
  <2>1. CASE Shell!SetFocus(t)
    <3>1. t.kind = "focus-set"
      BY <2>1 DEF Shell!SetFocus, Shell!Is
    <3>2. PICK what : what = [mode |-> t.mode,
                              song |-> IF t.mode \in Shell!SongModes THEN active[profile] ELSE None]
      OBVIOUS
    <3>3. what \in Focuses
      BY <1>2, <1>3, <3>1, <3>2 DEF Focuses
    <3> QED BY <2>1, <3>2, <3>3 DEF Shell!SetFocus
  <2>2. CASE Shell!EndFocus(t)
    BY <2>2 DEF Shell!EndFocus
  <2> QED BY <2>1, <2>2
<1>5. focused' \in [Artists -> Focuses \cup {None}]
  BY <1>2, <1>4 DEF WindowInv, WindowTyped
<1>6. WindowTyped'
  BY <1>1, <1>5 DEF WindowInv, WindowTyped, Shell!LineageTypeOK, Shell!VersionsOf
<1>7. (PageOpens \/ PageQuits \/ PageShows)'
  BY <1>1, PageShrinks DEF WindowInv
<1> QED BY <1>1, <1>6, <1>7 DEF WindowInv, RuntimeTyped

\* A Song is only started from a page with that one action.
LEMMA SongIsStarted ==
  ASSUME WindowInv, NEW t \in tokens, Shell!StartSong(t)
  PROVE  WindowInv'
<1>1. /\ runtime = "RUNNING" /\ tokens' = tokens \ {t} /\ t.kind = "song-start"
      /\ UNCHANGED <<runtime, profile, artists, shown, blocked, stop, stopError, serving,
                     shellFailures, versionOf, current, approved, session, focused>>
  BY DEF Shell!StartSong, Shell!Acts, Shell!Uses, Shell!Is, Shell!lineage
<1>2. PICK s \in Songs :
         /\ artistOf[s] = None
         /\ artistOf' = [artistOf EXCEPT ![s] = profile]
         /\ active' = [active EXCEPT ![profile] = s]
  BY DEF Shell!StartSong
<1>3. PageShows /\ profile \in Artists
  BY <1>1, TokenIsShown
<1>4. tokens' = {}
  BY <1>1, <1>3 DEF PageShows, PageIsShown
<1>5. /\ artistOf' \in [Songs -> Artists \cup {None}]
      /\ active' \in [Artists -> Songs \cup {None}]
  BY <1>2, <1>3 DEF WindowInv, WindowTyped
<1>6. ASSUME NEW a \in Artists PROVE active'[a] = None \/ artistOf'[active'[a]] = a
  <2>1. CASE a = profile
    BY <1>2, <1>3, <2>1 DEF WindowInv, WindowTyped
  <2>2. CASE a # profile
    <3>1. active'[a] = active[a] /\ (active[a] = None \/ artistOf[active[a]] = a)
          /\ active[a] \in Songs \cup {None}
      BY <1>2, <2>2 DEF WindowInv, WindowTyped
    <3>2. active[a] # None => active[a] # s
      BY <1>2, <3>1, NoneIsNothing
    <3> QED BY <1>2, <3>1, <3>2 DEF WindowInv, WindowTyped
  <2> QED BY <2>1, <2>2
<1>7. WindowTyped'
  BY <1>1, <1>5, <1>6 DEF WindowInv, WindowTyped, Shell!LineageTypeOK, Shell!VersionsOf
<1>8. PageQuits'
  BY <1>4 DEF PageQuits
<1> QED BY <1>1, <1>7, <1>8 DEF WindowInv, RuntimeTyped

\* A Session is started once from a page, and finished or captured in where it was shown open.
LEMMA SessionIsShown ==
  ASSUME WindowInv, NEW t \in tokens,
         Shell!StartSession(t) \/ Shell!CaptureInSession(t) \/ Shell!FinishSession(t)
  PROVE  WindowInv'
<1>1. /\ runtime = "RUNNING" /\ tokens' = tokens \ {t}
      /\ UNCHANGED <<runtime, profile, artists, shown, blocked, stop, stopError, serving,
                     shellFailures, versionOf, current, approved, artistOf, active, focused>>
      /\ t.kind \in {"session-start", "session-capture", "session-finish"}
  BY DEF Shell!StartSession, Shell!CaptureInSession, Shell!FinishSession, Shell!Acts, Shell!Uses,
         Shell!Is, Shell!lineage, Shell!desk
<1>2. PageShows /\ IsShown(t, shown) /\ shown.song = active[profile] /\ profile \in Artists
      /\ shown \in Views
  BY <1>1, TokenIsShown
<1>3. session' \in [Songs -> WorkSessions]
  <2>1. CASE Shell!StartSession(t)
    <3>1. /\ session[t.song].number < MaxSessions
          /\ session' = [session EXCEPT ![t.song] =
                            [number |-> session[t.song].number + 1, open |-> TRUE]]
      BY <2>1 DEF Shell!StartSession
    <3>2. t.song \in Songs
      <4>1. t.kind = "session-start"
        BY <2>1 DEF Shell!StartSession, Shell!Is
      <4> QED BY <1>2, <4>1 DEF IsShown, WindowInv, WindowTyped
    <3>3. session[t.song].number + 1 \in 0..MaxSessions
      BY <3>1, <3>2, WindowBounds DEF WindowInv, WindowTyped, WorkSessions
    <3>4. [number |-> session[t.song].number + 1, open |-> TRUE] \in WorkSessions
      BY <3>3 DEF WorkSessions
    <3> QED BY <3>1, <3>2, <3>4 DEF WindowInv, WindowTyped
  <2>2. CASE Shell!CaptureInSession(t)
    BY <2>2 DEF Shell!CaptureInSession, Shell!desk, WindowInv, WindowTyped
  <2>3. CASE Shell!FinishSession(t)
    BY <2>3 DEF Shell!FinishSession, WindowInv, WindowTyped, WorkSessions
  <2> QED BY <2>1, <2>2, <2>3
<1>4. WindowTyped'
  BY <1>1, <1>3 DEF WindowInv, WindowTyped, Shell!LineageTypeOK, Shell!VersionsOf
<1>5. PageIsShown(tokens', shown)
  BY <1>1, <1>2 DEF PageShows, PageIsShown
<1>6. ASSUME NEW u \in tokens', u.kind = "session-start"
      PROVE  session'[shown.song] = shown.session
  <2>1. u \in tokens /\ u # t /\ IsShown(u, shown) /\ session[shown.song] = shown.session
    BY <1>1, <1>2, <1>6 DEF PageShows, PageIsShown
  <2>2. t.kind # "session-start"
    BY <1>2, <1>6, <2>1 DEF PageShows, PageIsShown
  <2>3. ~shown.session.open
    BY <1>6, <2>1 DEF IsShown
  <2>4. FALSE
    BY <1>1, <1>2, <2>2, <2>3 DEF IsShown
  <2> QED BY <2>4
<1>7. PageShows'
  BY <1>1, <1>2, <1>5, <1>6 DEF PageShows
<1> QED BY <1>1, <1>4, <1>7 DEF WindowInv, RuntimeTyped

\* The text of the form is refused, or somebody asks the window to stop.
LEMMA WindowWaits ==
  ASSUME WindowInv, (\E t \in tokens : Shell!Wasted(t)) \/ Shell!AskToStop
  PROVE  WindowInv'
<1>1. /\ tokens' \subseteq tokens
      /\ UNCHANGED <<versionOf, current, approved, runtime, profile, artists, artistOf, active,
                     session, focused, shown, blocked, stopError, serving>>
      /\ stop' \in {stop, TRUE}
      /\ \/ shellFailures' = shellFailures
         \/ shellFailures < MaxFailures /\ shellFailures' = shellFailures + 1
  <2>1. CASE \E t \in tokens : Shell!Wasted(t)
    BY <2>1 DEF Shell!Wasted, Shell!Uses, Shell!lineage, Shell!desk, Shell!Fails
  <2>2. CASE Shell!AskToStop
    BY <2>2 DEF Shell!AskToStop, Shell!lineage, Shell!desk
  <2> QED BY <2>1, <2>2
<1>2. shellFailures' \in 0..MaxFailures
  BY <1>1, WindowBounds DEF WindowInv, RuntimeTyped
<1>3. stop' \in BOOLEAN
  BY <1>1 DEF WindowInv, RuntimeTyped
<1>4. WindowTyped'
  BY <1>1 DEF WindowInv, WindowTyped, Shell!LineageTypeOK, Shell!VersionsOf
<1>5. (PageOpens \/ PageQuits \/ PageShows)'
  BY <1>1, PageShrinks DEF WindowInv
<1> QED BY <1>1, <1>2, <1>3, <1>4, <1>5 DEF WindowInv, RuntimeTyped

\* A profile is created or chosen, and opened, refused, or not released after a failure.
LEMMA ProfileIsOpened ==
  ASSUME WindowInv, NEW t \in tokens, Shell!CreateProfile(t) \/ Shell!SelectProfile(t)
  PROVE  WindowInv'
<1>1. /\ runtime = "STOPPED" /\ tokens' \subseteq tokens /\ serving
      /\ t.kind \in {"profile-create", "profile-select"}
      /\ UNCHANGED <<versionOf, current, approved, artistOf, active, session, focused, shown,
                     stop, stopError, serving>>
  BY DEF Shell!CreateProfile, Shell!SelectProfile, Shell!Uses, Shell!Is, Shell!lineage, Shell!desk
<1>2. PageOpens
  BY <1>1 DEF WindowInv, PageQuits, PageShows
<1>3. t.kind = "profile-select" => t.artist \in Artists
  BY <1>2 DEF PageOpens
<1>4. PICK a \in Artists :
         /\ artists' = artists \/ artists' = {a}
         /\ \/ /\ UNCHANGED <<runtime, profile, shellFailures>> /\ blocked' \in {"no", "select"}
            \/ runtime' = "RUNNING" /\ profile' = a /\ blocked' = "no"
                  /\ shellFailures' = shellFailures
            \/ UNCHANGED <<runtime, profile>> /\ blocked' = "notice"
                  /\ shellFailures < MaxFailures /\ shellFailures' = shellFailures + 1
            \/ runtime' = "RECOVERY_REQUIRED" /\ profile' = a /\ blocked' = "notice"
                  /\ shellFailures < MaxFailures /\ shellFailures' = shellFailures + 1
  <2>1. CASE Shell!SelectProfile(t)
    BY <1>3, <2>1 DEF Shell!SelectProfile, Shell!Is, Shell!Launch, Shell!Fails
  <2>2. CASE Shell!CreateProfile(t)
    <3>1. CASE /\ artists = {}
               /\ \E a \in Artists :
                     /\ artists' = {a}
                     /\ \/ UNCHANGED <<runtime, profile, shellFailures>> /\ blocked' = "no"
                        \/ Shell!Launch(a)
      BY <3>1 DEF Shell!Launch, Shell!Fails
    <3>2. CASE \E a \in Artists : artists = {a} /\ UNCHANGED artists /\ Shell!Launch(a)
      BY <3>2 DEF Shell!Launch, Shell!Fails
    <3>3. CASE /\ Shell!Cardinality(artists) > 1 /\ blocked' = "select"
               /\ UNCHANGED <<runtime, profile, artists, shellFailures>>
      <4>1. artists # {}
        <5>1. Shell!Cardinality(artists) = Cardinality(artists)
          BY DEF Cardinality, Shell!Cardinality
        <5>2. Cardinality({}) = 0
          BY FS_EmptySet
        <5> QED BY <3>3, <5>1, <5>2
      <4> QED BY <3>3, <4>1 DEF WindowInv, WindowTyped
    <3> QED BY <2>2, <3>1, <3>2, <3>3 DEF Shell!CreateProfile
  <2> QED BY <2>1, <2>2
<1>5. RuntimeTyped'
  <2>1. shellFailures' \in 0..MaxFailures
    BY <1>4, WindowBounds DEF WindowInv, RuntimeTyped
  <2>2. a # None
    BY NoneIsNothing
  <2>3. /\ runtime' \in {"STOPPED", "RUNNING", "RECOVERY_REQUIRED"}
        /\ profile' \in Artists \cup {None} /\ (profile' = None <=> runtime' = "STOPPED")
        /\ blocked' \in {"no", "notice", "select"}
    BY <1>1, <1>4, <2>2 DEF WindowInv, RuntimeTyped
  <2> QED BY <1>1, <2>1, <2>3 DEF WindowInv, RuntimeTyped
<1>6. WindowTyped'
  BY <1>1, <1>4 DEF WindowInv, WindowTyped, Shell!LineageTypeOK, Shell!VersionsOf
<1>7. PageOpens'
  BY <1>1, <1>2 DEF PageOpens
<1> QED BY <1>1, <1>5, <1>6, <1>7 DEF WindowInv

\* The runtime quits, or keeps its profile for a retry.
LEMMA RuntimeQuits ==
  ASSUME RuntimeTyped, Shell!Quits
  PROVE  /\ runtime' \in {"STOPPED", "RECOVERY_REQUIRED"}
         /\ profile' \in Artists \cup {None} /\ (profile' = None <=> runtime' = "STOPPED")
         /\ shellFailures' \in 0..MaxFailures
<1>1. CASE runtime' = "STOPPED" /\ profile' = None /\ UNCHANGED shellFailures
  BY <1>1 DEF RuntimeTyped
<1>2. CASE runtime # "STOPPED" /\ runtime' = "RECOVERY_REQUIRED" /\ UNCHANGED profile
           /\ Shell!Fails
  BY <1>2, WindowBounds DEF RuntimeTyped, Shell!Fails
<1> QED BY <1>1, <1>2 DEF Shell!Quits

\* A window quits, by the action of a page or as it was asked to; in either case no action
\* of a running window is left to one that does not run.
LEMMA WindowQuits ==
  ASSUME WindowInv, (\E t \in tokens : Shell!Quit(t)) \/ Shell!LoopStops
  PROVE  WindowInv'
<1>1. /\ UNCHANGED <<versionOf, current, approved, artistOf, active, session, focused, artists,
                     blocked>>
      /\ Shell!Quits
      /\ \/ /\ \E t \in tokens : t.kind = "quit" /\ (runtime' = "STOPPED" => tokens' = tokens \ {t})
            /\ runtime' # "STOPPED" => tokens' = {[kind |-> "quit"]}
            /\ stop' \in {TRUE, stop} /\ UNCHANGED <<stopError, serving>>
            /\ IF runtime' = "STOPPED" THEN shown' = shown ELSE shown' = None
            /\ serving
         \/ /\ UNCHANGED <<tokens, shown>> /\ serving' = ~(runtime' = "STOPPED")
            /\ stop' = (runtime' = "STOPPED") /\ stopError' = (stopError \/ runtime' # "STOPPED")
  <2>1. CASE \E t \in tokens : Shell!Quit(t)
    BY <2>1 DEF Shell!Quit, Shell!Is, Shell!lineage, Shell!desk, Shell!Rendered
  <2>2. CASE Shell!LoopStops
    BY <2>2 DEF Shell!LoopStops, Shell!Leaves, Shell!lineage, Shell!desk
  <2> QED BY <2>1, <2>2
<1>2. /\ runtime' \in {"STOPPED", "RECOVERY_REQUIRED"}
      /\ profile' \in Artists \cup {None} /\ (profile' = None <=> runtime' = "STOPPED")
      /\ shellFailures' \in 0..MaxFailures
  BY <1>1, RuntimeQuits DEF WindowInv
<1>3. shown' \in Views \cup {None} /\ stop' \in BOOLEAN /\ stopError' \in BOOLEAN
      /\ serving' \in BOOLEAN
  BY <1>1 DEF WindowInv, WindowTyped, RuntimeTyped
<1>4. WindowTyped'
  BY <1>1, <1>3 DEF WindowInv, WindowTyped, Shell!LineageTypeOK, Shell!VersionsOf
<1>5. RuntimeTyped'
  BY <1>1, <1>2, <1>3 DEF WindowInv, RuntimeTyped
<1>6. ~serving' => runtime' = "STOPPED"
  BY <1>1, <1>2
<1>7. (PageOpens \/ PageQuits \/ PageShows)'
  <2>1. CASE \E t \in tokens : t.kind = "quit" /\ (runtime' = "STOPPED" => tokens' = tokens \ {t})
             /\ (runtime' # "STOPPED" => tokens' = {[kind |-> "quit"]})
    <3>1. PICK t \in tokens : t.kind = "quit" /\ (runtime' = "STOPPED" => tokens' = tokens \ {t})
      BY <2>1
    <3>2. PageQuits
      BY <3>1 DEF WindowInv, PageOpens, PageShows, PageIsShown, IsShown
    <3> QED BY <2>1, <3>1, <3>2 DEF PageQuits
  <2>2. CASE UNCHANGED <<tokens, shown>> /\ serving' = ~(runtime' = "STOPPED")
    BY <1>1, <1>2, <2>2 DEF WindowInv, PageOpens, PageQuits, PageShows
  <2> QED BY <1>1, <2>1, <2>2
<1> QED BY <1>4, <1>5, <1>6, <1>7 DEF WindowInv

\* Another surface works on a profile that is not the window's.
LEMMA OthersWork ==
  ASSUME WindowInv, Shell!Elsewhere
  PROVE  WindowInv'
<1>1. PICK a \in Artists :
        /\ a # profile
        /\ artists' = artists \cup {a}
        /\ \/ UNCHANGED <<artistOf, active, versionOf, current, approved>>
           \/ \E s \in Songs, v \in Versions :
                 /\ artistOf[s] = None /\ artistOf' = [artistOf EXCEPT ![s] = a]
                 /\ active' = [active EXCEPT ![a] = s]
                 /\ versionOf[v] = None /\ versionOf' = [versionOf EXCEPT ![v] = s]
                 /\ current' = [current EXCEPT ![s] = v] /\ approved' = approved
        /\ UNCHANGED <<runtime, profile, session, focused, tokens, shown, blocked, stop, stopError,
                       serving, shellFailures>>
  BY DEF Shell!Elsewhere, Shell!Create_version, Shell!lineage, Shell!shell
<1>2. CASE UNCHANGED <<artistOf, active, versionOf, current, approved>>
  <2>1. WindowTyped'
    BY <1>1, <1>2 DEF WindowInv, WindowTyped, Shell!LineageTypeOK, Shell!VersionsOf
  <2>2. (PageOpens \/ PageQuits \/ PageShows)'
    BY <1>1, <1>2, PageShrinks DEF WindowInv
  <2> QED BY <1>1, <2>1, <2>2 DEF WindowInv, RuntimeTyped
<1>3. ASSUME NEW s \in Songs, NEW v \in Versions,
             artistOf[s] = None, artistOf' = [artistOf EXCEPT ![s] = a],
             active' = [active EXCEPT ![a] = s],
             versionOf[v] = None, versionOf' = [versionOf EXCEPT ![v] = s],
             current' = [current EXCEPT ![s] = v], approved' = approved
      PROVE  WindowInv'
  <2>1. /\ versionOf' \in [Versions -> Songs \cup {None}]
        /\ current' \in [Songs -> Versions \cup {None}]
        /\ approved' \in [Songs -> Versions \cup {None}]
        /\ (Shell!LineageTypeOK)'
    BY <1>3, WindowLineage DEF WindowInv
  <2>2. /\ artistOf' \in [Songs -> Artists \cup {None}]
        /\ active' \in [Artists -> Songs \cup {None}]
    BY <1>3 DEF WindowInv, WindowTyped
  <2>3. ASSUME NEW b \in Artists PROVE active'[b] = None \/ artistOf'[active'[b]] = b
    <3>1. CASE b = a
      BY <1>3, <3>1 DEF WindowInv, WindowTyped
    <3>2. CASE b # a
      <4>1. active'[b] = active[b] /\ (active[b] = None \/ artistOf[active[b]] = b)
            /\ active[b] \in Songs \cup {None}
        BY <1>3, <3>2 DEF WindowInv, WindowTyped
      <4>2. active[b] # None => active[b] # s
        BY <1>3, <4>1, NoneIsNothing
      <4> QED BY <1>3, <4>1, <4>2 DEF WindowInv, WindowTyped
    <3> QED BY <3>1, <3>2
  <2>4. WindowTyped'
    BY <1>1, <2>1, <2>2, <2>3 DEF WindowInv, WindowTyped
  <2>5. runtime = "RUNNING" => active'[profile] = active[profile]
    BY <1>1, <1>3 DEF WindowInv, WindowTyped, RuntimeTyped
  <2>6. (PageOpens \/ PageQuits \/ PageShows)'
    BY <1>1, <2>5, PageShrinks DEF WindowInv
  <2> QED BY <1>1, <2>4, <2>6 DEF WindowInv, RuntimeTyped
<1> QED BY <1>1, <1>2, <1>3

\* A page of the running window is rendered, or cannot be.
LEMMA RunningPageIsShown ==
  ASSUME WindowInv, NEW path \in {"/", "/song", "/now", "/settings"}, Shell!GetRunning(path)
  PROVE  WindowInv'
<1>1. /\ runtime = "RUNNING" /\ shown' = Shell!View /\ blocked' = "no"
      /\ UNCHANGED <<versionOf, current, approved, runtime, profile, artists, artistOf, active,
                     session, focused, stop, stopError, serving>>
      /\ \/ tokens' = Shell!RunningTokens(path, Shell!View) /\ UNCHANGED shellFailures
         \/ tokens' = {} /\ shellFailures < MaxFailures /\ shellFailures' = shellFailures + 1
  BY DEF Shell!GetRunning, Shell!Render, Shell!Rendered, Shell!Fails, Shell!lineage, Shell!desk
<1>2. profile \in Artists
  BY <1>1 DEF WindowInv, RuntimeTyped
<1>3. shown' \in Views
  BY <1>1, <1>2, WindowIsAView DEF WindowInv
<1>4. shellFailures' \in 0..MaxFailures
  BY <1>1, WindowBounds DEF WindowInv, RuntimeTyped
<1>5. PICK song \in Songs \cup {None} : song = active[profile]
  BY <1>2 DEF WindowInv, WindowTyped
<1>6. /\ shown'.song = song
      /\ song # None => /\ shown'.current = current[song] /\ shown'.approved = approved[song]
                        /\ shown'.session = session[song] /\ session[song] \in WorkSessions
  BY <1>1, <1>5 DEF Shell!View, WindowInv, WindowTyped
<1>7. \/ PageIsShown(tokens', shown')
      \/ \A t \in tokens' : t.kind = "quit"
  <2>1. CASE tokens' = {}
    BY <2>1
  <2>2. CASE tokens' = Shell!RunningTokens(path, Shell!View)
    <3>1. Shell!View.song = song
      BY <1>1, <1>6
    <3>2. CASE path = "/settings"
      BY <2>2, <3>2 DEF Shell!RunningTokens
    <3>3. CASE path # "/settings"
      <4>1. \/ song # None /\ tokens' = Shell!SongTokens(song)
            \/ tokens' = Shell!NowTokens(Shell!View.focus)
            \/ tokens' = {[kind |-> "song-start"]} /\ song = None
            \/ tokens' = {}
        BY <2>2, <3>1, <3>3 DEF Shell!RunningTokens
      <4>2. CASE song # None /\ tokens' = Shell!SongTokens(song)
        <5>1. ASSUME NEW t \in tokens'
             PROVE  \/ t.kind = "song-material" /\ t.song = song
                    \/ t.kind = "song-version-resume" /\ t.song = song
                    \/ t.kind = "song-version-approve" /\ t.song = song /\ t.current = current[song]
                          /\ t.approved = approved[song]
                    \/ t.kind = "session-start" /\ ~session[song].open
                          /\ t = [kind |-> "session-start", song |-> song]
                    \/ t.kind \in {"session-capture", "session-finish"} /\ session[song].open
                          /\ t.session = <<song, session[song].number>>
          <6>1. CASE t \in {[kind |-> "song-version-resume", song |-> song, version |-> v,
                             current |-> current[song]] :
                                v \in Shell!VersionsOf(song) \ {current[song]}}
            BY <6>1
          <6>2. CASE t \in {[kind |-> "song-version-approve", song |-> song, version |-> v,
                             current |-> current[song], approved |-> approved[song]] :
                               v \in Shell!VersionsOf(song) \ {approved[song]}}
            BY <6>2
          <6>3. CASE t \in IF session[song].open
                         THEN {[kind |-> k, session |-> <<song, session[song].number>>] :
                                  k \in {"session-capture", "session-finish"}}
                         ELSE {[kind |-> "session-start", song |-> song]}
            BY <6>3
          <6>4. CASE t \in {[kind |-> "song-material", song |-> song]}
            BY <6>4
          <6> QED BY <4>2, <5>1, <6>1, <6>2, <6>3, <6>4 DEF Shell!SongTokens
        <5> QED BY <1>6, <4>2, <5>1, SongPages
      <4>3. CASE tokens' = Shell!NowTokens(Shell!View.focus)
        BY <4>3, OtherPages DEF Shell!NowTokens, Shell!Modes
      <4> QED BY <1>6, <4>1, <4>2, <4>3, OtherPages
    <3> QED BY <3>2, <3>3
  <2> QED BY <1>1, <2>1, <2>2
<1>8. (PageQuits \/ PageShows)'
  <2>1. CASE \A t \in tokens' : t.kind = "quit"
    BY <2>1 DEF PageQuits
  <2>2. CASE PageIsShown(tokens', shown')
    <3>1. \A t \in tokens' : t.kind = "session-start" => song # None
      BY <1>6, <2>2 DEF PageIsShown, IsShown
    <3> QED BY <1>1, <1>3, <1>5, <1>6, <2>2, <3>1 DEF PageShows
  <2> QED BY <1>7, <2>1, <2>2
<1>9. WindowTyped'
  BY <1>1, <1>3 DEF WindowInv, WindowTyped, Shell!LineageTypeOK, Shell!VersionsOf
<1> QED BY <1>1, <1>4, <1>8, <1>9 DEF WindowInv, RuntimeTyped

\* A page of a runtime that does not run is rendered, or cannot be.
LEMMA StoppedPageIsShown ==
  ASSUME WindowInv, Shell!GetStopped
  PROVE  WindowInv'
<1>1. /\ runtime # "RUNNING" /\ shown' = None /\ blocked' = "no"
      /\ UNCHANGED <<versionOf, current, approved, runtime, profile, artists, artistOf, active,
                     session, focused, stop, stopError, serving>>
      /\ \/ /\ \/ tokens' = {[kind |-> "quit"]} \/ tokens' = {}
               \/ tokens' = {[kind |-> "profile-create"]}
               \/ tokens' = {[kind |-> "profile-select", artist |-> a] : a \in artists}
            /\ UNCHANGED shellFailures
         \/ tokens' = {} /\ shellFailures < MaxFailures /\ shellFailures' = shellFailures + 1
  BY DEF Shell!GetStopped, Shell!Render, Shell!Rendered, Shell!Fails, Shell!lineage, Shell!desk
<1>2. shellFailures' \in 0..MaxFailures
  BY <1>1, WindowBounds DEF WindowInv, RuntimeTyped
<1>3. artists \subseteq Artists
  BY DEF WindowInv, WindowTyped
<1>4. (PageOpens \/ PageQuits)'
  BY <1>1, <1>3 DEF PageOpens, PageQuits
<1>5. WindowTyped'
  BY <1>1 DEF WindowInv, WindowTyped, Shell!LineageTypeOK, Shell!VersionsOf
<1> QED BY <1>1, <1>2, <1>4, <1>5 DEF WindowInv, RuntimeTyped

\* The only profile is opened, and its page rendered at once.
LEMMA LaunchedPageIsShown ==
  ASSUME WindowInv, NEW path \in {"/", "/song", "/now", "/settings"}, Shell!GetLaunches(path)
  PROVE  WindowInv'
<1>1. /\ runtime = "STOPPED" /\ serving /\ shown' = (Shell!View)'
      /\ UNCHANGED <<versionOf, current, approved, artists, artistOf, active, session, focused,
                     blocked, stop, stopError, serving>>
      /\ runtime' = "RUNNING" => tokens' = (Shell!RunningTokens(path, Shell!View))'
      /\ runtime' = "RECOVERY_REQUIRED" => tokens' = {[kind |-> "quit"]}
      /\ runtime' = "STOPPED" => tokens' = {}
  BY DEF Shell!GetLaunches, Shell!Rendered, Shell!lineage, Shell!desk
<1>2. PICK a \in Artists :
         \/ runtime' = "RUNNING" /\ profile' = a /\ UNCHANGED shellFailures
         \/ UNCHANGED <<runtime, profile>>
            /\ shellFailures < MaxFailures /\ shellFailures' = shellFailures + 1
         \/ runtime' = "RECOVERY_REQUIRED" /\ profile' = a
            /\ shellFailures < MaxFailures /\ shellFailures' = shellFailures + 1
  BY DEF Shell!GetLaunches, Shell!Fails
<1>3. RuntimeTyped'
  <2>1. shellFailures' \in 0..MaxFailures
    BY <1>2, WindowBounds DEF WindowInv, RuntimeTyped
  <2>2. a # None
    BY NoneIsNothing
  <2>3. /\ runtime' \in {"STOPPED", "RUNNING", "RECOVERY_REQUIRED"}
        /\ profile' \in Artists \cup {None} /\ (profile' = None <=> runtime' = "STOPPED")
    BY <1>1, <1>2, <2>2 DEF WindowInv, RuntimeTyped
  <2> QED BY <1>1, <2>1, <2>3 DEF WindowInv, RuntimeTyped
<1>4. CASE runtime' # "RUNNING"
  <2>1. shown' = None
    BY <1>1, <1>4 DEF Shell!View
  <2>2. WindowTyped'
    BY <1>1, <2>1 DEF WindowInv, WindowTyped, Shell!LineageTypeOK, Shell!VersionsOf
  <2>3. PageQuits'
    BY <1>1, <1>2, <1>4 DEF PageQuits
  <2> QED BY <1>1, <1>3, <2>2, <2>3 DEF WindowInv
<1>5. CASE runtime' = "RUNNING"
  <2>1. profile' \in Artists
    BY <1>3, <1>5 DEF RuntimeTyped
  <2>2. PICK song \in Songs \cup {None} : song = active[profile']
    BY <2>1 DEF WindowInv, WindowTyped
  <2>3. shown' = [song |-> song, focus |-> focused[profile'],
                  current |-> IF song = None THEN None ELSE current[song],
                  approved |-> IF song = None THEN None ELSE approved[song],
                  session |-> IF song = None THEN None ELSE session[song]]
    BY <1>1, <1>5, <2>2 DEF Shell!View
  <2>4. shown' \in Views
    <3>1. focused[profile'] \in Focuses \cup {None}
      BY <2>1 DEF WindowInv, WindowTyped
    <3>2. song \in Songs => /\ current[song] \in Versions \cup {None}
                            /\ approved[song] \in Versions \cup {None}
                            /\ session[song] \in WorkSessions
      BY DEF WindowInv, WindowTyped
    <3>3. CASE song = None
      BY <2>3, <3>1, <3>3 DEF Views
    <3>4. CASE song \in Songs
      BY <2>3, <3>1, <3>2, <3>4, NoneIsNothing DEF Views
    <3> QED BY <3>3, <3>4
  <2>5. /\ shown'.song = song
        /\ song # None => /\ shown'.current = current[song] /\ shown'.approved = approved[song]
                          /\ shown'.session = session[song] /\ session[song] \in WorkSessions
    BY <2>3 DEF WindowInv, WindowTyped
  <2>6. \/ PageIsShown(tokens', shown')
        \/ \A t \in tokens' : t.kind = "quit"
    <3>1. (Shell!View)'.song = song
      BY <1>1, <2>5
    <3>2. CASE path = "/settings"
      BY <1>1, <1>5, <3>2 DEF Shell!RunningTokens
    <3>3. CASE path # "/settings"
      <4>1. \/ song # None /\ tokens' = (Shell!SongTokens(song))'
            \/ tokens' = (Shell!NowTokens(Shell!View.focus))'
            \/ tokens' = {[kind |-> "song-start"]} /\ song = None
            \/ tokens' = {}
        BY <1>1, <1>5, <3>1, <3>3 DEF Shell!RunningTokens
      <4>2. CASE song # None /\ tokens' = (Shell!SongTokens(song))'
        <5>1. ASSUME NEW t \in tokens'
             PROVE  \/ t.kind = "song-material" /\ t.song = song
                    \/ t.kind = "song-version-resume" /\ t.song = song
                    \/ t.kind = "song-version-approve" /\ t.song = song /\ t.current = current[song]
                          /\ t.approved = approved[song]
                    \/ t.kind = "session-start" /\ ~session[song].open
                          /\ t = [kind |-> "session-start", song |-> song]
                    \/ t.kind \in {"session-capture", "session-finish"} /\ session[song].open
                          /\ t.session = <<song, session[song].number>>
          <6>1. CASE t \in {[kind |-> "song-version-resume", song |-> song, version |-> v,
                             current |-> current[song]] :
                                v \in {u \in Versions : versionOf[u] = song} \ {current[song]}}
            BY <6>1
          <6>2. CASE t \in {[kind |-> "song-version-approve", song |-> song, version |-> v,
                             current |-> current[song], approved |-> approved[song]] :
                               v \in {u \in Versions : versionOf[u] = song} \ {approved[song]}}
            BY <6>2
          <6>3. CASE t \in IF session[song].open
                         THEN {[kind |-> k, session |-> <<song, session[song].number>>] :
                                  k \in {"session-capture", "session-finish"}}
                         ELSE {[kind |-> "session-start", song |-> song]}
            BY <6>3
          <6>4. CASE t \in {[kind |-> "song-material", song |-> song]}
            BY <6>4
          <6> QED BY <1>1, <4>2, <5>1, <6>1, <6>2, <6>3, <6>4 DEF Shell!SongTokens, Shell!VersionsOf
        <5> QED BY <2>5, <4>2, <5>1, SongPages
      <4>3. CASE tokens' = (Shell!NowTokens(Shell!View.focus))'
        <5>1. \/ tokens' = {[kind |-> "focus-set", mode |-> m] : m \in {"MAKE", "MANAGE"}}
              \/ tokens' = {[kind |-> "focus-set", mode |-> m] : m \in {"MAKE", "MANAGE"}}
                   \cup {[kind |-> "focus-end"]}
          BY <4>3 DEF Shell!NowTokens, Shell!Modes
        <5> QED BY <5>1, OtherPages
      <4> QED BY <2>5, <4>1, <4>2, <4>3, OtherPages
    <3> QED BY <3>2, <3>3
  <2>7. (PageQuits \/ PageShows)'
    <3>1. CASE \A t \in tokens' : t.kind = "quit"
      BY <3>1 DEF PageQuits
    <3>2. CASE PageIsShown(tokens', shown')
      <4>1. \A t \in tokens' : t.kind = "session-start" => song # None
        BY <2>5, <3>2 DEF PageIsShown, IsShown
      <4> QED BY <1>1, <1>5, <2>2, <2>4, <2>5, <3>2, <4>1 DEF PageShows
    <3> QED BY <2>6, <3>1, <3>2
  <2>8. WindowTyped'
    BY <1>1, <2>4 DEF WindowInv, WindowTyped, Shell!LineageTypeOK, Shell!VersionsOf
  <2> QED BY <1>1, <1>3, <2>7, <2>8 DEF WindowInv
<1> QED BY <1>4, <1>5

\* Every post of the browser, every way the window ends and every other process keeps it.
LEMMA WindowStep ==
  ASSUME WindowInv, Shell!ShellNext
  PROVE  WindowInv'
<1>1. ASSUME NEW t \in tokens, Shell!Post(t)
      PROVE  WindowInv'
  BY <1>1, ProfileIsOpened, SongIsStarted, DeskIsTyped, SessionIsShown, FocusIsTyped, WindowQuits,
     WindowWaits
     DEF Shell!Post
<1>2. CASE Shell!Request
  BY <1>1, <1>2, StoppedPageIsShown, RunningPageIsShown, LaunchedPageIsShown DEF Shell!Request
<1> QED BY <1>2, WindowWaits, WindowQuits, OthersWork DEF Shell!ShellNext

\* So does everything else ...
LEMMA WindowKeeps == WindowInv /\ [Shell!ShellNext]_(Shell!shellVars) => WindowInv'
<1> SUFFICES ASSUME WindowInv, UNCHANGED Shell!shellVars PROVE WindowInv'
  BY WindowStep
<1> QED BY DEF Shell!shellVars, Shell!lineage, Shell!desk, Shell!shell, WindowInv, WindowTyped,
               RuntimeTyped, PageOpens, PageQuits, PageShows, Shell!LineageTypeOK, Shell!VersionsOf

\* ... so that a window that has ended has given back the profile it held.
LEMMA WindowIsTrue == WindowInv => Shell!ShellTypeOK /\ Shell!EndsReleased
BY DEF WindowInv, WindowTyped, RuntimeTyped, WorkSessions, Shell!ShellTypeOK, Shell!EndsReleased

\* What an action changes of the running profile is what its page showed.
LEMMA WindowActs == WindowInv /\ [Shell!ShellNext]_(Shell!shellVars) => Shell!ActsAsShown
<1> SUFFICES ASSUME WindowInv, Shell!ShellNext, runtime = "RUNNING"
             PROVE  Shell!ActsAsShown
  BY DEF Shell!ActsAsShown, Shell!shellVars, Shell!lineage, Shell!desk, Shell!shell
<1> USE DEF Shell!ActsAsShown
<1>1. profile \in Artists /\ profile # None
  BY NoneIsNothing DEF WindowInv, RuntimeTyped
<1>2. CASE UNCHANGED <<versionOf, current, approved, artistOf, active, session, focused>>
  BY <1>2
<1>3. ASSUME NEW t \in tokens, Shell!StartSong(t)
      PROVE  /\ shown # None /\ shown.song = active[profile]
             /\ UNCHANGED <<current, approved, session, focused>>
  <2>1. t.kind = "song-start" /\ UNCHANGED <<current, approved, session, focused>>
    BY <1>3 DEF Shell!StartSong, Shell!Is, Shell!lineage
  <2> QED BY <2>1, TokenIsShown
<1>4. ASSUME NEW t \in tokens, Shell!SetFocus(t) \/ Shell!EndFocus(t)
      PROVE  /\ shown # None /\ shown.song = active[profile]
             /\ UNCHANGED <<current, approved, session, active>>
  <2>1. t.kind \in {"focus-set", "focus-end"} /\ UNCHANGED <<current, approved, session, active>>
    BY <1>4 DEF Shell!SetFocus, Shell!EndFocus, Shell!Is, Shell!lineage
  <2> QED BY <2>1, TokenIsShown
<1>5. ASSUME NEW t \in tokens,
             \/ Shell!AddMaterial(t) \/ Shell!ResumeVersion(t) \/ Shell!ApproveVersion(t)
      PROVE  /\ UNCHANGED <<session, active, focused>> /\ shown # None
             /\ \A s \in Songs :
                   /\ current'[s] # current[s] => shown.song = s
                   /\ approved'[s] # approved[s] =>
                         /\ shown.song = s /\ shown.approved = approved[s]
                         /\ shown.current = current[s]
  <2>1. /\ t.kind \in {"song-material", "song-version-resume", "song-version-approve"}
        /\ UNCHANGED <<session, active, focused>>
        /\ \/ \E v \in Versions : current' = [current EXCEPT ![t.song] = v]
              /\ approved' = approved
           \/ /\ current' = current /\ t.kind = "song-version-approve"
              /\ current[t.song] = t.current /\ approved[t.song] = t.approved
              /\ \E v \in Versions : approved' = [approved EXCEPT ![t.song] = v]
    <3>1. CASE Shell!AddMaterial(t)
      BY <3>1 DEF Shell!AddMaterial, Shell!Is, Shell!Create_version, Shell!desk
    <3>2. CASE Shell!ResumeVersion(t)
      BY <3>2 DEF Shell!ResumeVersion, Shell!Is, Shell!Set_current_version, Shell!desk,
                  Shell!VersionsOf
    <3>3. CASE Shell!ApproveVersion(t)
      BY <3>3 DEF Shell!ApproveVersion, Shell!Is, Shell!Approve_version, Shell!desk,
                  Shell!VersionsOf
    <3> QED BY <1>5, <3>1, <3>2, <3>3
  <2>2. IsShown(t, shown) /\ shown # None
    BY <2>1, TokenIsShown
  <2>3. /\ t.song = shown.song
        /\ t.kind = "song-version-approve" =>
              t.current = shown.current /\ t.approved = shown.approved
    BY <2>1, <2>2 DEF IsShown
  <2>4. current \in [Songs -> Versions \cup {None}] /\ approved \in [Songs -> Versions \cup {None}]
    BY DEF WindowInv, WindowTyped
  <2> QED BY <2>1, <2>2, <2>3, <2>4
<1>6. ASSUME NEW t \in tokens, Shell!StartSession(t) \/ Shell!FinishSession(t)
      PROVE  /\ UNCHANGED <<current, approved, active, focused>> /\ shown # None
             /\ \A s \in Songs : session'[s] # session[s] =>
                   shown.song = s /\ shown.session = session[s]
  <2>1. session \in [Songs -> WorkSessions]
    BY DEF WindowInv, WindowTyped
  <2>2. CASE Shell!StartSession(t)
    <3>1. /\ t.kind = "session-start" /\ UNCHANGED <<current, approved, active, focused>>
          /\ session' = [session EXCEPT ![t.song] =
                            [number |-> session[t.song].number + 1, open |-> TRUE]]
      BY <2>2 DEF Shell!StartSession, Shell!Is, Shell!lineage
    <3>2. IsShown(t, shown) /\ shown # None /\ PageShows
      BY <3>1, TokenIsShown
    <3>3. t.song = shown.song /\ session[shown.song] = shown.session
      BY <3>1, <3>2 DEF IsShown, PageShows
    <3> QED BY <2>1, <3>1, <3>2, <3>3
  <2>3. CASE Shell!FinishSession(t)
    <3>1. /\ t.kind = "session-finish" /\ UNCHANGED <<current, approved, active, focused>>
          /\ session' = [session EXCEPT ![active[profile]].open = FALSE]
      BY <2>3 DEF Shell!FinishSession, Shell!Is, Shell!lineage
    <3>2. PICK song \in Songs : /\ active[profile] = song /\ session[song].open
                                /\ t.session = <<song, session[song].number>>
      BY <2>3 DEF Shell!FinishSession, Shell!OfOpenSession
    <3>3. IsShown(t, shown) /\ shown # None /\ PageShows /\ shown.song = active[profile]
      BY <3>1, TokenIsShown
    <3>4. /\ t.session = <<shown.song, shown.session.number>> /\ shown.session \in WorkSessions
          /\ shown.session.open
      BY <3>1, <3>3 DEF IsShown
    <3>5. session[song] \in WorkSessions /\ session[song].number = shown.session.number
      BY <2>1, <3>2, <3>4
    <3>6. session[song] = shown.session
      BY <3>2, <3>4, <3>5 DEF WorkSessions
    <3> QED BY <2>1, <3>1, <3>2, <3>3, <3>6
  <2> QED BY <1>6, <2>2, <2>3
<1>7. ASSUME Shell!Elsewhere
      PROVE  /\ active'[profile] = active[profile] /\ UNCHANGED <<session, focused, approved>>
             /\ \A s \in Songs : artistOf[s] = profile => current'[s] = current[s]
  <2>1. PICK a \in Artists :
           /\ a # profile /\ UNCHANGED <<session, focused>>
           /\ \/ UNCHANGED <<active, current, approved>>
              \/ \E s \in Songs, v \in Versions :
                    /\ artistOf[s] = None /\ active' = [active EXCEPT ![a] = s]
                    /\ current' = [current EXCEPT ![s] = v] /\ approved' = approved
    BY <1>7 DEF Shell!Elsewhere, Shell!Create_version, Shell!lineage
  <2>2. active \in [Artists -> Songs \cup {None}] /\ current \in [Songs -> Versions \cup {None}]
    BY DEF WindowInv, WindowTyped
  <2> QED BY <1>1, <2>1, <2>2
<1>8. ASSUME NEW t \in tokens,
             \/ Shell!CreateProfile(t) \/ Shell!SelectProfile(t) \/ Shell!CaptureInSession(t)
             \/ Shell!Quit(t) \/ Shell!Wasted(t)
      PROVE  UNCHANGED <<versionOf, current, approved, artistOf, active, session, focused>>
  BY <1>8 DEF Shell!CreateProfile, Shell!SelectProfile, Shell!CaptureInSession, Shell!Quit,
              Shell!Wasted, Shell!lineage, Shell!desk
<1>9. ASSUME \/ Shell!GetStopped \/ Shell!AskToStop \/ Shell!LoopStops
             \/ \E path \in {"/", "/song", "/now", "/settings"} :
                   Shell!GetRunning(path) \/ Shell!GetLaunches(path)
      PROVE  UNCHANGED <<versionOf, current, approved, artistOf, active, session, focused>>
  BY <1>9 DEF Shell!GetStopped, Shell!GetRunning, Shell!GetLaunches, Shell!AskToStop,
              Shell!LoopStops, Shell!lineage, Shell!desk
<1>10. CASE \E t \in tokens : Shell!Post(t)
  <2>1. PICK t \in tokens : Shell!Post(t)
    BY <1>10
  <2>2. CASE Shell!StartSong(t)
    BY <1>3, <2>2
  <2>3. CASE Shell!SetFocus(t) \/ Shell!EndFocus(t)
    BY <1>4, <2>3
  <2>4. CASE \/ Shell!AddMaterial(t) \/ Shell!ResumeVersion(t) \/ Shell!ApproveVersion(t)
    BY <1>5, <2>4
  <2>5. CASE Shell!StartSession(t) \/ Shell!FinishSession(t)
    BY <1>6, <2>5
  <2>6. CASE \/ Shell!CreateProfile(t) \/ Shell!SelectProfile(t) \/ Shell!CaptureInSession(t)
             \/ Shell!Quit(t) \/ Shell!Wasted(t)
    BY <1>2, <1>8, <2>6
  <2> QED BY <2>1, <2>2, <2>3, <2>4, <2>5, <2>6 DEF Shell!Post
<1>11. CASE Shell!Elsewhere
  BY <1>7, <1>11
<1> QED BY <1>2, <1>9, <1>10, <1>11 DEF Shell!ShellNext, Shell!Request

-----------------------------------------------------------------------------
(* What the processes are together.                                        *)

\* Plans are carried out in every behaviour, most of them without a step of it ...
LEMMA PlansTakeTheirSteps == [Next]_allVars => PlansMove
  BY DEF Next, ProcessNext, WireNext, allVars, processVars, planVars, PlansMove

\* ... and so are the sessions of the launcher and the window.
LEMMA SessionsTakeTheirSteps == [Next]_allVars => [Launcher!Next]_(Launcher!vars)
  BY DEF Next, ProcessNext, WireNext, allVars, processVars, sessionVars, Launcher!vars

\* The requests of the window are taken one by one beside whatever else goes on.
LEMMA WindowTakesItsSteps == [Next]_allVars => [Shell!ShellNext]_(Shell!shellVars)
  BY DEF Next, ProcessNext, WireNext, allVars, processVars, windowVars, Shell!shellVars,
         Shell!lineage, Shell!desk, Shell!shell

\* What a behaviour is about stays: its steps are of that part.
LEMMA PartsTakeTheirSteps ==
  [Next]_allVars =>
     /\ focus' = focus
     /\ focus = "monitor" => [Monitor!Next]_(Monitor!vars)
     /\ focus = "frames" => [Frames!Next]_(Frames!vars)
     /\ focus = "volume" => [Volume!Next]_(Volume!vars)
     /\ focus = "scripts" => [Scripts!Next]_(Scripts!vars)
     /\ focus = "material" => [Material!Next]_(Material!vars)
     /\ focus = "compare" => [Compare!CompareNext]_(Compare!compareVars)
<1> SUFFICES ASSUME [Next]_allVars
             PROVE  /\ focus' = focus
                    /\ focus = "monitor" => [Monitor!Next]_(Monitor!vars)
                    /\ focus = "frames" => [Frames!Next]_(Frames!vars)
                    /\ focus = "volume" => [Volume!Next]_(Volume!vars)
                    /\ focus = "scripts" => [Scripts!Next]_(Scripts!vars)
                    /\ focus = "material" => [Material!Next]_(Material!vars)
                    /\ focus = "compare" => [Compare!CompareNext]_(Compare!compareVars)
  OBVIOUS
<1>1. CASE UNCHANGED Rest1
  <2>1. focus' = focus
    BY DEF Next, allVars
  <2> QED BY <1>1, <2>1 DEF Rest1, Volume!vars, Volume!liveVars, Material!vars,
             Compare!compareVars, Compare!vars, Monitor!vars, Monitor!state,
             Frames!vars, Frames!frameVars, Frames!clockVars, Scripts!vars, Scripts!hostVars,
             Scripts!fileVars, Scripts!noticeVars, Scripts!observer
<1>2. CASE WireNext /\ UNCHANGED focus
  BY <1>2 DEF WireNext
<1> QED BY <1>1, <1>2 DEF Next, allVars

\* What is true of the part a behaviour is about.
PartsInv ==
    /\ focus = "monitor" => MonitorInv
    /\ focus = "frames" => FramesInv
    /\ focus = "volume" => VolumeInv
    /\ focus = "scripts" => ScriptsInv
    /\ focus = "material" => MaterialInv
    /\ focus = "compare" => CompareInv

\* It is true when the processes start ...
LEMMA PartsStart == Init => PartsInv
  BY MonitorStarts, FramesStart, VolumeStarts, ScriptsStart, MaterialBegins, CompareBegins
     DEF Init, PartsInv

\* ... and every step keeps it: that of the part, and those of the others.
LEMMA PartsKeep == PartsInv /\ [Next]_allVars => PartsInv'
  BY PartsTakeTheirSteps, MonitorKeeps, FramesKeep, VolumeKeeps, ScriptsKeep, MaterialKeeps,
     CompareKeeps
     DEF PartsInv

\* Whatever moves between the calls, the files and the devices, and whatever dies or is lost: what
\* was prepared is what is run, and what is recorded of an operation, of a Version's bytes and of
\* a decision is what happened.
THEOREM RecordsAreTrue == Spec => []ResultsAreTrue
<1>1. Init => PlansInv /\ PartsInv
  BY PlansStart, PartsStart DEF Init
<1>2. PlansInv /\ PartsInv /\ [Next]_allVars => PlansInv' /\ PartsInv'
  BY PlansTakeTheirSteps, PlansKeep, PartsKeep
<1>3. PlansInv /\ PartsInv => ResultsAreTrue
  <2>1. PlansInv => Plans!TxTypeOK /\ Plans!RunsWhatWasPrepared
    BY PlansAreTrue
  <2>2. VolumeInv => Volume!OutcomesAreTrue
    BY DEF VolumeInv
  <2> QED BY <2>1, <2>2, MaterialIsTrue, CompareIsTrue DEF ResultsAreTrue, PartsInv
<1> QED BY <1>1, <1>2, <1>3, PTL DEF Spec

\* Whoever ends, dies, times out or cannot be stopped first: a session that ended has left no
\* coordinator process that it could have killed, the window no profile it holds, the loop of an
\* observer no MIDI port it opened, and a call no staged file.
THEOREM EverythingIsGivenBack == Spec => []NothingLeftBehind
<1>1. Init => SessionsInv /\ WindowInv /\ PartsInv
  BY SessionsStart, WindowStarts, PartsStart DEF Init
<1>2. SessionsInv /\ WindowInv /\ PartsInv /\ [Next]_allVars =>
         SessionsInv' /\ WindowInv' /\ PartsInv'
  BY SessionsTakeTheirSteps, WindowTakesItsSteps, SessionsKeep, WindowKeeps, PartsKeep
<1>3. SessionsInv /\ WindowInv /\ PartsInv => NothingLeftBehind
  BY SessionsAreTrue, WindowIsTrue, MonitorIsTrue, MaterialIsTrue DEF NothingLeftBehind, PartsInv
<1> QED BY <1>1, <1>2, <1>3, PTL DEF Spec

\* Of the volume tried in Live and of the pairs compared, an action follows what it was shown.
ActsInParts ==
    /\ focus = "volume" => Volume!LateIsInDoubt
    /\ focus = "compare" => Compare!DecidedAsHeard

\* Whatever the browser posts late or twice, and whatever else has moved since the page was sent,
\* an action of the window changes what its page showed; a volume arrives late only where its
\* operation is still in doubt, and a decision is recorded between the Versions that were heard.
THEOREM ActionsFollowThePage == Spec => ActsOnWhatWasShown
<1>1. Init => WindowInv /\ PartsInv
  BY WindowStarts, PartsStart DEF Init
<1>2. WindowInv /\ PartsInv /\ [Next]_allVars => WindowInv' /\ PartsInv'
  BY WindowTakesItsSteps, WindowKeeps, PartsKeep
<1>3. WindowInv /\ [Next]_allVars => [Shell!ActsAsShown]_(Shell!shellVars)
  BY WindowTakesItsSteps, WindowActs
<1>4. PartsInv /\ [Next]_allVars => [ActsInParts]_<<focus, Rest1>>
  BY PartsTakeTheirSteps, VolumeActsInDoubt, CompareDecides DEF PartsInv, ActsInParts
<1>5. Spec => [][Shell!ActsAsShown]_(Shell!shellVars)
  BY <1>1, <1>2, <1>3, PTL DEF Spec
<1>6. Spec => [][ActsInParts]_<<focus, Rest1>>
  BY <1>1, <1>2, <1>4, PTL DEF Spec
<1>7. Shell!ActsOnWhatWasShown <=> [][Shell!ActsAsShown]_(Shell!shellVars)
  BY DEF Shell!ActsOnWhatWasShown
<1> QED BY <1>5, <1>6, <1>7 DEF ActsOnWhatWasShown, ActsInParts

\* Of the frames put together, the snapshots polled, the files of a Song and its Versions, a step
\* is of one piece.
WholeInParts ==
    /\ focus = "frames" => Frames!AFrameIsWhole
    /\ focus = "scripts" => Scripts!MovingCommitsNothing
    /\ focus = "material" => Material!NothingIsReplaced
    /\ focus = "compare" => Compare!ReferencesStand

\* Wherever a migration is cut off, whatever of a frame is lost and however often a project is
\* polled or a file stored again: the content of a profile changes by one step of the schema, a
\* frame is never of two, a poll that sees only the position move appends nothing, the bytes of a
\* Version are never replaced and its reference stays.
THEOREM NoStepIsHalf == Spec => StepsAreWhole
<1>1. Init => PartsInv
  BY PartsStart
<1>2. PartsInv /\ [Next]_allVars => PartsInv'
  BY PartsKeep
<1>3. PartsInv /\ [Next]_allVars => [WholeInParts]_<<focus, Rest1>>
  BY PartsTakeTheirSteps, FramesAreWhole, ScriptsKeep, MaterialReplacesNothing, CompareDecides
     DEF PartsInv, WholeInParts
<1>4. Spec => [][WholeInParts]_<<focus, Rest1>>
  BY <1>1, <1>2, <1>3, PTL DEF Spec
<1>5. Spec => Migration!MigrationIsAtomic
  BY ProcessesMigrate
<1> QED BY <1>4, <1>5 DEF StepsAreWhole, WholeInParts
=============================================================================

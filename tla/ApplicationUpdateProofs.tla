---------------------- MODULE ApplicationUpdateProofs ----------------------
(***************************************************************************)
(* What ApplicationUpdate keeps to, proved for every set of processes,     *)
(* updates and releases and every bound.  The invariant UInv says who has  *)
(* the leases, that one call at a time is engaged with the profile, what   *)
(* that call relies on at each of its steps, what the journal of each      *)
(* update says about package, database and driver, and that a profile      *)
(* changed half way is on record and held.  Most of the module proves that *)
(* every step keeps it, one lemma per step or group of steps; the          *)
(* properties of ApplicationUpdate follow at the end.                      *)
(***************************************************************************)
EXTENDS ApplicationUpdate, TLAPS

-----------------------------------------------------------------------------
(* The leases *)

\* Labels at which a call holds the coordination lease, and the profile's lease.
Coordinates == {"checking", "snapshotting", "quitting", "comparing", "recording", "releasing",
                "rereading", "holding", "verifying", "starting", "installing", "installed",
                "migrating", "validating", "compensating", "rollingBack", "rolledBack",
                "restoring", "restored", "unrestored", "freeing", "stranded", "guarded",
                "freeingCoordination", "strandedCoordination"}
Holds == {"verifying", "starting", "installing", "installed", "migrating", "validating",
          "compensating", "rollingBack", "rolledBack", "restoring", "restored", "unrestored",
          "freeing", "stranded", "guarded", "guardedMark"}

\* What a call believes about its leases is so, and a runtime that is not STOPPED
\* has the profile's lease.
Leased(p) ==
    /\ call[p].at \in Coordinates => "coordination" \in call[p].owns
    /\ call[p].at \in Holds => "profile" \in call[p].owns
    /\ "coordination" \in call[p].owns => coordination = p
    /\ "profile" \in call[p].owns => profileLease = p /\ runtime[p] = "STOPPED"
    /\ runtime[p] # "STOPPED" => profileLease = p
    /\ p \in open => runtime[p] \in {"RUNNING", "RECOVERY_REQUIRED"}

LeaseInv == \A p \in Process : Leased(p)

-----------------------------------------------------------------------------
(* The call that is engaged with the profile *)

Preparing == {"snapshotting", "quitting", "comparing", "recording"}
Applying == {"holding", "verifying", "starting", "installing", "installed", "migrating",
             "validating", "compensating", "rollingBack", "rolledBack", "restoring", "restored",
             "unrestored", "freeing", "freeingCoordination", "stranded", "strandedCoordination",
             "terminating", "guarded", "guardedMark", "handling"}

Recording(p) == \/ call[p].at \in {"binding", "withdrawing"}
                \/ call[p].at = "releasing" /\ call[p].update # None
Engaged(p) == call[p].at \in Preparing \/ Recording(p) \/ call[p].at \in Applying

\* Only one call at a time is between its check of the journals and its last word on the
\* update, with or without the leases.
OneEngaged == \A p, q \in Process : Engaged(p) /\ Engaged(q) => p = q

\* What a call relies on in prepare() ...
PrepareRelies(p) ==
    /\ call[p].at \in Preparing \cup {"checking"} => call[p].update = None
    /\ call[p].at \in Preparing => Blocking = {}
    /\ call[p].at \in {"quitting", "comparing", "recording"} =>
          /\ call[p].snapshot # None /\ slot = call[p].snapshot
          /\ call[p].snapshot.schema = db.schema
    /\ Recording(p) => /\ call[p].update \in Update \ bound
                       /\ StateOf(call[p].update) = "PREPARED"

\* ... and at each step of apply(): the state on record,
StateRelies(p) ==
    LET at == call[p].at
        state == Plan(p).state
    IN
    /\ at \in {"claiming", "rereading"} \cup Applying => call[p].update \in bound
    /\ at \in {"holding", "verifying", "starting"} => state = "PREPARED"
    /\ at \in {"installing", "installed"} => state = "INSTALLING"
    /\ at \in {"migrating", "validating", "guarded", "guardedMark"} => state = "VALIDATING"
    /\ at = "compensating" => state \in {"INSTALLING", "VALIDATING"}
    /\ at \in {"rollingBack", "rolledBack"} => state = "ROLLING_BACK"
    /\ at \in {"restoring", "restored", "unrestored"} => state = "RESTORING"
    /\ at \in {"freeing", "freeingCoordination", "stranded", "strandedCoordination", "terminating"}
          => state = "FINALIZING"
    /\ at = "handling" => /\ state \in InFlight \cup {"PREPARED"} /\ ioFailures >= 1
                          /\ state = "PREPARED" => "coordination" \in call[p].owns
    /\ at = "rereading" => "profile" \notin call[p].owns

\* the database and the package, the receipt of the driver and what it was asked for.
DataRelies(p) ==
    LET at == call[p].at
        j == Plan(p)
        r == call[p].receipt
    IN
    /\ at \in {"starting", "installing", "installed", "migrating", "restored"} => db = j.snapshot
    /\ at \in {"validating", "compensating", "rollingBack", "rolledBack", "restoring", "unrestored"}
          => db.edits = j.snapshot.edits
    /\ at = "installing" => package = j.from /\ performed[call[p].update]["INSTALL"] = 0
    /\ at = "installed" => /\ r \in Installs \cup {None}
                           /\ r = "SUCCEEDED" => package = j.to
                           /\ r = "FAILED_SAFE" => package = j.from
    /\ at \in {"migrating", "validating"} => package = j.to /\ r = "SUCCEEDED"
    /\ at = "validating" => db.schema = SchemaOf[j.to]
    /\ at = "compensating" => r = IF j.state = "VALIDATING" THEN "SUCCEEDED" ELSE "FAILED_CHANGED"
    /\ at = "rollingBack" => performed[call[p].update]["ROLLBACK"] = 0
    /\ at = "rolledBack" => /\ r \in Rollbacks \cup {None}
                            /\ r = "SUCCEEDED" => package = j.from
    /\ at \in {"restoring", "restored", "unrestored"} => package = j.from

ReliesOn(p) == PrepareRelies(p) /\ StateRelies(p) /\ DataRelies(p)
Relies == \A p \in Process : ReliesOn(p)

-----------------------------------------------------------------------------
(* The updates on record *)

\* The evidence in a journal agrees with its state and with itself.
Sound(j) ==
    /\ Evidenced(j)
    /\ j.restored => j.rollback # None
    /\ j.rollback # None => j.install # "FAILED_SAFE"
    /\ j.snapshot.schema = SchemaOf[j.from]

\* The profile is what the outcome of j says.
Concluded(j) ==
    IF Outcome(j) = "SUCCEEDED" THEN package = j.to /\ db.schema = SchemaOf[j.to]
    ELSE package = j.from /\ db.schema = SchemaOf[j.from]

Recorded(u) ==
    /\ performed[u]["INSTALL"] <= 1 /\ performed[u]["ROLLBACK"] <= 1
    /\ journal[u] = None =>
          u \notin bound /\ performed[u]["INSTALL"] = 0 /\ performed[u]["ROLLBACK"] = 0
    /\ journal[u] # None =>
          LET j == journal[u] IN
          /\ Sound(j)
          /\ j.state = "PREPARED" =>
                /\ package = j.from /\ db.schema = SchemaOf[j.from]
                /\ performed[u]["INSTALL"] = 0
          /\ j.state \in {"PREPARED", "INSTALLING", "VALIDATING"} => performed[u]["ROLLBACK"] = 0
          /\ j.state = "FINALIZING" => Concluded(j)

AllRecorded == \A u \in Update : Recorded(u)

\* A changed profile is on record, and held.
Unfinished == (InFlight \ {"FINALIZING"}) \cup {"RECOVERY_REQUIRED"}
TornRecorded == ~Whole => \E u \in Update : StateOf(u) \in Unfinished
TornHeld == ~Whole => \/ holdDied \/ ioFailures > 1
                      \/ \E p \in Process : profileLease = p /\ runtime[p] = "STOPPED"
Drops(p) == call[p].at = "dropping" /\ "profile" \in call[p].owns => Whole \/ ioFailures > 1
DropsWhole == \A p \in Process : Drops(p)

\* The inductive invariant.
ProfileInv ==
    /\ OneEngaged /\ Relies
    /\ OneUnsettled /\ AllRecorded /\ SnapshotIsKept
    /\ TornRecorded /\ TornHeld /\ DropsWhole
UInv == TypeOK /\ LeaseInv /\ ProfileInv

-----------------------------------------------------------------------------
(* What the steps of a call do to the call, the journal and the counter *)

\* A call starts out idle, with nothing.
LEMMA IdleIsACall == Idle \in Calls
  BY DEF Idle, Calls, Labels

\* The fields of a call may be set on their own.
LEMMA CallsWith ==
  ASSUME NEW me \in Calls, NEW at \in Labels, NEW c \in Contents \cup {None},
         NEW u \in Update \cup {None}
  PROVE  /\ [me EXCEPT !.at = at, !.snapshot = c] \in Calls
         /\ [me EXCEPT !.at = at, !.update = u, !.snapshot = c] \in Calls
  BY DEF Calls

\* So may its leases and the receipt of the driver.
LEMMA CallsOwning ==
  ASSUME NEW me \in Calls, NEW at \in Labels, NEW o \in SUBSET {"profile", "coordination"},
         NEW r \in Installs \cup Rollbacks \cup {None}
  PROVE  /\ [me EXCEPT !.at = at, !.owns = o] \in Calls
         /\ [me EXCEPT !.at = at, !.receipt = r] \in Calls
  BY DEF Calls

\* A step of one call leaves the other calls alone (Continue).
LEMMA ContinueDoes ==
  ASSUME TypeOK, NEW p \in Process, NEW me \in Calls, Continue(p, me)
  PROVE  /\ call' \in [Process -> Calls]
         /\ call'[p] = me
         /\ \A q \in Process \ {p} : call'[q] = call[q]
  BY DEF TypeOK, Continue, Calls

\* Going on to a label, or returning (Goto).
LEMMA GotoDoes ==
  ASSUME TypeOK, NEW p \in Process, NEW at \in Labels, Goto(p, at)
  PROVE  /\ call' \in [Process -> Calls]
         /\ at # "idle" => call'[p] = [call[p] EXCEPT !.at = at]
         /\ at = "idle" => call'[p] = Idle
         /\ \A q \in Process \ {p} : call'[q] = call[q]
<1>1. call[p] \in Calls
  BY DEF TypeOK, Calls
<1>2. CASE at = "idle"
  <2>1. Continue(p, Idle)
    BY <1>2 DEF Goto, Return
  <2> QED BY <2>1, <1>2, ContinueDoes, IdleIsACall
<1>3. CASE at # "idle"
  <2> DEFINE me == [call[p] EXCEPT !.at = at]
  <2>1. me \in Calls
    BY <1>1 DEF Calls
  <2>2. Continue(p, me)
    BY <1>3 DEF Goto
  <2> HIDE DEF me
  <2>3. QED BY <2>1, <2>2, <1>3, ContinueDoes DEF me
<1> QED BY <1>2, <1>3

\* Going on to a label keeps the other locals.
LEMMA GotoFields ==
  ASSUME TypeOK, NEW p \in Process, NEW at \in Labels \ {"idle"}, Goto(p, at)
  PROVE  /\ call'[p].at = at /\ call'[p].update = call[p].update
         /\ call'[p].snapshot = call[p].snapshot /\ call'[p].receipt = call[p].receipt
         /\ call'[p].owns = call[p].owns
         /\ \A q \in Process \ {p} : call'[q] = call[q]
<1>1. call[p] \in Calls
  BY DEF TypeOK
<1>2. /\ call'[p] = [call[p] EXCEPT !.at = at]
      /\ \A q \in Process \ {p} : call'[q] = call[q]
  BY GotoDoes
<1> QED BY <1>1, <1>2 DEF Calls

\* Going on without one of the leases, or returning (release, in Leave).
LEMMA LeaveDoes ==
  ASSUME TypeOK, NEW p \in Process, NEW lease, NEW at \in Labels, Leave(p, lease, at)
  PROVE  /\ call' \in [Process -> Calls]
         /\ at # "idle" => call'[p] = [call[p] EXCEPT !.at = at, !.owns = @ \ {lease}]
         /\ at = "idle" => call'[p] = Idle
         /\ \A q \in Process \ {p} : call'[q] = call[q]
<1>1. call[p] \in Calls
  BY DEF TypeOK, Calls
<1>2. CASE at = "idle"
  <2>1. Continue(p, Idle)
    BY <1>2 DEF Leave, Return
  <2> QED BY <2>1, <1>2, ContinueDoes, IdleIsACall
<1>3. CASE at # "idle"
  <2> DEFINE me == [call[p] EXCEPT !.at = at, !.owns = @ \ {lease}]
  <2>1. me \in Calls
    BY <1>1 DEF Calls
  <2>2. Continue(p, me)
    BY <1>3 DEF Leave
  <2> HIDE DEF me
  <2>3. QED BY <2>1, <2>2, <1>3, ContinueDoes DEF me
<1> QED BY <1>2, <1>3

\* Going on without a lease keeps the other locals.
LEMMA LeaveFields ==
  ASSUME TypeOK, NEW p \in Process, NEW lease, NEW at \in Labels \ {"idle"}, Leave(p, lease, at)
  PROVE  /\ call'[p].at = at /\ call'[p].update = call[p].update
         /\ call'[p].snapshot = call[p].snapshot /\ call'[p].receipt = call[p].receipt
         /\ call'[p].owns = call[p].owns \ {lease}
         /\ \A q \in Process \ {p} : call'[q] = call[q]
<1>1. call[p] \in Calls
  BY DEF TypeOK
<1>2. /\ call'[p] = [call[p] EXCEPT !.at = at, !.owns = @ \ {lease}]
      /\ \A q \in Process \ {p} : call'[q] = call[q]
  BY LeaveDoes
<1> QED BY <1>1, <1>2 DEF Calls

\* A failure is counted, and there are at most MaxIOFailures.
LEMMA CountDoes ==
  ASSUME TypeOK
  PROVE  /\ Works => ioFailures' = ioFailures
         /\ Fails => ioFailures' = ioFailures + 1
         /\ Works \/ Fails => ioFailures' \in 0..MaxIOFailures /\ ioFailures' >= ioFailures
  BY UpdateAssumption DEF TypeOK, Works, Fails

\* A step from the journal's state to another that _ALLOWED_TRANSITIONS allows and whose
\* evidence _validate_journal_semantics accepts.
Legal(p, j) == j.state \in Allowed[Plan(p).state] /\ Evidenced(j)

\* A legal transition is written, or fails to be (_transition).
LEMMA TransitionDoes ==
  ASSUME TypeOK, NEW p \in Process, NEW j \in Journals, Legal(p, j),
         NEW written \in Labels, NEW raised \in Labels, call[p].update \in Update,
         Transition(p, j, written, raised)
  PROVE  \/ /\ journal' = [journal EXCEPT ![call[p].update] = j]
            /\ ioFailures' = ioFailures /\ Goto(p, written)
         \/ /\ journal' = journal
            /\ ioFailures' = ioFailures + 1 /\ Goto(p, raised)
  BY DEF Transition, Legal, Plan, Works, Fails

\* What a transition leaves well typed.
LEMMA TransitionType ==
  ASSUME TypeOK, NEW p \in Process, NEW j \in Journals,
         NEW written \in Labels, NEW raised \in Labels, call[p].update \in Update,
         Transition(p, j, written, raised)
  PROVE  /\ journal' \in [Update -> Journals \cup {None}]
         /\ call' \in [Process -> Calls]
         /\ ioFailures' \in 0..MaxIOFailures
<1>1. journal \in [Update -> Journals \cup {None}]
  BY DEF TypeOK
<1>2. \/ journal' = [journal EXCEPT ![call[p].update] = j]
      \/ journal' = journal
  BY DEF Transition
<1>3. journal' \in [Update -> Journals \cup {None}]
  BY <1>1, <1>2
<1>4. Goto(p, written) \/ Goto(p, raised)
  BY DEF Transition
<1>5. Works \/ Fails
  BY DEF Transition
<1> QED BY <1>3, <1>4, <1>5, GotoDoes, CountDoes

\* The update of a call that applies one, or that has recorded one, is on record.
LEMMA PlanIs ==
  ASSUME TypeOK, Relies, AllRecorded, NEW p \in Process,
         \/ call[p].at \in {"claiming", "rereading"} \cup Applying
         \/ Recording(p)
  PROVE  /\ call[p].update \in Update
         /\ Plan(p) = journal[call[p].update]
         /\ Plan(p) # None
         /\ Plan(p) \in Journals
         /\ StateOf(call[p].update) = Plan(p).state
<1> DEFINE u == call[p].update
<1>1. u \in Update /\ journal[u] # None
  <2>1. CASE call[p].at \in {"claiming", "rereading"} \cup Applying
    <3>1. u \in bound
      BY <2>1 DEF Relies, ReliesOn, StateRelies
    <3>2. u \in Update
      BY <3>1 DEF TypeOK
    <3> QED BY <3>1, <3>2 DEF AllRecorded, Recorded
  <2>2. CASE Recording(p)
    <3>1. u \in Update /\ StateOf(u) = "PREPARED"
      BY <2>2 DEF Relies, ReliesOn, PrepareRelies
    <3> QED BY <3>1, NoneAssumption DEF StateOf, States
  <2> QED BY <2>1, <2>2
<1>2. journal[u] \in Journals
  BY <1>1 DEF TypeOK
<1> QED BY <1>1, <1>2 DEF Plan, StateOf

-----------------------------------------------------------------------------
(* Every step keeps the types *)

Step(p) ==
    \/ LaunchClaims(p) \/ LaunchOpens(p) \/ Quit(p) \/ Edit(p)
    \/ PrepareBegins(p) \/ PrepareStep(p)
    \/ (\E u \in Update : ApplyBegins(p, u)) \/ ApplyStep(p)
    \/ Crash(p)

\* The steps of launch, quit and the artist's work keep the types.
LEMMA OutsideType ==
  ASSUME TypeOK, NEW p \in Process,
         LaunchClaims(p) \/ LaunchOpens(p) \/ Quit(p) \/ Edit(p)
  PROVE  TypeOK'
<1> USE DEF TypeOK, vars, leases, session, files, ghosts
<1>1. CASE LaunchClaims(p)
  BY <1>1 DEF LaunchClaims
<1>2. CASE LaunchOpens(p)
  BY <1>2, CountDoes DEF LaunchOpens
<1>3. CASE Quit(p)
  BY <1>3, CountDoes DEF Quit, QuitSucceeds, QuitFails
<1>4. CASE Edit(p)
  <2>1. db' \in Contents
    BY <1>4 DEF Edit, Contents
  <2> QED BY <1>4, <2>1 DEF Edit
<1> QED BY <1>1, <1>2, <1>3, <1>4

\* The steps of prepare() keep the types.
LEMMA PrepareType ==
  ASSUME TypeOK, Relies, AllRecorded, NEW p \in Process,
         PrepareBegins(p) \/ PrepareStep(p)
  PROVE  TypeOK'
<1> USE DEF TypeOK, leases, session, files, ghosts
<1>1. CASE PrepareBegins(p)
  <2> DEFINE me == [Idle EXCEPT !.at = "checking", !.owns = {"coordination"}]
  <2>1. me \in Calls
    BY DEF Idle, Calls, Labels
  <2>2. Continue(p, me)
    BY <1>1 DEF PrepareBegins
  <2> HIDE DEF me
  <2>3. call' \in [Process -> Calls]
    BY <2>1, <2>2, ContinueDoes
  <2> QED BY <1>1, <2>3 DEF PrepareBegins
<1>2. CASE PrepareChecks(p)
  <2>1. call' \in [Process -> Calls]
    BY <1>2, GotoDoes DEF PrepareChecks, Labels
  <2> QED BY <1>2, <2>1 DEF PrepareChecks
<1>3. CASE PrepareSnapshots(p)
  <2>1. call' \in [Process -> Calls]
    <3>1. CASE Goto(p, "releasing")
      BY <3>1, GotoDoes DEF Labels
    <3>2. CASE Continue(p, [call[p] EXCEPT !.at = "quitting", !.snapshot = db])
      <4> DEFINE me == [call[p] EXCEPT !.at = "quitting", !.snapshot = db]
      <4>1. me \in Calls
        BY CallsWith DEF Labels
      <4> HIDE DEF me
      <4>2. QED BY <3>2, <4>1, ContinueDoes DEF me
    <3> QED BY <1>3, <3>1, <3>2 DEF PrepareSnapshots
  <2> QED BY <1>3, <2>1, CountDoes DEF PrepareSnapshots
<1>4. CASE PrepareQuits(p)
  <2>1. call' \in [Process -> Calls]
    BY <1>4, GotoDoes DEF PrepareQuits, Labels
  <2> QED BY <1>4, <2>1, CountDoes DEF PrepareQuits, QuitSucceeds, QuitFails
<1>5. CASE PrepareCompares(p)
  <2>1. call' \in [Process -> Calls]
    BY <1>5, GotoDoes DEF PrepareCompares, Labels
  <2> QED BY <1>5, <2>1 DEF PrepareCompares
<1>6. CASE \E u \in Update, from, to \in Release : PrepareRecords(p, u, from, to)
  <2> PICK u \in Update, from \in Release, to \in Release : PrepareRecords(p, u, from, to)
    BY <1>6
  <2> DEFINE j == [state |-> "PREPARED", from |-> from, to |-> to,
                   snapshot |-> call[p].snapshot, install |-> None, rollback |-> None,
                   restored |-> FALSE]
             me == [call[p] EXCEPT !.at = "releasing", !.update = u, !.snapshot = None]
  <2>1. CASE Fails /\ Goto(p, "releasing") /\ UNCHANGED journal
    <3>1. call' \in [Process -> Calls]
      BY <2>1, GotoDoes DEF Labels
    <3> QED BY <2>1, <3>1, CountDoes DEF PrepareRecords
  <2>2. CASE Works /\ journal' = [journal EXCEPT ![u] = j] /\ Continue(p, me)
    <3>1. call[p].snapshot \in Contents
      <4>1. call[p].snapshot # None
        BY DEF PrepareRecords, At, Relies, ReliesOn, PrepareRelies
      <4> QED BY <4>1 DEF Calls
    <3>2. j \in Journals
      BY <3>1 DEF Journals, States
    <3>3. me \in Calls
      BY CallsWith, ZenonT(40) DEF Labels
    <3> HIDE DEF j, me
    <3>4. call' \in [Process -> Calls]
      BY <2>2, <3>3, ContinueDoes
    <3> QED BY <2>2, <3>2, <3>4, CountDoes DEF PrepareRecords
  <2> HIDE DEF j, me
  <2>3. QED BY <2>1, <2>2 DEF PrepareRecords, j, me
<1>7. CASE PrepareReleases(p)
  <2>1. call' \in [Process -> Calls]
    BY <1>7, GotoDoes, LeaveDoes DEF PrepareReleases, ReleaseCoordination, Labels
  <2> QED BY <1>7, <2>1, CountDoes DEF PrepareReleases, ReleaseCoordination
<1>8. CASE PrepareBinds(p)
  <2>1. call' \in [Process -> Calls]
    BY <1>8, GotoDoes, ContinueDoes, IdleIsACall DEF PrepareBinds, Return, Labels
  <2>2. call[p].update \in Update
    BY <1>8, PlanIs DEF PrepareBinds, At, Recording
  <2> QED BY <1>8, <2>1, <2>2, CountDoes DEF PrepareBinds
<1>9. CASE PrepareWithdraws(p)
  <2>1. /\ call[p].update \in Update
        /\ Recovery(Plan(p)) \in Journals
    BY <1>9, PlanIs DEF PrepareWithdraws, At, Recording, Recovery, Journals, States, Terminal
  <2> QED BY <1>9, <2>1, TransitionType, ZenonT(40) DEF PrepareWithdraws, Labels
<1> QED BY <1>1, <1>2, <1>3, <1>4, <1>5, <1>6, <1>7, <1>8, <1>9 DEF PrepareStep

\* The fields of a journal may be set on their own.
LEMMA JournalsWith ==
  ASSUME NEW j \in Journals, NEW s \in States, NEW i \in Installs \cup {None},
         NEW r \in Rollbacks \cup {None}
  PROVE  /\ [j EXCEPT !.state = s] \in Journals
         /\ [j EXCEPT !.install = i] \in Journals
         /\ [j EXCEPT !.state = s, !.install = i] \in Journals
         /\ [j EXCEPT !.rollback = r] \in Journals
         /\ [j EXCEPT !.state = s, !.restored = TRUE] \in Journals
         /\ Recovery(j) \in Journals
<1>1. /\ [j EXCEPT !.state = s] \in Journals
      /\ [j EXCEPT !.install = i] \in Journals
      /\ [j EXCEPT !.rollback = r] \in Journals
  BY DEF Journals
<1>2. [j EXCEPT !.state = s, !.install = i] \in Journals
  BY DEF Journals
<1>3. [j EXCEPT !.state = s, !.restored = TRUE] \in Journals
  BY DEF Journals
<1>4. Recovery(j) \in Journals
  BY DEF Journals, Recovery, States, Terminal
<1> QED BY <1>1, <1>2, <1>3, <1>4

\* The steps of apply() up to the installation keep the types.
LEMMA ApplyOpeningType ==
  ASSUME TypeOK, Relies, AllRecorded, NEW p \in Process,
         \/ \E u \in Update : ApplyBegins(p, u)
         \/ ApplyClaims(p) \/ ApplyRereads(p) \/ ApplyHolds(p) \/ ApplyVerifies(p)
         \/ ApplyStarts(p)
  PROVE  TypeOK'
<1> USE DEF TypeOK, leases, session, files, ghosts
<1> call[p] \in Calls
  OBVIOUS
<1>1. CASE \E u \in Update : ApplyBegins(p, u)
  <2> PICK u \in Update : ApplyBegins(p, u)
    BY <1>1
  <2> DEFINE me == [Idle EXCEPT !.at = "claiming", !.update = u]
  <2>1. me \in Calls
    BY DEF Idle, Calls, Labels
  <2>2. Continue(p, me)
    BY DEF ApplyBegins
  <2> HIDE DEF me
  <2>3. call' \in [Process -> Calls]
    BY <2>1, <2>2, ContinueDoes
  <2> QED BY <2>3 DEF ApplyBegins
<1>2. CASE ApplyClaims(p)
  <2> DEFINE me == [call[p] EXCEPT !.at = "rereading", !.owns = {"coordination"}]
  <2>1. me \in Calls
    BY CallsOwning DEF Labels
  <2>2. Continue(p, me) \/ Continue(p, Idle)
    BY <1>2 DEF ApplyClaims, Return
  <2> HIDE DEF me
  <2>3. call' \in [Process -> Calls]
    BY <2>1, <2>2, ContinueDoes, IdleIsACall
  <2> QED BY <1>2, <2>3 DEF ApplyClaims
<1>3. CASE ApplyRereads(p)
  <2>1. call' \in [Process -> Calls]
    BY <1>3, GotoDoes DEF ApplyRereads, Labels
  <2> QED BY <1>3, <2>1 DEF ApplyRereads
<1>4. CASE ApplyHolds(p)
  <2> DEFINE me == [call[p] EXCEPT !.at = "verifying", !.owns = @ \cup {"profile"}]
  <2>1. me \in Calls
    <3> DEFINE o == call[p].owns \cup {"profile"}
    <3>1. o \in SUBSET {"profile", "coordination"}
      BY DEF Calls
    <3>2. [call[p] EXCEPT !.at = "verifying", !.owns = o] \in Calls
      BY <3>1, CallsOwning DEF Labels
    <3>3. me = [call[p] EXCEPT !.at = "verifying", !.owns = o]
      BY DEF Calls
    <3> HIDE DEF o, me
    <3>4. QED BY <3>2, <3>3
  <2>2. Continue(p, me) \/ Goto(p, "dropping")
    BY <1>4 DEF ApplyHolds
  <2> HIDE DEF me
  <2>3. call' \in [Process -> Calls]
    BY <2>1, <2>2, ContinueDoes, GotoDoes DEF Labels
  <2> QED BY <1>4, <2>3 DEF ApplyHolds
<1>5. CASE ApplyVerifies(p)
  <2>1. call' \in [Process -> Calls]
    BY <1>5, GotoDoes DEF ApplyVerifies, Labels
  <2>2. call[p].update \in Update
    BY <1>5, PlanIs DEF ApplyVerifies, At, Applying
  <2> QED BY <1>5, <2>1, <2>2 DEF ApplyVerifies
<1>6. CASE ApplyStarts(p)
  <2>1. /\ call[p].update \in Update
        /\ [Plan(p) EXCEPT !.state = "INSTALLING"] \in Journals
    BY <1>6, PlanIs, JournalsWith DEF ApplyStarts, At, Applying, States, InFlight
  <2> QED BY <1>6, <2>1, TransitionType, ZenonT(40) DEF ApplyStarts, Labels
<1> QED BY <1>1, <1>2, <1>3, <1>4, <1>5, <1>6

\* One more start of one action of the driver, for one update.
LEMMA CountedDoes ==
  ASSUME performed \in [Update -> [{"INSTALL", "ROLLBACK"} -> Nat]],
         NEW u \in Update, NEW a \in {"INSTALL", "ROLLBACK"},
         performed' = [performed EXCEPT ![u][a] = @ + 1]
  PROVE  /\ performed' \in [Update -> [{"INSTALL", "ROLLBACK"} -> Nat]]
         /\ performed'[u][a] = performed[u][a] + 1
         /\ \A b \in {"INSTALL", "ROLLBACK"} \ {a} : performed'[u][b] = performed[u][b]
         /\ \A v \in Update \ {u} : performed'[v] = performed[v]
<1> DEFINE f == [performed[u] EXCEPT ![a] = @ + 1]
<1>1. performed[u] \in [{"INSTALL", "ROLLBACK"} -> Nat]
  OBVIOUS
<1>2. f \in [{"INSTALL", "ROLLBACK"} -> Nat]
  BY <1>1
<1>3. f[a] = performed[u][a] + 1 /\ \A b \in {"INSTALL", "ROLLBACK"} \ {a} : f[b] = performed[u][b]
  BY <1>1
<1>4. performed' = [performed EXCEPT ![u] = f]
  OBVIOUS
<1> HIDE DEF f
<1> QED BY <1>2, <1>3, <1>4

\* The package driver's answer is kept with the call; the rest keeps its types.
LEMMA DriverType ==
  ASSUME TypeOK, Relies, AllRecorded, NEW p \in Process,
         \/ \E r \in Installs \cup {None} : Install(p, r)
         \/ \E r \in Rollbacks \cup {None} : Rollback(p, r)
  PROVE  TypeOK'
<1> USE DEF TypeOK, leases, session, files, ghosts
<1> call[p] \in Calls
  OBVIOUS
<1>1. ASSUME NEW r \in Installs \cup {None}, Install(p, r)
      PROVE  TypeOK'
  <2> DEFINE me == [call[p] EXCEPT !.at = "installed", !.receipt = r]
  <2>1. me \in Calls
    BY CallsOwning, ZenonT(40) DEF Labels
  <2>2. Continue(p, me)
    BY <1>1 DEF Install
  <2> HIDE DEF me
  <2>3. call' \in [Process -> Calls]
    BY <2>1, <2>2, ContinueDoes
  <2>4. call[p].update \in Update /\ Plan(p) \in Journals
    BY <1>1, PlanIs DEF Install, At, Applying
  <2>5. performed' \in [Update -> [{"INSTALL", "ROLLBACK"} -> Nat]]
    BY <1>1, <2>4, CountedDoes DEF Install, Counted
  <2>6. package' \in Release \cup {Mixed}
    BY <1>1, <2>4 DEF Install, AfterInstall, Journals
  <2> QED BY <1>1, <2>3, <2>5, <2>6 DEF Install
<1>2. ASSUME NEW r \in Rollbacks \cup {None}, Rollback(p, r)
      PROVE  TypeOK'
  <2> DEFINE me == [call[p] EXCEPT !.at = "rolledBack", !.receipt = r]
  <2>1. me \in Calls
    BY CallsOwning, ZenonT(40) DEF Labels
  <2>2. Continue(p, me)
    BY <1>2 DEF Rollback
  <2> HIDE DEF me
  <2>3. call' \in [Process -> Calls]
    BY <2>1, <2>2, ContinueDoes
  <2>4. call[p].update \in Update /\ Plan(p) \in Journals
    BY <1>2, PlanIs DEF Rollback, At, Applying
  <2>5. performed' \in [Update -> [{"INSTALL", "ROLLBACK"} -> Nat]]
    BY <1>2, <2>4, CountedDoes DEF Rollback, Counted
  <2>6. package' \in Release \cup {Mixed}
    BY <1>2, <2>4 DEF Rollback, AfterRollback, Journals
  <2> QED BY <1>2, <2>3, <2>5, <2>6 DEF Rollback
<1> QED BY <1>1, <1>2

\* The migration and the restore replace the database by one of the same form.
LEMMA DatabaseType ==
  ASSUME TypeOK, Relies, AllRecorded, SnapshotIsKept, NEW p \in Process,
         Migrate(p) \/ Restore(p)
  PROVE  TypeOK'
<1> USE DEF TypeOK, leases, session, files, ghosts
<1>1. call[p].update \in Update /\ Plan(p) \in Journals
  BY PlanIs DEF Migrate, Restore, At, Applying
<1>2. Plan(p).snapshot \in Contents /\ SchemaOf[Plan(p).to] \in Nat
  BY <1>1, UpdateAssumption DEF Journals
<1>3. CASE Migrate(p)
  <2>1. call' \in [Process -> Calls]
    BY <1>3, GotoDoes DEF Migrate, Labels
  <2>2. [db EXCEPT !.schema = SchemaOf[Plan(p).to]] \in Contents
    BY <1>2 DEF Contents
  <2>3. db' \in Contents
    BY <1>3, <1>2, <2>2 DEF Migrate
  <2> QED BY <1>3, <2>1, <2>3 DEF Migrate
<1>4. CASE Restore(p)
  <2>1. call' \in [Process -> Calls]
    BY <1>4, GotoDoes DEF Restore, Labels
  <2>2. db' \in Contents
    BY <1>4, <1>2 DEF Restore
  <2> QED BY <1>4, <2>1, <2>2 DEF Restore
<1> QED BY <1>3, <1>4

\* The journal's steps after the installation keep the types.
LEMMA ApplyRecordType ==
  ASSUME TypeOK, Relies, AllRecorded, NEW p \in Process,
         \/ ApplyInstalled(p) \/ Validate(p) \/ Compensate(p) \/ RolledBack(p)
         \/ Restored(p) \/ Unrestored(p) \/ Stranded(p) \/ Terminate(p)
         \/ GuardedMark(p) \/ Handle(p)
  PROVE  TypeOK'
<1> DEFINE u == call[p].update
           r == call[p].receipt
<1> USE DEF leases, session, files, ghosts
<1>1. /\ u \in Update
      /\ Plan(p) \in Journals
  BY PlanIs DEF ApplyInstalled, Validate, Compensate, RolledBack, Restored, Unrestored,
                Stranded, Terminate, GuardedMark, Handle, At, Applying
<1>2. SUFFICES /\ journal' \in [Update -> Journals \cup {None}]
               /\ call' \in [Process -> Calls]
               /\ ioFailures' \in 0..MaxIOFailures
  BY DEF TypeOK, ApplyInstalled, Validate, Compensate, RolledBack, Restored, Unrestored,
         Stranded, Terminate, GuardedMark, Handle
<1>3. Recovery(Plan(p)) \in Journals
  BY <1>1, JournalsWith DEF States, Terminal
<1>4. \A at \in Labels : Goto(p, at) => call' \in [Process -> Calls]
  BY GotoDoes
<1>5. CASE ApplyInstalled(p)
  <2> DEFINE j == [Plan(p) EXCEPT !.install = r]
  <2>1. r \in Installs \cup {None}
    BY <1>5 DEF ApplyInstalled, At, Relies, ReliesOn, DataRelies
  <2>2. j \in Journals
    BY <1>1, <2>1, JournalsWith DEF States
  <2>3. /\ Recovery(j) \in Journals
        /\ [j EXCEPT !.state = "FINALIZING"] \in Journals
        /\ [j EXCEPT !.state = "VALIDATING"] \in Journals
    BY <2>2, JournalsWith DEF States, InFlight
  <2> HIDE DEF j
  <2>4. CASE Goto(p, "compensating") /\ Works /\ UNCHANGED journal
    BY <2>4, <1>4, CountDoes DEF TypeOK, Labels
  <2>5. CASE \/ Transition(p, Recovery(j), "finishing", "handling")
             \/ Transition(p, [j EXCEPT !.state = "FINALIZING"], "freeing", "handling")
             \/ Transition(p, [j EXCEPT !.state = "VALIDATING"], "migrating", "handling")
    BY <2>5, <2>3, <1>1, TransitionType, ZenonT(40) DEF Labels
  <2> QED BY <1>5, <2>4, <2>5 DEF ApplyInstalled, j
<1>6. CASE Validate(p)
  <2>1. [Plan(p) EXCEPT !.state = "FINALIZING"] \in Journals
    BY <1>1, JournalsWith DEF States, InFlight
  <2>2. CASE Transition(p, [Plan(p) EXCEPT !.state = "FINALIZING"], "freeing", "handling")
    BY <2>1, <2>2, <1>1, TransitionType DEF Labels
  <2>3. CASE \/ Goto(p, "compensating") /\ Works /\ UNCHANGED journal
             \/ Goto(p, "guarded") /\ Fails /\ UNCHANGED journal
    BY <2>3, <1>4, CountDoes DEF TypeOK, Labels
  <2> QED BY <1>6, <2>2, <2>3 DEF Validate
<1>7. CASE Compensate(p)
  <2>1. r \in Installs
    BY <1>7 DEF Compensate, At, Relies, ReliesOn, DataRelies, Installs
  <2>2. [Plan(p) EXCEPT !.state = "ROLLING_BACK", !.install = r] \in Journals
    BY <1>1, <2>1, JournalsWith DEF States, InFlight
  <2> QED BY <1>7, <2>2, <1>1, TransitionType DEF Compensate, Labels
<1>8. CASE RolledBack(p)
  <2> DEFINE j == [Plan(p) EXCEPT !.rollback = r]
  <2>1. r \in Rollbacks \cup {None}
    BY <1>8 DEF RolledBack, At, Relies, ReliesOn, DataRelies
  <2>2. j \in Journals
    BY <1>1, <2>1, JournalsWith DEF States
  <2>3. /\ Recovery(j) \in Journals
        /\ [j EXCEPT !.state = "RESTORING"] \in Journals
    BY <2>2, JournalsWith DEF States, InFlight
  <2> HIDE DEF j
  <2>4. \/ Transition(p, [j EXCEPT !.state = "RESTORING"], "restoring", "handling")
        \/ Transition(p, Recovery(j), "finishing", "handling")
    BY <1>8 DEF RolledBack, j
  <2> QED BY <2>3, <2>4, <1>1, TransitionType DEF Labels
<1>9. CASE Restored(p)
  <2>1. [Plan(p) EXCEPT !.state = "FINALIZING", !.restored = TRUE] \in Journals
    BY <1>1, JournalsWith DEF States, InFlight
  <2> QED BY <1>9, <2>1, <1>1, TransitionType DEF Restored, Labels
<1>10. CASE Unrestored(p) \/ Stranded(p) \/ GuardedMark(p)
  BY <1>10, <1>3, <1>1, TransitionType, ZenonT(40) DEF Unrestored, Stranded, GuardedMark, Labels
<1>11. CASE Terminate(p)
  <2>1. [Plan(p) EXCEPT !.state = Outcome(Plan(p))] \in Journals
    BY <1>1, JournalsWith DEF States, Terminal, Settled, Outcome
  <2> QED BY <1>11, <2>1, <1>1, TransitionType DEF Terminate, Labels
<1>12. CASE Handle(p)
  <2>1. CASE Transition(p, Recovery(Plan(p)), "finishing", "dropping")
    BY <2>1, <1>3, <1>1, TransitionType DEF Labels
  <2>2. CASE (Goto(p, "finishing") \/ Goto(p, "dropping")) /\ Works /\ UNCHANGED journal
    BY <2>2, <1>4, CountDoes DEF TypeOK, Labels
  <2> QED BY <1>12, <2>1, <2>2 DEF Handle
<1> QED BY <1>5, <1>6, <1>7, <1>8, <1>9, <1>10, <1>11, <1>12

\* Giving the leases back keeps the types.
LEMMA ReleaseType ==
  ASSUME TypeOK, NEW p \in Process,
         Free_profile(p) \/ Free_coordination(p) \/ Guarded(p) \/ Drop(p) \/ Finish(p)
  PROVE  TypeOK'
<1>1. call' \in [Process -> Calls]
  <2>1. \A at \in Labels, lease \in {"profile", "coordination"} :
           Goto(p, at) \/ Leave(p, lease, at) => call' \in [Process -> Calls]
    BY GotoDoes, LeaveDoes
  <2>2. Return(p) => call' \in [Process -> Calls]
    BY ContinueDoes, IdleIsACall DEF Return
  <2> QED BY <2>1, <2>2 DEF Free_profile, Free_coordination, Guarded, Drop, Finish,
                            ReleaseProfile, ReleaseCoordination, Labels
<1>2. ioFailures' \in 0..MaxIOFailures
  BY CountDoes DEF Free_profile, Free_coordination, Guarded, Drop, Finish,
                   ReleaseProfile, ReleaseCoordination
<1>3. profileLease' \in {profileLease, None} /\ coordination' \in {coordination, None}
  BY DEF Free_profile, Free_coordination, Guarded, Drop, Finish,
         ReleaseProfile, ReleaseCoordination, leases
<1>4. UNCHANGED <<session, db, slot, package, files, ghosts, crashes>>
  BY DEF Free_profile, Free_coordination, Guarded, Drop, Finish
<1> QED BY <1>1, <1>2, <1>3, <1>4 DEF TypeOK, session, files, ghosts

\* A crash in the middle of the driver, the migration or the restore leaves a package that
\* is a release or mixed, and a database of the same form.
LEMMA CrashType ==
  ASSUME TypeOK, Relies, AllRecorded, SnapshotIsKept, NEW p \in Process, Crash(p)
  PROVE  TypeOK'
<1>1. call' \in [Process -> Calls]
  BY ContinueDoes, IdleIsACall DEF Crash, Return
<1>2. ASSUME call[p].at \in Applying
      PROVE  /\ call[p].update \in Update /\ Plan(p) \in Journals
             /\ Plan(p).to \in Release /\ Plan(p).from \in Release
             /\ SchemaOf[Plan(p).to] \in Nat /\ Plan(p).snapshot \in Contents
  <2>1. call[p].update \in Update /\ Plan(p) \in Journals
    BY <1>2, PlanIs
  <2> QED BY <2>1, UpdateAssumption DEF Journals
<1>3. db' \in Contents /\ package' \in Release \cup {Mixed}
  <2> USE DEF TypeOK
  <2>0. Torn(p)
    BY DEF Crash
  <2>1. CASE At(p, "installing")
    BY <2>0, <2>1, <1>2 DEF Torn, At, AfterInstall, Applying
  <2>2. CASE At(p, "rollingBack")
    BY <2>0, <2>2, <1>2 DEF Torn, At, AfterRollback, Applying
  <2>3. CASE At(p, "migrating")
    <3>1. [db EXCEPT !.schema = SchemaOf[Plan(p).to]] \in Contents
      BY <2>3, <1>2 DEF At, Applying, Contents
    <3> QED BY <2>0, <2>3, <3>1 DEF Torn, At
  <2>4. CASE At(p, "restoring")
    <3>1. call[p].update \in Update /\ StateOf(call[p].update) = "RESTORING"
      BY <2>4, PlanIs DEF At, Applying, Relies, ReliesOn, StateRelies
    <3>2. slot = journal[call[p].update].snapshot
      BY <3>1 DEF SnapshotIsKept, InFlight
    <3>3. slot \in Contents
      BY <3>2, <2>4, <1>2 DEF At, Applying, Plan
    <3> QED BY <2>0, <2>4, <3>3 DEF Torn, At
  <2>5. CASE call[p].at \notin {"installing", "rollingBack", "migrating", "restoring"}
    BY <2>0, <2>5 DEF Torn, At
  <2> QED BY <2>1, <2>2, <2>3, <2>4, <2>5 DEF At
<1>4. performed' \in [Update -> [{"INSTALL", "ROLLBACK"} -> Nat]]
  <2> USE DEF TypeOK
  <2>1. CASE At(p, "installing")
    <3>1. performed' = [performed EXCEPT ![call[p].update]["INSTALL"] = @ + 1]
      BY <2>1 DEF Crash, At
    <3> QED BY <2>1, <3>1, <1>2, CountedDoes DEF At, Applying
  <2>2. CASE At(p, "rollingBack")
    <3>1. performed' = [performed EXCEPT ![call[p].update]["ROLLBACK"] = @ + 1]
      BY <2>2 DEF Crash, At
    <3> QED BY <2>2, <3>1, <1>2, CountedDoes DEF At, Applying
  <2>3. CASE call[p].at \notin {"installing", "rollingBack"}
    BY <2>3 DEF Crash, At
  <2> QED BY <2>1, <2>2, <2>3 DEF At
<1>5. /\ profileLease' \in Process \cup {None, Dead} /\ coordination' \in Process \cup {None, Dead}
      /\ runtime' \in [Process -> {"STOPPED", "OPENING", "RUNNING", "RECOVERY_REQUIRED"}]
      /\ open' \subseteq Process /\ holdDied' \in BOOLEAN
      /\ crashes' \in 0..MaxCrashes
  BY UpdateAssumption DEF TypeOK, Crash
<1> QED BY <1>1, <1>3, <1>4, <1>5 DEF TypeOK, Crash, files

\* Every step of a process keeps the types.
LEMMA TypeStep ==
  ASSUME TypeOK, Relies, AllRecorded, SnapshotIsKept, NEW p \in Process, Step(p)
  PROVE  TypeOK'
<1>1. CASE LaunchClaims(p) \/ LaunchOpens(p) \/ Quit(p) \/ Edit(p)
  BY <1>1, OutsideType
<1>2. CASE PrepareBegins(p) \/ PrepareStep(p)
  BY <1>2, PrepareType
<1>3. CASE \E u \in Update : ApplyBegins(p, u)
  BY <1>3, ApplyOpeningType
<1>4. CASE ApplyStep(p)
  BY <1>4, ApplyOpeningType, DriverType, DatabaseType, ApplyRecordType, ReleaseType DEF ApplyStep
<1>5. CASE Crash(p)
  BY <1>5, CrashType
<1> QED BY <1>1, <1>2, <1>3, <1>4, <1>5 DEF Step

-----------------------------------------------------------------------------
(* Every step keeps the leases *)

\* A step that goes on with no lease it did not have.
LEMMA GoesOn ==
  ASSUME TypeOK, LeaseInv, NEW p \in Process,
         call'[p].owns \subseteq call[p].owns,
         call'[p].at \in Coordinates => "coordination" \in call'[p].owns,
         call'[p].at \in Holds => "profile" \in call'[p].owns,
         \A q \in Process \ {p} : call'[q] = call[q],
         UNCHANGED <<profileLease, coordination, runtime, open>>
  PROVE  LeaseInv'
<1> SUFFICES ASSUME NEW q \in Process
             PROVE  Leased(q)'
  BY DEF LeaseInv
<1>1. CASE q = p
  BY <1>1 DEF LeaseInv, Leased
<1>2. CASE q # p
  BY <1>2 DEF LeaseInv, Leased
<1> QED BY <1>1, <1>2

\* So does one that only moves to another label.
LEMMA GotoLeases ==
  ASSUME TypeOK, LeaseInv, NEW p \in Process, NEW at \in Labels, Goto(p, at),
         at \in Coordinates => call[p].at \in Coordinates,
         at \in Holds => call[p].at \in Holds,
         UNCHANGED <<profileLease, coordination, runtime, open>>
  PROVE  LeaseInv'
<1>1. /\ at # "idle" => call'[p] = [call[p] EXCEPT !.at = at]
      /\ at = "idle" => call'[p] = Idle
      /\ \A q \in Process \ {p} : call'[q] = call[q]
  BY GotoDoes
<1>2. Leased(p) /\ call[p] \in Calls
  BY DEF LeaseInv, TypeOK
<1>3. /\ call'[p].owns \subseteq call[p].owns
      /\ call'[p].at \in Coordinates => "coordination" \in call'[p].owns
      /\ call'[p].at \in Holds => "profile" \in call'[p].owns
  <2>1. CASE at = "idle"
    BY <1>1, <2>1 DEF Idle, Coordinates, Holds
  <2>2. CASE at # "idle"
    <3>1. call'[p].owns = call[p].owns /\ call'[p].at = at
      BY <1>1, <1>2, <2>2 DEF Calls
    <3> QED BY <3>1, <1>2 DEF Leased
  <2> QED BY <2>1, <2>2
<1> QED BY <1>1, <1>3, GoesOn

\* Returning to idle keeps the leases as they are: one that is still held stays with the
\* process (retain_profile_hold), but no call counts on it.
LEMMA ReturnLeases ==
  ASSUME TypeOK, LeaseInv, NEW p \in Process, Return(p),
         UNCHANGED <<profileLease, coordination, runtime, open>>
  PROVE  LeaseInv'
<1>1. Goto(p, "idle")
  BY DEF Goto
<1> QED BY <1>1, GotoLeases DEF Labels, Coordinates, Holds

\* Giving the coordination back, by a call that has it.
LEMMA CoordinationReleased ==
  ASSUME TypeOK, LeaseInv, NEW p \in Process, NEW to \in Labels, NEW kept \in Labels,
         "coordination" \in call[p].owns, ReleaseCoordination(p, to, kept),
         to \notin Coordinates, to \in Holds => call[p].at \in Holds,
         kept \in Coordinates => call[p].at \in Coordinates,
         kept \in Holds => call[p].at \in Holds,
         UNCHANGED <<runtime, open>>
  PROVE  LeaseInv'
<1>1. CASE Goto(p, kept) /\ UNCHANGED coordination
  BY <1>1, GotoLeases DEF ReleaseCoordination
<1>2. CASE coordination' = None /\ Leave(p, "coordination", to)
  <2>1. /\ to # "idle" => call'[p] = [call[p] EXCEPT !.at = to, !.owns = @ \ {"coordination"}]
        /\ to = "idle" => call'[p] = Idle
        /\ \A q \in Process \ {p} : call'[q] = call[q]
    BY <1>2, LeaveDoes
  <2>2. call[p] \in Calls
    BY DEF TypeOK
  <2>3. Leased(p)'
    <3>1. CASE to = "idle"
      BY <2>1, <3>1 DEF LeaseInv, Leased, Idle, Coordinates, Holds, ReleaseCoordination
    <3>2. CASE to # "idle"
      <4>1. call'[p].at = to /\ call'[p].owns = call[p].owns \ {"coordination"}
        BY <2>1, <2>2, <3>2 DEF Calls
      <4> QED BY <4>1 DEF LeaseInv, Leased, ReleaseCoordination
    <3> QED BY <3>1, <3>2
  <2>4. ASSUME NEW q \in Process \ {p}
        PROVE  Leased(q)'
    <3>1. "coordination" \notin call[q].owns
      BY DEF LeaseInv, Leased
    <3> QED BY <3>1, <2>1 DEF LeaseInv, Leased, ReleaseCoordination
  <2> QED BY <2>3, <2>4 DEF LeaseInv
<1> QED BY <1>1, <1>2 DEF ReleaseCoordination

\* Giving the profile back, by a call that has it.
LEMMA ProfileReleased ==
  ASSUME TypeOK, LeaseInv, NEW p \in Process, NEW to \in Labels, NEW kept \in Labels,
         "profile" \in call[p].owns, ReleaseProfile(p, to, kept),
         to # "idle", to \notin Holds, to \in Coordinates => call[p].at \in Coordinates,
         kept \in Coordinates => call[p].at \in Coordinates,
         kept \in Holds => call[p].at \in Holds,
         UNCHANGED <<runtime, open>>
  PROVE  LeaseInv'
<1>1. CASE Goto(p, kept) /\ UNCHANGED profileLease
  BY <1>1, GotoLeases DEF ReleaseProfile
<1>2. CASE profileLease' = None /\ Leave(p, "profile", to)
  <2>1. /\ call'[p] = [call[p] EXCEPT !.at = to, !.owns = @ \ {"profile"}]
        /\ \A q \in Process \ {p} : call'[q] = call[q]
    BY <1>2, LeaveDoes
  <2>2. call[p] \in Calls
    BY DEF TypeOK
  <2>3. call'[p].at = to /\ call'[p].owns = call[p].owns \ {"profile"}
    BY <2>1, <2>2 DEF Calls
  <2>4. Leased(p)'
    BY <2>3 DEF LeaseInv, Leased, ReleaseProfile
  <2>5. ASSUME NEW q \in Process \ {p}
        PROVE  Leased(q)'
    <3>1. "profile" \notin call[q].owns /\ runtime[q] = "STOPPED"
      BY DEF LeaseInv, Leased
    <3> QED BY <3>1, <2>1 DEF LeaseInv, Leased, ReleaseProfile
  <2> QED BY <2>4, <2>5 DEF LeaseInv
<1> QED BY <1>1, <1>2 DEF ReleaseProfile

\* A transition of the journal moves its call to one of two labels.
LEMMA TransitionLeases ==
  ASSUME TypeOK, LeaseInv, NEW p \in Process, NEW j, NEW written \in Labels, NEW raised \in Labels,
         Transition(p, j, written, raised),
         \A at \in {written, raised} : /\ at \in Coordinates => call[p].at \in Coordinates
                                       /\ at \in Holds => call[p].at \in Holds,
         UNCHANGED <<profileLease, coordination, runtime, open>>
  PROVE  LeaseInv'
<1>1. Goto(p, written) \/ Goto(p, raised)
  BY DEF Transition
<1> QED BY <1>1, GotoLeases

\* launch(), quit() and the artist's work keep the leases.
LEMMA OutsideLeases ==
  ASSUME TypeOK, LeaseInv, NEW p \in Process,
         LaunchClaims(p) \/ LaunchOpens(p) \/ Quit(p) \/ Edit(p)
  PROVE  LeaseInv'
<1> SUFFICES ASSUME NEW q \in Process
             PROVE  Leased(q)'
  BY DEF LeaseInv
<1> USE UpdateAssumption DEF TypeOK
<1>1. CASE LaunchClaims(p)
  BY <1>1 DEF LaunchClaims, Free, LeaseInv, Leased
<1>2. CASE LaunchOpens(p)
  BY <1>2 DEF LaunchOpens, LeaseInv, Leased
<1>3. CASE Quit(p)
  BY <1>3 DEF Quit, QuitSucceeds, QuitFails, LeaseInv, Leased
<1>4. CASE Edit(p)
  BY <1>4 DEF Edit, leases, session, LeaseInv, Leased
<1> QED BY <1>1, <1>2, <1>3, <1>4

\* prepare() keeps the leases; it quits this process's runtime on the way.
LEMMA PrepareLeases ==
  ASSUME TypeOK, LeaseInv, NEW p \in Process, PrepareBegins(p) \/ PrepareStep(p)
  PROVE  LeaseInv'
<1> USE DEF At
<1>0. call[p] \in Calls /\ Leased(p)
  BY DEF TypeOK, LeaseInv
<1>1. CASE PrepareBegins(p)
  <2> DEFINE me == [Idle EXCEPT !.at = "checking", !.owns = {"coordination"}]
  <2>1. me \in Calls /\ me.at = "checking" /\ me.owns = {"coordination"}
    BY DEF Idle, Calls, Labels
  <2>2. Continue(p, me)
    BY <1>1 DEF PrepareBegins
  <2> HIDE DEF me
  <2>3. call'[p] = me /\ \A q \in Process \ {p} : call'[q] = call[q]
    BY <2>1, <2>2, ContinueDoes
  <2>4. Leased(p)'
    BY <1>1, <2>1, <2>3, <1>0 DEF PrepareBegins, session, Leased, Holds
  <2>5. ASSUME NEW q \in Process \ {p}
        PROVE  Leased(q)'
    BY <1>1, <2>3, UpdateAssumption DEF PrepareBegins, session, Free, LeaseInv, Leased
  <2> QED BY <2>4, <2>5 DEF LeaseInv
<1>2. CASE PrepareChecks(p) \/ PrepareCompares(p)
  BY <1>2, GotoLeases DEF PrepareChecks, PrepareCompares, leases, session, Labels, Coordinates,
                          Holds
<1>3. CASE PrepareSnapshots(p)
  <2>1. CASE Goto(p, "releasing")
    BY <1>3, <2>1, GotoLeases DEF PrepareSnapshots, leases, session, Labels, Coordinates, Holds
  <2>2. CASE Continue(p, [call[p] EXCEPT !.at = "quitting", !.snapshot = db])
    <3> DEFINE me == [call[p] EXCEPT !.at = "quitting", !.snapshot = db]
    <3>1. me \in Calls
      BY <1>0, CallsWith DEF Labels, TypeOK
    <3>2. me.at = "quitting" /\ me.owns = call[p].owns
      BY <1>0 DEF Calls
    <3> HIDE DEF me
    <3>3. call'[p] = me /\ \A q \in Process \ {p} : call'[q] = call[q]
      BY <2>2, <3>1, ContinueDoes DEF me
    <3>4. "coordination" \in call[p].owns
      BY <1>0, <1>3 DEF PrepareSnapshots, Leased, Coordinates
    <3> QED BY <1>3, <3>2, <3>3, <3>4, GoesOn DEF PrepareSnapshots, leases, session, Holds
  <2> QED BY <1>3, <2>1, <2>2 DEF PrepareSnapshots
<1>4. CASE PrepareQuits(p)
  <2>1. CASE UNCHANGED <<session, profileLease>> /\ Goto(p, "releasing")
    BY <1>4, <2>1, GotoLeases DEF PrepareQuits, session, Labels, Coordinates, Holds
  <2>2. CASE /\ QuitSucceeds(p) \/ QuitFails(p)
             /\ Goto(p, "comparing") \/ Goto(p, "releasing")
    <3>1. /\ call'[p].at \in {"comparing", "releasing"} /\ call'[p].owns = call[p].owns
          /\ \A q \in Process \ {p} : call'[q] = call[q]
      <4>1. {"comparing", "releasing"} \subseteq Labels \ {"idle"}
        BY DEF Labels
      <4> QED BY <2>2, <4>1, GotoFields
    <3>2. "coordination" \in call[p].owns /\ UNCHANGED coordination
      BY <1>0, <1>4 DEF PrepareQuits, Leased, Coordinates
    <3>3. Leased(p)'
      BY <2>2, <3>1, <3>2, <1>0 DEF QuitSucceeds, QuitFails, Leased, Coordinates, Holds, TypeOK
    <3>4. ASSUME NEW q \in Process \ {p}
          PROVE  Leased(q)'
      BY <2>2, <3>1, <3>2, <1>0 DEF QuitSucceeds, QuitFails, LeaseInv, Leased, TypeOK
    <3> QED BY <3>3, <3>4 DEF LeaseInv
  <2> QED BY <1>4, <2>1, <2>2 DEF PrepareQuits
<1>5. CASE \E u \in Update, from, to \in Release : PrepareRecords(p, u, from, to)
  <2> PICK u \in Update, from \in Release, to \in Release : PrepareRecords(p, u, from, to)
    BY <1>5
  <2>1. CASE Goto(p, "releasing")
    BY <2>1, GotoLeases DEF PrepareRecords, leases, session, Labels, Coordinates, Holds
  <2>2. CASE Continue(p, [call[p] EXCEPT !.at = "releasing", !.update = u, !.snapshot = None])
    <3> DEFINE me == [call[p] EXCEPT !.at = "releasing", !.update = u, !.snapshot = None]
    <3>1. me \in Calls
      BY <1>0, CallsWith DEF Labels
    <3>2. me.at = "releasing" /\ me.owns = call[p].owns
      BY <1>0 DEF Calls
    <3> HIDE DEF me
    <3>3. call'[p] = me /\ \A q \in Process \ {p} : call'[q] = call[q]
      BY <2>2, <3>1, ContinueDoes DEF me
    <3>4. "coordination" \in call[p].owns
      BY <1>0 DEF PrepareRecords, Leased, Coordinates
    <3> QED BY <3>2, <3>3, <3>4, GoesOn DEF PrepareRecords, leases, session, Holds
  <2> QED BY <2>1, <2>2 DEF PrepareRecords
<1>6. CASE PrepareReleases(p)
  <2>1. "coordination" \in call[p].owns
    BY <1>0, <1>6 DEF PrepareReleases, Leased, Coordinates
  <2>2. /\ {"idle", "binding", "withdrawing"} \subseteq Labels
        /\ \A at \in {"idle", "binding", "withdrawing"} : at \notin Coordinates \cup Holds
    BY DEF Labels, Coordinates, Holds
  <2> QED BY <1>6, <2>1, <2>2, CoordinationReleased DEF PrepareReleases, session
<1>7. CASE PrepareBinds(p)
  <2>1. Goto(p, "withdrawing") \/ Goto(p, "idle")
    BY <1>7 DEF PrepareBinds, Goto
  <2> QED BY <1>7, <2>1, GotoLeases DEF PrepareBinds, leases, session, Labels, Coordinates, Holds
<1>8. CASE PrepareWithdraws(p)
  <2>1. "idle" \in Labels /\ "idle" \notin Coordinates \cup Holds
    BY DEF Labels, Coordinates, Holds
  <2> QED BY <1>8, <2>1, TransitionLeases DEF PrepareWithdraws, leases, session
<1> QED BY <1>1, <1>2, <1>3, <1>4, <1>5, <1>6, <1>7, <1>8 DEF PrepareStep

\* apply() up to the installation keeps the leases: it takes the coordination and then the
\* profile's lease, each only when nobody holds it.
LEMMA ApplyOpeningLeases ==
  ASSUME TypeOK, LeaseInv, NEW p \in Process,
         \/ \E u \in Update : ApplyBegins(p, u)
         \/ ApplyClaims(p) \/ ApplyRereads(p) \/ ApplyHolds(p) \/ ApplyVerifies(p)
         \/ ApplyStarts(p)
  PROVE  LeaseInv'
<1> USE DEF At
<1>0. call[p] \in Calls /\ Leased(p)
  BY DEF TypeOK, LeaseInv
<1>1. CASE \E u \in Update : ApplyBegins(p, u)
  <2> PICK u \in Update : ApplyBegins(p, u)
    BY <1>1
  <2> DEFINE me == [Idle EXCEPT !.at = "claiming", !.update = u]
  <2>1. me \in Calls /\ me.at = "claiming" /\ me.owns = {}
    BY DEF Idle, Calls, Labels
  <2>2. Continue(p, me)
    BY DEF ApplyBegins
  <2> HIDE DEF me
  <2>3. call'[p] = me /\ \A q \in Process \ {p} : call'[q] = call[q]
    BY <2>1, <2>2, ContinueDoes
  <2> QED BY <2>1, <2>3, GoesOn DEF ApplyBegins, leases, session, Coordinates, Holds
<1>2. CASE ApplyClaims(p)
  <2>1. CASE Return(p) /\ UNCHANGED coordination
    BY <1>2, <2>1, ReturnLeases DEF ApplyClaims, session
  <2>2. CASE /\ Free(coordination) /\ coordination' = p
             /\ Continue(p, [call[p] EXCEPT !.at = "rereading", !.owns = {"coordination"}])
    <3> DEFINE me == [call[p] EXCEPT !.at = "rereading", !.owns = {"coordination"}]
    <3>1. me \in Calls
      BY <1>0, CallsOwning DEF Labels
    <3>2. me.at = "rereading" /\ me.owns = {"coordination"}
      BY <1>0 DEF Calls
    <3> HIDE DEF me
    <3>3. call'[p] = me /\ \A q \in Process \ {p} : call'[q] = call[q]
      BY <2>2, <3>1, ContinueDoes DEF me
    <3>4. Leased(p)'
      BY <1>2, <2>2, <3>2, <3>3, <1>0 DEF ApplyClaims, session, Leased, Holds
    <3>5. ASSUME NEW q \in Process \ {p}
          PROVE  Leased(q)'
      BY <1>2, <2>2, <3>3, UpdateAssumption DEF ApplyClaims, session, Free, LeaseInv, Leased
    <3> QED BY <3>4, <3>5 DEF LeaseInv
  <2> QED BY <1>2, <2>1, <2>2 DEF ApplyClaims
<1>3. CASE ApplyRereads(p) \/ ApplyVerifies(p)
  <2>1. \/ call[p].at = "rereading" /\ (Goto(p, "holding") \/ Goto(p, "dropping"))
        \/ call[p].at = "verifying" /\ (Goto(p, "starting") \/ Goto(p, "dropping"))
    BY <1>3 DEF ApplyRereads, ApplyVerifies
  <2>2. {"holding", "dropping", "starting"} \subseteq Labels
    BY DEF Labels
  <2>3. /\ "rereading" \in Coordinates /\ "holding" \notin Holds
        /\ "verifying" \in Coordinates \cap Holds
        /\ "dropping" \notin Coordinates \cup Holds
    BY DEF Coordinates, Holds
  <2>4. UNCHANGED <<profileLease, coordination, runtime, open>>
    BY <1>3 DEF ApplyRereads, ApplyVerifies, leases, session
  <2> QED BY <2>1, <2>2, <2>3, <2>4, GotoLeases
<1>4. CASE ApplyHolds(p)
  <2>1. CASE Goto(p, "dropping") /\ UNCHANGED profileLease
    BY <1>4, <2>1, GotoLeases DEF ApplyHolds, session, Labels, Coordinates, Holds
  <2>2. CASE /\ Free(profileLease) /\ profileLease' = p
             /\ Continue(p, [call[p] EXCEPT !.at = "verifying", !.owns = @ \cup {"profile"}])
    <3> DEFINE o == call[p].owns \cup {"profile"}
               me == [call[p] EXCEPT !.at = "verifying", !.owns = o]
    <3>1. o \in SUBSET {"profile", "coordination"}
      BY <1>0 DEF Calls
    <3>2. me \in Calls
      BY <1>0, <3>1, CallsOwning DEF Labels
    <3>3. me.at = "verifying" /\ me.owns = o
      BY <1>0 DEF Calls
    <3>4. Continue(p, me)
      BY <2>2
    <3> HIDE DEF me
    <3>5. call'[p] = me /\ \A q \in Process \ {p} : call'[q] = call[q]
      BY <3>4, <3>2, ContinueDoes
    <3>6. runtime[p] = "STOPPED" /\ "coordination" \in call[p].owns
      BY <1>4, <2>2, <1>0, UpdateAssumption DEF ApplyHolds, Free, Leased, Coordinates
    <3>7. Leased(p)'
      BY <1>4, <2>2, <3>3, <3>5, <3>6, <1>0 DEF ApplyHolds, session, Leased
    <3>8. ASSUME NEW q \in Process \ {p}
          PROVE  Leased(q)'
      BY <1>4, <2>2, <3>5, UpdateAssumption DEF ApplyHolds, session, Free, LeaseInv, Leased
    <3> QED BY <3>7, <3>8 DEF LeaseInv
  <2> QED BY <1>4, <2>1, <2>2 DEF ApplyHolds
<1>5. CASE ApplyStarts(p)
  <2>1. {"installing", "handling"} \subseteq Labels
    BY DEF Labels
  <2>2. "handling" \notin Coordinates \cup Holds /\ "starting" \in Coordinates \cap Holds
    BY DEF Coordinates, Holds
  <2> QED BY <1>5, <2>1, <2>2, TransitionLeases DEF ApplyStarts, leases, session
<1> QED BY <1>1, <1>2, <1>3, <1>4, <1>5

\* The steps of apply() between the hold and its end keep both leases.
LEMMA ApplyMiddleLeases ==
  ASSUME TypeOK, LeaseInv, NEW p \in Process,
         \/ \E r \in Installs \cup {None} : Install(p, r)
         \/ \E r \in Rollbacks \cup {None} : Rollback(p, r)
         \/ Migrate(p) \/ Restore(p)
         \/ ApplyInstalled(p) \/ Validate(p) \/ Compensate(p) \/ RolledBack(p)
         \/ Restored(p) \/ Unrestored(p) \/ Stranded(p) \/ Terminate(p)
         \/ GuardedMark(p) \/ Handle(p)
  PROVE  LeaseInv'
<1> USE DEF At
<1>0. call[p] \in Calls /\ Leased(p)
  BY DEF TypeOK, LeaseInv
<1> DEFINE Both == {"installing", "installed", "migrating", "validating", "compensating",
                    "rollingBack", "rolledBack", "restoring", "restored", "unrestored",
                    "freeing", "guarded"}
           Neither == {"handling", "finishing", "dropping", "idle"}
<1>1. /\ Both \subseteq Labels /\ Neither \subseteq Labels
      /\ Both \subseteq Coordinates \cap Holds
      /\ \A at \in Neither : at \notin Coordinates \cup Holds
  BY DEF Labels, Coordinates, Holds
<1>2. CASE \/ \E r \in Installs \cup {None} : Install(p, r)
           \/ \E r \in Rollbacks \cup {None} : Rollback(p, r)
  <2>1. PICK at \in {"installed", "rolledBack"}, r \in Installs \cup Rollbacks \cup {None} :
           Continue(p, [call[p] EXCEPT !.at = at, !.receipt = r])
    BY <1>2 DEF Install, Rollback
  <2> DEFINE me == [call[p] EXCEPT !.at = at, !.receipt = r]
  <2>2. me \in Calls
    BY <1>0, CallsOwning DEF Labels
  <2>3. me.at = at /\ me.owns = call[p].owns
    BY <1>0 DEF Calls
  <2> HIDE DEF me
  <2>4. call'[p] = me /\ \A q \in Process \ {p} : call'[q] = call[q]
    BY <2>1, <2>2, ContinueDoes DEF me
  <2>5. {"profile", "coordination"} \subseteq call[p].owns
    BY <1>0, <1>2 DEF Install, Rollback, Leased, Coordinates, Holds
  <2>6. UNCHANGED <<profileLease, coordination, runtime, open>>
    BY <1>2 DEF Install, Rollback, leases, session
  <2> QED BY <2>3, <2>4, <2>5, <2>6, GoesOn
<1>3. CASE \/ Migrate(p) \/ Restore(p)
           \/ ApplyInstalled(p) \/ Validate(p) \/ Compensate(p) \/ RolledBack(p)
           \/ Restored(p) \/ Unrestored(p) \/ Stranded(p) \/ Terminate(p)
           \/ GuardedMark(p) \/ Handle(p)
  <2>1. UNCHANGED <<profileLease, coordination, runtime, open>>
    BY <1>3 DEF leases, session, Migrate, Restore, ApplyInstalled, Validate, Compensate,
                RolledBack, Restored, Unrestored, Stranded, Terminate, GuardedMark, Handle
  <2>2. \/ call[p].at \in Both /\ \E at \in Both \cup Neither : Goto(p, at)
        \/ \E at \in Neither : Goto(p, at)
    <3>1. CASE Migrate(p) \/ Restore(p)
      BY <3>1 DEF Migrate, Restore
    <3>2. CASE \/ ApplyInstalled(p) \/ Validate(p) \/ Compensate(p) \/ RolledBack(p)
      BY <3>2 DEF Transition, ApplyInstalled, Validate, Compensate, RolledBack
    <3>3. CASE \/ Restored(p) \/ Unrestored(p) \/ Stranded(p) \/ Terminate(p)
               \/ GuardedMark(p) \/ Handle(p)
      BY <3>3 DEF Transition, Restored, Unrestored, Stranded, Terminate, GuardedMark, Handle
    <3> QED BY <1>3, <3>1, <3>2, <3>3
  <2> HIDE DEF Both, Neither
  <2> QED BY <2>1, <2>2, <1>1, GotoLeases
<1> QED BY <1>2, <1>3

\* The end of apply() gives back only what it holds.
LEMMA ReleaseLeases ==
  ASSUME TypeOK, LeaseInv, NEW p \in Process,
         Free_profile(p) \/ Free_coordination(p) \/ Guarded(p) \/ Drop(p) \/ Finish(p)
  PROVE  LeaseInv'
<1> USE DEF At
<1>0. Leased(p)
  BY DEF LeaseInv
<1>1. CASE Free_profile(p)
  <2>1. "profile" \in call[p].owns
    BY <1>0, <1>1 DEF Free_profile, Leased, Holds
  <2>2. /\ {"freeingCoordination", "stranded"} \subseteq Labels \ {"idle"}
        /\ "freeing" \in Coordinates \cap Holds /\ "freeingCoordination" \notin Holds
    BY DEF Labels, Coordinates, Holds
  <2> QED BY <1>1, <2>1, <2>2, ProfileReleased DEF Free_profile, session
<1>2. CASE Free_coordination(p)
  <2>1. "coordination" \in call[p].owns
    BY <1>0, <1>2 DEF Free_coordination, Leased, Coordinates
  <2>2. /\ {"terminating", "strandedCoordination"} \subseteq Labels
        /\ "freeingCoordination" \in Coordinates /\ "strandedCoordination" \notin Holds
        /\ "terminating" \notin Coordinates \cup Holds
    BY DEF Labels, Coordinates, Holds
  <2> QED BY <1>2, <2>1, <2>2, CoordinationReleased DEF Free_coordination, session
<1>3. CASE Guarded(p)
  <2>1. "coordination" \in call[p].owns
    BY <1>0, <1>3 DEF Guarded, Leased, Coordinates
  <2>2. /\ "guardedMark" \in Labels /\ "guardedMark" \notin Coordinates
        /\ "guarded" \in Coordinates \cap Holds
    BY DEF Labels, Coordinates, Holds
  <2> QED BY <1>3, <2>1, <2>2, CoordinationReleased DEF Guarded, session
<1>4. CASE Drop(p)
  <2>1. "finishing" \in Labels \ {"idle"} /\ "finishing" \notin Coordinates \cup Holds
    BY DEF Labels, Coordinates, Holds
  <2>2. CASE "profile" \in call[p].owns
    BY <1>4, <2>1, <2>2, ProfileReleased DEF Drop, session
  <2>3. CASE "profile" \notin call[p].owns
    BY <1>4, <2>1, <2>3, GotoLeases DEF Drop, leases, session
  <2> QED BY <2>2, <2>3
<1>5. CASE Finish(p)
  <2>1. "idle" \in Labels /\ "idle" \notin Coordinates \cup Holds
    BY DEF Labels, Coordinates, Holds
  <2>2. CASE "coordination" \in call[p].owns
    BY <1>5, <2>1, <2>2, CoordinationReleased DEF Finish, session
  <2>3. CASE "coordination" \notin call[p].owns
    BY <1>5, <2>3, ReturnLeases DEF Finish, leases, session
  <2> QED BY <2>2, <2>3
<1> QED BY <1>1, <1>2, <1>3, <1>4, <1>5

\* A crash takes the leases of its process, and no others.
LEMMA CrashLeases ==
  ASSUME TypeOK, LeaseInv, NEW p \in Process, Crash(p)
  PROVE  LeaseInv'
<1>1. call'[p] = Idle /\ \A q \in Process \ {p} : call'[q] = call[q]
  BY ContinueDoes, IdleIsACall DEF Crash, Return
<1>2. Leased(p)'
  BY <1>1 DEF Crash, Leased, Idle, Coordinates, Holds, TypeOK
<1>3. ASSUME NEW q \in Process \ {p}
      PROVE  Leased(q)'
  BY <1>1 DEF Crash, LeaseInv, Leased, TypeOK
<1> QED BY <1>2, <1>3 DEF LeaseInv

\* Every step of a process keeps the leases.
LEMMA LeaseStep ==
  ASSUME TypeOK, LeaseInv, NEW p \in Process, Step(p)
  PROVE  LeaseInv'
<1>1. CASE LaunchClaims(p) \/ LaunchOpens(p) \/ Quit(p) \/ Edit(p)
  BY <1>1, OutsideLeases
<1>2. CASE PrepareBegins(p) \/ PrepareStep(p)
  BY <1>2, PrepareLeases
<1>3. CASE \E u \in Update : ApplyBegins(p, u)
  BY <1>3, ApplyOpeningLeases
<1>4. CASE ApplyStep(p)
  BY <1>4, ApplyOpeningLeases, ApplyMiddleLeases, ReleaseLeases DEF ApplyStep
<1>5. CASE Crash(p)
  BY <1>5, CrashLeases
<1> QED BY <1>1, <1>2, <1>3, <1>4, <1>5 DEF Step

-----------------------------------------------------------------------------
(* What a step of one process leaves to the others *)

shared == <<journal, bound, slot, package, performed, db>>

\* Who makes no step relies on what it did, if journals, package and database are left alone.
LEMMA StillRelies ==
  ASSUME UInv, NEW q \in Process, call'[q] = call[q],
         ioFailures' \in Nat, ioFailures' >= ioFailures, UNCHANGED shared
  PROVE  ReliesOn(q)'
<1> USE DEF UInv, ProfileInv, Relies, ReliesOn
<1>1. PrepareRelies(q)'
  BY DEF shared, PrepareRelies, Recording, Blocking, StateOf
<1>2. StateRelies(q)'
  <2>1. ioFailures \in Nat
    BY DEF TypeOK
  <2> QED BY <2>1 DEF shared, StateRelies, Plan
<1>3. DataRelies(q)'
  BY DEF shared, DataRelies, Plan
<1> QED BY <1>1, <1>2, <1>3

\* A step of a call that is engaged, or one that leaves journals, package and database
\* alone, takes nothing from the others that they rely on.
LEMMA OthersRely ==
  ASSUME UInv, NEW p \in Process, NEW q \in Process \ {p}, call'[q] = call[q],
         ioFailures' \in Nat, ioFailures' >= ioFailures, bound \subseteq bound',
         Engaged(p) \/ UNCHANGED shared
  PROVE  ReliesOn(q)'
<1> USE DEF UInv, ProfileInv, Relies, ReliesOn
<1>1. CASE UNCHANGED shared
  BY <1>1, StillRelies
<1>2. CASE Engaged(p)
  <2>1. ~Engaged(q)
    BY <1>2 DEF OneEngaged
  <2>2. /\ call[q].at \notin Preparing /\ ~Recording(q) /\ call[q].at \notin Applying
    BY <2>1 DEF Engaged
  <2>3. PrepareRelies(q)'
    BY <2>2 DEF PrepareRelies, Recording, Preparing
  <2>4. StateRelies(q)'
    BY <2>2 DEF StateRelies, Applying
  <2>5. DataRelies(q)'
    BY <2>2 DEF DataRelies, Applying
  <2> QED BY <2>3, <2>4, <2>5
<1> QED BY <1>1, <1>2

\* A call that has ended, or that has nothing on record yet, relies on nothing.
LEMMA AtRest ==
  ASSUME NEW p \in Process,
         \/ call'[p].at \in {"idle", "dropping", "finishing"}
         \/ call'[p].at \in {"checking", "releasing"} /\ call'[p].update = None
  PROVE  ReliesOn(p)' /\ ~Engaged(p)'
<1>1. ~Engaged(p)'
  BY DEF Engaged, Recording, Preparing, Applying
<1>2. PrepareRelies(p)'
  BY DEF PrepareRelies, Recording, Preparing
<1>3. StateRelies(p)'
  BY DEF StateRelies, Applying
<1>4. DataRelies(p)'
  BY DEF DataRelies
<1> QED BY <1>1, <1>2, <1>3, <1>4 DEF ReliesOn

\* No other call becomes engaged.
LEMMA StillOneEngaged ==
  ASSUME UInv, NEW p \in Process, \A q \in Process \ {p} : call'[q] = call[q],
         Engaged(p)' => \A q \in Process \ {p} : ~Engaged(q)
  PROVE  OneEngaged'
<1>1. ASSUME NEW q \in Process \ {p}
      PROVE  Engaged(q)' = Engaged(q)
  BY DEF Engaged, Recording
<1>2. OneEngaged
  BY DEF UInv, ProfileInv
<1> QED BY <1>1, <1>2 DEF OneEngaged

\* While the profile is changed, and nobody who held it died or failed twice, it is held by
\* a process and no runtime is open or opening.
LEMMA TornIsClosed ==
  ASSUME UInv, ~Whole, ~holdDied, ~(ioFailures > 1)
  PROVE  /\ \E p \in Process : profileLease = p
         /\ ~Free(profileLease)
         /\ \A q \in Process : runtime[q] = "STOPPED" /\ q \notin open
<1>1. PICK p \in Process : profileLease = p /\ runtime[p] = "STOPPED"
  BY DEF UInv, ProfileInv, TornHeld
<1>2. ~Free(profileLease)
  BY <1>1, UpdateAssumption DEF Free
<1>3. ASSUME NEW q \in Process
      PROVE  runtime[q] = "STOPPED" /\ q \notin open
  BY <1>1 DEF UInv, LeaseInv, Leased
<1> QED BY <1>1, <1>2, <1>3

\* The others' calls that are about to give the profile back still find it whole: nobody
\* changes it without the hold.
LEMMA OthersDrop ==
  ASSUME UInv, NEW p \in Process, NEW q \in Process \ {p},
         call'[q] = call[q], ioFailures' \in Nat, ioFailures' >= ioFailures,
         (Whole => Whole') \/ call[p].at \in Holds
  PROVE  Drops(q)'
<1>1. Drops(q) /\ Leased(p) /\ Leased(q) /\ ioFailures \in Nat
  BY DEF UInv, ProfileInv, DropsWhole, LeaseInv, TypeOK
<1> QED BY <1>1 DEF Drops, Leased

\* A step that leaves journals, package and database alone keeps what is on record.
LEMMA Aside ==
  ASSUME UInv, NEW p \in Process, \A q \in Process \ {p} : call'[q] = call[q],
         UNCHANGED shared, ioFailures' \in Nat, ioFailures' >= ioFailures,
         Engaged(p)' => \A q \in Process \ {p} : ~Engaged(q),
         ReliesOn(p)', Drops(p)', TornHeld'
  PROVE  ProfileInv'
<1>1. OneEngaged'
  BY StillOneEngaged
<1>2. Relies'
  BY OthersRely DEF Relies, shared
<1>3. Whole' = Whole /\ \A u \in Update : StateOf(u)' = StateOf(u)
  BY DEF shared, Whole, StateOf
<1>4. OneUnsettled' /\ TornRecorded'
  BY <1>3 DEF UInv, ProfileInv, OneUnsettled, TornRecorded, Done
<1>5. AllRecorded'
  BY DEF UInv, ProfileInv, AllRecorded, Recorded, Concluded, shared
<1>6. SnapshotIsKept'
  BY <1>3 DEF UInv, ProfileInv, SnapshotIsKept, shared
<1>7. DropsWhole'
  BY <1>3, OthersDrop DEF DropsWhole
<1> QED BY <1>1, <1>2, <1>4, <1>5, <1>6, <1>7 DEF ProfileInv

\* One that leaves the leases and the runtimes alone too keeps the hold.
LEMMA HoldStays ==
  ASSUME UInv, Whole' \/ ~Whole, UNCHANGED <<profileLease, runtime, holdDied>>,
         ioFailures' \in Nat, ioFailures' >= ioFailures
  PROVE  TornHeld'
<1>1. TornHeld /\ ioFailures \in Nat
  BY DEF UInv, ProfileInv, TypeOK
<1> QED BY <1>1 DEF TornHeld

-----------------------------------------------------------------------------
(* launch(), quit() and the artist's work *)

\* Who is engaged is alone.
LEMMA EngagedAlone ==
  ASSUME UInv, NEW p \in Process, Engaged(p)
  PROVE  \A q \in Process \ {p} : ~Engaged(q)
  BY DEF UInv, ProfileInv, OneEngaged

\* Launching and quitting change nothing that an update relies on, and while the profile is
\* changed and held there is nothing to launch or quit.
LEMMA LaunchStep ==
  ASSUME UInv, NEW p \in Process, LaunchClaims(p) \/ LaunchOpens(p) \/ Quit(p)
  PROVE  ProfileInv'
<1> USE DEF files, ghosts
<1>1. UNCHANGED call /\ UNCHANGED shared /\ UNCHANGED holdDied
  BY DEF LaunchClaims, LaunchOpens, Quit, shared
<1>2. ioFailures' \in Nat /\ ioFailures' >= ioFailures
  <2>1. TypeOK
    BY DEF UInv
  <2>2. Works \/ Fails
    BY DEF LaunchClaims, LaunchOpens, Quit, QuitSucceeds, QuitFails, Works
  <2> QED BY <2>1, <2>2, CountDoes
<1>3. Whole' = Whole
  BY <1>1 DEF shared, Whole
<1>4. TornHeld'
  <2> SUFFICES ASSUME ~Whole, ~holdDied, ~(ioFailures > 1)
               PROVE  FALSE
    BY <1>1, <1>2, <1>3 DEF TornHeld, UInv, TypeOK
  <2>1. ~Free(profileLease) /\ runtime[p] = "STOPPED"
    BY TornIsClosed
  <2> QED BY <2>1 DEF LaunchClaims, LaunchOpens, Quit, QuitSucceeds, QuitFails
<1>5. Drops(p)'
  BY <1>1, <1>2, <1>3 DEF UInv, TypeOK, ProfileInv, DropsWhole, Drops
<1>6. ReliesOn(p)'
  BY <1>1, <1>2, StillRelies
<1>7. Engaged(p)' => \A q \in Process \ {p} : ~Engaged(q)
  BY <1>1, EngagedAlone DEF Engaged, Recording
<1> QED BY <1>1, <1>2, <1>4, <1>5, <1>6, <1>7, Aside

\* An edit is made in an open Headquarters, so nobody holds the profile, and it changes
\* nothing of the schema.
LEMMA EditStep ==
  ASSUME UInv, NEW p \in Process, Edit(p)
  PROVE  ProfileInv'
<1> USE DEF files, ghosts
<1>1. /\ UNCHANGED <<profileLease, runtime, open, journal, bound, slot, package, performed>>
      /\ UNCHANGED <<call, holdDied, ioFailures>>
  BY DEF Edit, leases, session
<1>2. db'.schema = db.schema
  BY DEF Edit, UInv, TypeOK, Contents
<1>3. Whole' = Whole /\ \A u \in Update : StateOf(u)' = StateOf(u)
  BY <1>1, <1>2 DEF Whole, StateOf
<1>4. \A q \in Process : call[q].at \notin Holds
  BY DEF Edit, UInv, LeaseInv, Leased
<1>5. OneEngaged'
  BY <1>1 DEF UInv, ProfileInv, OneEngaged, Engaged, Recording
<1>6. ASSUME NEW q \in Process
      PROVE  ReliesOn(q)'
  <2> USE DEF UInv, ProfileInv, Relies, ReliesOn
  <2>1. PrepareRelies(q)'
    BY <1>1, <1>2, <1>3 DEF PrepareRelies, Recording, Blocking
  <2>2. StateRelies(q)'
    BY <1>1 DEF StateRelies, Plan
  <2>3. DataRelies(q)'
    BY <1>1, <1>4 DEF DataRelies, Holds
  <2> QED BY <2>1, <2>2, <2>3
<1>7. OneUnsettled' /\ TornRecorded' /\ SnapshotIsKept'
  BY <1>1, <1>3 DEF UInv, ProfileInv, OneUnsettled, TornRecorded, SnapshotIsKept, Done
<1>8. AllRecorded'
  BY <1>1, <1>2 DEF UInv, ProfileInv, AllRecorded, Recorded, Concluded
<1>9. TornHeld' /\ DropsWhole'
  BY <1>1, <1>3 DEF UInv, ProfileInv, TornHeld, DropsWhole, Drops
<1> QED BY <1>5, <1>6, <1>7, <1>8, <1>9 DEF ProfileInv, Relies

-----------------------------------------------------------------------------
(* The steps that only move a call on, or take and give leases *)

\* A call that comes to rest, with the leases as they were or given back whole.
LEMMA Rests ==
  ASSUME UInv, NEW p \in Process, \A q \in Process \ {p} : call'[q] = call[q],
         \/ call'[p].at \in {"idle", "dropping", "finishing"}
         \/ call'[p].at \in {"checking", "releasing"} /\ call'[p].update = None,
         UNCHANGED shared, ioFailures' \in Nat, ioFailures' >= ioFailures,
         Drops(p)', TornHeld'
  PROVE  ProfileInv'
  BY AtRest, Aside

\* The update a call has recorded or applies is neither settled nor yet recovery work.
LEMMA UnderWay ==
  ASSUME UInv, NEW q \in Process, Recording(q) \/ call[q].at \in Applying
  PROVE  /\ call[q].update \in Update
         /\ Plan(q) = journal[call[q].update] /\ Plan(q) # None /\ Plan(q) \in Journals
         /\ StateOf(call[q].update) = Plan(q).state
         /\ Plan(q).state \in {"PREPARED"} \cup InFlight
         /\ ~Done(call[q].update)
         /\ call[q].update \in Blocking
<1>1. /\ call[q].update \in Update
      /\ Plan(q) = journal[call[q].update] /\ Plan(q) # None /\ Plan(q) \in Journals
      /\ StateOf(call[q].update) = Plan(q).state
  BY PlanIs DEF UInv, ProfileInv
<1>2. Plan(q).state \in {"PREPARED"} \cup InFlight
  <2>1. ReliesOn(q)
    BY DEF UInv, ProfileInv, Relies
  <2>2. CASE Recording(q)
    BY <1>1, <2>1, <2>2 DEF ReliesOn, PrepareRelies
  <2>3. CASE call[q].at \in Applying
    BY <2>1, <2>3 DEF ReliesOn, StateRelies, Applying, InFlight
  <2> QED BY <2>2, <2>3
<1>3. \A s \in {"PREPARED"} \cup InFlight : s \notin Settled \cup {None}
  BY NoneAssumption DEF InFlight, Settled, States
<1> QED BY <1>1, <1>2, <1>3 DEF Done, Blocking

\* While an update is prepared the profile is whole.
LEMMA PreparingWhole ==
  ASSUME UInv, NEW p \in Process, call[p].at \in Preparing
  PROVE  Whole /\ Blocking = {} /\ \A u \in Update : Done(u)
<1>1. Blocking = {}
  BY DEF UInv, ProfileInv, Relies, ReliesOn, PrepareRelies
<1>2. \A u \in Update : Done(u)
  BY <1>1 DEF Blocking, Done, StateOf
<1>3. \A s \in Unfinished : s \notin Settled \cup {None}
  BY NoneAssumption DEF Unfinished, InFlight, Settled, States, Terminal
<1> QED BY <1>1, <1>2, <1>3 DEF UInv, ProfileInv, TornRecorded, Done

\* prepare() passes its check only when no call is engaged: a call that has the leases
\* excludes it, one that has not any more has its update on record.
LEMMA CheckStep ==
  ASSUME UInv, NEW p \in Process, PrepareChecks(p)
  PROVE  ProfileInv'
<1> USE DEF At
<1>1. TypeOK /\ ReliesOn(p) /\ call[p].at = "checking" /\ call[p].update = None
  BY DEF PrepareChecks, UInv, ProfileInv, Relies, ReliesOn, PrepareRelies
<1>2. /\ UNCHANGED shared /\ UNCHANGED <<profileLease, runtime, holdDied>>
      /\ ioFailures' = ioFailures /\ ioFailures' \in Nat /\ ioFailures' >= ioFailures
  BY <1>1 DEF PrepareChecks, shared, leases, session, files, ghosts, TypeOK
<1>3. TornHeld'
  <2>1. Whole' = Whole
    BY <1>2 DEF shared, Whole
  <2> QED BY <1>2, <2>1, HoldStays
<1>4. {"snapshotting", "releasing"} \subseteq Labels \ {"idle"}
  BY DEF Labels
<1>5. CASE Blocking # {}
  <2>1. Goto(p, "releasing")
    BY <1>5 DEF PrepareChecks
  <2>2. /\ call'[p].at = "releasing" /\ call'[p].update = None
        /\ \A q \in Process \ {p} : call'[q] = call[q]
    BY <1>1, <1>4, <2>1, GotoFields
  <2>3. Drops(p)'
    BY <2>2 DEF Drops
  <2> QED BY <1>2, <1>3, <2>2, <2>3, Rests
<1>6. CASE Blocking = {}
  <2>1. Goto(p, "snapshotting")
    BY <1>6 DEF PrepareChecks
  <2>2. /\ call'[p].at = "snapshotting" /\ call'[p].update = None
        /\ \A q \in Process \ {p} : call'[q] = call[q]
    BY <1>1, <1>4, <2>1, GotoFields
  <2>3. Drops(p)'
    BY <2>2 DEF Drops
  <2>4. ReliesOn(p)'
    <3>1. Blocking' = {}
      BY <1>2, <1>6 DEF shared, Blocking
    <3>2. PrepareRelies(p)'
      BY <2>2, <3>1 DEF PrepareRelies, Recording
    <3>3. StateRelies(p)' /\ DataRelies(p)'
      BY <2>2 DEF StateRelies, DataRelies, Applying
    <3> QED BY <3>2, <3>3 DEF ReliesOn
  <2>5. ASSUME NEW q \in Process \ {p}
        PROVE  ~Engaged(q)
    <3>1. call[q].at \notin Preparing
      <4>1. Leased(p) /\ Leased(q)
        BY DEF UInv, LeaseInv
      <4> QED BY <1>1, <4>1 DEF Leased, Coordinates, Preparing
    <3>2. ~(Recording(q) \/ call[q].at \in Applying)
      BY <1>6, UnderWay
    <3> QED BY <3>1, <3>2 DEF Engaged
  <2> QED BY <1>2, <1>3, <2>2, <2>3, <2>4, <2>5, Aside
<1> QED BY <1>5, <1>6

\* The other steps of prepare() that leave the files alone.
LEMMA PrepareMovesStep ==
  ASSUME UInv, NEW p \in Process,
         \/ PrepareBegins(p) \/ PrepareQuits(p) \/ PrepareCompares(p) \/ PrepareReleases(p)
  PROVE  ProfileInv'
<1> USE DEF At
<1>1. TypeOK /\ ReliesOn(p) /\ call[p] \in Calls
  BY DEF UInv, ProfileInv, Relies, TypeOK
<1>2. UNCHANGED shared /\ UNCHANGED holdDied
  BY DEF PrepareBegins, PrepareQuits, PrepareCompares, PrepareReleases, shared, files, ghosts
<1>3. Whole' = Whole /\ Blocking' = Blocking
  BY <1>2 DEF shared, Whole, Blocking
<1>4. ioFailures' \in Nat /\ ioFailures' >= ioFailures
  <2>1. Works \/ Fails
    BY DEF PrepareBegins, PrepareQuits, PrepareCompares, PrepareReleases, QuitSucceeds,
           QuitFails, ReleaseCoordination, Works
  <2> QED BY <1>1, <2>1, CountDoes
<1>5. CASE PrepareBegins(p)
  <2> DEFINE me == [Idle EXCEPT !.at = "checking", !.owns = {"coordination"}]
  <2>1. me \in Calls /\ me.at = "checking" /\ me.update = None
    BY DEF Idle, Calls, Labels
  <2>2. Continue(p, me)
    BY <1>5 DEF PrepareBegins
  <2> HIDE DEF me
  <2>3. call'[p] = me /\ \A q \in Process \ {p} : call'[q] = call[q]
    BY <1>1, <2>1, <2>2, ContinueDoes
  <2>4. Drops(p)'
    BY <2>1, <2>3 DEF Drops
  <2>5. TornHeld'
    BY <1>2, <1>3, <1>4, <1>5, HoldStays DEF PrepareBegins, session
  <2> QED BY <1>2, <1>4, <2>1, <2>3, <2>4, <2>5, Rests
<1>6. CASE PrepareQuits(p) \/ PrepareCompares(p)
  <2>1. call[p].at \in {"quitting", "comparing"} /\ call[p].update = None
    BY <1>1, <1>6 DEF PrepareQuits, PrepareCompares, ReliesOn, PrepareRelies, Preparing
  <2>2. Whole /\ Blocking = {}
    BY <2>1, PreparingWhole DEF Preparing
  <2>3. TornHeld'
    BY <1>3, <2>2 DEF TornHeld
  <2>4. {"comparing", "recording", "releasing"} \subseteq Labels \ {"idle"}
    BY DEF Labels
  <2>5. CASE Goto(p, "releasing")
    <3>1. /\ call'[p].at = "releasing" /\ call'[p].update = None
          /\ \A q \in Process \ {p} : call'[q] = call[q]
      BY <1>1, <2>1, <2>4, <2>5, GotoFields
    <3>2. Drops(p)'
      BY <3>1 DEF Drops
    <3> QED BY <1>2, <1>4, <2>3, <3>1, <3>2, Rests
  <2>6. CASE Goto(p, "comparing") \/ Goto(p, "recording")
    <3>1. /\ call'[p].at \in {"comparing", "recording"}
          /\ call'[p].update = None /\ call'[p].snapshot = call[p].snapshot
          /\ \A q \in Process \ {p} : call'[q] = call[q]
      BY <1>1, <2>1, <2>4, <2>6, GotoFields
    <3>2. Drops(p)'
      BY <3>1 DEF Drops
    <3>3. PrepareRelies(p)'
      BY <1>1, <1>2, <1>3, <2>1, <2>2, <3>1 DEF ReliesOn, PrepareRelies, Recording, shared
    <3>4. StateRelies(p)' /\ DataRelies(p)'
      BY <3>1 DEF StateRelies, DataRelies, Applying
    <3>5. \A q \in Process \ {p} : ~Engaged(q)
      BY <2>1, EngagedAlone DEF Engaged, Preparing
    <3> QED BY <1>2, <1>4, <2>3, <3>1, <3>2, <3>3, <3>4, <3>5, Aside DEF ReliesOn
  <2> QED BY <1>6, <2>5, <2>6 DEF PrepareQuits, PrepareCompares
<1>7. CASE PrepareReleases(p)
  <2>1. TornHeld'
    BY <1>2, <1>3, <1>4, <1>7, HoldStays DEF PrepareReleases, ReleaseCoordination, session
  <2>2. {"idle", "binding", "withdrawing"} \subseteq Labels
    BY DEF Labels
  <2>3. CASE call[p].update = None
    <3>1. Goto(p, "idle") \/ Leave(p, "coordination", "idle")
      BY <1>7, <2>3 DEF PrepareReleases, ReleaseCoordination
    <3>2. call'[p] = Idle /\ \A q \in Process \ {p} : call'[q] = call[q]
      BY <1>1, <2>2, <3>1, GotoDoes, LeaveDoes
    <3>3. call'[p].at = "idle" /\ Drops(p)'
      BY <3>2 DEF Drops, Idle
    <3> QED BY <1>2, <1>4, <2>1, <3>2, <3>3, Rests
  <2>4. CASE call[p].update # None
    <3>1. Goto(p, "withdrawing") \/ Leave(p, "coordination", "binding")
      BY <1>7, <2>4 DEF PrepareReleases, ReleaseCoordination
    <3>2. /\ call'[p].at \in {"binding", "withdrawing"} /\ call'[p].update = call[p].update
          /\ \A q \in Process \ {p} : call'[q] = call[q]
      <4>1. CASE Goto(p, "withdrawing")
        BY <1>1, <2>2, <4>1, GotoFields
      <4>2. CASE Leave(p, "coordination", "binding")
        BY <1>1, <2>2, <4>2, LeaveFields
      <4> QED BY <3>1, <4>1, <4>2
    <3>3. Recording(p) /\ Drops(p)'
      BY <1>7, <2>4, <3>2 DEF PrepareReleases, Recording, Drops
    <3>4. PrepareRelies(p)'
      BY <1>1, <1>2, <3>2, <3>3 DEF ReliesOn, PrepareRelies, Preparing, shared, StateOf
    <3>5. StateRelies(p)' /\ DataRelies(p)'
      BY <3>2 DEF StateRelies, DataRelies, Applying
    <3>6. \A q \in Process \ {p} : ~Engaged(q)
      BY <3>3, EngagedAlone DEF Engaged
    <3> QED BY <1>2, <1>4, <2>1, <3>2, <3>3, <3>4, <3>5, <3>6, Aside DEF ReliesOn
  <2> QED BY <2>3, <2>4
<1> QED BY <1>5, <1>6, <1>7

\* While the journal says PREPARED or FINALIZING the profile is whole.
LEMMA SaidWhole ==
  ASSUME UInv, NEW p \in Process, Recording(p) \/ call[p].at \in Applying,
         Plan(p).state \in {"PREPARED", "FINALIZING"}
  PROVE  Whole
<1>1. /\ call[p].update \in Update /\ Plan(p) = journal[call[p].update] /\ Plan(p) # None
      /\ Plan(p) \in Journals
  BY UnderWay
<1>2. Recorded(call[p].update)
  BY <1>1 DEF UInv, ProfileInv, AllRecorded
<1>3. \/ package = Plan(p).from /\ db.schema = SchemaOf[Plan(p).from]
      \/ package = Plan(p).to /\ db.schema = SchemaOf[Plan(p).to]
  BY <1>1, <1>2 DEF Recorded, Concluded
<1>4. Plan(p).from \in Release /\ Plan(p).to \in Release
  BY <1>1 DEF Journals
<1> QED BY <1>3, <1>4 DEF Whole

\* apply() begins, and claims the coordination or is refused; it is not engaged yet.
LEMMA ClaimStep ==
  ASSUME UInv, NEW p \in Process, (\E u \in Update : ApplyBegins(p, u)) \/ ApplyClaims(p)
  PROVE  ProfileInv'
<1> USE DEF At
<1>1. TypeOK /\ ReliesOn(p) /\ call[p] \in Calls
  BY DEF UInv, ProfileInv, Relies, TypeOK
<1>2. /\ UNCHANGED shared /\ UNCHANGED <<profileLease, runtime, holdDied>>
      /\ ioFailures' \in Nat /\ ioFailures' >= ioFailures
  <2>1. CASE \E u \in Update : ApplyBegins(p, u)
    <3>1. UNCHANGED <<leases, session, db, slot, package, files, ghosts, ioFailures>>
      BY <2>1 DEF ApplyBegins
    <3> QED BY <3>1, <1>1 DEF shared, files, ghosts, leases, session, TypeOK
  <2>2. CASE ApplyClaims(p)
    BY <2>2, <1>1 DEF ApplyClaims, shared, files, ghosts, leases, session, TypeOK
  <2> QED BY <2>1, <2>2
<1>3. TornHeld'
  <2>1. Whole' = Whole
    BY <1>2 DEF shared, Whole
  <2> QED BY <1>2, <2>1, HoldStays
<1>4. CASE Return(p)
  <2>1. call'[p] = Idle /\ \A q \in Process \ {p} : call'[q] = call[q]
    BY <1>1, <1>4, ContinueDoes, IdleIsACall DEF Return
  <2>2. call'[p].at = "idle" /\ Drops(p)'
    BY <2>1 DEF Drops, Idle
  <2> QED BY <1>2, <1>3, <2>1, <2>2, Rests
<1>5. CASE ~Return(p)
  <2>1. PICK me \in Calls : /\ Continue(p, me)
                            /\ me.at \in {"claiming", "rereading"}
                            /\ me.update \in bound
                            /\ me.at = "rereading" => me.owns = {"coordination"}
    <3>1. CASE \E u \in Update : ApplyBegins(p, u)
      <4> PICK u \in Update : ApplyBegins(p, u)
        BY <3>1
      <4> DEFINE me == [Idle EXCEPT !.at = "claiming", !.update = u]
      <4>1. me \in Calls /\ me.at = "claiming" /\ me.update = u
        BY DEF Idle, Calls, Labels
      <4>2. Continue(p, me) /\ u \in bound
        BY DEF ApplyBegins
      <4> HIDE DEF me
      <4> QED BY <4>1, <4>2
    <3>2. CASE ApplyClaims(p)
      <4> DEFINE me == [call[p] EXCEPT !.at = "rereading", !.owns = {"coordination"}]
      <4>1. me \in Calls
        BY <1>1, CallsOwning DEF Labels
      <4>2. me.at = "rereading" /\ me.owns = {"coordination"} /\ me.update = call[p].update
        BY <1>1 DEF Calls
      <4>3. Continue(p, me) /\ call[p].update \in bound
        BY <1>1, <1>5, <3>2 DEF ApplyClaims, ReliesOn, StateRelies
      <4> HIDE DEF me
      <4> QED BY <4>1, <4>2, <4>3
    <3> QED BY <3>1, <3>2
  <2>2. call'[p] = me /\ \A q \in Process \ {p} : call'[q] = call[q]
    BY <1>1, <2>1, ContinueDoes
  <2>3. Drops(p)'
    BY <2>1, <2>2 DEF Drops
  <2>4. ~Engaged(p)' /\ PrepareRelies(p)' /\ DataRelies(p)'
    BY <2>1, <2>2 DEF Engaged, Recording, Preparing, Applying, PrepareRelies, DataRelies
  <2>5. StateRelies(p)'
    BY <1>2, <2>1, <2>2 DEF StateRelies, shared
  <2> QED BY <1>2, <1>3, <2>2, <2>3, <2>4, <2>5, Aside DEF ReliesOn
<1> QED BY <1>4, <1>5

\* apply() is engaged from the moment it finds its update PREPARED under the coordination:
\* whoever else is engaged has the coordination, or has left another state on record.
LEMMA RereadStep ==
  ASSUME UInv, NEW p \in Process, ApplyRereads(p)
  PROVE  ProfileInv'
<1> USE DEF At
<1> DEFINE u == call[p].update
<1>1. /\ TypeOK /\ ReliesOn(p) /\ call[p].at = "rereading" /\ u \in bound
      /\ "profile" \notin call[p].owns
  BY DEF ApplyRereads, UInv, ProfileInv, Relies, ReliesOn, StateRelies
<1>2. /\ UNCHANGED shared /\ UNCHANGED <<profileLease, runtime, holdDied>>
      /\ ioFailures' \in Nat /\ ioFailures' >= ioFailures
  BY <1>1 DEF ApplyRereads, shared, leases, session, files, ghosts, TypeOK
<1>3. TornHeld'
  <2>1. Whole' = Whole
    BY <1>2 DEF shared, Whole
  <2> QED BY <1>2, <2>1, HoldStays
<1>4. {"holding", "dropping"} \subseteq Labels \ {"idle"}
  BY DEF Labels
<1>5. CASE Plan(p).state # "PREPARED"
  <2>1. Goto(p, "dropping")
    BY <1>5 DEF ApplyRereads
  <2>2. /\ call'[p].at = "dropping" /\ call'[p].owns = call[p].owns
        /\ \A q \in Process \ {p} : call'[q] = call[q]
    BY <1>1, <1>4, <2>1, GotoFields
  <2>3. Drops(p)'
    BY <1>1, <2>2 DEF Drops
  <2> QED BY <1>2, <1>3, <2>2, <2>3, Rests
<1>6. CASE Plan(p).state = "PREPARED"
  <2>1. Goto(p, "holding")
    BY <1>6 DEF ApplyRereads
  <2>2. /\ call'[p].at = "holding" /\ call'[p].update = u
        /\ \A q \in Process \ {p} : call'[q] = call[q]
    BY <1>1, <1>4, <2>1, GotoFields
  <2>3. Drops(p)'
    BY <2>2 DEF Drops
  <2>4. PrepareRelies(p)' /\ DataRelies(p)'
    BY <2>2 DEF PrepareRelies, DataRelies, Recording, Preparing
  <2>5. StateRelies(p)'
    BY <1>1, <1>2, <1>6, <2>2 DEF StateRelies, Plan, shared
  <2>6. ASSUME NEW q \in Process \ {p}
        PROVE  ~Engaged(q)
    <3>1. Leased(p) /\ Leased(q) /\ ReliesOn(q)
      BY DEF UInv, LeaseInv, ProfileInv, Relies
    <3>2. "coordination" \notin call[q].owns
      BY <1>1, <3>1 DEF Leased, Coordinates
    <3>3. call[q].at \notin Preparing
      BY <3>1, <3>2 DEF Leased, Coordinates, Preparing
    <3>4. SUFFICES ASSUME Recording(q) \/ call[q].at \in Applying
                   PROVE  FALSE
      BY <3>3 DEF Engaged
    <3>5. call[q].update = u
      <4>1. u \in Update /\ StateOf(u) = "PREPARED"
        BY <1>1, <1>6, PlanIs DEF UInv, ProfileInv
      <4>2. ~Done(u)
        BY <4>1, NoneAssumption DEF Done, Settled, States
      <4> QED BY <4>1, <4>2, <3>4, UnderWay DEF UInv, ProfileInv, OneUnsettled
    <3>6. ~Recording(q)
      BY <1>1, <3>1, <3>5 DEF ReliesOn, PrepareRelies
    <3>7. Plan(q).state = "PREPARED"
      BY <1>6, <3>5 DEF Plan
    <3>8. call[q].at \in {"holding", "verifying", "starting", "handling"}
      BY <3>1, <3>4, <3>6, <3>7 DEF ReliesOn, StateRelies, Applying
    <3>9. "coordination" \in call[q].owns
      BY <3>1, <3>7, <3>8 DEF ReliesOn, StateRelies, Leased, Coordinates
    <3> QED BY <3>2, <3>9
  <2> QED BY <1>2, <1>3, <2>2, <2>3, <2>4, <2>5, <2>6, Aside DEF ReliesOn
<1> QED BY <1>5, <1>6

\* apply() takes the hold and compares the live database with the snapshot, or gives up;
\* the profile is still what the prepared update says.
LEMMA HoldStep ==
  ASSUME UInv, NEW p \in Process, ApplyHolds(p) \/ ApplyVerifies(p)
  PROVE  ProfileInv'
<1> USE DEF At
<1> DEFINE u == call[p].update
<1>1. TypeOK /\ ReliesOn(p) /\ call[p] \in Calls
  BY DEF UInv, ProfileInv, Relies, TypeOK
<1>2. /\ call[p].at \in {"holding", "verifying"} /\ call[p].at \in Applying
      /\ u \in bound /\ Plan(p).state = "PREPARED"
  BY <1>1 DEF ApplyHolds, ApplyVerifies, ReliesOn, StateRelies, Applying
<1>3. UNCHANGED shared /\ UNCHANGED holdDied /\ ioFailures' = ioFailures
  BY DEF ApplyHolds, ApplyVerifies, shared, files, ghosts
<1>4. ioFailures' \in Nat /\ ioFailures' >= ioFailures
  BY <1>1, <1>3 DEF TypeOK
<1>5. Whole /\ Whole'
  BY <1>2, <1>3, SaidWhole DEF shared, Whole
<1>6. TornHeld' /\ Drops(p)'
  BY <1>5 DEF TornHeld, Drops
<1>7. CASE Goto(p, "dropping")
  <2>1. call'[p].at = "dropping" /\ \A q \in Process \ {p} : call'[q] = call[q]
    BY <1>1, <1>7, GotoFields DEF Labels
  <2> QED BY <1>3, <1>4, <1>6, <2>1, Rests
<1>8. CASE ~Goto(p, "dropping")
  <2>1. /\ call'[p].at \in {"verifying", "starting"} /\ call'[p].update = u
        /\ call'[p].at = "starting" => db = Plan(p).snapshot
        /\ \A q \in Process \ {p} : call'[q] = call[q]
    <3>1. CASE ApplyHolds(p)
      <4> DEFINE o == call[p].owns \cup {"profile"}
                 me == [call[p] EXCEPT !.at = "verifying", !.owns = o]
      <4>1. o \in SUBSET {"profile", "coordination"}
        BY <1>1 DEF Calls
      <4>2. me \in Calls
        BY <1>1, <4>1, CallsOwning DEF Labels
      <4>3. me.at = "verifying" /\ me.update = u
        BY <1>1 DEF Calls
      <4>4. Continue(p, me)
        BY <1>8, <3>1 DEF ApplyHolds
      <4> HIDE DEF me
      <4>5. call'[p] = me /\ \A q \in Process \ {p} : call'[q] = call[q]
        BY <1>1, <4>4, <4>2, ContinueDoes
      <4> QED BY <4>3, <4>5
    <3>2. CASE ApplyVerifies(p)
      <4>1. Goto(p, "starting") /\ db = Plan(p).snapshot
        BY <1>8, <3>2 DEF ApplyVerifies
      <4> QED BY <1>1, <4>1, GotoFields DEF Labels
    <3> QED BY <3>1, <3>2
  <2>2. PrepareRelies(p)'
    BY <2>1 DEF PrepareRelies, Recording, Preparing
  <2>3. StateRelies(p)'
    BY <1>2, <1>3, <2>1 DEF StateRelies, Plan, shared
  <2>4. DataRelies(p)'
    BY <1>3, <2>1 DEF DataRelies, Plan, shared
  <2>5. \A q \in Process \ {p} : ~Engaged(q)
    BY <1>2, EngagedAlone DEF Engaged
  <2> QED BY <1>3, <1>4, <1>6, <2>1, <2>2, <2>3, <2>4, <2>5, Aside DEF ReliesOn
<1> QED BY <1>7, <1>8

\* apply() gives the leases back: the profile only when it is whole, unless writing failed
\* twice.
LEMMA ReleaseStep ==
  ASSUME UInv, NEW p \in Process,
         Free_profile(p) \/ Free_coordination(p) \/ Guarded(p) \/ Drop(p) \/ Finish(p)
  PROVE  ProfileInv'
<1> USE DEF At
<1> DEFINE u == call[p].update
<1>1. TypeOK /\ ReliesOn(p) /\ call[p] \in Calls /\ Drops(p)
  BY DEF UInv, ProfileInv, Relies, TypeOK, DropsWhole
<1>2. UNCHANGED shared /\ UNCHANGED holdDied /\ UNCHANGED runtime
  BY DEF Free_profile, Free_coordination, Guarded, Drop, Finish, shared, files, ghosts, session
<1>3. ioFailures' \in Nat /\ ioFailures' >= ioFailures /\ ioFailures \in Nat
  <2>1. Works \/ Fails
    BY DEF Free_profile, Free_coordination, Guarded, Drop, Finish,
           ReleaseProfile, ReleaseCoordination
  <2> QED BY <1>1, <2>1, CountDoes DEF TypeOK
<1>4. Whole' = Whole
  BY <1>2 DEF shared, Whole
<1>5. TornHeld'
  <2>1. CASE UNCHANGED profileLease
    BY <1>2, <1>3, <1>4, <2>1, HoldStays
  <2>2. CASE Free_profile(p)
    <3>1. Plan(p).state = "FINALIZING" /\ call[p].at \in Applying
      BY <1>1, <2>2 DEF Free_profile, ReliesOn, StateRelies, Applying
    <3>2. Whole
      BY <3>1, SaidWhole
    <3> QED BY <1>4, <3>2 DEF TornHeld
  <2>3. CASE Drop(p) /\ "profile" \in call[p].owns
    <3>1. Whole \/ ioFailures > 1
      BY <1>1, <2>3 DEF Drop, Drops
    <3> QED BY <1>3, <1>4, <3>1 DEF TornHeld
  <2>4. CASE \/ Free_coordination(p) \/ Guarded(p) \/ Finish(p)
             \/ Drop(p) /\ "profile" \notin call[p].owns
    BY <2>1, <2>4 DEF Free_coordination, Guarded, Finish, Drop, ReleaseCoordination, leases
  <2> QED BY <2>2, <2>3, <2>4
<1>6. CASE Drop(p)
  <2>1. Goto(p, "finishing") \/ Leave(p, "profile", "finishing")
    BY <1>6 DEF Drop, ReleaseProfile
  <2>2. call'[p].at = "finishing" /\ \A q \in Process \ {p} : call'[q] = call[q]
    BY <1>1, <2>1, GotoFields, LeaveFields DEF Labels
  <2>3. Drops(p)'
    BY <2>2 DEF Drops
  <2> QED BY <1>2, <1>3, <1>5, <2>2, <2>3, Rests
<1>7. CASE Finish(p)
  <2>1. Goto(p, "idle") \/ Leave(p, "coordination", "idle")
    BY <1>7 DEF Finish, ReleaseCoordination, Goto
  <2>2. call'[p] = Idle /\ \A q \in Process \ {p} : call'[q] = call[q]
    BY <1>1, <2>1, GotoDoes, LeaveDoes DEF Labels
  <2>3. call'[p].at = "idle" /\ Drops(p)'
    BY <2>2 DEF Drops, Idle
  <2> QED BY <1>2, <1>3, <1>5, <2>2, <2>3, Rests
<1>8. CASE Free_profile(p) \/ Free_coordination(p) \/ Guarded(p)
  <2>1. /\ call[p].at \in Applying /\ u \in bound
        /\ Guarded(p) => Plan(p).state = "VALIDATING"
        /\ ~Guarded(p) => Plan(p).state = "FINALIZING"
    BY <1>1, <1>8 DEF Free_profile, Free_coordination, Guarded, ReliesOn, StateRelies, Applying
  <2>2. \E at \in {"freeingCoordination", "stranded", "terminating", "strandedCoordination",
                   "guardedMark"} :
          /\ at = "guardedMark" <=> Guarded(p)
          /\ Goto(p, at) \/ \E lease \in {"profile", "coordination"} : Leave(p, lease, at)
    BY <1>8 DEF Free_profile, Free_coordination, Guarded, ReleaseProfile, ReleaseCoordination
  <2>3. /\ call'[p].at \in {"freeingCoordination", "stranded", "terminating",
                            "strandedCoordination", "guardedMark"}
        /\ call'[p].at = "guardedMark" <=> Guarded(p)
        /\ call'[p].update = u
        /\ \A q \in Process \ {p} : call'[q] = call[q]
    BY <1>1, <2>2, GotoFields, LeaveFields DEF Labels
  <2>4. Drops(p)' /\ PrepareRelies(p)' /\ DataRelies(p)'
    BY <2>3 DEF Drops, PrepareRelies, DataRelies, Recording, Preparing
  <2>5. Plan(p)' = Plan(p)
    BY <1>2, <2>3 DEF Plan, shared
  <2>6. StateRelies(p)'
    BY <1>2, <2>1, <2>3, <2>5 DEF StateRelies, shared
  <2>7. \A q \in Process \ {p} : ~Engaged(q)
    BY <2>1, EngagedAlone DEF Engaged
  <2> QED BY <1>2, <1>3, <1>5, <2>3, <2>4, <2>6, <2>7, Aside DEF ReliesOn
<1> QED BY <1>6, <1>7, <1>8

-----------------------------------------------------------------------------
(* The steps that write a journal *)

\* _ALLOWED_TRANSITIONS, state by state.
LEMMA AllowedIs ==
  /\ Allowed["PREPARED"] = {"INSTALLING", "RECOVERY_REQUIRED"}
  /\ Allowed["INSTALLING"] = {"VALIDATING", "ROLLING_BACK", "FINALIZING", "RECOVERY_REQUIRED"}
  /\ Allowed["VALIDATING"] = {"ROLLING_BACK", "FINALIZING", "RECOVERY_REQUIRED"}
  /\ Allowed["ROLLING_BACK"] = {"RESTORING", "RECOVERY_REQUIRED"}
  /\ Allowed["RESTORING"] = {"FINALIZING", "RECOVERY_REQUIRED"}
  /\ Allowed["FINALIZING"] = Terminal
  BY DEF Allowed, States, InFlight

\* What the transitions of an update under way have in common.
LEMMA AllowedLeads ==
  ASSUME NEW s \in {"PREPARED"} \cup InFlight, NEW t \in Allowed[s]
  PROVE  /\ t # "PREPARED"
         /\ t \in {"INSTALLING", "VALIDATING"} => s \in {"PREPARED", "INSTALLING"}
         /\ t \in InFlight \ {"FINALIZING"} => s \in {"PREPARED"} \cup (InFlight \ {"FINALIZING"})
         /\ t \in Settled => s = "FINALIZING"
         /\ t \in Unfinished \/ t = "FINALIZING" \/ t \in Settled
<1> USE AllowedIs DEF InFlight, Settled, Terminal, Unfinished
<1>1. CASE s = "PREPARED"
  BY <1>1
<1>2. CASE s = "INSTALLING"
  BY <1>2
<1>3. CASE s = "VALIDATING"
  BY <1>3
<1>4. CASE s = "ROLLING_BACK"
  BY <1>4
<1>5. CASE s = "RESTORING"
  BY <1>5
<1>6. CASE s = "FINALIZING"
  BY <1>6
<1> QED BY <1>1, <1>2, <1>3, <1>4, <1>5, <1>6

\* A journal the call of p may go on to.
Fits(p, j) ==
    /\ j \in Journals /\ Legal(p, j) /\ Sound(j) /\ j.snapshot = Plan(p).snapshot
    /\ j.state = "FINALIZING" => Concluded(j)

\* Writing a journal that fits.
LEMMA Written ==
  ASSUME UInv, NEW p \in Process, Recording(p) \/ call[p].at \in Applying,
         NEW j, Fits(p, j),
         NEW u, u = call[p].update, journal' = [journal EXCEPT ![u] = j],
         NEW to \in Labels \ {"dropping"}, Goto(p, to),
         to \in {"idle", "finishing"} \/ ReliesOn(p)',
         UNCHANGED <<bound, slot, package, performed, db>>,
         UNCHANGED <<profileLease, runtime, holdDied, ioFailures>>
  PROVE  ProfileInv'
<1> DEFINE s == Plan(p).state
<1>1. /\ u \in Update /\ Plan(p) = journal[u] /\ Plan(p) # None /\ Plan(p) \in Journals
      /\ StateOf(u) = s /\ s \in {"PREPARED"} \cup InFlight /\ ~Done(u)
  BY UnderWay
<1>2. TypeOK /\ Recorded(u)
  BY <1>1 DEF UInv, ProfileInv, AllRecorded
<1>3. /\ journal'[u] = j /\ j # None /\ j.state \in Allowed[s]
      /\ \A v \in Update \ {u} : journal'[v] = journal[v]
  <2>1. journal \in [Update -> Journals \cup {None}]
    BY <1>2 DEF TypeOK
  <2>2. j # None /\ j.state \in Allowed[s]
    BY NoneAssumption DEF Fits, Legal
  <2> QED BY <1>1, <2>1, <2>2
<1>4. /\ StateOf(u)' = j.state
      /\ \A v \in Update \ {u} : StateOf(v)' = StateOf(v)
  BY <1>3 DEF StateOf
<1>5. /\ \A q \in Process \ {p} : call'[q] = call[q]
      /\ to \in {"idle", "finishing"} => call'[p].at = to
      /\ call'[p].at # "dropping"
  <2>1. CASE to = "idle"
    <3>1. Goto(p, "idle") /\ "idle" \in Labels
      BY <2>1
    <3>2. call'[p] = Idle /\ \A q \in Process \ {p} : call'[q] = call[q]
      BY <1>2, <3>1, GotoDoes
    <3> QED BY <2>1, <3>2 DEF Idle
  <2>2. CASE to # "idle"
    BY <1>2, <2>2, GotoFields
  <2> QED BY <2>1, <2>2
<1>6. ioFailures' \in Nat /\ ioFailures' >= ioFailures
  BY <1>2 DEF TypeOK
<1>7. Whole' = Whole
  BY DEF Whole
<1>8. Engaged(p) /\ \A q \in Process \ {p} : ~Engaged(q)
  BY EngagedAlone DEF Engaged
<1>9. OneEngaged'
  BY <1>5, <1>8, StillOneEngaged
<1>10. Relies'
  <2>1. ReliesOn(p)'
    BY <1>5, AtRest
  <2> QED BY <1>5, <1>6, <1>8, <2>1, OthersRely DEF Relies
<1>11. OneUnsettled'
  <2>1. ASSUME NEW v \in Update \ {u}
        PROVE  Done(v)'
    BY <1>1, <1>4, <2>1 DEF UInv, ProfileInv, OneUnsettled, Done
  <2> QED BY <2>1 DEF OneUnsettled
<1>12. AllRecorded'
  <2>1. Recorded(u)'
    <3>1. j.state # "PREPARED" /\ Sound(j)' /\ (j.state = "FINALIZING" => Concluded(j)')
      BY <1>1, <1>3, AllowedLeads DEF Fits, Sound, Concluded
    <3>2. j.state \in {"INSTALLING", "VALIDATING"} => performed[u]["ROLLBACK"] = 0
      BY <1>1, <1>2, <1>3, AllowedLeads DEF Recorded
    <3> QED BY <1>1, <1>2, <1>3, <3>1, <3>2 DEF Recorded
  <2>2. ASSUME NEW v \in Update \ {u}
        PROVE  Recorded(v)'
    <3>1. Recorded(v)
      BY DEF UInv, ProfileInv, AllRecorded
    <3> QED BY <1>3, <3>1 DEF Recorded, Concluded
  <2> QED BY <2>1, <2>2 DEF AllRecorded
<1>13. SnapshotIsKept'
  <2>1. SnapshotIsKept
    BY DEF UInv, ProfileInv
  <2>2. j.state \in {"PREPARED"} \cup (InFlight \ {"FINALIZING"}) => slot = j.snapshot
    BY <1>1, <1>3, <2>1, AllowedLeads DEF SnapshotIsKept, Fits
  <2> QED BY <1>1, <1>3, <1>4, <2>1, <2>2 DEF SnapshotIsKept
<1>14. Whole \/ j.state \in Unfinished
  <2>1. CASE j.state = "FINALIZING"
    BY <2>1 DEF Fits, Concluded, Journals, Whole
  <2>2. CASE s = "FINALIZING"
    BY <2>2, SaidWhole
  <2> QED BY <1>1, <1>3, <2>1, <2>2, AllowedLeads
<1>15. TornRecorded'
  BY <1>1, <1>4, <1>7, <1>14 DEF TornRecorded
<1>16. TornHeld'
  BY <1>6, <1>7, HoldStays
<1>17. DropsWhole'
  <2>1. Drops(p)'
    BY <1>5 DEF Drops
  <2> QED BY <1>5, <1>6, <1>7, <2>1, OthersDrop DEF DropsWhole
<1> QED BY <1>9, <1>10, <1>11, <1>12, <1>13, <1>15, <1>16, <1>17 DEF ProfileInv

\* A call whose write failed goes to apply's handler with the journal as it was.
LEMMA Raised ==
  ASSUME UInv, NEW p \in Process, call[p].at \in Applying,
         Plan(p).state = "PREPARED" => call[p].at \in Coordinates,
         Goto(p, "handling"), ioFailures' = ioFailures + 1,
         UNCHANGED shared, UNCHANGED <<profileLease, runtime, holdDied>>
  PROVE  ProfileInv'
<1>1. TypeOK /\ ReliesOn(p) /\ Leased(p)
  BY DEF UInv, ProfileInv, Relies, LeaseInv
<1>2. ioFailures' \in Nat /\ ioFailures' >= ioFailures /\ ioFailures' >= 1
  BY <1>1 DEF TypeOK
<1>3. /\ call'[p].at = "handling" /\ call'[p].update = call[p].update
      /\ call'[p].owns = call[p].owns
      /\ \A q \in Process \ {p} : call'[q] = call[q]
  BY <1>1, GotoFields DEF Labels
<1>4. Plan(p)' = Plan(p) /\ Whole' = Whole
  BY <1>3 DEF Plan, Whole, shared
<1>5. Plan(p).state \in {"PREPARED"} \cup InFlight
  BY UnderWay
<1>6. StateRelies(p)'
  <2>1. call[p].update \in bound'
    BY <1>1 DEF ReliesOn, StateRelies, shared
  <2>2. Plan(p).state = "PREPARED" => "coordination" \in call[p].owns
    BY <1>1 DEF Leased
  <2> QED BY <1>2, <1>3, <1>4, <1>5, <2>1, <2>2 DEF StateRelies
<1>7. PrepareRelies(p)' /\ DataRelies(p)' /\ Drops(p)'
  BY <1>3 DEF PrepareRelies, DataRelies, Drops, Recording, Preparing
<1>8. TornHeld'
  BY <1>2, <1>4, HoldStays
<1>9. \A q \in Process \ {p} : ~Engaged(q)
  BY EngagedAlone DEF Engaged
<1> QED BY <1>2, <1>3, <1>6, <1>7, <1>8, <1>9, Aside DEF ReliesOn

\* A transition of apply() to a journal that fits: written, or raised.
LEMMA Writes ==
  ASSUME UInv, NEW p \in Process, call[p].at \in Applying,
         Plan(p).state = "PREPARED" => call[p].at \in Coordinates,
         NEW j, Fits(p, j), NEW to \in Labels \ {"dropping"}, Transition(p, j, to, "handling"),
         Goto(p, to) /\ journal' = [journal EXCEPT ![call[p].update] = j]
            => to \in {"idle", "finishing"} \/ ReliesOn(p)',
         UNCHANGED <<bound, slot, package, performed, db>>,
         UNCHANGED <<profileLease, runtime, holdDied>>
  PROVE  ProfileInv'
<1>1. TypeOK /\ call[p].update \in Update /\ j \in Journals /\ Legal(p, j) /\ "handling" \in Labels
  BY UnderWay DEF UInv, Fits, Labels
<1>2. \/ /\ journal' = [journal EXCEPT ![call[p].update] = j]
         /\ ioFailures' = ioFailures /\ Goto(p, to)
      \/ /\ journal' = journal
         /\ ioFailures' = ioFailures + 1 /\ Goto(p, "handling")
  BY <1>1, TransitionDoes
<1>3. CASE /\ journal' = [journal EXCEPT ![call[p].update] = j]
           /\ ioFailures' = ioFailures /\ Goto(p, to)
  BY <1>3, Written
<1>4. CASE /\ journal' = journal
           /\ ioFailures' = ioFailures + 1 /\ Goto(p, "handling")
  BY <1>4, Raised DEF shared
<1> QED BY <1>2, <1>3, <1>4

\* The evidence on record of an update under way.
LEMMA OnRecord ==
  ASSUME UInv, NEW p \in Process, Recording(p) \/ call[p].at \in Applying
  PROVE  /\ Plan(p) \in Journals /\ Sound(Plan(p)) /\ Recorded(call[p].update)
         /\ call[p].update \in Update /\ Plan(p) = journal[call[p].update] /\ Plan(p) # None
         /\ ReliesOn(p) /\ TypeOK
<1>1. /\ Plan(p) \in Journals /\ call[p].update \in Update
      /\ Plan(p) = journal[call[p].update] /\ Plan(p) # None
  BY UnderWay
<1>2. Recorded(call[p].update)
  BY <1>1 DEF UInv, ProfileInv, AllRecorded
<1> QED BY <1>1, <1>2 DEF Recorded, UInv, ProfileInv, Relies

\* Every update under way may become recovery work.
LEMMA RecoveryFits ==
  ASSUME UInv, NEW p \in Process, Recording(p) \/ call[p].at \in Applying,
         NEW j \in Journals, j.snapshot = Plan(p).snapshot, j.from = Plan(p).from,
         j.restored => j.rollback # None, j.rollback # None => j.install # "FAILED_SAFE"
  PROVE  Fits(p, Recovery(j))
<1> DEFINE r == Recovery(j)
<1>1. Sound(Plan(p)) /\ Plan(p).state \in {"PREPARED"} \cup InFlight
  BY OnRecord, UnderWay
<1>2. r \in Journals
  BY JournalsWith DEF States
<1>3. /\ r.state = "RECOVERY_REQUIRED" /\ r.snapshot = j.snapshot /\ r.from = j.from
      /\ r.restored = j.restored /\ r.rollback = j.rollback /\ r.install = j.install
  BY DEF Recovery, Journals
<1> HIDE DEF r
<1>4. Evidenced(r)
  BY <1>3 DEF Evidenced
<1>5. r.state \in Allowed[Plan(p).state]
  BY <1>1, <1>3, AllowedIs DEF InFlight, Terminal
<1>6. Sound(r)
  BY <1>1, <1>3, <1>4 DEF Sound
<1>7. Fits(p, r)
  BY <1>2, <1>3, <1>4, <1>5, <1>6 DEF Fits, Legal
<1> QED BY <1>7 DEF r

\* The plan of an update under way may.
LEMMA PlanRecoveryFits ==
  ASSUME UInv, NEW p \in Process, Recording(p) \/ call[p].at \in Applying
  PROVE  Fits(p, Recovery(Plan(p)))
<1>1. Plan(p) \in Journals /\ Sound(Plan(p))
  BY OnRecord
<1> QED BY <1>1, RecoveryFits DEF Sound

\* After a write the call reads what it wrote.
LEMMA ReadsWhatItWrote ==
  ASSUME UInv, NEW p \in Process, call[p].update \in Update, NEW j,
         NEW to \in Labels \ {"idle"}, Goto(p, to),
         journal' = [journal EXCEPT ![call[p].update] = j]
  PROVE  /\ Plan(p)' = j
         /\ call'[p].at = to /\ call'[p].update = call[p].update
         /\ call'[p].receipt = call[p].receipt
<1>1. TypeOK
  BY DEF UInv
<1>2. /\ call'[p].at = to /\ call'[p].update = call[p].update
      /\ call'[p].receipt = call[p].receipt
  BY <1>1, GotoFields
<1>3. journal'[call[p].update] = j
  BY <1>1 DEF TypeOK
<1> QED BY <1>2, <1>3 DEF Plan

\* The steps whose only write is that the update is recovery work.
LEMMA RecoveryStep ==
  ASSUME UInv, NEW p \in Process,
         PrepareWithdraws(p) \/ GuardedMark(p) \/ Unrestored(p) \/ Stranded(p)
  PROVE  ProfileInv'
<1> USE DEF At
<1>1. Recording(p) \/ call[p].at \in Applying
  BY DEF PrepareWithdraws, GuardedMark, Unrestored, Stranded, Recording, Applying
<1>2. Fits(p, Recovery(Plan(p)))
  BY <1>1, PlanRecoveryFits
<1>3. /\ UNCHANGED <<bound, slot, package, performed, db>>
      /\ UNCHANGED <<profileLease, runtime, holdDied>>
  BY DEF PrepareWithdraws, GuardedMark, Unrestored, Stranded, leases, session, ghosts
<1>4. {"idle", "finishing"} \subseteq Labels \ {"dropping"}
  BY DEF Labels
<1>5. CASE Unrestored(p) \/ Stranded(p)
  <2>1. call[p].at \in Applying /\ Plan(p).state # "PREPARED"
    BY <1>5, <1>1, OnRecord DEF Unrestored, Stranded, ReliesOn, StateRelies, Applying
  <2>2. PICK to \in {"idle", "finishing"} : Transition(p, Recovery(Plan(p)), to, "handling")
    BY <1>5 DEF Unrestored, Stranded
  <2> QED BY <1>2, <1>3, <1>4, <2>1, <2>2, Writes
<1>6. CASE PrepareWithdraws(p) \/ GuardedMark(p)
  <2>1. Transition(p, Recovery(Plan(p)), "idle", "idle")
    BY <1>6 DEF PrepareWithdraws, GuardedMark
  <2>2. TypeOK /\ call[p].update \in Update /\ Recovery(Plan(p)) \in Journals
        /\ Legal(p, Recovery(Plan(p)))
    BY <1>1, <1>2, OnRecord DEF Fits
  <2>3. \/ /\ journal' = [journal EXCEPT ![call[p].update] = Recovery(Plan(p))]
           /\ ioFailures' = ioFailures /\ Goto(p, "idle")
        \/ /\ journal' = journal
           /\ ioFailures' = ioFailures + 1 /\ Goto(p, "idle")
    BY <1>4, <2>1, <2>2, TransitionDoes
  <2>4. CASE /\ journal' = [journal EXCEPT ![call[p].update] = Recovery(Plan(p))]
             /\ ioFailures' = ioFailures /\ Goto(p, "idle")
    BY <1>1, <1>2, <1>3, <1>4, <2>4, Written
  <2>5. CASE /\ journal' = journal
             /\ ioFailures' = ioFailures + 1 /\ Goto(p, "idle")
    <3>1. call'[p] = Idle /\ \A q \in Process \ {p} : call'[q] = call[q]
      BY <1>4, <2>2, <2>5, GotoDoes
    <3>2. call'[p].at = "idle" /\ Drops(p)'
      BY <3>1 DEF Drops, Idle
    <3>3. ioFailures' \in Nat /\ ioFailures' >= ioFailures
      BY <2>2, <2>5 DEF TypeOK
    <3>4. UNCHANGED shared /\ Whole' = Whole
      BY <1>3, <2>5 DEF shared, Whole
    <3>5. TornHeld'
      BY <1>3, <3>3, <3>4, HoldStays
    <3> QED BY <3>1, <3>2, <3>3, <3>4, <3>5, Rests
  <2> QED BY <2>3, <2>4, <2>5
<1> QED BY <1>5, <1>6

\* apply's last handler: an update in flight becomes recovery work and keeps the hold; one
\* that is only prepared, or whose write fails again, gives it back.
LEMMA HandleStep ==
  ASSUME UInv, NEW p \in Process, Handle(p)
  PROVE  ProfileInv'
<1> USE DEF At
<1>1. call[p].at = "handling" /\ call[p].at \in Applying
  BY DEF Handle, Applying
<1>2. /\ TypeOK /\ call[p].update \in Update
      /\ Plan(p).state \in {"PREPARED"} \cup InFlight
      /\ ioFailures >= 1
  BY <1>1, OnRecord, UnderWay DEF ReliesOn, StateRelies
<1>3. /\ UNCHANGED <<bound, slot, package, performed, db>>
      /\ UNCHANGED <<profileLease, runtime, holdDied>>
  BY DEF Handle, leases, session, ghosts
<1>4. {"dropping", "finishing"} \subseteq Labels \ {"idle"}
  BY DEF Labels
<1>5. Fits(p, Recovery(Plan(p)))
  BY <1>1, PlanRecoveryFits
<1>6. \/ /\ journal' = [journal EXCEPT ![call[p].update] = Recovery(Plan(p))]
         /\ ioFailures' = ioFailures /\ Goto(p, "finishing")
      \/ /\ journal' = journal
         /\ ioFailures' = ioFailures + 1 /\ Goto(p, "dropping")
      \/ /\ journal' = journal /\ Plan(p).state = "PREPARED"
         /\ ioFailures' = ioFailures /\ Goto(p, "dropping")
  <2>1. CASE Plan(p).state \in InFlight
    <3>1. Transition(p, Recovery(Plan(p)), "finishing", "dropping")
      BY <2>1 DEF Handle
    <3> QED BY <1>2, <1>4, <1>5, <3>1, TransitionDoes DEF Fits
  <2>2. CASE Plan(p).state = "PREPARED"
    <3>1. Plan(p).state \notin InFlight
      BY <2>2 DEF InFlight
    <3> QED BY <2>2, <3>1 DEF Handle, Works
  <2> QED BY <1>2, <2>1, <2>2
<1>7. CASE /\ journal' = [journal EXCEPT ![call[p].update] = Recovery(Plan(p))]
           /\ ioFailures' = ioFailures /\ Goto(p, "finishing")
  BY <1>1, <1>3, <1>4, <1>5, <1>7, Written
<1>8. CASE journal' = journal /\ Goto(p, "dropping")
  <2>1. call'[p].at = "dropping" /\ \A q \in Process \ {p} : call'[q] = call[q]
    BY <1>2, <1>4, <1>8, GotoFields
  <2>2. ioFailures' \in Nat /\ ioFailures' >= ioFailures
    BY <1>2, <1>6 DEF TypeOK
  <2>3. UNCHANGED shared /\ Whole' = Whole
    BY <1>3, <1>8 DEF shared, Whole
  <2>4. TornHeld'
    BY <1>3, <2>2, <2>3, HoldStays
  <2>5. Drops(p)'
    <3>1. CASE Plan(p).state = "PREPARED"
      BY <1>1, <2>3, <3>1, SaidWhole DEF Drops
    <3>2. CASE Plan(p).state # "PREPARED"
      <4>1. ioFailures' > 1
        <5>1. "dropping" # "finishing" /\ call'[p].at = "dropping"
          BY <2>1
        <5>2. ~Goto(p, "finishing")
          BY <1>2, <1>4, <5>1, GotoFields
        <5> QED BY <1>2, <1>6, <3>2, <5>2 DEF TypeOK
      <4> QED BY <4>1 DEF Drops
    <3> QED BY <3>1, <3>2
  <2> QED BY <2>1, <2>2, <2>3, <2>4, <2>5, Rests
<1> QED BY <1>6, <1>7, <1>8

\* INSTALLING is on record before anything is changed.
LEMMA StartStep ==
  ASSUME UInv, NEW p \in Process, ApplyStarts(p)
  PROVE  ProfileInv'
<1> USE DEF At
<1> DEFINE j == [Plan(p) EXCEPT !.state = "INSTALLING"]
<1>1. call[p].at = "starting" /\ call[p].at \in Applying /\ call[p].at \in Coordinates
  BY DEF ApplyStarts, Applying, Coordinates
<1>2. /\ Plan(p) \in Journals /\ Sound(Plan(p)) /\ Recorded(call[p].update)
      /\ call[p].update \in Update /\ Plan(p) = journal[call[p].update] /\ Plan(p) # None
      /\ ReliesOn(p) /\ TypeOK
  BY <1>1, OnRecord
<1>3. Plan(p).state = "PREPARED" /\ db = Plan(p).snapshot /\ call[p].update \in bound
  BY <1>1, <1>2 DEF ReliesOn, StateRelies, DataRelies
<1>4. package = Plan(p).from /\ performed[call[p].update]["INSTALL"] = 0
  BY <1>2, <1>3 DEF Recorded
<1>5. /\ j.state = "INSTALLING" /\ j.snapshot = Plan(p).snapshot /\ j.from = Plan(p).from
      /\ j.to = Plan(p).to /\ j.install = Plan(p).install /\ j.rollback = Plan(p).rollback
      /\ j.restored = Plan(p).restored
  BY <1>2 DEF Journals
<1>6. j \in Journals
  BY <1>2, JournalsWith DEF States, InFlight
<1>7. /\ Transition(p, j, "installing", "handling")
      /\ UNCHANGED <<bound, slot, package, performed, db>>
      /\ UNCHANGED <<profileLease, runtime, holdDied>>
  BY DEF ApplyStarts, leases, session, ghosts
<1> HIDE DEF j
<1>8. Fits(p, j)
  <2>1. Evidenced(j)
    BY <1>2, <1>3, <1>5 DEF Sound, Evidenced
  <2>2. j.state \in Allowed[Plan(p).state]
    BY <1>3, <1>5, AllowedIs
  <2> QED BY <1>2, <1>5, <1>6, <2>1, <2>2 DEF Fits, Legal, Sound
<1>9. ASSUME Goto(p, "installing"), journal' = [journal EXCEPT ![call[p].update] = j]
      PROVE  ReliesOn(p)'
  <2>1. /\ Plan(p)' = j
        /\ call'[p].at = "installing" /\ call'[p].update = call[p].update
    BY <1>2, <1>9, ReadsWhatItWrote DEF Labels
  <2>2. PrepareRelies(p)'
    BY <2>1 DEF PrepareRelies, Recording, Preparing
  <2>3. StateRelies(p)'
    BY <1>3, <1>5, <1>7, <2>1 DEF StateRelies
  <2>4. DataRelies(p)'
    BY <1>3, <1>4, <1>5, <1>7, <2>1 DEF DataRelies
  <2> QED BY <2>2, <2>3, <2>4 DEF ReliesOn
<1>10. "installing" \in Labels \ {"dropping"}
  BY DEF Labels
<1> QED BY <1>1, <1>7, <1>8, <1>9, <1>10, Writes

\* A call of apply() that only goes on to another label.
LEMMA MovesOn ==
  ASSUME UInv, NEW p \in Process, call[p].at \in Applying, ReliesOn(p)',
         call'[p].at # "dropping", \A q \in Process \ {p} : call'[q] = call[q],
         UNCHANGED shared, UNCHANGED <<profileLease, runtime, holdDied>>,
         ioFailures' \in Nat, ioFailures' >= ioFailures
  PROVE  ProfileInv'
<1>1. \A q \in Process \ {p} : ~Engaged(q)
  BY EngagedAlone DEF Engaged
<1>2. Whole' = Whole
  BY DEF shared, Whole
<1>3. TornHeld' /\ Drops(p)'
  BY <1>2, HoldStays DEF Drops
<1> QED BY <1>1, <1>3, Aside

\* What apply() records of the installation is what the driver answered.
LEMMA InstalledStep ==
  ASSUME UInv, NEW p \in Process, ApplyInstalled(p)
  PROVE  ProfileInv'
<1> USE DEF At
<1> DEFINE r == call[p].receipt
           j == [Plan(p) EXCEPT !.install = r]
<1>1. call[p].at = "installed" /\ call[p].at \in Applying /\ call[p].at \in Coordinates
  BY DEF ApplyInstalled, Applying, Coordinates
<1>2. /\ Plan(p) \in Journals /\ Sound(Plan(p)) /\ Recorded(call[p].update)
      /\ call[p].update \in Update /\ Plan(p) = journal[call[p].update] /\ Plan(p) # None
      /\ ReliesOn(p) /\ TypeOK
  BY <1>1, OnRecord
<1>3. /\ Plan(p).state = "INSTALLING" /\ db = Plan(p).snapshot /\ call[p].update \in bound
      /\ r \in Installs \cup {None}
      /\ r = "SUCCEEDED" => package = Plan(p).to
      /\ r = "FAILED_SAFE" => package = Plan(p).from
  BY <1>1, <1>2 DEF ReliesOn, StateRelies, DataRelies
<1>4. Plan(p).rollback = None /\ ~Plan(p).restored /\ db.schema = SchemaOf[Plan(p).from]
  BY <1>2, <1>3 DEF Sound, Evidenced
<1>5. /\ j.snapshot = Plan(p).snapshot /\ j.from = Plan(p).from /\ j.to = Plan(p).to
      /\ j.install = r /\ j.rollback = None /\ j.restored = FALSE
  BY <1>2, <1>4 DEF Journals
<1>6. j \in Journals
  BY <1>2, <1>3, JournalsWith DEF States
<1>7. /\ UNCHANGED <<bound, slot, package, performed, db>>
      /\ UNCHANGED <<profileLease, runtime, holdDied>>
  BY DEF ApplyInstalled, leases, session, ghosts
<1>8. {"finishing", "freeing", "compensating", "migrating"} \subseteq Labels \ {"idle", "dropping"}
  BY DEF Labels
<1>9. CASE r \in {None, "UNKNOWN"}
  <2>1. Transition(p, Recovery(j), "finishing", "handling")
    BY <1>9, NoneAssumption DEF ApplyInstalled, Installs
  <2> HIDE DEF j
  <2>2. Fits(p, Recovery(j))
    BY <1>1, <1>5, <1>6, RecoveryFits
  <2> QED BY <1>1, <1>7, <1>8, <2>1, <2>2, Writes
<1>10. CASE r \in {"FAILED_SAFE", "SUCCEEDED"}
  <2> DEFINE s == IF r = "SUCCEEDED" THEN "VALIDATING" ELSE "FINALIZING"
             to == IF r = "SUCCEEDED" THEN "migrating" ELSE "freeing"
             k == [j EXCEPT !.state = s]
  <2>1. k \in Journals
    BY <1>6, JournalsWith DEF States, InFlight
  <2> HIDE DEF j
  <2>2. /\ k.state = s /\ k.snapshot = Plan(p).snapshot /\ k.from = Plan(p).from
        /\ k.to = Plan(p).to /\ k.install = r /\ k.rollback = None /\ k.restored = FALSE
    BY <1>5, <1>6 DEF Journals
  <2>3. Transition(p, k, to, "handling")
    BY <1>10, NoneAssumption DEF ApplyInstalled, Installs, j
  <2> HIDE DEF k
  <2>4. Fits(p, k)
    <3>1. Evidenced(k)
      BY <1>10, <2>2 DEF Evidenced
    <3>2. k.state \in Allowed[Plan(p).state]
      BY <1>3, <2>2, AllowedIs
    <3>3. Sound(k)
      BY <1>2, <2>2, <3>1 DEF Sound
    <3>4. k.state = "FINALIZING" => Concluded(k)
      BY <1>3, <1>4, <1>10, <2>2 DEF Concluded, Outcome
    <3> QED BY <2>1, <2>2, <3>1, <3>2, <3>3, <3>4 DEF Fits, Legal
  <2>5. ASSUME Goto(p, to), journal' = [journal EXCEPT ![call[p].update] = k]
        PROVE  ReliesOn(p)'
    <3>1. /\ Plan(p)' = k /\ call'[p].receipt = r
          /\ call'[p].at = to /\ call'[p].update = call[p].update
      BY <1>2, <1>8, <2>5, ReadsWhatItWrote
    <3>2. PrepareRelies(p)'
      BY <3>1 DEF PrepareRelies, Recording, Preparing
    <3>3. StateRelies(p)'
      BY <1>3, <1>7, <2>2, <3>1 DEF StateRelies
    <3>4. DataRelies(p)'
      BY <1>3, <1>7, <1>10, <2>2, <3>1 DEF DataRelies
    <3> QED BY <3>2, <3>3, <3>4 DEF ReliesOn
  <2>6. to \in Labels \ {"dropping"}
    BY <1>8
  <2> QED BY <1>1, <1>7, <2>3, <2>4, <2>5, <2>6, Writes
<1>11. CASE r = "FAILED_CHANGED"
  <2>1. Goto(p, "compensating") /\ ioFailures' = ioFailures /\ journal' = journal
    BY <1>11, NoneAssumption DEF ApplyInstalled, Installs, Works
  <2>2. /\ call'[p].at = "compensating" /\ call'[p].update = call[p].update
        /\ call'[p].receipt = r /\ \A q \in Process \ {p} : call'[q] = call[q]
    BY <1>2, <1>8, <2>1, GotoFields
  <2>3. Plan(p)' = Plan(p)
    BY <2>1, <2>2 DEF Plan
  <2>4. PrepareRelies(p)'
    BY <2>2 DEF PrepareRelies, Recording, Preparing
  <2>5. StateRelies(p)'
    BY <1>3, <1>7, <2>2, <2>3 DEF StateRelies
  <2>6. DataRelies(p)'
    BY <1>3, <1>7, <1>11, <2>2, <2>3 DEF DataRelies
  <2>7. UNCHANGED shared /\ ioFailures' \in Nat /\ ioFailures' >= ioFailures
    BY <1>2, <1>7, <2>1 DEF shared, TypeOK
  <2> QED BY <1>1, <1>7, <2>2, <2>4, <2>5, <2>6, <2>7, MovesOn DEF ReliesOn
<1> QED BY <1>3, <1>9, <1>10, <1>11 DEF Installs

\* A validated update is finalized; one that is not goes to the compensation, or to the
\* guard when the updated Headquarters does not close.
LEMMA ValidateStep ==
  ASSUME UInv, NEW p \in Process, Validate(p)
  PROVE  ProfileInv'
<1> USE DEF At
<1> DEFINE j == [Plan(p) EXCEPT !.state = "FINALIZING"]
<1>1. call[p].at = "validating" /\ call[p].at \in Applying /\ call[p].at \in Coordinates
  BY DEF Validate, Applying, Coordinates
<1>2. /\ Plan(p) \in Journals /\ Sound(Plan(p)) /\ Recorded(call[p].update)
      /\ call[p].update \in Update /\ Plan(p) = journal[call[p].update] /\ Plan(p) # None
      /\ ReliesOn(p) /\ TypeOK
  BY <1>1, OnRecord
<1>3. /\ Plan(p).state = "VALIDATING" /\ call[p].update \in bound
      /\ db.edits = Plan(p).snapshot.edits /\ package = Plan(p).to
      /\ db.schema = SchemaOf[Plan(p).to] /\ call[p].receipt = "SUCCEEDED"
  BY <1>1, <1>2 DEF ReliesOn, StateRelies, DataRelies
<1>4. /\ UNCHANGED <<bound, slot, package, performed, db>>
      /\ UNCHANGED <<profileLease, runtime, holdDied>>
  BY DEF Validate, leases, session, ghosts
<1>5. {"freeing", "compensating", "guarded"} \subseteq Labels \ {"idle", "dropping"}
  BY DEF Labels
<1>6. CASE Transition(p, j, "freeing", "handling")
  <2>1. j \in Journals
    BY <1>2, JournalsWith DEF States, InFlight
  <2>2. /\ j.state = "FINALIZING" /\ j.snapshot = Plan(p).snapshot /\ j.from = Plan(p).from
        /\ j.to = Plan(p).to /\ j.install = Plan(p).install /\ j.rollback = Plan(p).rollback
        /\ j.restored = Plan(p).restored
    BY <1>2 DEF Journals
  <2> HIDE DEF j
  <2>3. Plan(p).install = "SUCCEEDED" /\ Plan(p).rollback = None
    BY <1>2, <1>3 DEF Sound, Evidenced
  <2>4. Fits(p, j)
    <3>1. Evidenced(j)
      BY <2>2, <2>3 DEF Evidenced
    <3>2. j.state \in Allowed[Plan(p).state]
      BY <1>3, <2>2, AllowedIs
    <3>3. Sound(j)
      BY <1>2, <2>2, <3>1 DEF Sound
    <3>4. Concluded(j)
      BY <1>3, <2>2, <2>3 DEF Concluded, Outcome
    <3> QED BY <2>1, <2>2, <3>1, <3>2, <3>3, <3>4 DEF Fits, Legal
  <2>5. ASSUME Goto(p, "freeing"), journal' = [journal EXCEPT ![call[p].update] = j]
        PROVE  ReliesOn(p)'
    <3>1. /\ Plan(p)' = j
          /\ call'[p].at = "freeing" /\ call'[p].update = call[p].update
      BY <1>2, <1>5, <2>5, ReadsWhatItWrote
    <3>2. PrepareRelies(p)' /\ DataRelies(p)'
      BY <3>1 DEF PrepareRelies, DataRelies, Recording, Preparing
    <3>3. StateRelies(p)'
      BY <1>3, <1>4, <2>2, <3>1 DEF StateRelies
    <3> QED BY <3>2, <3>3 DEF ReliesOn
  <2> QED BY <1>1, <1>4, <1>5, <1>6, <2>4, <2>5, Writes
<1>7. CASE \/ Goto(p, "compensating") /\ Works /\ UNCHANGED journal
           \/ Goto(p, "guarded") /\ Fails /\ UNCHANGED journal
  <2>1. /\ call'[p].at \in {"compensating", "guarded"} /\ call'[p].update = call[p].update
        /\ call'[p].receipt = call[p].receipt /\ \A q \in Process \ {p} : call'[q] = call[q]
    BY <1>2, <1>5, <1>7, GotoFields
  <2>2. Plan(p)' = Plan(p) /\ UNCHANGED shared
    BY <1>4, <1>7, <2>1 DEF Plan, shared
  <2>3. PrepareRelies(p)'
    BY <2>1 DEF PrepareRelies, Recording, Preparing
  <2>4. StateRelies(p)'
    BY <1>3, <1>4, <2>1, <2>2 DEF StateRelies
  <2>5. DataRelies(p)'
    BY <1>3, <1>4, <2>1, <2>2 DEF DataRelies
  <2>6. ioFailures' \in Nat /\ ioFailures' >= ioFailures
    BY <1>2, <1>7, CountDoes
  <2> QED BY <1>1, <1>4, <2>1, <2>2, <2>3, <2>4, <2>5, <2>6, MovesOn DEF ReliesOn
<1> QED BY <1>6, <1>7 DEF Validate

\* The compensation is on record before the driver rolls back.
LEMMA CompensateStep ==
  ASSUME UInv, NEW p \in Process, Compensate(p)
  PROVE  ProfileInv'
<1> USE DEF At
<1> DEFINE r == call[p].receipt
           j == [Plan(p) EXCEPT !.state = "ROLLING_BACK", !.install = r]
<1>1. call[p].at = "compensating" /\ call[p].at \in Applying /\ call[p].at \in Coordinates
  BY DEF Compensate, Applying, Coordinates
<1>2. /\ Plan(p) \in Journals /\ Sound(Plan(p)) /\ Recorded(call[p].update)
      /\ call[p].update \in Update /\ Plan(p) = journal[call[p].update] /\ Plan(p) # None
      /\ ReliesOn(p) /\ TypeOK
  BY <1>1, OnRecord
<1>3. /\ Plan(p).state \in {"INSTALLING", "VALIDATING"} /\ call[p].update \in bound
      /\ db.edits = Plan(p).snapshot.edits /\ r \in {"SUCCEEDED", "FAILED_CHANGED"}
  BY <1>1, <1>2 DEF ReliesOn, StateRelies, DataRelies
<1>4. Plan(p).rollback = None /\ ~Plan(p).restored /\ performed[call[p].update]["ROLLBACK"] = 0
  BY <1>2, <1>3 DEF Sound, Evidenced, Recorded
<1>5. j \in Journals
  BY <1>2, <1>3, JournalsWith DEF States, InFlight, Installs
<1>6. /\ j.state = "ROLLING_BACK" /\ j.snapshot = Plan(p).snapshot /\ j.from = Plan(p).from
      /\ j.install = r /\ j.rollback = None /\ j.restored = FALSE
  BY <1>2, <1>4 DEF Journals
<1>7. /\ Transition(p, j, "rollingBack", "handling")
      /\ UNCHANGED <<bound, slot, package, performed, db>>
      /\ UNCHANGED <<profileLease, runtime, holdDied>>
  BY DEF Compensate, leases, session, ghosts
<1>8. "rollingBack" \in Labels \ {"idle", "dropping"}
  BY DEF Labels
<1> HIDE DEF j
<1>9. Fits(p, j)
  <2>1. Evidenced(j)
    BY <1>3, <1>6 DEF Evidenced, Changed
  <2>2. j.state \in Allowed[Plan(p).state]
    BY <1>3, <1>6, AllowedIs
  <2>3. Sound(j)
    BY <1>2, <1>6, <2>1 DEF Sound
  <2> QED BY <1>5, <1>6, <2>1, <2>2, <2>3 DEF Fits, Legal
<1>10. ASSUME Goto(p, "rollingBack"), journal' = [journal EXCEPT ![call[p].update] = j]
       PROVE  ReliesOn(p)'
  <2>1. /\ Plan(p)' = j
        /\ call'[p].at = "rollingBack" /\ call'[p].update = call[p].update
    BY <1>2, <1>8, <1>10, ReadsWhatItWrote
  <2>2. PrepareRelies(p)'
    BY <2>1 DEF PrepareRelies, Recording, Preparing
  <2>3. StateRelies(p)'
    BY <1>3, <1>6, <1>7, <2>1 DEF StateRelies
  <2>4. DataRelies(p)'
    BY <1>3, <1>4, <1>6, <1>7, <2>1 DEF DataRelies
  <2> QED BY <2>2, <2>3, <2>4 DEF ReliesOn
<1> QED BY <1>1, <1>7, <1>8, <1>9, <1>10, Writes

\* The old database is restored only over the old package.
LEMMA RolledBackStep ==
  ASSUME UInv, NEW p \in Process, RolledBack(p)
  PROVE  ProfileInv'
<1> USE DEF At
<1> DEFINE r == call[p].receipt
           j == [Plan(p) EXCEPT !.rollback = r]
           k == [j EXCEPT !.state = "RESTORING"]
<1>1. call[p].at = "rolledBack" /\ call[p].at \in Applying /\ call[p].at \in Coordinates
  BY DEF RolledBack, Applying, Coordinates
<1>2. /\ Plan(p) \in Journals /\ Sound(Plan(p)) /\ Recorded(call[p].update)
      /\ call[p].update \in Update /\ Plan(p) = journal[call[p].update] /\ Plan(p) # None
      /\ ReliesOn(p) /\ TypeOK
  BY <1>1, OnRecord
<1>3. /\ Plan(p).state = "ROLLING_BACK" /\ call[p].update \in bound
      /\ db.edits = Plan(p).snapshot.edits /\ r \in Rollbacks \cup {None}
      /\ r = "SUCCEEDED" => package = Plan(p).from
  BY <1>1, <1>2 DEF ReliesOn, StateRelies, DataRelies
<1>4. Changed(Plan(p)) /\ ~Plan(p).restored
  BY <1>2, <1>3 DEF Sound, Evidenced
<1>5. j \in Journals
  BY <1>2, <1>3, JournalsWith DEF States
<1>6. /\ j.snapshot = Plan(p).snapshot /\ j.from = Plan(p).from
      /\ j.install = Plan(p).install /\ j.rollback = r /\ j.restored = FALSE
  BY <1>2, <1>4 DEF Journals
<1>7. /\ UNCHANGED <<bound, slot, package, performed, db>>
      /\ UNCHANGED <<profileLease, runtime, holdDied>>
  BY DEF RolledBack, leases, session, ghosts
<1>8. {"finishing", "restoring"} \subseteq Labels \ {"idle", "dropping"}
  BY DEF Labels
<1>9. IF r = "SUCCEEDED" THEN Transition(p, k, "restoring", "handling")
      ELSE Transition(p, Recovery(j), "finishing", "handling")
  BY DEF RolledBack
<1> HIDE DEF j
<1>10. CASE r # "SUCCEEDED"
  <2>1. Fits(p, Recovery(j))
    BY <1>1, <1>4, <1>5, <1>6, RecoveryFits DEF Changed
  <2> QED BY <1>1, <1>7, <1>8, <1>9, <1>10, <2>1, Writes
<1>11. CASE r = "SUCCEEDED"
  <2>1. k \in Journals
    BY <1>5, JournalsWith DEF States, InFlight
  <2>2. /\ k.state = "RESTORING" /\ k.snapshot = Plan(p).snapshot /\ k.from = Plan(p).from
        /\ k.install = Plan(p).install /\ k.rollback = r /\ k.restored = FALSE
    BY <1>5, <1>6 DEF Journals
  <2> HIDE DEF k
  <2>3. Fits(p, k)
    <3>1. Evidenced(k)
      BY <1>4, <1>11, <2>2 DEF Evidenced, Changed
    <3>2. k.state \in Allowed[Plan(p).state]
      BY <1>3, <2>2, AllowedIs
    <3>3. Sound(k)
      BY <1>2, <1>4, <2>2, <3>1 DEF Sound, Changed
    <3> QED BY <2>1, <2>2, <3>1, <3>2, <3>3 DEF Fits, Legal
  <2>4. ASSUME Goto(p, "restoring"), journal' = [journal EXCEPT ![call[p].update] = k]
        PROVE  ReliesOn(p)'
    <3>1. /\ Plan(p)' = k
          /\ call'[p].at = "restoring" /\ call'[p].update = call[p].update
      BY <1>2, <1>8, <2>4, ReadsWhatItWrote
    <3>2. PrepareRelies(p)'
      BY <3>1 DEF PrepareRelies, Recording, Preparing
    <3>3. StateRelies(p)'
      BY <1>3, <1>7, <2>2, <3>1 DEF StateRelies
    <3>4. DataRelies(p)'
      BY <1>3, <1>7, <1>11, <2>2, <3>1 DEF DataRelies
    <3> QED BY <3>2, <3>3, <3>4 DEF ReliesOn
  <2> QED BY <1>1, <1>7, <1>8, <1>9, <1>11, <2>3, <2>4, Writes
<1> QED BY <1>10, <1>11

\* A restored profile is finalized as rolled back.
LEMMA RestoredStep ==
  ASSUME UInv, NEW p \in Process, Restored(p)
  PROVE  ProfileInv'
<1> USE DEF At
<1> DEFINE j == [Plan(p) EXCEPT !.state = "FINALIZING", !.restored = TRUE]
<1>1. call[p].at = "restored" /\ call[p].at \in Applying /\ call[p].at \in Coordinates
  BY DEF Restored, Applying, Coordinates
<1>2. /\ Plan(p) \in Journals /\ Sound(Plan(p)) /\ Recorded(call[p].update)
      /\ call[p].update \in Update /\ Plan(p) = journal[call[p].update] /\ Plan(p) # None
      /\ ReliesOn(p) /\ TypeOK
  BY <1>1, OnRecord
<1>3. /\ Plan(p).state = "RESTORING" /\ call[p].update \in bound
      /\ db = Plan(p).snapshot /\ package = Plan(p).from
  BY <1>1, <1>2 DEF ReliesOn, StateRelies, DataRelies
<1>4. /\ Changed(Plan(p)) /\ Plan(p).rollback = "SUCCEEDED"
      /\ db.schema = SchemaOf[Plan(p).from]
  BY <1>2, <1>3 DEF Sound, Evidenced
<1>5. j \in Journals
  BY <1>2, JournalsWith DEF States, InFlight
<1>6. /\ j.state = "FINALIZING" /\ j.snapshot = Plan(p).snapshot /\ j.from = Plan(p).from
      /\ j.install = Plan(p).install /\ j.rollback = "SUCCEEDED" /\ j.restored = TRUE
  BY <1>2, <1>4 DEF Journals
<1>7. /\ Transition(p, j, "freeing", "handling")
      /\ UNCHANGED <<bound, slot, package, performed, db>>
      /\ UNCHANGED <<profileLease, runtime, holdDied>>
  BY DEF Restored, leases, session, ghosts
<1>8. "freeing" \in Labels \ {"idle", "dropping"}
  BY DEF Labels
<1> HIDE DEF j
<1>9. Fits(p, j)
  <2>1. Evidenced(j)
    BY <1>4, <1>6 DEF Evidenced, Compensated, Changed
  <2>2. j.state \in Allowed[Plan(p).state]
    BY <1>3, <1>6, AllowedIs
  <2>3. "SUCCEEDED" # None
    BY NoneAssumption DEF Rollbacks
  <2>4. Sound(j)
    BY <1>2, <1>4, <1>6, <2>1, <2>3 DEF Sound, Changed
  <2>5. Concluded(j)
    BY <1>3, <1>4, <1>6, <2>3 DEF Concluded, Outcome, Changed
  <2> QED BY <1>5, <1>6, <2>1, <2>2, <2>4, <2>5 DEF Fits, Legal
<1>10. ASSUME Goto(p, "freeing"), journal' = [journal EXCEPT ![call[p].update] = j]
       PROVE  ReliesOn(p)'
  <2>1. /\ Plan(p)' = j
        /\ call'[p].at = "freeing" /\ call'[p].update = call[p].update
    BY <1>2, <1>8, <1>10, ReadsWhatItWrote
  <2>2. PrepareRelies(p)' /\ DataRelies(p)'
    BY <2>1 DEF PrepareRelies, DataRelies, Recording, Preparing
  <2>3. StateRelies(p)'
    BY <1>3, <1>6, <1>7, <2>1 DEF StateRelies
  <2> QED BY <2>2, <2>3 DEF ReliesOn
<1> QED BY <1>1, <1>7, <1>8, <1>9, <1>10, Writes

\* The last word on an update is what its evidence says.
LEMMA TerminateStep ==
  ASSUME UInv, NEW p \in Process, Terminate(p)
  PROVE  ProfileInv'
<1> USE DEF At
<1> DEFINE s == Outcome(Plan(p))
           j == [Plan(p) EXCEPT !.state = s]
<1>1. call[p].at = "terminating" /\ call[p].at \in Applying
  BY DEF Terminate, Applying
<1>2. /\ Plan(p) \in Journals /\ Sound(Plan(p)) /\ ReliesOn(p) /\ TypeOK
  BY <1>1, OnRecord
<1>3. Plan(p).state = "FINALIZING"
  BY <1>1, <1>2 DEF ReliesOn, StateRelies
<1>4. s \in Settled
  BY DEF Outcome, Settled
<1>5. j \in Journals
  BY <1>2, <1>4, JournalsWith DEF States, Terminal
<1>6. /\ j.state = s /\ j.snapshot = Plan(p).snapshot /\ j.from = Plan(p).from
      /\ j.install = Plan(p).install /\ j.rollback = Plan(p).rollback
      /\ j.restored = Plan(p).restored
  BY <1>2 DEF Journals
<1>7. /\ Transition(p, j, "idle", "handling")
      /\ UNCHANGED <<bound, slot, package, performed, db>>
      /\ UNCHANGED <<profileLease, runtime, holdDied>>
  BY DEF Terminate, leases, session, ghosts
<1> HIDE DEF j
<1>8. Fits(p, j)
  <2>1. Evidenced(j)
    <3>1. \/ Plan(p).install = "FAILED_SAFE"
          \/ Plan(p).install = "SUCCEEDED" /\ Plan(p).rollback = None
          \/ Compensated(Plan(p))
      BY <1>2, <1>3 DEF Sound, Evidenced
    <3>2. "SUCCEEDED" # None
      BY NoneAssumption DEF Rollbacks
    <3>3. CASE Plan(p).install = "FAILED_SAFE"
      BY <1>2, <1>6, <3>3 DEF Sound, Outcome, Evidenced
    <3>4. CASE Plan(p).install = "SUCCEEDED" /\ Plan(p).rollback = None
      BY <1>2, <1>6, <3>4 DEF Sound, Outcome, Evidenced
    <3>5. CASE Compensated(Plan(p))
      BY <1>2, <1>6, <3>2, <3>5 DEF Sound, Outcome, Evidenced, Compensated, Changed
    <3> QED BY <3>1, <3>3, <3>4, <3>5
  <2>2. j.state \in Allowed[Plan(p).state] /\ j.state # "FINALIZING"
    BY <1>3, <1>4, <1>6, AllowedIs DEF Terminal, Settled
  <2>3. Sound(j)
    BY <1>2, <1>6, <2>1 DEF Sound
  <2> QED BY <1>5, <1>6, <2>1, <2>2, <2>3 DEF Fits, Legal
<1>9. "idle" \in Labels \ {"dropping"}
  BY DEF Labels
<1> QED BY <1>1, <1>3, <1>7, <1>8, <1>9, Writes

-----------------------------------------------------------------------------
(* The steps that change the package or the database *)

\* What is on record of every update stays so when package and database change under an
\* update whose journal says that they may.
LEMMA RecordedChanges ==
  ASSUME UInv, NEW p \in Process, call[p].at \in Applying,
         Plan(p).state \notin {"PREPARED", "FINALIZING"},
         NEW u, u = call[p].update,
         UNCHANGED <<journal, bound, slot>>,
         \A v \in Update \ {u} : performed'[v] = performed[v],
         performed'[u]["INSTALL"] <= 1, performed'[u]["ROLLBACK"] <= 1,
         Plan(p).state \in {"INSTALLING", "VALIDATING"} => performed'[u]["ROLLBACK"] = 0
  PROVE  OneUnsettled' /\ AllRecorded' /\ SnapshotIsKept' /\ TornRecorded'
<1>1. /\ u \in Update /\ Plan(p) = journal[u] /\ Plan(p) # None
      /\ StateOf(u) = Plan(p).state /\ Plan(p).state \in {"PREPARED"} \cup InFlight /\ ~Done(u)
  BY UnderWay
<1>2. \A v \in Update : StateOf(v)' = StateOf(v)
  BY DEF StateOf
<1>3. OneUnsettled' /\ SnapshotIsKept'
  BY <1>2 DEF UInv, ProfileInv, OneUnsettled, SnapshotIsKept, Done
<1>4. AllRecorded'
  <2>1. Recorded(u)'
    <3>1. Recorded(u)
      BY <1>1 DEF UInv, ProfileInv, AllRecorded
    <3> QED BY <1>1, <3>1 DEF Recorded
  <2>2. ASSUME NEW v \in Update \ {u}
        PROVE  Recorded(v)'
    <3>1. Recorded(v) /\ Done(v)
      BY <1>1 DEF UInv, ProfileInv, AllRecorded, OneUnsettled
    <3>2. journal[v] # None => journal[v].state \notin {"PREPARED", "FINALIZING"}
      <4>1. None \notin {"PREPARED", "FINALIZING"}
        BY NoneAssumption DEF States, InFlight
      <4> QED BY <3>1, <4>1 DEF Done, StateOf, Settled
    <3> QED BY <3>1, <3>2 DEF Recorded
  <2> QED BY <2>1, <2>2 DEF AllRecorded
<1>5. TornRecorded'
  BY <1>1, <1>2 DEF TornRecorded, Unfinished
<1> QED BY <1>3, <1>4, <1>5

\* A step of the holder that changes package or database.
LEMMA Changes ==
  ASSUME UInv, NEW p \in Process, call[p].at \in Applying, call[p].at \in Holds,
         Plan(p).state \notin {"PREPARED", "FINALIZING"},
         NEW u, u = call[p].update,
         UNCHANGED <<journal, bound, slot, profileLease, runtime, ioFailures>>,
         \A v \in Update \ {u} : performed'[v] = performed[v],
         performed'[u]["INSTALL"] <= 1, performed'[u]["ROLLBACK"] <= 1,
         Plan(p).state \in {"INSTALLING", "VALIDATING"} => performed'[u]["ROLLBACK"] = 0,
         \A q \in Process \ {p} : call'[q] = call[q],
         call'[p].at # "dropping", ReliesOn(p)'
  PROVE  ProfileInv'
<1>1. OneUnsettled' /\ AllRecorded' /\ SnapshotIsKept' /\ TornRecorded'
  BY RecordedChanges
<1>2. Engaged(p) /\ \A q \in Process \ {p} : ~Engaged(q)
  BY EngagedAlone DEF Engaged
<1>3. OneEngaged'
  BY <1>2, StillOneEngaged
<1>4. ioFailures' \in Nat /\ ioFailures' >= ioFailures
  BY DEF UInv, TypeOK
<1>5. Relies'
  BY <1>2, <1>4, OthersRely DEF Relies
<1>6. TornHeld'
  <2>1. profileLease = p /\ runtime[p] = "STOPPED"
    BY DEF UInv, LeaseInv, Leased
  <2> QED BY <2>1 DEF TornHeld
<1>7. DropsWhole'
  <2>1. Drops(p)'
    BY DEF Drops
  <2> QED BY <1>4, <2>1, OthersDrop DEF DropsWhole
<1> QED BY <1>1, <1>3, <1>5, <1>6, <1>7 DEF ProfileInv

\* The driver is asked once to install and once to roll back.
LEMMA DriverStep ==
  ASSUME UInv, NEW p \in Process,
         \/ \E r \in Installs \cup {None} : Install(p, r)
         \/ \E r \in Rollbacks \cup {None} : Rollback(p, r)
  PROVE  ProfileInv'
<1> USE DEF At
<1>1. TypeOK /\ call[p] \in Calls
  BY DEF UInv, TypeOK
<1>2. PICK u : u = call[p].update
  OBVIOUS
<1>3. ASSUME NEW r \in Installs \cup {None}, Install(p, r)
      PROVE  ProfileInv'
  <2>1. call[p].at = "installing" /\ call[p].at \in Applying /\ call[p].at \in Holds
    BY <1>3 DEF Install, Applying, Holds
  <2>2. /\ Plan(p) \in Journals /\ Recorded(u) /\ u \in Update
        /\ Plan(p) = journal[u] /\ Plan(p) # None /\ ReliesOn(p)
    BY <1>2, <2>1, OnRecord
  <2>3. /\ Plan(p).state = "INSTALLING" /\ u \in bound /\ db = Plan(p).snapshot
        /\ package = Plan(p).from /\ performed[u]["INSTALL"] = 0 /\ performed[u]["ROLLBACK"] = 0
    BY <1>2, <2>1, <2>2 DEF ReliesOn, StateRelies, DataRelies, Recorded
  <2> DEFINE me == [call[p] EXCEPT !.at = "installed", !.receipt = r]
  <2>4. me \in Calls
    BY <1>1, CallsOwning DEF Labels
  <2>5. me.at = "installed" /\ me.receipt = r /\ me.update = u
    BY <1>1, <1>2 DEF Calls
  <2>6. Continue(p, me)
    BY <1>3 DEF Install
  <2> HIDE DEF me
  <2>7. call'[p] = me /\ \A q \in Process \ {p} : call'[q] = call[q]
    BY <1>1, <2>4, <2>6, ContinueDoes
  <2>8. /\ performed'[u]["INSTALL"] = 1 /\ performed'[u]["ROLLBACK"] = 0
        /\ \A v \in Update \ {u} : performed'[v] = performed[v]
    <3>1. performed' = [performed EXCEPT ![u]["INSTALL"] = @ + 1]
      BY <1>2, <1>3 DEF Install, Counted
    <3>2. performed \in [Update -> [{"INSTALL", "ROLLBACK"} -> Nat]]
      BY <1>1 DEF TypeOK
    <3> QED BY <2>2, <2>3, <3>1, <3>2, CountedDoes
  <2>9. /\ UNCHANGED <<journal, bound, slot, profileLease, runtime, ioFailures, db>>
        /\ package' \in AfterInstall(Plan(p), r)
    BY <1>3 DEF Install, files, leases, session
  <2>10. /\ r = "SUCCEEDED" => package' = Plan(p).to
         /\ r = "FAILED_SAFE" => package' = Plan(p).from
    BY <2>3, <2>9 DEF AfterInstall
  <2>11. Plan(p)' = Plan(p)
    BY <2>2, <2>5, <2>7, <2>9 DEF Plan
  <2>12. PrepareRelies(p)'
    BY <2>5, <2>7 DEF PrepareRelies, Recording, Preparing
  <2>13. StateRelies(p)'
    BY <2>3, <2>5, <2>7, <2>9, <2>11 DEF StateRelies
  <2>14. DataRelies(p)'
    BY <2>3, <2>5, <2>7, <2>9, <2>10, <2>11 DEF DataRelies
  <2> QED BY <1>2, <2>1, <2>3, <2>5, <2>7, <2>8, <2>9, <2>12, <2>13, <2>14, Changes DEF ReliesOn
<1>4. ASSUME NEW r \in Rollbacks \cup {None}, Rollback(p, r)
      PROVE  ProfileInv'
  <2>1. call[p].at = "rollingBack" /\ call[p].at \in Applying /\ call[p].at \in Holds
    BY <1>4 DEF Rollback, Applying, Holds
  <2>2. /\ Plan(p) \in Journals /\ Recorded(u) /\ u \in Update
        /\ Plan(p) = journal[u] /\ Plan(p) # None /\ ReliesOn(p)
    BY <1>2, <2>1, OnRecord
  <2>3. /\ Plan(p).state = "ROLLING_BACK" /\ u \in bound /\ db.edits = Plan(p).snapshot.edits
        /\ performed[u]["INSTALL"] <= 1 /\ performed[u]["ROLLBACK"] = 0
    BY <1>2, <2>1, <2>2 DEF ReliesOn, StateRelies, DataRelies, Recorded
  <2> DEFINE me == [call[p] EXCEPT !.at = "rolledBack", !.receipt = r]
  <2>4. me \in Calls
    BY <1>1, CallsOwning DEF Labels
  <2>5. me.at = "rolledBack" /\ me.receipt = r /\ me.update = u
    BY <1>1, <1>2 DEF Calls
  <2>6. Continue(p, me)
    BY <1>4 DEF Rollback
  <2> HIDE DEF me
  <2>7. call'[p] = me /\ \A q \in Process \ {p} : call'[q] = call[q]
    BY <1>1, <2>4, <2>6, ContinueDoes
  <2>8. /\ performed'[u]["INSTALL"] <= 1 /\ performed'[u]["ROLLBACK"] = 1
        /\ \A v \in Update \ {u} : performed'[v] = performed[v]
    <3>1. performed' = [performed EXCEPT ![u]["ROLLBACK"] = @ + 1]
      BY <1>2, <1>4 DEF Rollback, Counted
    <3>2. performed \in [Update -> [{"INSTALL", "ROLLBACK"} -> Nat]]
      BY <1>1 DEF TypeOK
    <3> QED BY <2>2, <2>3, <3>1, <3>2, CountedDoes
  <2>9. /\ UNCHANGED <<journal, bound, slot, profileLease, runtime, ioFailures, db>>
        /\ package' \in AfterRollback(Plan(p), r)
    BY <1>4 DEF Rollback, files, leases, session
  <2>10. r = "SUCCEEDED" => package' = Plan(p).from
    BY <2>9 DEF AfterRollback
  <2>11. Plan(p)' = Plan(p)
    BY <2>2, <2>5, <2>7, <2>9 DEF Plan
  <2>12. PrepareRelies(p)'
    BY <2>5, <2>7 DEF PrepareRelies, Recording, Preparing
  <2>13. StateRelies(p)'
    BY <2>3, <2>5, <2>7, <2>9, <2>11 DEF StateRelies
  <2>14. DataRelies(p)'
    BY <2>3, <2>5, <2>7, <2>9, <2>10, <2>11 DEF DataRelies
  <2> QED BY <1>2, <2>1, <2>3, <2>5, <2>7, <2>8, <2>9, <2>12, <2>13, <2>14, Changes DEF ReliesOn
<1> QED BY <1>3, <1>4

\* The migration and the restore change the database under the hold, and no edit of it.
LEMMA DatabaseStep ==
  ASSUME UInv, NEW p \in Process, Migrate(p) \/ Restore(p)
  PROVE  ProfileInv' /\ db'.edits = db.edits
<1> USE DEF At
<1>1. PICK u : u = call[p].update
  OBVIOUS
<1>2. /\ call[p].at \in {"migrating", "restoring"}
      /\ call[p].at \in Applying /\ call[p].at \in Holds
  BY DEF Migrate, Restore, Applying, Holds
<1>3. /\ Plan(p) \in Journals /\ Recorded(u) /\ u \in Update /\ TypeOK
      /\ Plan(p) = journal[u] /\ Plan(p) # None /\ ReliesOn(p)
  BY <1>1, <1>2, OnRecord
<1>4. /\ Plan(p).state = IF call[p].at = "migrating" THEN "VALIDATING" ELSE "RESTORING"
      /\ u \in bound /\ db.edits = Plan(p).snapshot.edits
  BY <1>1, <1>2, <1>3 DEF ReliesOn, StateRelies, DataRelies
<1>5. /\ UNCHANGED <<journal, bound, slot, package, performed>>
      /\ UNCHANGED <<profileLease, runtime, ioFailures>>
  BY DEF Migrate, Restore, files, leases, session, ghosts
<1>6. profileLease = p
  BY <1>2 DEF UInv, LeaseInv, Leased
<1>7. /\ performed'[u]["INSTALL"] <= 1 /\ performed'[u]["ROLLBACK"] <= 1
      /\ Plan(p).state \in {"INSTALLING", "VALIDATING"} => performed'[u]["ROLLBACK"] = 0
      /\ \A v \in Update \ {u} : performed'[v] = performed[v]
  BY <1>3, <1>5 DEF Recorded
<1>8. {"validating", "compensating", "guarded", "restored", "unrestored"}
         \subseteq Labels \ {"idle"}
  BY DEF Labels
<1>9. db \in Contents /\ Plan(p).snapshot \in Contents
  BY <1>3 DEF TypeOK, Journals
<1>10. CASE Migrate(p)
  <2> DEFINE m == [db EXCEPT !.schema = SchemaOf[Plan(p).to]]
  <2>1. /\ call[p].at = "migrating" /\ db = Plan(p).snapshot
        /\ package = Plan(p).to /\ call[p].receipt = "SUCCEEDED"
    BY <1>3, <1>10 DEF Migrate, ReliesOn, DataRelies
  <2>2. m.schema = SchemaOf[Plan(p).to] /\ m.edits = db.edits
    BY <1>9 DEF Contents
  <2>3. PICK to \in {"validating", "compensating", "guarded"} :
           /\ Goto(p, to) /\ db' \in {db, m, Plan(p).snapshot}
           /\ to = "validating" => db'.schema = SchemaOf[Plan(p).to]
    <3>1. CASE /\ Goto(p, "compensating") /\ db' \in {db, slot}
               /\ db' = slot => slot = Plan(p).snapshot
      BY <3>1
    <3>2. CASE Goto(p, "validating") /\ db' = db /\ SchemaOf[Plan(p).to] = db.schema
      BY <3>2
    <3>3. CASE (Goto(p, "validating") \/ Goto(p, "guarded")) /\ db' = m
      BY <2>2, <3>3
    <3> HIDE DEF m
    <3> QED BY <1>6, <1>10, <3>1, <3>2, <3>3 DEF Migrate, m
  <2>4. db'.edits = db.edits
    BY <2>1, <2>2, <2>3
  <2>5. /\ call'[p].at = to /\ call'[p].update = u /\ call'[p].receipt = "SUCCEEDED"
        /\ \A q \in Process \ {p} : call'[q] = call[q]
    BY <1>1, <1>3, <1>8, <2>1, <2>3, GotoFields
  <2>6. Plan(p)' = Plan(p)
    BY <1>3, <1>5, <2>5 DEF Plan
  <2> HIDE DEF m
  <2>7. PrepareRelies(p)'
    BY <2>3, <2>5 DEF PrepareRelies, Recording, Preparing
  <2>8. StateRelies(p)'
    BY <1>4, <1>5, <2>1, <2>3, <2>5, <2>6 DEF StateRelies
  <2>9. DataRelies(p)'
    BY <1>4, <1>5, <2>1, <2>3, <2>4, <2>5, <2>6 DEF DataRelies
  <2> QED BY <1>1, <1>2, <1>4, <1>5, <1>7, <2>3, <2>4, <2>5, <2>7, <2>8, <2>9, Changes DEF ReliesOn
<1>11. CASE Restore(p)
  <2>1. call[p].at = "restoring" /\ package = Plan(p).from
    BY <1>3, <1>11 DEF Restore, ReliesOn, DataRelies
  <2>2. PICK to \in {"restored", "unrestored"} :
           /\ Goto(p, to) /\ db' \in {db, Plan(p).snapshot}
           /\ to = "restored" => db' = Plan(p).snapshot
    BY <1>11 DEF Restore
  <2>3. db'.edits = db.edits
    BY <1>4, <2>2
  <2>4. /\ call'[p].at = to /\ call'[p].update = u
        /\ \A q \in Process \ {p} : call'[q] = call[q]
    BY <1>1, <1>3, <1>8, <2>2, GotoFields
  <2>5. Plan(p)' = Plan(p)
    BY <1>3, <1>5, <2>4 DEF Plan
  <2>6. PrepareRelies(p)'
    BY <2>2, <2>4 DEF PrepareRelies, Recording, Preparing
  <2>7. StateRelies(p)'
    BY <1>4, <1>5, <2>1, <2>2, <2>4, <2>5 DEF StateRelies
  <2>8. DataRelies(p)'
    BY <1>4, <1>5, <2>1, <2>2, <2>3, <2>4, <2>5 DEF DataRelies
  <2> QED BY <1>1, <1>2, <1>4, <1>5, <1>7, <2>2, <2>3, <2>4, <2>6, <2>7, <2>8, Changes DEF ReliesOn
<1> QED BY <1>10, <1>11

-----------------------------------------------------------------------------
(* The snapshot, the new journal and its binding *)

\* The slot is overwritten only when no update needs what it holds.
LEMMA SnapshotStep ==
  ASSUME UInv, NEW p \in Process, PrepareSnapshots(p)
  PROVE  ProfileInv'
<1> USE DEF At
<1>1. TypeOK /\ ReliesOn(p) /\ call[p] \in Calls
  BY DEF UInv, ProfileInv, Relies, TypeOK
<1>2. call[p].at = "snapshotting" /\ call[p].at \in Preparing /\ call[p].update = None
  BY <1>1 DEF PrepareSnapshots, Preparing, ReliesOn, PrepareRelies
<1>3. Whole /\ Blocking = {} /\ \A u \in Update : Done(u)
  BY <1>2, PreparingWhole
<1>4. /\ UNCHANGED <<journal, bound, package, performed, db>>
      /\ UNCHANGED <<profileLease, runtime, holdDied>>
  BY DEF PrepareSnapshots, files, leases, session, ghosts
<1>5. /\ Whole' /\ Blocking' = {} /\ \A u \in Update : StateOf(u)' = StateOf(u)
  BY <1>3, <1>4 DEF Whole, Blocking, StateOf
<1>6. ioFailures' \in Nat /\ ioFailures' >= ioFailures
  <2>1. Works \/ Fails
    BY DEF PrepareSnapshots
  <2> QED BY <1>1, <2>1, CountDoes
<1>7. CASE Goto(p, "releasing") /\ UNCHANGED slot
  <2>1. /\ call'[p].at = "releasing" /\ call'[p].update = None
        /\ \A q \in Process \ {p} : call'[q] = call[q]
    BY <1>1, <1>2, <1>7, GotoFields DEF Labels
  <2>2. Drops(p)' /\ TornHeld' /\ UNCHANGED shared
    BY <1>4, <1>5, <1>7, <2>1 DEF Drops, TornHeld, shared
  <2> QED BY <1>6, <2>1, <2>2, Rests
<1>8. CASE slot' = db /\ Continue(p, [call[p] EXCEPT !.at = "quitting", !.snapshot = db])
  <2> DEFINE me == [call[p] EXCEPT !.at = "quitting", !.snapshot = db]
  <2>1. me \in Calls
    BY <1>1, CallsWith DEF Labels, TypeOK
  <2>2. me.at = "quitting" /\ me.snapshot = db /\ me.update = None
    BY <1>1, <1>2 DEF Calls
  <2> HIDE DEF me
  <2>3. call'[p] = me /\ \A q \in Process \ {p} : call'[q] = call[q]
    BY <1>1, <1>8, <2>1, ContinueDoes DEF me
  <2>4. PrepareRelies(p)'
    <3>1. db # None
      BY <1>1, NoneAssumption DEF TypeOK
    <3> QED BY <1>4, <1>5, <1>8, <2>2, <2>3, <3>1 DEF PrepareRelies, Recording
  <2>5. StateRelies(p)' /\ DataRelies(p)' /\ Drops(p)'
    BY <2>2, <2>3 DEF StateRelies, DataRelies, Drops, Applying
  <2>6. Engaged(p) /\ \A q \in Process \ {p} : ~Engaged(q)
    BY <1>2, EngagedAlone DEF Engaged
  <2>7. OneEngaged'
    BY <2>3, <2>6, StillOneEngaged
  <2>8. Relies'
    BY <1>4, <1>6, <2>3, <2>4, <2>5, <2>6, OthersRely DEF Relies, ReliesOn
  <2>9. OneUnsettled' /\ TornRecorded' /\ TornHeld'
    BY <1>3, <1>5 DEF OneUnsettled, Done, TornRecorded, TornHeld
  <2>10. AllRecorded'
    BY <1>4 DEF UInv, ProfileInv, AllRecorded, Recorded, Concluded
  <2>11. SnapshotIsKept'
    <3>1. \A s \in {"PREPARED"} \cup (InFlight \ {"FINALIZING"}) : s \notin Settled \cup {None}
      BY NoneAssumption DEF InFlight, Settled, States
    <3> QED BY <1>3, <1>5, <3>1 DEF SnapshotIsKept, Done
  <2>12. DropsWhole'
    BY <1>5 DEF DropsWhole, Drops
  <2> QED BY <2>7, <2>8, <2>9, <2>10, <2>11, <2>12 DEF ProfileInv
<1> QED BY <1>7, <1>8 DEF PrepareSnapshots

\* A new journal says what is so: the release that is installed, its schema and the snapshot.
LEMMA RecordStep ==
  ASSUME UInv, NEW p \in Process, NEW u \in Update, NEW from \in Release, NEW to \in Release,
         PrepareRecords(p, u, from, to)
  PROVE  ProfileInv'
<1> USE DEF At
<1>1. TypeOK /\ ReliesOn(p) /\ call[p] \in Calls /\ Recorded(u)
  BY DEF UInv, ProfileInv, Relies, TypeOK, AllRecorded
<1>2. /\ call[p].at = "recording" /\ call[p].at \in Preparing /\ call[p].update = None
      /\ call[p].snapshot # None /\ slot = call[p].snapshot
      /\ call[p].snapshot.schema = db.schema /\ journal[u] = None
  BY <1>1 DEF PrepareRecords, Preparing, ReliesOn, PrepareRelies
<1>3. Whole /\ \A v \in Update : Done(v)
  BY <1>2, PreparingWhole
<1>4. /\ UNCHANGED <<bound, slot, package, performed, db>>
      /\ UNCHANGED <<profileLease, runtime, holdDied>>
  BY DEF PrepareRecords, leases, session, ghosts
<1>5. Whole'
  BY <1>3, <1>4 DEF Whole
<1>6. ioFailures' \in Nat /\ ioFailures' >= ioFailures
  <2>1. Works \/ Fails
    BY DEF PrepareRecords
  <2> QED BY <1>1, <2>1, CountDoes
<1>7. CASE Goto(p, "releasing") /\ UNCHANGED journal
  <2>1. /\ call'[p].at = "releasing" /\ call'[p].update = None
        /\ \A q \in Process \ {p} : call'[q] = call[q]
    BY <1>1, <1>2, <1>7, GotoFields DEF Labels
  <2>2. Drops(p)' /\ TornHeld' /\ UNCHANGED shared
    BY <1>4, <1>5, <1>7, <2>1 DEF Drops, TornHeld, shared
  <2> QED BY <1>6, <2>1, <2>2, Rests
<1> DEFINE j == [state |-> "PREPARED", from |-> from, to |-> to, snapshot |-> call[p].snapshot,
                 install |-> None, rollback |-> None, restored |-> FALSE]
           me == [call[p] EXCEPT !.at = "releasing", !.update = u, !.snapshot = None]
<1>8. CASE journal' = [journal EXCEPT ![u] = j] /\ Continue(p, me)
  <2>1. me \in Calls
    BY <1>1, CallsWith DEF Labels
  <2>2. me.at = "releasing" /\ me.update = u
    BY <1>1 DEF Calls
  <2>3. /\ j.state = "PREPARED" /\ j.from = from /\ j.snapshot = call[p].snapshot
        /\ j.install = None /\ j.rollback = None /\ j.restored = FALSE
    OBVIOUS
  <2>4. j # None
    <3>1. call[p].snapshot \in Contents
      BY <1>1, <1>2 DEF Calls
    <3>2. j \in Journals
      BY <3>1 DEF Journals, States
    <3> QED BY <3>2, NoneAssumption
  <2> HIDE DEF j, me
  <2>5. call'[p] = me /\ \A q \in Process \ {p} : call'[q] = call[q]
    BY <1>1, <1>8, <2>1, ContinueDoes
  <2>6. journal'[u] = j /\ \A v \in Update \ {u} : journal'[v] = journal[v]
    BY <1>1, <1>8 DEF TypeOK
  <2>7. /\ StateOf(u)' = "PREPARED"
        /\ \A v \in Update \ {u} : StateOf(v)' = StateOf(v)
    BY <2>3, <2>4, <2>6 DEF StateOf
  <2>8. package = from /\ db.schema = SchemaOf[from]
    BY <1>3, UpdateAssumption DEF PrepareRecords, Whole
  <2>9. Engaged(p) /\ \A q \in Process \ {p} : ~Engaged(q)
    BY <1>2, EngagedAlone DEF Engaged
  <2>10. OneEngaged'
    BY <2>5, <2>9, StillOneEngaged
  <2>11. ReliesOn(p)'
    <3>1. u \notin bound
      BY <1>1, <1>2 DEF Recorded
    <3>2. PrepareRelies(p)'
      BY <1>4, <2>2, <2>5, <2>7, <3>1 DEF PrepareRelies, Recording, Preparing
    <3>3. StateRelies(p)' /\ DataRelies(p)'
      BY <2>2, <2>5 DEF StateRelies, DataRelies, Applying
    <3> QED BY <3>2, <3>3 DEF ReliesOn
  <2>12. Relies'
    BY <1>4, <1>6, <2>5, <2>9, <2>11, OthersRely DEF Relies
  <2>13. OneUnsettled'
    BY <1>3, <2>7 DEF OneUnsettled, Done
  <2>14. AllRecorded'
    <3>1. Recorded(u)'
      <4>1. Sound(j)
        BY <1>2, <2>3, <2>8 DEF Sound, Evidenced
      <4> QED BY <1>1, <1>2, <1>4, <2>3, <2>4, <2>6, <2>8, <4>1 DEF Recorded
    <3>2. ASSUME NEW v \in Update \ {u}
          PROVE  Recorded(v)'
      <4>1. Recorded(v)
        BY DEF UInv, ProfileInv, AllRecorded
      <4> QED BY <1>4, <2>6, <4>1 DEF Recorded, Concluded
    <3> QED BY <3>1, <3>2 DEF AllRecorded
  <2>15. SnapshotIsKept'
    <3>1. SnapshotIsKept
      BY DEF UInv, ProfileInv
    <3> QED BY <1>2, <1>4, <2>3, <2>6, <2>7, <3>1 DEF SnapshotIsKept
  <2>16. TornRecorded' /\ TornHeld' /\ DropsWhole'
    BY <1>5 DEF TornRecorded, TornHeld, DropsWhole, Drops
  <2> QED BY <2>10, <2>12, <2>13, <2>14, <2>15, <2>16 DEF ProfileInv
<1> HIDE DEF j, me
<1> QED BY <1>7, <1>8 DEF PrepareRecords, j, me

\* A bound update is one on record; only then can it be applied.
LEMMA BindStep ==
  ASSUME UInv, NEW p \in Process, PrepareBinds(p)
  PROVE  ProfileInv'
<1> USE DEF At
<1>1. call[p].at = "binding" /\ Recording(p)
  BY DEF PrepareBinds, Recording
<1>2. PICK u : u = call[p].update
  OBVIOUS
<1>3. /\ u \in Update /\ journal[u] # None /\ TypeOK /\ ReliesOn(p)
  BY <1>1, <1>2, OnRecord
<1>4. /\ UNCHANGED <<journal, slot, package, performed, db>>
      /\ UNCHANGED <<profileLease, runtime, holdDied>>
  BY DEF PrepareBinds, leases, session, ghosts
<1>5. Whole' = Whole /\ \A v \in Update : StateOf(v)' = StateOf(v)
  BY <1>4 DEF Whole, StateOf
<1>6. ioFailures' \in Nat /\ ioFailures' >= ioFailures
  <2>1. Works \/ Fails
    BY DEF PrepareBinds
  <2> QED BY <1>3, <2>1, CountDoes
<1>7. TornHeld'
  BY <1>4, <1>5, <1>6, HoldStays
<1>8. Engaged(p) /\ \A q \in Process \ {p} : ~Engaged(q)
  BY <1>1, EngagedAlone DEF Engaged
<1>9. CASE Goto(p, "withdrawing") /\ UNCHANGED bound
  <2>1. /\ call'[p].at = "withdrawing" /\ call'[p].update = call[p].update
        /\ \A q \in Process \ {p} : call'[q] = call[q]
    BY <1>3, <1>9, GotoFields DEF Labels
  <2>2. PrepareRelies(p)'
    BY <1>1, <1>3, <1>4, <1>5, <1>9, <2>1 DEF ReliesOn, PrepareRelies, Preparing, Recording
  <2>3. StateRelies(p)' /\ DataRelies(p)' /\ Drops(p)' /\ UNCHANGED shared
    BY <1>4, <1>9, <2>1 DEF StateRelies, DataRelies, Drops, Applying, shared
  <2> QED BY <1>6, <1>7, <1>8, <2>1, <2>2, <2>3, Aside DEF ReliesOn
<1>10. CASE bound' = bound \cup {u} /\ Return(p)
  <2>1. call'[p] = Idle /\ \A q \in Process \ {p} : call'[q] = call[q]
    BY <1>3, <1>10, ContinueDoes, IdleIsACall DEF Return
  <2>2. call'[p].at = "idle"
    BY <2>1 DEF Idle
  <2>3. OneEngaged'
    BY <1>8, <2>1, StillOneEngaged
  <2>4. Relies'
    BY <1>6, <1>8, <1>10, <2>1, <2>2, OthersRely, AtRest DEF Relies
  <2>5. OneUnsettled' /\ TornRecorded' /\ SnapshotIsKept'
    BY <1>4, <1>5 DEF UInv, ProfileInv, OneUnsettled, TornRecorded, SnapshotIsKept, Done
  <2>6. AllRecorded'
    BY <1>3, <1>4, <1>10 DEF UInv, ProfileInv, AllRecorded, Recorded, Concluded
  <2>7. DropsWhole'
    BY <1>5, <1>6, <2>1, <2>2, OthersDrop DEF DropsWhole, Drops
  <2> QED BY <1>7, <2>3, <2>4, <2>5, <2>6, <2>7 DEF ProfileInv
<1> QED BY <1>2, <1>9, <1>10 DEF PrepareBinds

-----------------------------------------------------------------------------
(* A crash *)

\* A process that dies takes its call with it; what it was changing is on record, and the
\* dead holder is known.
LEMMA CrashStep ==
  ASSUME UInv, NEW p \in Process, Crash(p)
  PROVE  ProfileInv' /\ db'.edits = db.edits
<1> USE DEF At
<1> DEFINE Within == {"installing", "rollingBack", "migrating", "restoring"}
<1>1. PICK u : u = call[p].update
  OBVIOUS
<1>2. TypeOK /\ Leased(p)
  BY DEF UInv, LeaseInv
<1>3. /\ UNCHANGED <<slot, journal, bound, ioFailures>>
      /\ ioFailures' \in Nat /\ ioFailures' >= ioFailures
  BY <1>2 DEF Crash, files, TypeOK
<1>4. /\ call'[p].at = "idle" /\ \A q \in Process \ {p} : call'[q] = call[q]
  BY <1>2, ContinueDoes, IdleIsACall DEF Crash, Return, Idle
<1>5. ~Engaged(p)' /\ ReliesOn(p)' /\ Drops(p)'
  BY <1>4, AtRest DEF Drops
<1>6. OneEngaged'
  BY <1>4, <1>5, StillOneEngaged
<1>7. call[p].at \notin Within => UNCHANGED shared
  BY <1>3 DEF Crash, Torn, shared
<1>8. call[p].at \in Within => call[p].at \in Applying /\ call[p].at \in Holds /\ Engaged(p)
  BY DEF Applying, Holds, Engaged
<1>9. Relies'
  BY <1>3, <1>4, <1>5, <1>7, <1>8, OthersRely DEF Relies
<1>10. Whole' = Whole \/ call[p].at \in Holds
  BY <1>7, <1>8 DEF Whole, shared
<1>11. TornHeld'
  <2>1. CASE call[p].at \in Holds
    BY <1>2, <2>1 DEF Crash, Leased, TornHeld
  <2>2. CASE Whole' = Whole
    <3>1. TornHeld
      BY DEF UInv, ProfileInv
    <3>2. ASSUME NEW q \in Process, profileLease = q, runtime[q] = "STOPPED"
          PROVE  holdDied' \/ (profileLease' = q /\ runtime'[q] = "STOPPED")
      BY <1>2, <3>2 DEF Crash, TypeOK
    <3> QED BY <1>3, <2>2, <3>1, <3>2 DEF TornHeld, Crash
  <2> QED BY <1>10, <2>1, <2>2
<1>12. DropsWhole'
  BY <1>3, <1>4, <1>5, <1>10, OthersDrop DEF DropsWhole
<1>13. /\ OneUnsettled' /\ AllRecorded' /\ SnapshotIsKept' /\ TornRecorded'
       /\ db'.edits = db.edits
  <2>1. CASE call[p].at \notin Within
    <3>1. UNCHANGED shared
      BY <1>7, <2>1
    <3>2. Whole' = Whole /\ \A v \in Update : StateOf(v)' = StateOf(v)
      BY <3>1 DEF shared, Whole, StateOf
    <3>3. OneUnsettled' /\ TornRecorded' /\ SnapshotIsKept' /\ db'.edits = db.edits
      BY <3>1, <3>2 DEF UInv, ProfileInv, OneUnsettled, TornRecorded, SnapshotIsKept, Done, shared
    <3>4. AllRecorded'
      BY <3>1 DEF UInv, ProfileInv, AllRecorded, Recorded, Concluded, shared
    <3> QED BY <3>3, <3>4
  <2>2. CASE call[p].at \in Within
    <3>1. /\ Plan(p) \in Journals /\ Recorded(u) /\ u \in Update
          /\ Plan(p) = journal[u] /\ Plan(p) # None /\ ReliesOn(p)
          /\ StateOf(u) = Plan(p).state
      BY <1>1, <1>8, <2>2, OnRecord, UnderWay
    <3>2. /\ call[p].at = "installing" => Plan(p).state = "INSTALLING"
          /\ call[p].at = "migrating" => Plan(p).state = "VALIDATING"
          /\ call[p].at = "rollingBack" => Plan(p).state = "ROLLING_BACK"
          /\ call[p].at = "restoring" => Plan(p).state = "RESTORING"
      BY <3>1 DEF ReliesOn, StateRelies
    <3>3. /\ call[p].at = "installing" => performed[u]["INSTALL"] = 0
          /\ call[p].at = "rollingBack" => performed[u]["ROLLBACK"] = 0
          /\ db.edits = Plan(p).snapshot.edits
      BY <1>1, <2>2, <3>1 DEF ReliesOn, DataRelies
    <3>4. /\ performed'[u]["INSTALL"] <= 1 /\ performed'[u]["ROLLBACK"] <= 1
          /\ Plan(p).state \in {"INSTALLING", "VALIDATING"} => performed'[u]["ROLLBACK"] = 0
          /\ \A v \in Update \ {u} : performed'[v] = performed[v]
      <4>1. performed \in [Update -> [{"INSTALL", "ROLLBACK"} -> Nat]]
        BY <1>2 DEF TypeOK
      <4>2. CASE call[p].at = "installing"
        <5>1. performed' = [performed EXCEPT ![u]["INSTALL"] = @ + 1]
          BY <1>1, <4>2 DEF Crash
        <5>2. /\ performed'[u]["INSTALL"] = performed[u]["INSTALL"] + 1
              /\ performed'[u]["ROLLBACK"] = performed[u]["ROLLBACK"]
              /\ \A v \in Update \ {u} : performed'[v] = performed[v]
          BY <3>1, <4>1, <5>1, CountedDoes
        <5> QED BY <3>1, <3>2, <3>3, <4>2, <5>2 DEF Recorded
      <4>3. CASE call[p].at = "rollingBack"
        <5>1. performed' = [performed EXCEPT ![u]["ROLLBACK"] = @ + 1]
          BY <1>1, <4>3 DEF Crash
        <5>2. /\ performed'[u]["ROLLBACK"] = performed[u]["ROLLBACK"] + 1
              /\ performed'[u]["INSTALL"] = performed[u]["INSTALL"]
              /\ \A v \in Update \ {u} : performed'[v] = performed[v]
          BY <3>1, <4>1, <5>1, CountedDoes
        <5> QED BY <3>1, <3>2, <3>3, <4>3, <5>2 DEF Recorded
      <4>4. CASE call[p].at \in {"migrating", "restoring"}
        BY <3>1, <3>2, <4>4 DEF Crash, Recorded
      <4> QED BY <2>2, <4>2, <4>3, <4>4
    <3>5. db'.edits = db.edits
      <4>1. CASE call[p].at = "restoring"
        <5>1. slot = Plan(p).snapshot
          BY <3>1, <3>2, <4>1 DEF UInv, ProfileInv, SnapshotIsKept, InFlight
        <5>2. db' \in {db, slot}
          BY <4>1 DEF Crash, Torn
        <5> QED BY <3>3, <5>1, <5>2
      <4>2. CASE call[p].at = "migrating"
        BY <1>2, <4>2 DEF Crash, Torn, TypeOK, Contents
      <4>3. CASE call[p].at \in {"installing", "rollingBack"}
        BY <4>3 DEF Crash, Torn
      <4> QED BY <2>2, <4>1, <4>2, <4>3
    <3>6. Plan(p).state \notin {"PREPARED", "FINALIZING"}
      BY <2>2, <3>2
    <3> QED BY <1>1, <1>3, <1>8, <2>2, <3>4, <3>5, <3>6, RecordedChanges
  <2> QED BY <2>1, <2>2
<1> QED BY <1>6, <1>9, <1>11, <1>12, <1>13 DEF ProfileInv

-----------------------------------------------------------------------------
(* The invariant *)

\* Every step of every process keeps what is known of the profile.
LEMMA ProfileStep ==
  ASSUME UInv, NEW p \in Process, Step(p)
  PROVE  ProfileInv'
<1>1. CASE LaunchClaims(p) \/ LaunchOpens(p) \/ Quit(p)
  BY <1>1, LaunchStep
<1>2. CASE Edit(p)
  BY <1>2, EditStep
<1>3. CASE PrepareBegins(p) \/ PrepareQuits(p) \/ PrepareCompares(p) \/ PrepareReleases(p)
  BY <1>3, PrepareMovesStep
<1>4. CASE PrepareStep(p)
  <2>1. CASE PrepareChecks(p)
    BY <2>1, CheckStep
  <2>2. CASE PrepareSnapshots(p)
    BY <2>2, SnapshotStep
  <2>3. CASE \E u \in Update, from, to \in Release : PrepareRecords(p, u, from, to)
    BY <2>3, RecordStep
  <2>4. CASE PrepareBinds(p)
    BY <2>4, BindStep
  <2>5. CASE PrepareWithdraws(p)
    BY <2>5, RecoveryStep
  <2> QED BY <1>3, <1>4, <2>1, <2>2, <2>3, <2>4, <2>5 DEF PrepareStep
<1>5. CASE \E u \in Update : ApplyBegins(p, u)
  BY <1>5, ClaimStep
<1>6. CASE ApplyStep(p)
  <2>1. CASE ApplyClaims(p)
    BY <2>1, ClaimStep
  <2>2. CASE ApplyRereads(p)
    BY <2>2, RereadStep
  <2>3. CASE ApplyHolds(p) \/ ApplyVerifies(p)
    BY <2>3, HoldStep
  <2>4. CASE ApplyStarts(p)
    BY <2>4, StartStep
  <2>5. CASE \/ \E r \in Installs \cup {None} : Install(p, r)
             \/ \E r \in Rollbacks \cup {None} : Rollback(p, r)
    BY <2>5, DriverStep
  <2>6. CASE ApplyInstalled(p)
    BY <2>6, InstalledStep
  <2>7. CASE Migrate(p) \/ Restore(p)
    BY <2>7, DatabaseStep
  <2>8. CASE Validate(p)
    BY <2>8, ValidateStep
  <2>9. CASE Compensate(p)
    BY <2>9, CompensateStep
  <2>10. CASE RolledBack(p)
    BY <2>10, RolledBackStep
  <2>11. CASE Restored(p)
    BY <2>11, RestoredStep
  <2>12. CASE Unrestored(p) \/ Stranded(p) \/ GuardedMark(p)
    BY <2>12, RecoveryStep
  <2>13. CASE Free_profile(p) \/ Free_coordination(p) \/ Guarded(p) \/ Drop(p) \/ Finish(p)
    BY <2>13, ReleaseStep
  <2>14. CASE Terminate(p)
    BY <2>14, TerminateStep
  <2>15. CASE Handle(p)
    BY <2>15, HandleStep
  <2> QED BY <1>6, <2>1, <2>2, <2>3, <2>4, <2>5, <2>6, <2>7, <2>8, <2>9, <2>10, <2>11, <2>12,
             <2>13, <2>14, <2>15 DEF ApplyStep
<1>7. CASE Crash(p)
  BY <1>7, CrashStep
<1> QED BY <1>1, <1>2, <1>3, <1>4, <1>5, <1>6, <1>7 DEF Step

\* Every step of the system keeps the invariant.
LEMMA UInvStep == UInv /\ [Next]_vars => UInv'
<1> SUFFICES ASSUME UInv, [Next]_vars PROVE UInv'
  OBVIOUS
<1>1. ASSUME NEW p \in Process, Step(p)
      PROVE  UInv'
  <2>1. TypeOK /\ LeaseInv /\ Relies /\ AllRecorded /\ SnapshotIsKept
    BY DEF UInv, ProfileInv
  <2>2. TypeOK'
    BY <1>1, <2>1, TypeStep
  <2>3. LeaseInv'
    BY <1>1, <2>1, LeaseStep
  <2>4. ProfileInv'
    BY <1>1, ProfileStep
  <2> QED BY <2>2, <2>3, <2>4 DEF UInv
<1>2. CASE Next
  BY <1>1, <1>2 DEF Next, Step
<1>3. CASE UNCHANGED vars
  <2> USE <1>3 DEF vars, leases, session, files, ghosts
  <2>1. TypeOK'
    BY DEF UInv, TypeOK
  <2>2. LeaseInv'
    BY DEF UInv, LeaseInv, Leased
  <2>3. \A u \in Update : StateOf(u)' = StateOf(u)
    BY DEF StateOf
  <2>4. Whole' = Whole
    BY DEF Whole
  <2>5. OneEngaged' /\ DropsWhole'
    BY <2>4 DEF UInv, ProfileInv, OneEngaged, Engaged, Recording, DropsWhole, Drops
  <2>6. Relies'
    <3>1. ASSUME NEW q \in Process
          PROVE  ReliesOn(q)'
      <4>1. ReliesOn(q)
        BY DEF UInv, ProfileInv, Relies
      <4>2. PrepareRelies(q)'
        BY <4>1 DEF ReliesOn, PrepareRelies, Recording, StateOf, Blocking
      <4>3. StateRelies(q)'
        BY <4>1 DEF ReliesOn, StateRelies, Plan
      <4>4. DataRelies(q)'
        BY <4>1 DEF ReliesOn, DataRelies, Plan
      <4> QED BY <4>2, <4>3, <4>4 DEF ReliesOn
    <3> QED BY <3>1 DEF Relies
  <2>7. OneUnsettled' /\ SnapshotIsKept'
    BY <2>3 DEF UInv, ProfileInv, OneUnsettled, SnapshotIsKept, Done
  <2>8. AllRecorded'
    BY DEF UInv, ProfileInv, AllRecorded, Recorded, Concluded
  <2>9. TornRecorded' /\ TornHeld'
    BY <2>3, <2>4 DEF UInv, ProfileInv, TornRecorded, TornHeld
  <2> QED BY <2>1, <2>2, <2>5, <2>6, <2>7, <2>8, <2>9 DEF UInv, ProfileInv
<1> QED BY <1>2, <1>3

\* Nothing is under way at the start, and nothing is on record.
LEMMA UInvInit == Init => UInv
<1> SUFFICES ASSUME Init PROVE UInv
  OBVIOUS
<1>1. \A p \in Process : call[p] = Idle /\ runtime[p] = "STOPPED"
  BY DEF Init
<1>2. TypeOK
  <2>1. SchemaOf[First] \in Nat /\ 0 \in 0..MaxCrashes /\ 0 \in 0..MaxIOFailures
    BY UpdateAssumption
  <2>2. db \in Contents /\ slot \in Contents \cup {None} /\ package \in Release \cup {Mixed}
    BY <2>1, UpdateAssumption DEF Init, Contents
  <2>3. call \in [Process -> Calls]
    BY IdleIsACall DEF Init
  <2>4. performed \in [Update -> [{"INSTALL", "ROLLBACK"} -> Nat]]
    BY DEF Init
  <2>5. journal \in [Update -> Journals \cup {None}]
    BY DEF Init
  <2>6. runtime \in [Process -> {"STOPPED", "OPENING", "RUNNING", "RECOVERY_REQUIRED"}]
    BY DEF Init
  <2>7. holdDied \in BOOLEAN
    BY DEF Init
  <2> QED BY <2>1, <2>2, <2>3, <2>4, <2>5, <2>6, <2>7 DEF Init, TypeOK
<1>3. LeaseInv
  BY <1>1 DEF LeaseInv, Leased, Init, Idle, Coordinates, Holds
<1>4. \A p \in Process : call[p].at = "idle"
  <2>1. Idle.at = "idle"
    BY DEF Idle
  <2> QED BY <1>1, <2>1
<1>5. \A p \in Process : ~Engaged(p) /\ ReliesOn(p) /\ Drops(p)
  BY <1>4 DEF Engaged, Recording, Preparing, Applying, ReliesOn, PrepareRelies, StateRelies,
              DataRelies, Drops
<1>6. OneEngaged /\ Relies /\ DropsWhole
  BY <1>5 DEF OneEngaged, Relies, DropsWhole
<1>7. \A u \in Update : StateOf(u) = None
  BY DEF Init, StateOf
<1>8. None \notin {"PREPARED"} \cup InFlight
  BY NoneAssumption DEF States
<1>9. OneUnsettled /\ SnapshotIsKept
  BY <1>7, <1>8 DEF OneUnsettled, Done, SnapshotIsKept
<1>10. AllRecorded
  BY DEF Init, AllRecorded, Recorded
<1>11. Whole
  BY UpdateAssumption DEF Init, Whole
<1>12. TornRecorded /\ TornHeld
  BY <1>11 DEF TornRecorded, TornHeld
<1> QED BY <1>2, <1>3, <1>6, <1>9, <1>10, <1>12 DEF UInv, ProfileInv

\* The invariant holds throughout, whatever processes launch, quit, edit, prepare, apply,
\* fail to write and crash.
THEOREM UpdateInvariance == Spec => []UInv
  BY UInvInit, UInvStep, PTL DEF Spec

-----------------------------------------------------------------------------
(* What an update promises *)

\* Every variable keeps its type.
THEOREM UpdateTypes == Spec => []TypeOK
  BY UpdateInvariance, PTL DEF UInv

\* No race of two callers gets a second update past _blocking_updates.
THEOREM OneUpdate == Spec => []OneUnsettled
  BY UpdateInvariance, PTL DEF UInv, ProfileInv

\* The snapshot an update would restore stays in the one slot until it is done.
THEOREM SnapshotStays == Spec => []SnapshotIsKept
  BY UpdateInvariance, PTL DEF UInv, ProfileInv

\* The package driver installs at most once for an update and rolls back at most once,
\* across calls, failed writes and crashes.
THEOREM ExecuteOnce == Spec => []MutatesOnce
<1>1. UInv => MutatesOnce
  BY DEF UInv, ProfileInv, AllRecorded, Recorded, MutatesOnce
<1> QED BY <1>1, UpdateInvariance, PTL

\* The maintenance hold excludes the Headquarters and every other updater while package
\* or database change.
THEOREM HoldExcludes == Spec => []MutatesAlone
<1>1. UInv => MutatesAlone
  <2> SUFFICES ASSUME UInv, NEW p \in Mutating PROVE Mutating = {p} /\ open = {}
    BY DEF MutatesAlone
  <2>1. \A q \in Mutating : q \in Process /\ profileLease = q /\ runtime[q] = "STOPPED"
    BY DEF UInv, LeaseInv, Leased, Mutating, Holds
  <2>2. \A q \in open : q \in Process /\ profileLease = q /\ runtime[q] # "STOPPED"
    BY DEF UInv, LeaseInv, Leased, TypeOK
  <2> QED BY <2>1, <2>2
<1> QED BY <1>1, UpdateInvariance, PTL

\* A half-changed profile is on record as in flight or as recovery work, and it is held
\* until its updater dies or two writes fail.
THEOREM TornStays == Spec => []TornIsKept
<1>1. UInv => TornIsKept
  <2> SUFFICES ASSUME UInv, ~Whole
               PROVE  /\ holdDied \/ ioFailures > 1 \/ (profileLease \in Process /\ open = {})
                      /\ \E u \in Update : ~Done(u) /\ StateOf(u) # "PREPARED"
    BY DEF TornIsKept
  <2>1. PICK u \in Update : StateOf(u) \in Unfinished
    BY DEF UInv, ProfileInv, TornRecorded
  <2>2. ~Done(u) /\ StateOf(u) # "PREPARED"
    <3>1. None \notin Unfinished
      BY NoneAssumption DEF Unfinished, States, Terminal
    <3> QED BY <2>1, <3>1 DEF Done, Unfinished, InFlight, Settled
  <2>3. ASSUME NEW p \in Process, profileLease = p, runtime[p] = "STOPPED"
        PROVE  profileLease \in Process /\ open = {}
    BY <2>3 DEF UInv, LeaseInv, Leased, TypeOK
  <2> QED BY <2>2, <2>3 DEF UInv, ProfileInv, TornHeld
<1> QED BY <1>1, UpdateInvariance, PTL

\* Only an edit, a migration, a restore or a crash within one of them writes the database.
LEMMA WhoWritesTheDatabase ==
  ASSUME NEW p \in Process, Step(p)
  PROVE  db' = db \/ Edit(p) \/ Migrate(p) \/ Restore(p) \/ Crash(p)
<1>1. LaunchClaims(p) \/ LaunchOpens(p) \/ Quit(p) \/ PrepareBegins(p) \/ PrepareStep(p) => db' = db
  BY DEF LaunchClaims, LaunchOpens, Quit, PrepareBegins, PrepareStep, PrepareChecks,
         PrepareSnapshots, PrepareQuits, PrepareCompares, PrepareRecords, PrepareReleases,
         PrepareBinds, PrepareWithdraws
<1>2. (\E u \in Update : ApplyBegins(p, u)) => db' = db
  BY DEF ApplyBegins
<1>3. ApplyStep(p) => db' = db \/ Migrate(p) \/ Restore(p)
  BY DEF ApplyStep, ApplyClaims, ApplyRereads, ApplyHolds, ApplyVerifies, ApplyStarts, Install,
         ApplyInstalled, Validate, Compensate, Rollback, RolledBack, Restored, Unrestored,
         Free_profile, Free_coordination, Stranded, Terminate, Guarded, GuardedMark, Handle,
         Drop, Finish
<1> QED BY <1>1, <1>2, <1>3 DEF Step

\* No edit is ever undone: a migration keeps the edits, and a snapshot is only ever
\* restored over the edits it was taken of.
THEOREM EditsStay == Spec => EditsAreNotLost
<1>1. UInv /\ [Next]_vars => [db'.edits >= db.edits]_vars
  <2> SUFFICES ASSUME UInv, Next PROVE db'.edits >= db.edits
    OBVIOUS
  <2>1. PICK p \in Process : Step(p)
    BY DEF Next, Step
  <2>2. db.edits \in Nat /\ db \in Contents
    BY DEF UInv, TypeOK, Contents
  <2>3. CASE Edit(p)
    BY <2>2, <2>3 DEF Edit, Contents
  <2>4. CASE db'.edits = db.edits
    BY <2>2, <2>4
  <2> QED BY <2>1, <2>3, <2>4, WhoWritesTheDatabase, DatabaseStep, CrashStep
<1> QED BY <1>1, UpdateInvariance, PTL DEF Spec, EditsAreNotLost

\* Nobody but _finalize settles an update: every other transition writes a state in
\* flight or RECOVERY_REQUIRED.
LEMMA WhoSettles ==
  ASSUME UInv, NEW p \in Process, Step(p), ~Terminate(p),
         NEW u \in Update, journal'[u] # journal[u]
  PROVE  journal'[u].state \notin Settled
<1> USE DEF At
<1>1. TypeOK
  BY DEF UInv
<1> DEFINE Writer == \/ PrepareWithdraws(p) \/ ApplyStarts(p) \/ ApplyInstalled(p) \/ Validate(p)
                     \/ Compensate(p) \/ RolledBack(p) \/ Restored(p) \/ Unrestored(p)
                     \/ Stranded(p) \/ GuardedMark(p) \/ Handle(p)
<1>2. \/ Writer
      \/ \E v \in Update, from, to \in Release : PrepareRecords(p, v, from, to)
  <2> USE DEF files
  <2>1. LaunchClaims(p) \/ LaunchOpens(p) \/ Quit(p) \/ Edit(p) \/ PrepareBegins(p)
           => journal' = journal
    BY DEF LaunchClaims, LaunchOpens, Quit, Edit, PrepareBegins
  <2>2. PrepareStep(p) => \/ journal' = journal \/ Writer
                          \/ \E v \in Update, from, to \in Release : PrepareRecords(p, v, from, to)
    BY DEF PrepareStep, PrepareChecks, PrepareSnapshots, PrepareQuits, PrepareCompares,
           PrepareReleases, PrepareBinds
  <2>3. (\E v \in Update : ApplyBegins(p, v)) => journal' = journal
    BY DEF ApplyBegins
  <2>4. ApplyStep(p) => journal' = journal \/ Writer
    BY DEF ApplyStep, ApplyClaims, ApplyRereads, ApplyHolds, ApplyVerifies, Install, Migrate,
           Rollback, Restore, Free_profile, Free_coordination, Guarded, Drop, Finish
  <2>5. Crash(p) => journal' = journal
    BY DEF Crash
  <2> HIDE DEF Writer
  <2> QED BY <2>1, <2>2, <2>3, <2>4, <2>5 DEF Step
<1>3. CASE Writer
  <2>1. Recording(p) \/ call[p].at \in Applying
    BY <1>3 DEF PrepareWithdraws, ApplyStarts, ApplyInstalled, Validate, Compensate, RolledBack,
           Restored, Unrestored, Stranded, GuardedMark, Handle, Recording, Applying
  <2>2. Plan(p) \in Journals /\ call[p].update \in Update
    BY <2>1, PlanIs DEF UInv, ProfileInv
  <2> DEFINE Puts(j) == journal' = [journal EXCEPT ![call[p].update] = j]
  <2>3. ASSUME NEW j, j.state \notin Settled, Puts(j)
        PROVE  journal'[u].state \notin Settled
    BY <1>1, <2>2, <2>3 DEF TypeOK
  <2>4. ASSUME NEW j \in Journals
        PROVE  Recovery(j).state \notin Settled
    BY DEF Recovery, Journals, Settled
  <2>5. ASSUME NEW j \in Journals, NEW i
        PROVE  /\ [j EXCEPT !.state = "INSTALLING"].state \notin Settled
               /\ [j EXCEPT !.state = "VALIDATING"].state \notin Settled
               /\ [j EXCEPT !.state = "FINALIZING"].state \notin Settled
               /\ [j EXCEPT !.state = "RESTORING"].state \notin Settled
               /\ [j EXCEPT !.state = "ROLLING_BACK", !.install = i].state \notin Settled
               /\ [j EXCEPT !.state = "FINALIZING", !.restored = TRUE].state \notin Settled
    BY DEF Journals, Settled
  <2>6. journal' # journal
    OBVIOUS
  <2>7. CASE \/ PrepareWithdraws(p) \/ Unrestored(p) \/ Stranded(p) \/ GuardedMark(p)
             \/ Handle(p)
    <3>1. Puts(Recovery(Plan(p)))
      BY <2>6, <2>7 DEF PrepareWithdraws, Unrestored, Stranded, GuardedMark, Handle, Transition
    <3> QED BY <2>2, <2>3, <2>4, <3>1
  <2>8. CASE ApplyStarts(p)
    <3>1. Puts([Plan(p) EXCEPT !.state = "INSTALLING"])
      BY <2>6, <2>8 DEF ApplyStarts, Transition
    <3> QED BY <2>2, <2>3, <2>5, <3>1
  <2>9. CASE ApplyInstalled(p)
    <3> DEFINE j == [Plan(p) EXCEPT !.install = call[p].receipt]
    <3>1. \/ Puts(Recovery(j)) \/ Puts([j EXCEPT !.state = "FINALIZING"])
          \/ Puts([j EXCEPT !.state = "VALIDATING"])
      BY <2>6, <2>9 DEF ApplyInstalled, Transition
    <3>2. /\ Recovery(j).state \notin Settled
          /\ [j EXCEPT !.state = "FINALIZING"].state \notin Settled
          /\ [j EXCEPT !.state = "VALIDATING"].state \notin Settled
      BY <2>2 DEF Recovery, Journals, Settled
    <3> QED BY <2>3, <3>1, <3>2
  <2>10. CASE Validate(p)
    <3>1. Puts([Plan(p) EXCEPT !.state = "FINALIZING"])
      BY <2>6, <2>10 DEF Validate, Transition
    <3> QED BY <2>2, <2>3, <2>5, <3>1
  <2>11. CASE Compensate(p)
    <3>1. Puts([Plan(p) EXCEPT !.state = "ROLLING_BACK", !.install = call[p].receipt])
      BY <2>6, <2>11 DEF Compensate, Transition
    <3> QED BY <2>2, <2>3, <2>5, <3>1
  <2>12. CASE RolledBack(p)
    <3> DEFINE j == [Plan(p) EXCEPT !.rollback = call[p].receipt]
    <3>1. Puts(Recovery(j)) \/ Puts([j EXCEPT !.state = "RESTORING"])
      BY <2>6, <2>12 DEF RolledBack, Transition
    <3>2. /\ Recovery(j).state \notin Settled
          /\ [j EXCEPT !.state = "RESTORING"].state \notin Settled
      BY <2>2 DEF Recovery, Journals, Settled
    <3> QED BY <2>3, <3>1, <3>2
  <2>13. CASE Restored(p)
    <3>1. Puts([Plan(p) EXCEPT !.state = "FINALIZING", !.restored = TRUE])
      BY <2>6, <2>13 DEF Restored, Transition
    <3> QED BY <2>2, <2>3, <2>5, <3>1
  <2> QED BY <1>3, <2>7, <2>8, <2>9, <2>10, <2>11, <2>12, <2>13
<1>4. ASSUME NEW v \in Update, NEW from \in Release, NEW to \in Release,
             PrepareRecords(p, v, from, to)
      PROVE  journal'[u].state \notin Settled
  BY <1>1, <1>4 DEF PrepareRecords, TypeOK, Settled
<1> QED BY <1>2, <1>3, <1>4

\* A settled update tells the truth about package and database: _finalize settles what
\* installation, validation, rollback and restore left, and nobody came between.
THEOREM SettledTellsTheTruth == Spec => SettledIsTrue
<1> DEFINE True(u) ==
      (journal'[u] # journal[u] /\ journal'[u].state \in Settled)
         => LET j == journal'[u] IN
            IF j.state = "SUCCEEDED" THEN package' = j.to /\ db'.schema = SchemaOf[j.to]
            ELSE package' = j.from /\ db'.schema = j.snapshot.schema
<1>1. UInv /\ [Next]_vars => [\A u \in Update : True(u)]_vars
  <2> SUFFICES ASSUME UInv, Next, NEW u \in Update,
                      journal'[u] # journal[u], journal'[u].state \in Settled
               PROVE  True(u)
    OBVIOUS
  <2>1. PICK p \in Process : Step(p)
    BY DEF Next, Step
  <2>2. Terminate(p)
    BY <2>1, WhoSettles
  <2>3. call[p].at = "terminating" /\ call[p].at \in Applying
    BY <2>2 DEF Terminate, At, Applying
  <2>4. /\ TypeOK /\ Plan(p) \in Journals /\ call[p].update \in Update
        /\ Plan(p) = journal[call[p].update] /\ Plan(p) # None
    BY <2>3, PlanIs DEF UInv, ProfileInv
  <2>5. Plan(p).state = "FINALIZING"
    BY <2>3 DEF UInv, ProfileInv, Relies, ReliesOn, StateRelies
  <2>6. Concluded(Plan(p)) /\ Sound(Plan(p))
    BY <2>4, <2>5 DEF UInv, ProfileInv, AllRecorded, Recorded
  <2> DEFINE s == Outcome(Plan(p))
             j == [Plan(p) EXCEPT !.state = s]
  <2>7. /\ j.state = s /\ j.from = Plan(p).from /\ j.to = Plan(p).to
        /\ j.snapshot = Plan(p).snapshot
    BY <2>4 DEF Journals
  <2>8. Transition(p, j, "idle", "handling") /\ UNCHANGED <<package, db>>
    BY <2>2 DEF Terminate
  <2> HIDE DEF j
  <2>9. journal'[u] = j
    BY <2>4, <2>8 DEF Transition, TypeOK
  <2> QED BY <2>6, <2>7, <2>8, <2>9 DEF Concluded, Sound
<1> QED BY <1>1, UpdateInvariance, PTL DEF Spec, SettledIsTrue

=============================================================================

--------------------------- MODULE InstanceLease ---------------------------
(***************************************************************************)
(* n0te/instance.py: InstanceLeaseManager, the lease file that lets one    *)
(* exact process launch open a profile.  Processes share three kinds of    *)
(* file: lease.json, takeover.json (the marker of a takeover of a dead     *)
(* owner's lease) and one archive per lease taken over.  No step spans two *)
(* file operations, so every read may be stale when it is acted upon.      *)
(***************************************************************************)
EXTENDS Naturals, FiniteSets

CONSTANTS
    Launches,     \* exact process launches (ProcessIdentity)
    Reuses,       \* <<q, p>>: p runs under the pid and start token q had
    MaxCalls,     \* acquire() calls of a launch (a bound)
    MaxAttempts,  \* InstanceLeaseManager.MAX_ATTEMPTS
    MaxCrashes,   \* launches that die within a call or while holding (a bound)
    Missing,      \* no such file
    Torn          \* a file created but not filled

ASSUME LeaseAssumption == MaxCalls \in Nat /\ MaxAttempts \in Nat \ {0} /\ MaxCrashes \in Nat
                          /\ Reuses \subseteq Launches \X Launches

VARIABLES
    lease,   \* lease.json
    marker,  \* takeover.json
    stale,   \* stale/<nonce>.json of each lease
    dead,    \* launches that have exited or crashed
    crashes, \* how many of them crashed
    at       \* where each launch is in its call, and what it remembers

files == <<lease, marker, stale>>
vars == <<lease, marker, stale, dead, crashes, at>>

-----------------------------------------------------------------------------
\* A lease's nonce is fresh for each call; a marker's also for each attempt.
Leases == [owner : Launches, call : 1..MaxCalls]
Markers == [taker : Launches, call : 1..MaxCalls, try : 1..MaxAttempts, expected : Leases]

Owning == {"ACQUIRED", "ALREADY_OWNED", "REPLACED_STALE"}
Errors == {"unreadable", "inconsistent", "changed", "vanished", "io_error",
           "not_owner", "takeover_active"}
Outcomes == {"none", "HELD_BY_OTHER", "UNCERTAIN", "RELEASED"} \cup Owning \cup Errors

Labels == {"idle", "read_marker", "probe_taker", "inspect", "probe_owner", "claim", "fill_marker",
           "complete", "reprobe", "archive", "fill_archive", "confirm", "unlink_lease",
           "create", "fill_lease", "check_marker", "unlink_marker",
           "release_inspect", "release_marker", "release_unlink"}

\* mark: the marker in hand; seen: the lease in hand; holds: the lease the
\* caller was told it owns; outcome: the answer, given or about to be.
Locals == [pc : Labels, call : 0..MaxCalls, try : 0..MaxAttempts,
           mark : Markers \cup {Missing}, seen : Leases \cup {Missing},
           holds : Leases \cup {Missing}, outcome : Outcomes]

Resting(call) == [pc |-> "idle", call |-> call, try |-> 0, mark |-> Missing,
                  seen |-> Missing, holds |-> Missing, outcome |-> "none"]

TypeOK ==
    /\ lease \in Leases \cup {Missing, Torn}
    /\ marker \in Markers \cup {Missing, Torn}
    /\ stale \in [Leases -> {"absent", "torn", "whole"}]
    /\ dead \subseteq Launches
    /\ crashes \in 0..MaxCrashes
    /\ at \in [Launches -> Locals]

Init ==
    /\ lease = Missing
    /\ marker = Missing
    /\ stale = [l \in Leases |-> "absent"]
    /\ dead = {}
    /\ crashes = 0
    /\ at = [p \in Launches |-> Resting(0)]

-----------------------------------------------------------------------------
Live(p) == p \notin dead /\ at[p].call > 0

SameWorkflow(p, q) == p = q \/ <<p, q>> \in Reuses \/ <<q, p>> \in Reuses

\* Mutant: any other launch counts as a predecessor.
AnyOtherIsStale(previous, taker) == previous # taker

\* _reused_workflow_is_stale: stronger evidence of death than any probe.
Reused_workflow_is_stale(previous, taker) == previous # taker /\ SameWorkflow(previous, taker)

\* ProcessProbe (external): it sees only pid and start token, may not know,
\* and reports a death only when nothing runs under them.
Verdicts(q) ==
    {"UNKNOWN"} \cup (IF \E p \in Launches : SameWorkflow(p, q) /\ Live(p) THEN {"ALIVE"} ELSE {"DEAD"})

Become(p, me) == at' = [at EXCEPT ![p] = me]
Goto(p, pc) == Become(p, [at[p] EXCEPT !.pc = pc])
At(p, pc) == p \notin dead /\ at[p].pc = pc

\* The call returns, or raises.
Return(p, answer, owned) ==
    Become(p, [Resting(at[p].call) EXCEPT !.outcome = answer,
                                          !.holds = IF answer \in Owning THEN owned ELSE at[p].holds])
Raise(p, error) == Return(p, error, Missing)

\* Mutant: the loop is not bounded.
ContinueForever(p) ==
    Become(p, [at[p] EXCEPT !.pc = "read_marker", !.mark = Missing, !.seen = Missing, !.outcome = "none"])

\* The for loop's continue; when it is exhausted the lease is read once more.
Continue(p) ==
    IF at[p].try < MaxAttempts
    THEN Become(p, [at[p] EXCEPT !.pc = "read_marker", !.try = @ + 1, !.mark = Missing, !.seen = Missing,
                                 !.outcome = "none"])
    ELSE IF lease = Torn THEN Raise(p, "unreadable") ELSE Return(p, "UNCERTAIN", Missing)

-----------------------------------------------------------------------------
(* acquire *)

\* A launch that reuses a pid starts after its predecessor is gone.
Acquire(p) ==
    /\ At(p, "idle")
    /\ at[p].call < MaxCalls
    /\ at[p].call = 0 => \A q \in Launches : <<q, p>> \in Reuses => q \in dead
    /\ Become(p, [at[p] EXCEPT !.pc = "read_marker", !.call = @ + 1, !.try = 1, !.outcome = "none"])
    /\ UNCHANGED <<files, dead, crashes>>

Read_marker(p) ==
    /\ At(p, "read_marker")
    /\ CASE marker = Torn -> Raise(p, "unreadable")
         [] marker = Missing -> Goto(p, "inspect")
         [] OTHER -> Become(p, [at[p] EXCEPT !.mark = marker,
                                             !.pc = IF marker.taker = p THEN "complete" ELSE "probe_taker"])
    /\ UNCHANGED <<files, dead, crashes>>

\* Mutant: a taker not known to live is taken for dead.
PresumeTakerDead(p) ==
    /\ At(p, "probe_taker")
    /\ \E verdict \in Verdicts(at[p].mark.taker) :
          IF verdict # "ALIVE" THEN Goto(p, "check_marker") ELSE Return(p, "UNCERTAIN", Missing)
    /\ UNCHANGED <<files, dead, crashes>>

\* A dead launch's marker is removed and the loop goes on (outcome "none").
Probe_taker(p) ==
    /\ At(p, "probe_taker")
    /\ \E verdict \in Verdicts(at[p].mark.taker) :
          IF verdict = "DEAD"
          THEN Goto(p, "check_marker")
          ELSE IF lease = Torn THEN Raise(p, "unreadable") ELSE Return(p, "UNCERTAIN", Missing)
    /\ UNCHANGED <<files, dead, crashes>>

Inspect(p) ==
    /\ At(p, "inspect")
    /\ CASE lease = Torn -> Raise(p, "unreadable")
         [] lease = Missing -> Goto(p, "create")
         [] OTHER ->
              IF lease.owner = p
              THEN Return(p, "ALREADY_OWNED", lease)
              ELSE Become(p, [at[p] EXCEPT !.seen = lease,
                                           !.pc = IF Reused_workflow_is_stale(lease.owner, p)
                                                  THEN "claim" ELSE "probe_owner"])
    /\ UNCHANGED <<files, dead, crashes>>

Probe_owner(p) ==
    /\ At(p, "probe_owner")
    /\ \E verdict \in Verdicts(at[p].seen.owner) :
          CASE verdict = "ALIVE" -> Return(p, "HELD_BY_OTHER", Missing)
            [] verdict = "UNKNOWN" -> Return(p, "UNCERTAIN", Missing)
            [] verdict = "DEAD" -> Goto(p, "claim")
    /\ UNCHANGED <<files, dead, crashes>>

-----------------------------------------------------------------------------
(* _write_exclusive: an exclusive create, then the contents.  When writing *)
(* them fails the file is unlinked and the error raised.                   *)

Claim(p) ==
    /\ At(p, "claim")
    /\ IF marker = Missing
       THEN /\ marker' = Torn
            /\ Become(p, [at[p] EXCEPT !.pc = "fill_marker",
                                       !.mark = [taker |-> p, call |-> at[p].call, try |-> at[p].try,
                                                 expected |-> at[p].seen]])
       ELSE Continue(p) /\ UNCHANGED marker
    /\ UNCHANGED <<lease, stale, dead, crashes>>

Fill_marker(p) ==
    /\ At(p, "fill_marker")
    /\ \/ marker' = at[p].mark /\ Goto(p, "complete")
       \/ marker' = Missing /\ Raise(p, "io_error")
    /\ UNCHANGED <<lease, stale, dead, crashes>>

\* Mutant: the create is not exclusive.
CreateOverwrites(p) ==
    /\ At(p, "create")
    /\ lease' = Torn
    /\ Goto(p, "fill_lease")
    /\ UNCHANGED <<marker, stale, dead, crashes>>

Create(p) ==
    /\ At(p, "create")
    /\ IF lease = Missing
       THEN lease' = Torn /\ Goto(p, "fill_lease")
       ELSE Continue(p) /\ UNCHANGED lease
    /\ UNCHANGED <<marker, stale, dead, crashes>>

\* A first lease is the answer; a replacement's marker has yet to go.
Fill_lease(p) ==
    /\ At(p, "fill_lease")
    /\ LET new == [owner |-> p, call |-> at[p].call] IN
       \/ /\ lease' = new
          /\ IF at[p].mark = Missing
             THEN Return(p, "ACQUIRED", new)
             ELSE Become(p, [at[p] EXCEPT !.pc = "check_marker", !.seen = new, !.outcome = "REPLACED_STALE"])
       \/ lease' = Missing /\ Raise(p, "io_error")
    /\ UNCHANGED <<marker, stale, dead, crashes>>

-----------------------------------------------------------------------------
(* _complete_owned_takeover *)

\* The answer, once the marker is removed.
Conclude(p, answer, owned) ==
    Become(p, [at[p] EXCEPT !.pc = "check_marker", !.outcome = answer, !.seen = owned])

Complete(p) ==
    /\ At(p, "complete")
    /\ LET expected == at[p].mark.expected IN
       CASE lease = Torn -> Raise(p, "unreadable")
         [] lease = Missing ->
              (CASE stale[expected] = "absent" -> Raise(p, "inconsistent")
                 [] stale[expected] = "torn" -> Raise(p, "unreadable")
                 [] OTHER -> Goto(p, "create"))
         [] lease = expected -> Goto(p, IF Reused_workflow_is_stale(lease.owner, p) THEN "archive" ELSE "reprobe")
         [] OTHER -> IF lease.owner = p THEN Conclude(p, "ALREADY_OWNED", lease) ELSE Continue(p)
    /\ UNCHANGED <<files, dead, crashes>>

Reprobe(p) ==
    /\ At(p, "reprobe")
    /\ \E verdict \in Verdicts(at[p].mark.expected.owner) :
          CASE verdict = "ALIVE" -> Conclude(p, "HELD_BY_OTHER", Missing)
            [] verdict = "UNKNOWN" -> Conclude(p, "UNCERTAIN", Missing)
            [] verdict = "DEAD" -> Goto(p, "archive")
    /\ UNCHANGED <<files, dead, crashes>>

\* Mutant: the lease is not archived.
ArchiveForgotten(p) ==
    /\ At(p, "archive")
    /\ Goto(p, "confirm")
    /\ UNCHANGED <<files, dead, crashes>>

Archive(p) ==
    /\ At(p, "archive")
    /\ LET old == at[p].mark.expected IN
       CASE stale[old] = "absent" -> stale' = [stale EXCEPT ![old] = "torn"] /\ Goto(p, "fill_archive")
         [] stale[old] = "torn" -> UNCHANGED stale /\ Raise(p, "unreadable")
         [] OTHER -> UNCHANGED stale /\ Goto(p, "confirm")
    /\ UNCHANGED <<lease, marker, dead, crashes>>

Fill_archive(p) ==
    /\ At(p, "fill_archive")
    /\ LET old == at[p].mark.expected IN
       \/ stale' = [stale EXCEPT ![old] = "whole"] /\ Goto(p, "confirm")
       \/ stale' = [stale EXCEPT ![old] = "absent"] /\ Raise(p, "io_error")
    /\ UNCHANGED <<lease, marker, dead, crashes>>

Confirm(p) ==
    /\ At(p, "confirm")
    /\ CASE lease = Torn -> Raise(p, "unreadable")
         [] lease = at[p].mark.expected -> Goto(p, "unlink_lease")
         [] OTHER -> Continue(p)
    /\ UNCHANGED <<files, dead, crashes>>

Unlink_lease(p) ==
    /\ At(p, "unlink_lease")
    /\ lease' = Missing
    /\ IF lease = Missing THEN Raise(p, "vanished") ELSE Goto(p, "complete")
    /\ UNCHANGED <<marker, stale, dead, crashes>>

-----------------------------------------------------------------------------
(* _remove_marker_exact: read, compare, then unlink whatever is there. *)

Finish(p) == IF at[p].outcome = "none" THEN Continue(p) ELSE Return(p, at[p].outcome, at[p].seen)

Check_marker(p) ==
    /\ At(p, "check_marker")
    /\ CASE marker = Torn -> Raise(p, "unreadable")
         [] marker = Missing -> Finish(p)
         [] marker = at[p].mark -> Goto(p, "unlink_marker")
         [] OTHER -> Raise(p, "changed")
    /\ UNCHANGED <<files, dead, crashes>>

Unlink_marker(p) ==
    /\ At(p, "unlink_marker")
    /\ marker' = Missing
    /\ IF marker = Missing THEN Raise(p, "vanished") ELSE Finish(p)
    /\ UNCHANGED <<lease, stale, dead, crashes>>

-----------------------------------------------------------------------------
(* release *)

Release(p) ==
    /\ At(p, "idle")
    /\ at[p].holds # Missing
    /\ Goto(p, "release_inspect")
    /\ UNCHANGED <<files, dead, crashes>>

Release_inspect(p) ==
    /\ At(p, "release_inspect")
    /\ CASE lease = Torn -> Raise(p, "unreadable")
         [] lease = at[p].holds -> Goto(p, "release_marker")
         [] OTHER -> Raise(p, "not_owner")
    /\ UNCHANGED <<files, dead, crashes>>

Release_marker(p) ==
    /\ At(p, "release_marker")
    /\ CASE marker = Torn -> Raise(p, "unreadable")
         [] marker = Missing -> Goto(p, "release_unlink")
         [] OTHER -> Raise(p, "takeover_active")
    /\ UNCHANGED <<files, dead, crashes>>

Release_unlink(p) ==
    /\ At(p, "release_unlink")
    /\ lease' = Missing
    /\ IF lease = Missing
       THEN Raise(p, "vanished")
       ELSE Become(p, [Resting(at[p].call) EXCEPT !.outcome = "RELEASED"])
    /\ UNCHANGED <<marker, stale, dead, crashes>>

-----------------------------------------------------------------------------
Busy(p) == at[p].pc # "idle" \/ at[p].holds # Missing

\* A launch ends between calls, its lease released.
Exit(p) ==
    /\ Live(p)
    /\ ~Busy(p)
    /\ dead' = dead \cup {p}
    /\ Become(p, Resting(at[p].call))
    /\ UNCHANGED <<files, crashes>>

\* A launch dies within a call or while it holds the lease.
Crash(p) ==
    /\ Live(p)
    /\ Busy(p)
    /\ crashes < MaxCrashes
    /\ crashes' = crashes + 1
    /\ dead' = dead \cup {p}
    /\ Become(p, Resting(at[p].call))
    /\ UNCHANGED files

\* One step of the call a launch is in.
Step(p) ==
    \/ Read_marker(p) \/ Probe_taker(p) \/ Inspect(p) \/ Probe_owner(p)
    \/ Claim(p) \/ Fill_marker(p) \/ Create(p) \/ Fill_lease(p)
    \/ Complete(p) \/ Reprobe(p) \/ Archive(p) \/ Fill_archive(p) \/ Confirm(p) \/ Unlink_lease(p)
    \/ Check_marker(p) \/ Unlink_marker(p)
    \/ Release_inspect(p) \/ Release_marker(p) \/ Release_unlink(p)

Next == \E p \in Launches : Acquire(p) \/ Release(p) \/ Step(p) \/ Exit(p) \/ Crash(p)

Spec == Init /\ [][Next]_vars

\* A call that has begun goes on; nobody is obliged to begin one, to exit or
\* to crash.
FairSpec == Spec /\ \A p \in Launches : WF_vars(Step(p))

-----------------------------------------------------------------------------
(* Properties *)

\* At most one launch was told that it owns the profile, and has not released it or died since.
Exclusive == \A p, q \in Launches : at[p].holds # Missing /\ at[q].holds # Missing => p = q

\* A live launch that acquire() told it owns the profile is the one lease.json
\* names, until its own release: so two launches never open one profile.  A
\* holder's lease survives every race of probes, markers, archives and stale
\* reads, while three launches at most are concerned.
HolderIsRecorded ==
    \A p \in Launches : Live(p) /\ at[p].holds # Missing => lease = at[p].holds

\* "Exact launch identity owns destructive lease operations" (class docstring):
\* lease.json goes away only by its own launch's step or when that launch is
\* dead.
OnlyTheDeadAreEvicted ==
    [][\A p \in Launches :
          lease \in Leases /\ lease' = Missing /\ lease.owner = p /\ p \notin dead
             => at[p].pc = "release_unlink"]_vars

\* A lease taken from its owner is whole in the archive before it is unlinked,
\* which is what an interrupted takeover resumes from.
EvictedIsArchived ==
    [][(lease \in Leases /\ lease' = Missing /\ lease.owner \in dead) => stale[lease] = "whole"]_vars

\* A takeover never loses its place: while a launch is past its claim, the
\* marker names it, so no second takeover of the same lease is under way.
OneTakeover ==
    \A p \in Launches :
        At(p, "archive") \/ At(p, "fill_archive") \/ At(p, "confirm") \/ At(p, "unlink_lease")
            => marker = at[p].mark

\* Every call returns or raises, whatever the others do: the attempts are
\* bounded, and no launch waits for another.
CallsEnd == \A p \in Launches : at[p].pc # "idle" ~> at[p].pc = "idle"

\* What acquire() raises as corruption is corruption: while no launch has
\* crashed, no write failed, a lease that a marker names is in place or
\* archived.  Comment at instance.py:629: contention is "an uncertainty
\* condition, not an exceptional consumer crash".
NoFalseCorruption == \A p \in Launches : at[p].outcome # "inconsistent"

=============================================================================

------------------------- MODULE ContinuousObserver -------------------------
(***************************************************************************)
(* n0te/ableton_observer_service.py over ableton_continuous_observer.py:   *)
(* a loop polls the open Set, records what changed in the profile and      *)
(* looks for reference tracks when the music changed; refresh_references   *)
(* polls beside it on demand.  Both await in the middle of a poll, and     *)
(* share the observer's fields.                                            *)
(***************************************************************************)
EXTENDS Naturals, FiniteSets

CONSTANTS
    Musics,        \* reference fingerprints: Set, runtime, tempo
    Details,       \* the rest of an observation fingerprint: transport, track, devices
    Nothing,       \* None
    MaxChanges,    \* changes of the open Set (a bound)
    MaxFailures,   \* failures of bridge, profile and provider together (a bound)
    MaxRefreshes   \* calls of refresh_references (a bound)

VARIABLES
    live,        \* the open Set, with the number of changes it took as its time
    polls,       \* where the loop and the refresh are
    committed,   \* _last_observation_fingerprint with the time of the last record
    searched,    \* _last_successful_reference_fingerprint
    references,  \* _latest_references: the music they were found for
    backoff,     \* now < _next_discovery_retry_at
    service,     \* _state
    stopping,    \* the stop event, or the runtime is no longer RUNNING
    failures,    \* of the bridge, the profile and the provider
    refreshes,   \* calls of refresh_references
    commits,     \* observations recorded
    searches     \* searches the loop began

state == <<committed, searched, references, backoff, service>>
counters == <<failures, refreshes, commits, searches>>
vars == <<live, polls, state, stopping, counters>>

Tasks == {"loop", "refresh"}
Snapshots == [music : Musics, detail : Details, at : 0..MaxChanges]
Idle == [pc |-> "idle"]   \* also the loop that sleeps between polls
Off == [pc |-> "off"]     \* also a loop that an exception ended
Poll(pc, snapshot) == [pc |-> pc, snapshot |-> snapshot]
Fingerprint(s) == <<s.music, s.detail>>

TypeOK ==
    /\ live \in Snapshots
    /\ polls \in [Tasks -> {Idle, Off, [pc |-> "fetching"]} \cup
                           [pc : {"fetched", "searching"}, snapshot : Snapshots]]
    /\ committed \in Snapshots \cup {Nothing}
    /\ searched \in Musics \cup {Nothing} /\ references \in Musics \cup {Nothing}
    /\ service \in {"READY", "WAITING_FOR_BRIDGE", "OBSERVING", "STOPPED"}
    /\ failures <= MaxFailures /\ refreshes <= MaxRefreshes

Init ==
    /\ live \in {s \in Snapshots : s.at = 0}
    /\ polls = [t \in Tasks |-> Off]
    /\ committed = Nothing /\ searched = Nothing /\ references = Nothing
    /\ backoff = FALSE /\ service = "READY" /\ stopping = FALSE
    /\ failures = 0 /\ refreshes = 0 /\ commits = 0 /\ searches = 0

-----------------------------------------------------------------------------
\* Somebody works in the Set; the next poll tells the moments apart only by the second.
Change(music, detail) ==
    /\ live.at < MaxChanges
    /\ <<music, detail>> # Fingerprint(live)
    /\ live' = [music |-> music, detail |-> detail, at |-> live.at + 1]
    /\ UNCHANGED <<polls, state, stopping, counters>>

Stop == ~stopping /\ stopping' = TRUE /\ UNCHANGED <<live, polls, state, counters>>

\* The retry interval is over.
BackoffEnds ==
    /\ backoff /\ backoff' = FALSE
    /\ UNCHANGED <<live, polls, committed, searched, references, service, stopping, counters>>

Goes(t, poll) == polls' = [polls EXCEPT ![t] = poll]
Fail == failures < MaxFailures /\ failures' = failures + 1

\* run, which refuses while the state is another one, and refresh_references.
Run ==
    /\ polls["loop"] = Off
    /\ service \in {"READY", "STOPPED"}
    /\ service' = "READY"
    /\ Goes("loop", Idle)
    /\ UNCHANGED <<live, committed, searched, references, backoff, stopping, counters>>

Refresh ==
    /\ polls["refresh"] = Off
    /\ ~stopping
    /\ refreshes < MaxRefreshes /\ refreshes' = refreshes + 1
    /\ Goes("refresh", [pc |-> "fetching"])
    /\ UNCHANGED <<live, state, stopping, failures, commits, searches>>

\* The head of the loop, after the sleep.
LoopPolls ==
    /\ polls["loop"] = Idle
    /\ ~stopping
    /\ Goes("loop", [pc |-> "fetching"])
    /\ UNCHANGED <<live, state, stopping, counters>>

LoopEnds ==
    /\ polls["loop"] = Idle
    /\ stopping
    /\ Goes("loop", Off)
    /\ service' = "STOPPED"
    /\ UNCHANGED <<live, committed, searched, references, backoff, stopping, counters>>

\* fetch_snapshot runs in a thread: the task learns of its result later.
Fetch(t) ==
    /\ polls[t].pc = "fetching"
    /\ Goes(t, Poll("fetched", live))
    /\ UNCHANGED <<live, state, stopping, counters>>

BridgeFails(t) ==
    /\ polls[t].pc = "fetching"
    /\ Fail
    /\ service' = "WAITING_FOR_BRIDGE"
    /\ Goes(t, IF t = "loop" THEN Idle ELSE Off)
    /\ UNCHANGED <<live, committed, searched, references, backoff, stopping,
                   refreshes, commits, searches>>

\* A cycle is returned and becomes the service's latest.
Return(t) ==
    /\ service' = "OBSERVING"
    /\ Goes(t, IF t = "loop" THEN Idle ELSE Off)

Changed(s) == committed # Nothing => Fingerprint(committed) # Fingerprint(s)

\* Evidence that is older than what is recorded of the same project is refused.
TooOld(s) == committed # Nothing /\ s.at < committed.at

\* Mutant: any change of the Set is worth a search.
WantsAlways(t, s) == t = "refresh" \/ searched = Nothing \/ Changed(s) \/ searched # s.music

\* discovery_reason is not None.
Wants(t, s) == t = "refresh" \/ searched # s.music

\* attach and observe, unless nothing changed, and then the decision on discovery,
\* without an await in between.
Record(t) ==
    LET s == polls[t].snapshot IN
    /\ polls[t].pc = "fetched"
    /\ committed' = IF Changed(s) THEN s ELSE committed
    /\ commits' = IF Changed(s) THEN commits + 1 ELSE commits
    /\ IF Wants(t, s) /\ (t = "refresh" \/ ~backoff)
       THEN /\ Goes(t, Poll("searching", s))
            /\ searches' = IF t = "loop" THEN searches + 1 ELSE searches
            /\ UNCHANGED service
       ELSE Return(t) /\ UNCHANGED searches
    /\ UNCHANGED <<live, searched, references, backoff, stopping, failures, refreshes>>

\* attach or observe raises, which neither run nor refresh_references catches.  Part of
\* the snapshot may be on record by then, under the old fingerprint.
RecordFails(t) ==
    LET s == polls[t].snapshot IN
    /\ polls[t].pc = "fetched"
    /\ Changed(s)
    /\ IF TooOld(s) THEN UNCHANGED failures ELSE Fail
    /\ Goes(t, Off)
    /\ service' = IF t = "loop" THEN "STOPPED" ELSE service
    /\ UNCHANGED <<live, committed, searched, references, backoff, stopping,
                   refreshes, commits, searches>>

\* Mutant: the Set is fingerprinted again when the answer is there.
SearchAnswersNow(t) ==
    /\ polls[t].pc = "searching"
    /\ references' = polls[t].snapshot.music
    /\ searched' = live.music
    /\ backoff' = FALSE
    /\ Return(t)
    /\ UNCHANGED <<live, committed, stopping, counters>>

SearchAnswers(t) ==
    /\ polls[t].pc = "searching"
    /\ references' = polls[t].snapshot.music
    /\ searched' = polls[t].snapshot.music
    /\ backoff' = FALSE
    /\ Return(t)
    /\ UNCHANGED <<live, committed, stopping, counters>>

\* Mutant: a failed search counts as a search.
SearchFailsForGood(t) ==
    /\ polls[t].pc = "searching"
    /\ Fail
    /\ searched' = polls[t].snapshot.music
    /\ backoff' = TRUE
    /\ Return(t)
    /\ UNCHANGED <<live, committed, references, stopping, refreshes, commits, searches>>

\* The interval is counted from before the search, and may be over by now (BackoffEnds).
SearchFails(t) ==
    /\ polls[t].pc = "searching"
    /\ Fail
    /\ backoff' = TRUE
    /\ Return(t)
    /\ UNCHANGED <<live, committed, searched, references, stopping, refreshes, commits, searches>>

Step(t) ==
    Fetch(t) \/ BridgeFails(t) \/ Record(t) \/ RecordFails(t) \/ SearchAnswers(t) \/ SearchFails(t)

Next ==
    \/ \E music \in Musics, detail \in Details : Change(music, detail)
    \/ Stop \/ BackoffEnds \/ Run \/ Refresh \/ LoopPolls \/ LoopEnds
    \/ \E t \in Tasks : Step(t)

\* The event loop runs whatever can go on, time passes, and every request has a timeout.
Fairness ==
    /\ WF_vars(LoopPolls \/ LoopEnds) /\ WF_vars(BackoffEnds)
    /\ \A t \in Tasks : WF_vars(Step(t))

Spec == Init /\ [][Next]_vars /\ Fairness

-----------------------------------------------------------------------------
(* Properties.                                                             *)

\* The music that counts as searched is the one the references were found for, whichever
\* of two overlapping polls answered last.
ReferencesAreOfSearched == searched = references

\* "without turning polling into provider spam": the loop searches at most once for each
\* change of the music's Set, each failure and each refresh that crossed it, and the
\* profile takes an observation only for a change or a refresh that crossed one.
PollingIsQuiet ==
    /\ searches <= 1 + live.at + failures + refreshes
    /\ commits <= 1 + live.at + 2 * refreshes

\* A failed search is repeated: once the Set is left alone and bridge and provider answer,
\* a loop that goes on has the references of the music that is open.
ReferencesCatchUp == <>[](~stopping /\ polls["loop"] # Off => references = live.music)

=============================================================================

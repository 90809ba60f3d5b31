------------------------------ MODULE Learning ------------------------------
(***************************************************************************)
(* What the artist learns at work.  n0te/learning.py with                  *)
(* learning_experiment.py: a change, what was observed after it and one    *)
(* decision.  n0te/skills.py with skill_model.py: assessments of a skill,  *)
(* the last of which counts.  n0te/suggestion_deferral.py: suggestions put *)
(* off for a session, until another Song or for good.  The pages prepare a *)
(* binding; the call that comes back with it looks again.                  *)
(***************************************************************************)
EXTENDS Naturals, Sequences, FiniteSets

CONSTANTS
    Works,         \* Songs
    NoWork,        \* no Song is active
    MaxSessions,   \* sessions of a Song (a bound)
    MaxSelections, \* Songs selected (a bound)
    MaxEpisodes, MaxSeen,    \* episodes, and observations of one (bounds)
    Levels,                  \* of the skill, of those that a skill may have
    MaxAssessments,          \* assessments of the skill (a bound)
    Suggestions, MaxDeferrals,   \* semantic keys; deferrals with the calls for one (a bound)
    MaxPending     \* calls that have read and not yet written (a bound)

VARIABLES
    activity,     \* SONG_SELECTED and SUGGESTION_DEFERRED, in the order of seq
    work,         \* the sessions of each Song, in the order of seq
    episodes,     \* learning_episodes with their observations and decisions
    assessments,  \* skill_assessments of one skill
    deferrals,    \* suggestion_deferrals
    pending       \* calls between their reads and their write

vars == <<activity, work, episodes, assessments, deferrals, pending>>

Events == DOMAIN activity
Selections == {n \in Events : activity[n].event = "SONG_SELECTED"}
ActiveSong ==
    IF Selections = {} THEN NoWork
    ELSE activity[CHOOSE n \in Selections : \A m \in Selections : m <= n].song

\* latest_for_song: its place, 0 when there is none.
LatestSession(song) == IF song = NoWork THEN 0 ELSE Len(work[song])
IsOpen(song, n) == n \in DOMAIN work[song] /\ work[song][n] = "OPEN"
IsClosed(song, n) == n \in DOMAIN work[song] /\ work[song][n] = "CLOSED"

Undecided == [by |-> "NOBODY", reviewed |-> 0]
Decided(e) == episodes[e].decision # Undecided

Init ==
    /\ activity = <<>> /\ work = [s \in Works |-> <<>>]
    /\ episodes = <<>> /\ assessments = <<>> /\ deferrals = <<>> /\ pending = {}

-----------------------------------------------------------------------------
(* The Song and its sessions: lineage.py and session.py.                   *)

Select_song(song) ==
    /\ Cardinality(Selections) < MaxSelections
    /\ song # ActiveSong   \* activity_song_selected: only when the value changes
    /\ activity' = Append(activity, [event |-> "SONG_SELECTED", song |-> song, ref |-> 0])
    /\ UNCHANGED <<work, episodes, assessments, deferrals, pending>>

Start_session(song) ==
    /\ Len(work[song]) < MaxSessions
    /\ ~IsOpen(song, Len(work[song]))
    /\ work' = [work EXCEPT ![song] = Append(@, "OPEN")]
    /\ UNCHANGED <<activity, episodes, assessments, deferrals, pending>>

Close_session(song) ==
    /\ IsOpen(song, Len(work[song]))
    /\ work' = [work EXCEPT ![song][Len(work[song])] = "CLOSED"]
    /\ UNCHANGED <<activity, episodes, assessments, deferrals, pending>>

Asks(call) ==
    /\ Cardinality(pending) < MaxPending
    /\ pending' = pending \cup {call}
    /\ UNCHANGED <<activity, work, episodes, assessments, deferrals>>

-----------------------------------------------------------------------------
(* LearningMemory and LearningExperimentService.                           *)

Episode(song, session) ==
    [song |-> song, session |-> session, seen |-> 0, decision |-> Undecided]

Create_episode(song, n) ==
    /\ Len(episodes) < MaxEpisodes /\ n \in DOMAIN work[song]
    /\ episodes' = Append(episodes, Episode(song, n))
    /\ UNCHANGED <<activity, work, assessments, deferrals, pending>>

Start_binding ==
    /\ Len(episodes) < MaxEpisodes
    /\ ActiveSong # NoWork /\ IsOpen(ActiveSong, LatestSession(ActiveSong))
    /\ Asks([op |-> "start", song |-> ActiveSong, session |-> LatestSession(ActiveSong)])

StartHolds(call) ==
    ActiveSong = call.song /\ LatestSession(call.song) = call.session
        /\ IsOpen(call.song, call.session)

Start_episode(call) ==
    /\ call.op = "start" /\ StartHolds(call)
    /\ pending' = pending \ {call}
    /\ Len(episodes) < MaxEpisodes
    /\ episodes' = Append(episodes, Episode(call.song, call.session))
    /\ UNCHANGED <<activity, work, assessments, deferrals>>

Observes(e) ==
    /\ episodes[e].seen < MaxSeen
    /\ episodes' = [episodes EXCEPT ![e].seen = @ + 1]
    /\ UNCHANGED <<activity, work, assessments, deferrals>>

\* Of the service, in one transaction; and of the memory, whose look at the decision comes
\* before its transaction: learning_consequences_open_only.
Append_observation(e) ==
    /\ ActiveSong = episodes[e].song /\ ~Decided(e)
    /\ Observes(e) /\ UNCHANGED pending

AppendReads(e) == ~Decided(e) /\ Asks([op |-> "append", episode |-> e])
Append_consequence(call) ==
    /\ call.op = "append" /\ ~Decided(call.episode)
    /\ pending' = pending \ {call}
    /\ Observes(call.episode)

Decides(call, by, reviewed) ==
    /\ pending' = pending \ {call}
    /\ episodes' = [episodes EXCEPT ![call.episode].decision = [by |-> by, reviewed |-> reviewed]]
    /\ UNCHANGED <<activity, work, assessments, deferrals>>

\* Of the memory: learning_decisions has one row for an episode.
MemoryDecideReads(e) ==
    /\ ~Decided(e) /\ episodes[e].seen > 0
    /\ Asks([op |-> "settle", episode |-> e])
MemoryDecides(call) ==
    /\ call.op = "settle" /\ ~Decided(call.episode)
    /\ Decides(call, "MEMORY", episodes[call.episode].seen)

\* Of the service: the observations must be those the page was rendered with.
Decision_binding(e) ==
    /\ ~Decided(e) /\ episodes[e].seen > 0
    /\ Asks([op |-> "decide", episode |-> e, seen |-> episodes[e].seen])

\* Mutant: whether there is a decision by then, not what was observed by then.
DecideHoldsUndecided(call) == ActiveSong = episodes[call.episode].song /\ ~Decided(call.episode)

DecideHolds(call) ==
    /\ ActiveSong = episodes[call.episode].song
    /\ ~Decided(call.episode)
    /\ episodes[call.episode].seen = call.seen

Decide(call) ==
    /\ call.op = "decide" /\ DecideHolds(call)
    /\ Decides(call, "ARTIST", call.seen)

-----------------------------------------------------------------------------
(* SkillMemory and SkillModelService.                                      *)

Sources == {"ARTIST_DECLARED", "ARTIST_CORRECTION", "N0TE_ASSESSED", "OBSERVED"}
RealWork == {"PRACTICED", "APPLIED", "INDEPENDENT"}
NoSession == <<NoWork, 0>>

\* The checks of record_assessment, which the skill_ triggers repeat.
Assessable(level, source, session) ==
    /\ level = "UNKNOWN" => source = "ARTIST_CORRECTION"
    /\ source \in {"N0TE_ASSESSED", "OBSERVED"} /\ level \in RealWork =>
          session # NoSession /\ IsClosed(session[1], session[2])

Assesses(level, source, session, reviewed) ==
    /\ Len(assessments) < MaxAssessments
    /\ assessments' = Append(assessments, [level |-> level, source |-> source,
                                           session |-> session, reviewed |-> reviewed])
    /\ UNCHANGED <<activity, work, episodes, deferrals>>

Record_assessment(level, source, session) ==
    /\ Assessable(level, source, session)
    /\ Assesses(level, source, session, Len(assessments)) /\ UNCHANGED pending

Declare(level) ==
    /\ assessments = <<>> /\ level # "UNKNOWN"
    /\ Assesses(level, "ARTIST_DECLARED", NoSession, 0) /\ UNCHANGED pending

Binding_for(level) ==
    /\ assessments # <<>>
    /\ Asks([op |-> "correct", level |-> level, expected |-> Len(assessments)])

\* Mutant: the assessment to correct need only be there.
CorrectAnyhow(call) ==
    /\ call.op = "correct"
    /\ pending' = pending \ {call}
    /\ Assesses(call.level, "ARTIST_CORRECTION", NoSession, call.expected)

Correct(call) ==
    /\ call.op = "correct" /\ Len(assessments) = call.expected
    /\ pending' = pending \ {call}
    /\ Assesses(call.level, "ARTIST_CORRECTION", NoSession, call.expected)

\* SkillMemory.state
SkillLevel ==
    IF assessments = <<>> THEN "UNKNOWN" ELSE assessments[Len(assessments)].level

-----------------------------------------------------------------------------
(* SuggestionDeferralMemory.                                               *)

Scopes == {"LATER_THIS_SONG", "NEXT_SONG", "NEVER_SUGGEST_AGAIN"}
Deferrals == DOMAIN deferrals

\* _next_song_horizon_crossed
Crossed(d) ==
    \E origin, n \in Events :
        /\ activity[origin].event = "SUGGESTION_DEFERRED" /\ activity[origin].ref = d
        /\ n > origin /\ n \in Selections /\ activity[n].song # deferrals[d].song

\* Mutant: an older NEXT_SONG row answers although its Song is over.
ExistingEver(call) ==
    {d \in Deferrals : deferrals[d].key = call.key /\ deferrals[d].scope = call.scope
                           /\ deferrals[d].song = call.song}

\* _existing, in the transaction
Existing(call) ==
    {d \in Deferrals :
        /\ deferrals[d].key = call.key /\ deferrals[d].scope = call.scope
        /\ CASE call.scope = "LATER_THIS_SONG" -> deferrals[d].song = call.song
                                                     /\ deferrals[d].session = call.session
             [] call.scope = "NEXT_SONG" -> deferrals[d].song = call.song /\ ~Crossed(d)
             [] OTHER -> TRUE}

\* The Song and its session are read before the transaction.
DeferReads(key, scope) ==
    /\ Len(deferrals) + Cardinality(pending) <= MaxDeferrals
    /\ ActiveSong # NoWork
    /\ scope = "LATER_THIS_SONG" => LatestSession(ActiveSong) # 0
    /\ Asks([op |-> "defer", key |-> key, scope |-> scope, song |-> ActiveSong,
             session |-> LatestSession(ActiveSong)])

Defer(call) ==
    /\ call.op = "defer"
    /\ pending' = pending \ {call}
    /\ IF Existing(call) # {} THEN UNCHANGED <<deferrals, activity>>
       ELSE /\ Len(deferrals) < MaxDeferrals
            /\ deferrals' = Append(deferrals, [key |-> call.key, scope |-> call.scope,
                                               song |-> call.song, session |-> call.session])
            /\ activity' = Append(activity, [event |-> "SUGGESTION_DEFERRED",
                                             song |-> call.song, ref |-> Len(deferrals) + 1])
    /\ UNCHANGED <<work, episodes, assessments>>

IsDeferredNow(key) ==
    /\ ActiveSong # NoWork
    /\ \E d \in Deferrals :
          /\ deferrals[d].key = key
          /\ CASE deferrals[d].scope = "NEVER_SUGGEST_AGAIN" -> TRUE
               [] deferrals[d].scope = "NEXT_SONG" -> ~Crossed(d)
               [] OTHER -> /\ deferrals[d].song = ActiveSong
                           /\ deferrals[d].session = LatestSession(ActiveSong)
                           /\ deferrals[d].session # 0

-----------------------------------------------------------------------------
Holds(call) ==
    CASE call.op = "start" -> StartHolds(call)
      [] call.op = "decide" -> DecideHolds(call)
      [] call.op \in {"append", "settle"} -> ~Decided(call.episode)
      [] call.op = "correct" -> Len(assessments) = call.expected
      [] OTHER -> TRUE

\* What was prepared has moved: the call is refused, and changes nothing.
Stale(call) ==
    /\ call \in pending /\ ~Holds(call)
    /\ pending' = pending \ {call}
    /\ UNCHANGED <<activity, work, episodes, assessments, deferrals>>

Next ==
    \/ \E song \in Works : Select_song(song) \/ Start_session(song) \/ Close_session(song)
    \/ \E song \in Works, n \in 1..MaxSessions : Create_episode(song, n)
    \/ Start_binding
    \/ \E e \in DOMAIN episodes :
          Append_observation(e) \/ AppendReads(e) \/ MemoryDecideReads(e) \/ Decision_binding(e)
    \/ \E level \in Levels, source \in Sources :
          \E session \in {NoSession} \cup (Works \X (1..MaxSessions)) :
             Record_assessment(level, source, session)
    \/ \E level \in Levels : Declare(level) \/ Binding_for(level)
    \/ \E key \in Suggestions, scope \in Scopes : DeferReads(key, scope)
    \/ \E call \in pending :
          \/ Start_episode(call) \/ Append_consequence(call) \/ MemoryDecides(call)
          \/ Decide(call) \/ Correct(call) \/ Defer(call) \/ Stale(call)

Spec == Init /\ [][Next]_vars

-----------------------------------------------------------------------------
(* Properties.                                                             *)

\* learning_experiment.decide: an artist's decision rests on exactly the observations
\* that were on the page, whatever was recorded beside it, and none comes after it.
\* skill_model.correct: a correction is of the assessment that was on the page, and no
\* level of real work stands on the word of N0TE alone.
JudgedAsSeen ==
    /\ \A e \in DOMAIN episodes :
          Decided(e) => episodes[e].seen > 0 /\ episodes[e].decision.reviewed = episodes[e].seen
    /\ \A n \in DOMAIN assessments :
          /\ assessments[n].reviewed = n - 1
          /\ Assessable(assessments[n].level, assessments[n].source, assessments[n].session)

\* suggestion_deferral: two equal calls never leave two rows that are both in force.
OneHorizon ==
    \A c, d \in Deferrals :
        c # d /\ deferrals[c].key = deferrals[d].key /\ deferrals[c].scope = deferrals[d].scope =>
           CASE deferrals[c].scope = "LATER_THIS_SONG" ->
                    <<deferrals[c].song, deferrals[c].session>> # <<deferrals[d].song, deferrals[d].session>>
             [] deferrals[c].scope = "NEXT_SONG" ->
                    deferrals[c].song # deferrals[d].song \/ Crossed(c) \/ Crossed(d)
             [] OTHER -> FALSE

\* suggestion_deferral._defer: a suggestion put off is out of sight when the call returns,
\* also the second time, unless the Song or its session has moved on meanwhile; and then
\* it stays so until another Song is selected or another session is started.
ADeferralIsHeeded ==
    /\ \A call \in pending \ pending' :
          /\ call.op = "defer"
          /\ ActiveSong = call.song /\ LatestSession(call.song) = call.session
          => IsDeferredNow(call.key)'
    /\ \A key \in Suggestions :
          IsDeferredNow(key) /\ ~IsDeferredNow(key)' => ActiveSong' # ActiveSong \/ work' # work
DeferralsAreHeeded == [][ADeferralIsHeeded]_vars

=============================================================================

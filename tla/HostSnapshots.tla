---------------------------- MODULE HostSnapshots ----------------------------
(***************************************************************************)
(* What N0TE knows of an open project, for each of the five hosts: the     *)
(* snapshot a host can give, what of it counts as a change worth keeping,  *)
(* and the evidence that is kept.  FL Studio and REAPER put the snapshot   *)
(* into a file beside their script, FL Studio reads notices from another;  *)
(* the other hosts are asked.  That polls may cross is left to             *)
(* ContinuousObserver, how MIDI is heard to MidiMonitor and MidiWire.      *)
(***************************************************************************)
EXTENDS Naturals, FiniteSets

CONSTANTS
    Hosts,       \* the hosts looked at
    Tempos,      \* tempos, in thousandths of a beat per minute
    FirstTempo,  \* the one a project begins with
    MaxChanges,  \* changes in the host, a project opened later among them (a bound)
    MaxSessions, \* projects opened one after the other (a bound)
    MaxNotices   \* searches that found a reference (a bound)

VARIABLES
    host,
    live,      \* the open project; its script runs, or not
    file,      \* the snapshot file, and whether it is young enough
    replacing, \* REAPER's script has removed the file and not renamed the new one yet
    notice,    \* the notice file
    lastShown, \* _LAST_NOTICE_ID
    shown,     \* notices shown, each with the session it was shown in
    polled,    \* _latest_snapshot
    twin,      \* evidence last recorded, with its fingerprint
    commits,   \* records so far
    searched,  \* _last_successful_reference_fingerprint
    found, changes, crashed

hostVars == <<host, live, changes, crashed>>
fileVars == <<file, replacing>>
noticeVars == <<notice, lastShown, shown>>
observer == <<polled, twin, commits, searched, found>>
vars == <<hostVars, fileVars, noticeVars, observer>>

Nil == [none |-> TRUE]
InFile == {"FL_STUDIO", "REAPER"}
HasTracks == {"ABLETON_LIVE", "FL_STUDIO", "REAPER"}

\* What a script can say of a project, complete or not at all where from_payload insists on it.
Project(session) ==
    [session |-> session, saved |-> FALSE, tempo |-> FirstTempo, playing |-> "NO", position |-> 0,
     mode |-> "off", tracks |-> {}, names |-> [t \in {1, 2} |-> "a"], chain |-> "none",
     channel |-> 0, generator |-> "none", window |-> "none"]

Init ==
    /\ host \in Hosts
    /\ live = [running |-> TRUE, project |-> Project(1)]
    /\ file = Nil /\ replacing = FALSE
    /\ notice = Nil /\ lastShown = 0 /\ shown = {}
    /\ polled = Nil /\ twin = Nil /\ commits = 0 /\ searched = Nil /\ found = 0
    /\ changes = 0 /\ crashed = FALSE

-----------------------------------------------------------------------------
(* Facts about a project.  Device refs name a track or channel, and what a *)
(* script could not read completely is not reported at all.                *)

\* What a script gives of tracks, chain and generator, and from_payload insists on: a chain
\* with the one selected track, a generator with a selected channel.
ChainHasTrack(p) == Cardinality(p.tracks) # 1 => p.chain = "none"
AbletonGives(p) == Cardinality(p.tracks) <= 1 /\ ChainHasTrack(p) /\ p.chain # "unread"
FLStudioGives(p) ==
    Cardinality(p.tracks) <= 1 /\ ChainHasTrack(p) /\ (p.channel = 0 => p.generator = "none")
ReaperGives(p) == ChainHasTrack(p)

TrackRef(t) == IF t = 1 THEN "track:1" ELSE "track:2"
DeviceRef(t) == IF t = 1 THEN "device:track:1:0" ELSE "device:track:2:0"
ChannelRef(c) == IF c = 1 THEN "channel:1" ELSE "channel:2"
GeneratorRef(c) == IF c = 1 THEN "device:channel:1:generator" ELSE "device:channel:2:generator"

Timing(p) ==
    {<<"tempo:main", "bpm", p.tempo>>}
        \cup (IF p.playing = "UNKNOWN" THEN {} ELSE {<<"transport:main", "is_playing", p.playing>>})
Position(p) == {<<"transport:main", "position", p.position>>}
Mode(p) == {<<"transport:main", "mode", p.mode>>}
TrackFacts(p) == {<<TrackRef(t), "name", p.names[t]>> : t \in p.tracks}

ChainSeen(p) == Cardinality(p.tracks) = 1 /\ p.chain # "unread"
\* Mutant: what could not be read counts as no device.
ChainOrNone(p) ==
    UNION {IF p.chain # "x" THEN {<<TrackRef(t), "device_count", 0>>}
           ELSE {<<TrackRef(t), "device_count", 1>>, <<DeviceRef(t), "track_ref", TrackRef(t)>>,
                 <<DeviceRef(t), "name", p.chain>>} : t \in p.tracks}

Chain(p) ==
    IF ~ChainSeen(p) THEN {}
    ELSE UNION {IF p.chain = "none" THEN {<<TrackRef(t), "device_count", 0>>}
                ELSE {<<TrackRef(t), "device_count", 1>>, <<DeviceRef(t), "track_ref", TrackRef(t)>>,
                      <<DeviceRef(t), "name", p.chain>>}
                    : t \in p.tracks}
GeneratorSeen(p) == p.channel # 0 /\ p.generator # "unread"
Generator(p) ==
    IF GeneratorSeen(p) /\ p.generator # "none"
    THEN {<<GeneratorRef(p.channel), "channel_ref", ChannelRef(p.channel)>>,
          <<GeneratorRef(p.channel), "name", p.generator>>}
    ELSE {}

Basics == {"tempo.read", "transport.read"}
Only(condition, capability) == IF condition THEN {capability} ELSE {}

AbletonLocation(p) == IF p.saved THEN <<"set", 0>> ELSE <<"session", p.session>>
SessionLocation(p) == <<"session", p.session>>

\* What each observation says: shadow's facts and capabilities, with focus_dimensions below.
AbletonShadow(p) == Timing(p) \cup Position(p) \cup TrackFacts(p) \cup Chain(p)
AbletonEvidence(p) ==
    [location |-> AbletonLocation(p),
     capabilities |-> Basics \cup {"focus.track.read", "device.chain.read"},
     focus |-> {TrackRef(t) : t \in p.tracks},
     facts |-> AbletonShadow(p)]

FLStudioShadow(p) ==
    Timing(p) \cup Position(p) \cup Mode(p) \cup TrackFacts(p) \cup Chain(p) \cup Generator(p)
FLStudioEvidence(p) ==
    [location |-> SessionLocation(p),
     capabilities |-> Basics \cup {"project.metadata.read"}
         \cup Only(p.tracks # {}, "focus.track.read")
         \cup Only(p.window # "none", "focus.active-editor.read")
         \cup Only(ChainSeen(p) \/ GeneratorSeen(p), "device.chain.read"),
     focus |-> {TrackRef(t) : t \in p.tracks} \cup Only(p.window # "none", p.window),
     facts |-> FLStudioShadow(p)]

\* Several selected tracks are an ambiguous focus.
ReaperShadow(p) == Timing(p) \cup Position(p) \cup Mode(p) \cup TrackFacts(p) \cup Chain(p)
ReaperEvidence(p) ==
    [location |-> SessionLocation(p),
     capabilities |-> Basics
         \cup {"project.metadata.read", "project.state-change.read", "track.count.read"}
         \cup Only(p.tracks # {}, "focus.track.read") \cup Only(ChainSeen(p), "device.chain.read"),
     focus |-> {TrackRef(t) : t \in p.tracks},
     facts |-> ReaperShadow(p)]

\* The mode stands for cycle and meter.
LogicEvidence(p) ==
    [location |-> SessionLocation(p),
     capabilities |-> Basics \cup {"meter.read", "cycle.read"}, focus |-> {},
     facts |-> Timing(p) \cup Mode(p)]

StudioOneEvidence(p) ==
    [location |-> SessionLocation(p), capabilities |-> Basics, focus |-> {},
     facts |-> Timing(p)]

-----------------------------------------------------------------------------
(* project_active_tools: the devices a FULL batch has left in the shadow.  *)

Devices == {DeviceRef(1), DeviceRef(2), GeneratorRef(1), GeneratorRef(2)}
Parents(facts, d) == {f[3] : f \in {g \in facts : g[1] = d /\ g[2] \in {"track_ref", "channel_ref"}}}
ToolsIn(facts, parent) == {d \in Devices : parent \in Parents(facts, d)}
Observed(facts) == {f[1] : f \in {g \in facts : g[2] = "name"}}

\* No ActiveToolProjectionError: every device is named and has one parent, a track only one
\* that is observed, and a count is of the devices there are.
Projects(facts) ==
    /\ \A d \in Devices : d \in {f[1] : f \in facts} =>
          /\ d \in Observed(facts) /\ Cardinality(Parents(facts, d)) = 1
          /\ Parents(facts, d) \subseteq Observed(facts) \cup {ChannelRef(1), ChannelRef(2)}
    /\ \A f \in facts : f[2] = "device_count" => f[3] = Cardinality(ToolsIn(facts, f[1]))

\* The scopes, each with its tools and whether they are all there are.
Scopes(facts) ==
    {[parent |-> s[1], coverage |-> IF s[2] THEN "COMPLETE" ELSE "OBSERVED",
      tools |-> ToolsIn(facts, s[1])] : s \in
        {<<f[1], TRUE>> : f \in {g \in facts : g[2] = "device_count"}}
            \cup {<<f[3], FALSE>> : f \in {g \in facts : g[2] = "channel_ref"}}}

-----------------------------------------------------------------------------
(* _observation_fingerprint and _reference_fingerprint of each observer.   *)

Named(p) == {<<t, p.names[t]>> : t \in p.tracks}
Hundredths(tempo) == (tempo + 5) \div 10
WholeBeats(tempo) == (tempo + 500) \div 1000

\* Mutant: the device chain is left to the next change of something else.
AbletonObservedWithoutChain(p) == <<AbletonLocation(p), p.tempo, p.playing, Named(p)>>

AbletonObserved(p) == <<AbletonLocation(p), p.tempo, p.playing, Named(p), p.chain>>

FLStudioObserved(p) ==
    <<SessionLocation(p), p.tempo, p.playing, p.mode, Named(p), p.window,
      ChainSeen(p), IF ChainSeen(p) THEN p.chain ELSE "none",
      GeneratorSeen(p), IF GeneratorSeen(p) THEN p.generator ELSE "none">>

\* Mutant: the play position counts as a change.
ReaperObservedMoving(p) ==
    <<SessionLocation(p), p.saved, p.tempo, p.playing, p.mode, Named(p), p.position,
      ChainSeen(p), IF ChainSeen(p) THEN p.chain ELSE "none">>

ReaperObserved(p) ==
    <<SessionLocation(p), p.saved, p.tempo, p.playing, p.mode, Named(p),
      ChainSeen(p), IF ChainSeen(p) THEN p.chain ELSE "none">>

LogicObserved(p) == <<SessionLocation(p), p.tempo, p.playing, p.mode>>

StudioOneObserved(p) == <<SessionLocation(p), Hundredths(p.tempo), p.playing>>

Location(p) == IF host = "ABLETON_LIVE" THEN AbletonLocation(p) ELSE SessionLocation(p)
Reference(p) == [location |-> Location(p), tempo |-> WholeBeats(p.tempo)]

-----------------------------------------------------------------------------
(* The host and its script.                                                *)

Alters(field, value) ==
    /\ live.project[field] # value
    /\ live' = [live EXCEPT !.project[field] = value]

Gives(p) ==
    /\ host = "ABLETON_LIVE" => AbletonGives(p)
    /\ host = "FL_STUDIO" => FLStudioGives(p)
    /\ host = "REAPER" => ReaperGives(p)

\* The artist plays, edits or selects; a chain belongs to the one selected track.  REAPER's
\* script and its windows share a thread.
Change ==
    /\ live.running /\ ~replacing
    /\ changes + live.project.session <= MaxChanges /\ changes' = changes + 1
    /\ \/ \E tempo \in Tempos : Alters("tempo", tempo)
       \/ \E playing \in {"NO", "YES"} : Alters("playing", playing)
       \/ host = "STUDIO_ONE" /\ Alters("playing", "UNKNOWN")
       \/ host \in HasTracks /\ Alters("position", 1 - live.project.position)
       \/ host \in {"FL_STUDIO", "REAPER", "LOGIC_PRO"}
          /\ \E mode \in {"off", "on"} : Alters("mode", mode)
       \/ host = "ABLETON_LIVE" /\ Alters("saved", TRUE)
       \/ \* a REAPER project under a new name is a new session to its script
          /\ host = "REAPER" /\ ~live.project.saved /\ live.project.session < MaxSessions
          /\ live' = [live EXCEPT !.project.saved = TRUE, !.project.session = @ + 1]
       \/ host \in HasTracks
          /\ \E tracks \in SUBSET {1, 2}, chain \in {"none", "x", "unread"} :
                /\ <<tracks, chain>> # <<live.project.tracks, live.project.chain>>
                /\ live' = [live EXCEPT !.project.tracks = tracks, !.project.chain = chain]
       \/ \E t \in live.project.tracks :
             live' = [live EXCEPT !.project.names[t] = IF @ = "a" THEN "b" ELSE "a"]
       \/ host = "FL_STUDIO"
          /\ \/ \E channel \in {0, 1, 2}, generator \in {"none", "g", "unread"} :
                   /\ <<channel, generator>> # <<live.project.channel, live.project.generator>>
                   /\ live' = [live EXCEPT !.project.channel = channel,
                                           !.project.generator = generator]
             \/ \E window \in {"none", "mixer", "plugin"} : Alters("window", window)
    /\ Gives(live'.project)
    /\ UNCHANGED <<host, crashed, fileVars, noticeVars, observer>>

Fresh(project) == [fresh |-> TRUE, project |-> project]
Shows(n, session) == shown' = shown \cup {[notice |-> n, session |-> session]}

\* Mutant: a notice is shown in whatever project is open.
ReadsAnyNotice(session) == notice # Nil /\ notice.fresh /\ notice.id # lastShown

\* _poll_notice: what it goes on to show.
ReadsNotice(session) ==
    notice # Nil /\ notice.fresh /\ notice.id # lastShown /\ notice.session = session

PollsNotice(session) ==
    IF ReadsNotice(session)
    THEN /\ Shows(notice, session) /\ lastShown' = notice.id
         /\ notice' \in {Nil, notice}   \* it may not be possible to remove the file
    ELSE /\ notice' \in IF notice # Nil /\ notice.id = lastShown THEN {Nil, notice} ELSE {notice}
         /\ UNCHANGED <<lastShown, shown>>

\* OnIdle, OnRefresh and OnDoFullRefresh.
FLStudioIdles ==
    /\ host = "FL_STUDIO" /\ live.running
    /\ file' = Fresh(live.project)
    /\ PollsNotice(live.project.session)
    /\ UNCHANGED <<hostVars, replacing, observer>>

\* REAPER's write_snapshot removes the old file before it renames the new one.
ReaperRemoves ==
    /\ host = "REAPER" /\ live.running /\ ~replacing
    /\ replacing' = TRUE /\ file' = Nil
    /\ UNCHANGED <<hostVars, noticeVars, observer>>

ReaperRenames ==
    /\ replacing
    /\ replacing' = FALSE /\ file' = Fresh(live.project)
    /\ UNCHANGED <<hostVars, noticeVars, observer>>

\* _rotate_bridge_session on OnProjectLoad; a new project for the other scripts.
OpenProject ==
    /\ live.running /\ live.project.session < MaxSessions /\ ~replacing
    /\ live' = [live EXCEPT !.project = Project(live.project.session + 1)]
    /\ IF host = "FL_STUDIO"
       THEN /\ file' = Fresh(live'.project) /\ lastShown' = 0
            /\ UNCHANGED <<notice, shown>>
       ELSE UNCHANGED <<file, noticeVars>>
    /\ UNCHANGED <<host, changes, crashed, replacing, observer>>

\* Mutant: the snapshot stays behind.
KeepsSnapshot == UNCHANGED file

\* _remove_own_snapshot
RemovesSnapshot ==
    file' = IF file # Nil /\ file.project.session = live.project.session THEN Nil ELSE file

\* OnDeInit of FL Studio; nothing of the kind elsewhere.
Close ==
    /\ live.running /\ ~replacing /\ live' = [live EXCEPT !.running = FALSE]
    /\ IF host = "FL_STUDIO" THEN RemovesSnapshot ELSE UNCHANGED file
    /\ UNCHANGED <<host, changes, crashed, replacing, noticeVars, observer>>

Crash ==
    /\ live.running /\ ~crashed
    /\ live' = [live EXCEPT !.running = FALSE] /\ crashed' = TRUE
    /\ replacing' = FALSE
    /\ UNCHANGED <<host, changes, file, noticeVars, observer>>

Start ==
    /\ ~live.running /\ live.project.session < MaxSessions
    /\ live' = [running |-> TRUE, project |-> Project(live.project.session + 1)]
    /\ lastShown' = 0
    /\ file' = IF host = "FL_STUDIO" THEN Fresh(live'.project) ELSE file
    /\ UNCHANGED <<host, changes, crashed, replacing, notice, shown, observer>>

\* Five seconds without a new snapshot, ten with the same notice.
Age ==
    /\ \/ file # Nil /\ file.fresh /\ file' = [file EXCEPT !.fresh = FALSE] /\ UNCHANGED notice
       \/ notice # Nil /\ notice.fresh /\ notice' = [notice EXCEPT !.fresh = FALSE]
          /\ UNCHANGED file
    /\ UNCHANGED <<hostVars, replacing, lastShown, shown, observer>>

-----------------------------------------------------------------------------
(* poll_once, with the notice its service sends.                           *)

\* _record_snapshot, when the fingerprint has changed.
Records(observed, evidence) ==
    IF twin # Nil /\ twin.fingerprint = observed
    THEN UNCHANGED <<twin, commits>>
    ELSE twin' = [fingerprint |-> observed, evidence |-> evidence] /\ commits' = commits + 1

\* The search is done when the music changed; it may fail, or wait for a backoff.
Searches(p) ==
    \/ /\ searched # Reference(p) /\ found < MaxNotices
       /\ searched' = Reference(p) /\ found' = found + 1
       /\ notice' = IF host = "FL_STUDIO"
                    THEN [id |-> found', session |-> p.session, fresh |-> TRUE] ELSE notice
    \/ UNCHANGED <<searched, found, notice>>

Polls(p, observed, evidence) ==
    /\ polled' = p /\ Records(observed, evidence) /\ Searches(p)
    /\ UNCHANGED <<hostVars, fileVars, lastShown, shown>>

\* fetch_snapshot: a file that is there and young, or an answer of the open project.
OnFile == {p \in {file.project} : file.fresh}
Readable == IF file = Nil THEN {} ELSE OnFile
Asked == {p \in {live.project} : live.running}

AbletonPolls ==
    /\ host = "ABLETON_LIVE"
    /\ \E p \in Asked : AbletonGives(p) /\ Polls(p, AbletonObserved(p), AbletonEvidence(p))
FLStudioPolls ==
    /\ host = "FL_STUDIO"
    /\ \E p \in Readable : FLStudioGives(p) /\ Polls(p, FLStudioObserved(p), FLStudioEvidence(p))
ReaperPolls ==
    /\ host = "REAPER"
    /\ \E p \in Readable : ReaperGives(p) /\ Polls(p, ReaperObserved(p), ReaperEvidence(p))
LogicPolls ==
    host = "LOGIC_PRO" /\ \E p \in Asked : Polls(p, LogicObserved(p), LogicEvidence(p))
StudioOnePolls ==
    host = "STUDIO_ONE" /\ \E p \in Asked : Polls(p, StudioOneObserved(p), StudioOneEvidence(p))

Next ==
    \/ Change \/ FLStudioIdles \/ ReaperRemoves \/ ReaperRenames \/ OpenProject
    \/ Close \/ Crash \/ Start \/ Age
    \/ AbletonPolls \/ FLStudioPolls \/ ReaperPolls \/ LogicPolls \/ StudioOnePolls

Spec == Init /\ [][Next]_vars

-----------------------------------------------------------------------------
(* Properties.                                                             *)

\* What an observation of the host says.
Evidence(p) ==
    CASE host = "ABLETON_LIVE" -> AbletonEvidence(p)
      [] host = "FL_STUDIO" -> FLStudioEvidence(p)
      [] host = "REAPER" -> ReaperEvidence(p)
      [] host = "LOGIC_PRO" -> LogicEvidence(p)
      [] OTHER -> StudioOneEvidence(p)

\* Hot telemetry, and hundredths of a beat, may be as of the last record.
Lasting(evidence) ==
    [evidence EXCEPT !.facts =
        {IF f[2] = "bpm" /\ host = "STUDIO_ONE" THEN <<f[1], f[2], Hundredths(f[3])>> ELSE f
            : f \in {g \in evidence.facts : g[2] # "position"}}]

\* "Device-chain state is included because it changes the Technical Twin" and its like: what
\* N0TE has recorded is what the last snapshot says, whatever was polled in between.
TwinMirrorsTheHost == polled # Nil => Lasting(twin.evidence) = Lasting(Evidence(polled))

\* The same, save for the channel a generator of the same name sits in: FL Studio's
\* fingerprint names the generator and not its channel.
TwinIsCurrent ==
    polled # Nil =>
        LET generators == {GeneratorRef(1), GeneratorRef(2)}
            Others(e) == [e EXCEPT !.facts = {f \in @ : f[1] \notin generators}]
            Names(e) == {f[3] : f \in {g \in e.facts : g[1] \in generators /\ g[2] = "name"}} IN
        /\ Lasting(Others(twin.evidence)) = Lasting(Others(Evidence(polled)))
        /\ Names(twin.evidence) = Names(Evidence(polled))

\* The tools that are shown can be told of whatever was recorded, those of a selected track
\* are said to be all exactly when its chain was read, and a host's bridge never says of a
\* track what it knows of another.
ToolsAreKnown ==
    twin # Nil =>
        /\ Projects(twin.evidence.facts)
        /\ host \in HasTracks =>
              {s.parent : s \in {c \in Scopes(twin.evidence.facts) : c.coverage = "COMPLETE"}}
                  = IF ChainSeen(polled) THEN {TrackRef(t) : t \in polled.tracks} ELSE {}

\* "Current song time is intentionally excluded": a poll that finds nothing moved but the
\* play position appends nothing.
MovingCommitsNothing ==
    polled # Nil /\ polled' = [polled EXCEPT !.position = 1 - @] => commits' = commits
TelemetryIsQuiet == [][MovingCommitsNothing]_vars

\* A notice appears once, and only in the project its references were found for.
NoticesFindTheirProject ==
    /\ \A s \in shown : s.notice.session = s.session
    /\ \A s1, s2 \in shown : s1.notice.id = s2.notice.id => s1 = s2

\* FL Studio's script takes its snapshot away when it is closed: what is read belongs to
\* the open project, unless the host died.
ClosedIsNotRead ==
    host = "FL_STUDIO" /\ file # Nil /\ ~crashed =>
        live.running /\ file.project.session = live.project.session

=============================================================================

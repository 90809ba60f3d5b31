---------------------------- MODULE AbletonVolume ----------------------------
(***************************************************************************)
(* n0te/ableton.py over integrations/ableton/N0TEBridge: the artist tries  *)
(* a level of the selected track, keeps it or has it restored.  Each of    *)
(* the two changes is one operation with one action; the driver sends it   *)
(* to the bridge in Live, whose HTTP threads queue it for Live's own       *)
(* thread.  Both ends give up after two seconds; the queued call stays.    *)
(***************************************************************************)
EXTENDS Naturals, Sequences

CONSTANTS
    Tracks,     \* refs of tracks, the same in every Live Set: "track:0"
    Levels,     \* normalized volumes that differ by more than the tolerance
    MaxSets,    \* Live Sets opened one after the other (a bound)
    MaxOps,     \* operations (a bound)
    MaxTouches, \* what the artist does in Live meanwhile (a bound)
    MaxLost     \* answers that are late or lost, and crashes (a bound)

VARIABLES
    live,       \* the open Set, its selected track, the levels and whether they may be set
    flight,     \* actions sent that no HTTP thread has queued yet
    queue,      \* _pending_live_calls
    try,        \* run_try_volume: where it is and its locals
    ops,        \* the outcome of each operation, with what was shown before it
    effects,    \* what was changed in Live for N0TE, in order
    touches, lost

vars == <<live, flight, queue, try, ops, effects, touches, lost>>
liveVars == <<live, flight, queue, effects, touches>>

Idle == [pc |-> "idle"]
Here == [song |-> live.song, track |-> live.track, level |-> live.levels[live.track]]
Op == Len(ops)

Init ==
    /\ live \in [song : {1}, track : Tracks, levels : [Tracks -> Levels], enabled : {TRUE}]
    /\ flight = {} /\ queue = <<>> /\ try = Idle /\ ops = <<>> /\ effects = <<>>
    /\ touches = 0 /\ lost = 0

-----------------------------------------------------------------------------
(* Live.                                                                   *)

\* The artist moves the fader, selects another track, automates the level or opens a Set.
Touch ==
    /\ touches < MaxTouches /\ touches' = touches + 1
    /\ \/ \E level \in Levels \ {Here.level} : live' = [live EXCEPT !.levels[live.track] = level]
       \/ \E track \in Tracks \ {live.track} : live' = [live EXCEPT !.track = track]
       \/ live' = [live EXCEPT !.enabled = ~@]
       \/ live.song < MaxSets
          /\ \E track \in Tracks, levels \in [Tracks -> Levels] :
                live' = [song |-> live.song + 1, track |-> track, levels |-> levels,
                         enabled |-> TRUE]
    /\ UNCHANGED <<flight, queue, try, ops, effects, lost>>

\* A request's thread puts it into the queue.
Arrive(action) ==
    /\ action \in flight
    /\ flight' = flight \ {action} /\ queue' = Append(queue, action)
    /\ UNCHANGED <<live, try, ops, effects, touches, lost>>

\* Mutant: the level the action was prepared for is not compared.
AppliesAnyhow(action) ==
    live.enabled /\ action.song = live.song /\ action.track = live.track

\* _apply_selected_track_volume_action raises _ConflictError otherwise.
Applies(action) ==
    live.enabled /\ <<action.song, action.track, action.expected>>
                        = <<live.song, live.track, live.levels[live.track]>>

\* _drain_live_calls, one call; the answer is heard if somebody still waits for it.
Drain ==
    /\ queue # <<>> /\ queue' = Tail(queue)
    /\ LET action == Head(queue) IN
       /\ IF Applies(action)
          THEN /\ live' = [live EXCEPT !.levels[live.track] = action.desired]
               /\ effects' = Append(effects, [op |-> action.op, kind |-> action.kind,
                                song |-> live.song, track |-> live.track,
                                before |-> live.levels[live.track], after |-> action.desired])
          ELSE UNCHANGED <<live, effects>>
       /\ try' = IF action.heard
                 THEN [try EXCEPT !.answer = IF Applies(action) THEN "applied" ELSE "refused"]
                 ELSE try
    /\ UNCHANGED <<flight, ops, touches, lost>>

-----------------------------------------------------------------------------
(* The command.  A GET is queued like an action and sees what those before *)
(* it have done; the two GETs of an observation, which have to agree on    *)
(* Set and track, count as one.                                            *)

Goes(pc) == [try EXCEPT !.pc = pc]
Answered == queue = <<>>
Gone == lost < MaxLost /\ lost' = lost + 1

\* _observe_volume_context, when the try begins.
Try(target) ==
    /\ try.pc = "idle" /\ Op < MaxOps
    /\ Answered /\ live.enabled /\ Here.level # target
    /\ try' = [pc |-> "shown", phase |-> "TRY", shown |-> Here, target |-> target]
    /\ UNCHANGED <<liveVars, ops, lost>>

\* The artist types the token, or anything else: preview(), bind_approval and prepare().
Confirm ==
    /\ try.pc = "shown"
    /\ ops' = Append(ops, [outcome |-> "EXECUTING", phase |-> try.phase,
                           shown |-> try.shown, target |-> try.target])
    /\ try' = Goes("snapshot")
    /\ UNCHANGED <<liveVars, lost>>

Cancel == try.pc \in {"shown", "deciding"} /\ try' = Idle /\ UNCHANGED <<liveVars, ops, lost>>

Records(outcome) == ops' = [ops EXCEPT ![Op].outcome = outcome]
Ends(outcome) == Records(outcome) /\ try' = Idle

Sends(kind, base, expected, desired, pc) ==
    /\ flight' = flight \cup {[op |-> Op, kind |-> kind, song |-> base.song, track |-> base.track,
                               expected |-> expected, desired |-> desired, heard |-> TRUE]}
    /\ try' = [pc |-> pc, phase |-> try.phase, shown |-> try.shown, target |-> try.target,
               base |-> base, answer |-> "none"]

\* prepare_snapshot, and execute_action up to the request.
Snapshot ==
    /\ try.pc = "snapshot" /\ Answered
    /\ IF live.track = try.shown.track /\ live.enabled
       THEN /\ Sends("apply", Here, Here.level, try.target, "executing")
            /\ UNCHANGED <<live, queue, ops, effects, touches, lost>>
       ELSE Ends("FAILED") /\ UNCHANGED <<liveVars, lost>>   \* SAFE_FAILURE

SnapshotFails ==
    /\ try.pc = "snapshot" /\ Gone
    /\ Ends("FAILED") /\ UNCHANGED liveVars

Executed ==
    /\ try.pc = "executing" /\ try.answer # "none"
    /\ IF try.answer = "applied" THEN try' = Goes("verifying") /\ UNCHANGED ops ELSE Ends("FAILED")
    /\ UNCHANGED <<liveVars, lost>>

Forget(action) == [action EXCEPT !.heard = FALSE]
GivesUp ==
    /\ flight' = {Forget(action) : action \in flight}
    /\ queue' = [i \in DOMAIN queue |-> Forget(queue[i])]
    /\ UNCHANGED <<live, effects, touches>>

\* Mutant: no answer in time is taken for a refusal.
UnansweredIsRefused(pc) == IF pc = "executing" THEN "FAILED" ELSE "UNKNOWN"

\* AbletonTrackVolumeUnknownError, in execute_action or compensate_action.
UnansweredIs(pc) == "UNKNOWN"

Unanswered ==
    /\ try.pc \in {"executing", "compensating", "compensating in doubt"}
    /\ try.answer = "none" /\ Gone
    /\ Ends(UnansweredIs(try.pc)) /\ GivesUp

Is(song, track, level) == Here = [song |-> song, track |-> track, level |-> level]

\* verify_action: SATISFIED, or FAILED or UNKNOWN and then the change is taken back.
Verify ==
    /\ try.pc = "verifying" /\ Answered
    /\ IF Is(try.base.song, try.base.track, try.target)
       THEN /\ Records("SUCCEEDED")
            /\ try' = IF try.phase = "TRY" THEN Goes("deciding") ELSE Idle
            /\ UNCHANGED <<liveVars, lost>>
       ELSE /\ Sends("undo", try.base, try.target, try.base.level,
                     IF <<live.song, live.track>> = <<try.base.song, try.base.track>>
                     THEN "compensating" ELSE "compensating in doubt")
            /\ UNCHANGED <<live, queue, effects, touches, ops, lost>>

VerifyFails ==
    /\ try.pc = "verifying" /\ Gone
    /\ Sends("undo", try.base, try.target, try.base.level, "compensating in doubt")
    /\ UNCHANGED <<live, queue, effects, touches, ops>>

\* Mutant: a refused compensation leaves nothing to be restored.
RestoredOrRefused(pc) == pc = "compensating"

\* compensate_action is RESTORED when the level reads as the original again.
Restored(pc) ==
    /\ pc = "compensating" /\ try.answer = "applied"
    /\ Is(try.base.song, try.base.track, try.base.level)

Compensated ==
    /\ try.pc \in {"compensating", "compensating in doubt"} /\ try.answer # "none" /\ Answered
    /\ Ends(IF Restored(try.pc) THEN "FAILED" ELSE "UNKNOWN")
    /\ UNCHANGED <<liveVars, lost>>

\* The artist wants the old level back: _observe_volume_context with its three conditions.
Restore ==
    /\ try.pc = "deciding" /\ Op < MaxOps /\ Answered /\ live.enabled
    /\ IF Is(try.shown.song, try.shown.track, try.target)
       THEN try' = [pc |-> "shown", phase |-> "RESTORE", shown |-> Here,
                    target |-> try.shown.level]
       ELSE try' = Idle
    /\ UNCHANGED <<liveVars, ops, lost>>

\* The command is interrupted; its operation stays as recorded.
Crash == try # Idle /\ Gone /\ try' = Idle /\ GivesUp /\ UNCHANGED ops

Next ==
    \/ Touch \/ Drain \/ \E action \in flight : Arrive(action)
    \/ \E target \in Levels : Try(target)
    \/ Confirm \/ Cancel \/ Snapshot \/ SnapshotFails \/ Executed \/ Unanswered
    \/ Verify \/ VerifyFails \/ Compensated \/ Restore \/ Crash

Spec == Init /\ [][Next]_vars

-----------------------------------------------------------------------------
(* Properties.                                                             *)

Of(op) == {i \in DOMAIN effects : effects[i].op = op}

\* Effect i changed the level that was approved for the operation, once; ...
ChangedOnce(op, i) ==
    Of(op) = {i} /\ effects[i].after = ops[op].target /\ effects[i].track = ops[op].shown.track
\* ... j changed back what i had changed.
ChangedBack(op, i, j) ==
    /\ i < j /\ Of(op) = {i, j}
    /\ effects[j].after = effects[i].before /\ effects[j].track = effects[i].track

\* An operation recorded FAILED has left Live as it was, or changed it and changed it back;
\* one recorded SUCCEEDED changed it once, to the level that was approved.
OutcomesAreTrue ==
    \A op \in DOMAIN ops :
       /\ ops[op].outcome = "FAILED" =>
             Of(op) = {} \/ \E i, j \in DOMAIN effects : ChangedBack(op, i, j)
       /\ ops[op].outcome = "SUCCEEDED" => \E i \in DOMAIN effects : ChangedOnce(op, i)

\* An action that was queued and not waited for may still change Live, but only while its
\* operation runs, was cut off, or is recorded UNKNOWN: "inspect Ableton before any retry".
LateIsInDoubt ==
    \A i \in DOMAIN effects' \ DOMAIN effects :
       ops[effects'[i].op].outcome \in {"EXECUTING", "UNKNOWN"}
OnlyDoubtActsLate == [][LateIsInDoubt]_vars

\* "refusing to act on a different Song" and "refusing to overwrite newer artist/manual
\* state": what is changed is the Set, track and level that the artist saw and approved.
ActsOnWhatWasPreviewed ==
    \A i \in DOMAIN effects :
       LET e == effects[i] IN
       e.kind = "apply" /\ e.before # e.after =>
           [song |-> e.song, track |-> e.track, level |-> e.before] = ops[e.op].shown

=============================================================================

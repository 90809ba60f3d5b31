------------------------------ MODULE MidiWire ------------------------------
(***************************************************************************)
(* What the MIDI callbacks make of their messages.                         *)
(* n0te/logic_midi_bridge.py: a Scripter sends a frame as control changes, *)
(* any of which may be lost; LogicMidiFrameAssembler puts them together.   *)
(* n0te/studio_one_midi_bridge.py: StudioOneMidiClockTracker derives the   *)
(* tempo from the intervals between the ticks of a MIDI clock.             *)
(***************************************************************************)
EXTENDS Integers, Sequences, SequencesExt

CONSTANTS
    Values,      \* what a field of a frame may say, a set of numbers
    MaxFrames,   \* frames sent, fewer than sequence numbers (a bound)
    Tempos,      \* seconds of a tick: what the clock may run at
    Shortest, Longest,   \* _MIN_TICK_SECONDS and _MAX_TICK_SECONDS
    Fastest, Slowest,    \* seconds of a tick at 400 and at 20 beats a minute
    Window, MinIntervals,    \* _CLOCK_WINDOW and _MIN_CLOCK_INTERVALS
    MaxSteady    \* ticks of one tempo that are counted (a bound)

VARIABLES
    sending,     \* the frame being sent: its values and how far it is
    sent,        \* frames begun
    assembler,   \* _sequence and _values; _next_index is their number
    frame,       \* the last frame that was put together
    intervals,   \* _intervals
    ticked,      \* _last_tick is not None
    tempo,       \* _tempo_bpm, as the seconds of a tick; 0 for None
    pace, steady \* what the clock runs at, and for how many ticks by now

frameVars == <<sending, sent, assembler, frame>>
clockVars == <<intervals, ticked, tempo, pace, steady>>
vars == <<frameVars, clockVars>>

-----------------------------------------------------------------------------
(* LogicMidiFrameAssembler.  The fields of a frame are taken as three: the *)
(* session, the tempo and the flags; the sequence starts and ends it.      *)

Fields == 3
Checksum(sequence, values) == (sequence + FoldLeft(LAMBDA a, b : a + b, 0, values)) % 2
Messages(f) ==
    <<[start |-> TRUE, value |-> f.sequence]>>
        \o [i \in 1..Fields |-> [start |-> FALSE, index |-> i, value |-> f.values[i]]]
        \o <<[start |-> FALSE, index |-> Fields + 1, value |-> Checksum(f.sequence, f.values)],
             [start |-> FALSE, index |-> Fields + 2, value |-> f.sequence]>>
Reset == [sequence |-> -1, values |-> <<>>]
NoFrame == [sequence |-> -1, values |-> <<>>]

Begin(values) ==
    /\ sent < MaxFrames
    /\ sending = <<>>
    /\ sending' = Messages([sequence |-> sent, values |-> values])
    /\ sent' = sent + 1
    /\ UNCHANGED <<assembler, frame, clockVars>>

Lose ==
    /\ sending # <<>> /\ sending' = Tail(sending)
    /\ UNCHANGED <<sent, assembler, frame, clockVars>>

\* Mutant: the sequence number that ends a frame is not compared.
FinishWhatever(message) == TRUE

\* _finish, after the end was compared with the start.
Finish(message) == message.value = assembler.sequence

Feed ==
    /\ sending # <<>> /\ sending' = Tail(sending)
    /\ LET message == Head(sending)
           next == Len(assembler.values) + 1
       IN \/ /\ message.start
             /\ assembler' = [sequence |-> message.value, values |-> <<>>]
             /\ UNCHANGED frame
          \/ /\ ~message.start /\ assembler.sequence = -1
             /\ UNCHANGED <<assembler, frame>>
          \/ /\ ~message.start /\ assembler.sequence # -1
             /\ message.index # next   \* incomplete or out of order
             /\ assembler' = Reset /\ UNCHANGED frame
          \/ /\ ~message.start /\ assembler.sequence # -1
             /\ message.index = next /\ next <= Fields + 1
             /\ assembler' = [assembler EXCEPT !.values = Append(@, message.value)]
             /\ UNCHANGED frame
          \/ /\ ~message.start /\ assembler.sequence # -1
             /\ message.index = next /\ next = Fields + 2
             /\ LET values == SubSeq(assembler.values, 1, Fields) IN
                frame' = IF /\ Finish(message)
                            /\ assembler.values[Fields + 1] = Checksum(assembler.sequence, values)
                         THEN [sequence |-> assembler.sequence, values |-> values] ELSE frame
             /\ assembler' = Reset
    /\ UNCHANGED <<sent, clockVars>>

-----------------------------------------------------------------------------
(* StudioOneMidiClockTracker.                                              *)

\* Twice the median: of an even number of intervals it is the mean of the middle two.
Median2(s) ==
    LET sorted == SortSeq(s, LAMBDA a, b : a < b)
    IN sorted[(Len(s) + 1) \div 2] + sorted[Len(s) \div 2 + 1]
Close(s) == SelectSeq(s, LAMBDA v : 200 * v \in 65 * Median2(s)..135 * Median2(s))

Mean(s) == FoldLeft(LAMBDA a, b : a + b, 0, s) \div Len(s)

\* _estimate_tempo: 0 while the ticks are too few or too uneven, or make no tempo of 20 to 400.
Estimate(s) ==
    IF /\ Len(s) >= MinIntervals /\ Len(Close(s)) >= MinIntervals
       /\ Len(Close(s)) >= (8 * Len(s)) \div 10
       /\ Mean(Close(s)) \in Fastest..Slowest
    THEN Mean(Close(s)) ELSE 0

\* Mutant: the window keeps the oldest intervals.
KeepsOldest(s) == SubSeq(s, 1, IF Len(s) < Window THEN Len(s) ELSE Window)

\* deque(maxlen=_CLOCK_WINDOW)
Keeps(s) == IF Len(s) <= Window THEN s ELSE Tail(s)

\* The clock goes on at its pace or another, or pauses for longer than a tick may take.
Tick(interval) ==
    /\ pace' = interval
    /\ steady' = IF interval # pace \/ ~ticked THEN IF ticked THEN 1 ELSE 0
                 ELSE IF steady < MaxSteady THEN steady + 1 ELSE steady
    /\ ticked' = TRUE
    /\ intervals' = IF ~ticked THEN intervals
                    ELSE IF interval \in Shortest..Longest THEN Keeps(Append(intervals, interval))
                    ELSE <<>>
    /\ tempo' = LET estimate == Estimate(intervals') IN
                CASE estimate # 0 -> estimate
                  [] ticked /\ interval \notin Shortest..Longest -> 0   \* reset_timing
                  [] OTHER -> tempo
    /\ UNCHANGED frameVars

\* A timestamp that does not increase: reset_timing, and the tick is refused.
TickBack ==
    /\ ticked /\ ticked' = FALSE
    /\ intervals' = <<>> /\ tempo' = 0 /\ steady' = 0
    /\ UNCHANGED <<frameVars, pace>>

Init ==
    /\ sending = <<>> /\ sent = 0 /\ assembler = Reset /\ frame = NoFrame
    /\ intervals = <<>> /\ ticked = FALSE /\ tempo = 0 /\ pace \in Tempos /\ steady = 0

Next ==
    \/ \E values \in [1..Fields -> Values] : Begin(values)
    \/ Lose \/ Feed
    \/ \E interval \in Tempos : Tick(interval)
    \/ TickBack

Spec == Init /\ [][Next]_vars

-----------------------------------------------------------------------------
(* Properties.                                                             *)

\* logic_midi_bridge: whatever is lost, a frame that is put together is the one being sent,
\* never the head of one and the tail of another.
AFrameIsWhole ==
    frame' # frame => sent > 0 /\ frame'.sequence = sent - 1 /\ sending' = <<>>
FramesAreWhole == [][AFrameIsWhole]_vars

\* studio_one_midi_bridge: a clock that has been steady for a window of ticks at 20 to 400
\* beats a minute is known by its tempo, however it ran before; a clock that paused, or whose
\* time went back, is forgotten.  (Ticks between that range and the bounds of one tick are
\* taken but give no estimate: such a clock is left with the tempo it had.)
SteadyClockIsKnown ==
    /\ steady >= Window /\ pace \in Fastest..Slowest => tempo = pace
    /\ ~ticked \/ pace \notin Shortest..Longest => intervals = <<>> /\ tempo = 0

=============================================================================

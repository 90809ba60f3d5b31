---------------------------- MODULE MidiMonitor ----------------------------
(***************************************************************************)
(* The observers of Logic Pro and Studio One listen on a MIDI port:        *)
(* n0te/logic_observer_service.py and studio_one_observer_service.py open  *)
(* it when it is there, wait for timing with logic_midi_bridge.py and      *)
(* studio_one_midi_bridge.py, and start again when either is missing.      *)
(* Port and snapshot are awaited in threads, so that the loop and a        *)
(* refresh_references may be in the middle of them together.  What is done *)
(* with a snapshot is in ContinuousObserver, how it is made in MidiWire.   *)
(***************************************************************************)
EXTENDS Naturals, FiniteSets

CONSTANTS
    MaxOutages,     \* times that the port or the clock goes away (a bound)
    MaxRefreshes    \* calls of refresh_references (a bound)

VARIABLES
    host,       \* "LOGIC_PRO" or "STUDIO_ONE"
    available,  \* one MIDI destination matches, or a virtual one can be made
    ticking,    \* the DAW sends timing, more often than a fetch waits for it
    inputs,     \* MIDI inputs that are open
    held,       \* one of them is _midi_in, and _opened_port_name is its name
    latest,     \* _latest: none, not older than max_age_seconds, or older
    polls,      \* where the loop and the refresh are; a fetch that had silence may time out
    service,    \* _state
    stopping,   \* the stop event, or the runtime is no longer RUNNING
    outages, refreshes

state == <<inputs, held, latest, polls, service>>
vars == <<host, available, ticking, state, stopping, outages, refreshes>>

Tasks == {"loop", "refresh"}
Idle == [pc |-> "idle"]
Off == [pc |-> "off"]
Ensuring == [pc |-> "ensuring"]
Opening == [pc |-> "opening"]
Fetching(silence) == [pc |-> "fetching", silence |-> silence]

Init ==
    /\ host \in {"LOGIC_PRO", "STUDIO_ONE"}
    /\ available \in BOOLEAN /\ ticking \in BOOLEAN
    /\ inputs = 0 /\ held = FALSE /\ latest = "NONE"
    /\ polls = [t \in Tasks |-> Off] /\ service = "READY" /\ stopping = FALSE
    /\ outages = 0 /\ refreshes = 0

-----------------------------------------------------------------------------
(* The port and the DAW.                                                   *)

PortComesOrGoes ==
    /\ available => outages < MaxOutages
    /\ available' = ~available
    /\ outages' = IF available THEN outages + 1 ELSE outages
    /\ UNCHANGED <<host, ticking, state, stopping, refreshes>>

ClockComesOrGoes ==
    /\ ticking => outages < MaxOutages
    /\ ticking' = ~ticking
    /\ outages' = IF ticking THEN outages + 1 ELSE outages
    /\ polls' = [t \in Tasks |-> IF polls[t].pc = "fetching" THEN Fetching(TRUE) ELSE polls[t]]
    /\ UNCHANGED <<host, available, inputs, held, latest, service, stopping, refreshes>>

\* The callback of an open input, also of one that nobody holds any more.
Publish ==
    /\ ticking /\ inputs > 0 /\ latest # "FRESH"
    /\ latest' = "FRESH"
    /\ UNCHANGED <<host, available, ticking, inputs, held, polls, service, stopping,
                   outages, refreshes>>

\* Five seconds without a snapshot.
Ages ==
    /\ latest = "FRESH" /\ ~(ticking /\ inputs > 0)
    /\ latest' = "STALE"
    /\ UNCHANGED <<host, available, ticking, inputs, held, polls, service, stopping,
                   outages, refreshes>>

Stop ==
    /\ ~stopping /\ stopping' = TRUE
    /\ UNCHANGED <<host, available, ticking, state, outages, refreshes>>

-----------------------------------------------------------------------------
(* The client and the service.                                             *)

World == <<host, available, ticking, stopping, outages>>
Goes(t, poll) == polls' = [polls EXCEPT ![t] = poll]
After(t) == IF t = "loop" THEN Idle ELSE Off

\* Mutant: the name of the port is kept when it is closed.
CloseKeepsName == inputs' = (IF held THEN inputs - 1 ELSE inputs) /\ UNCHANGED held

\* close, of what is held; a second input is out of its reach.
Close == inputs' = (IF held THEN inputs - 1 ELSE inputs) /\ held' = FALSE

Run ==
    /\ polls["loop"] = Off /\ service \in {"READY", "STOPPED"}
    /\ service' = "READY" /\ Goes("loop", Idle)
    /\ UNCHANGED <<World, inputs, held, latest, refreshes>>

LoopPolls ==
    /\ polls["loop"] = Idle /\ ~stopping
    /\ Goes("loop", Ensuring)
    /\ UNCHANGED <<World, inputs, held, latest, service, refreshes>>

\* Mutant: the port is left to the process.
LoopEndsOpen ==
    /\ polls["loop"] = Idle /\ stopping
    /\ service' = "STOPPED" /\ Goes("loop", Off)
    /\ UNCHANGED <<World, inputs, held, latest, refreshes>>

LoopEnds ==
    /\ polls["loop"] = Idle /\ stopping
    /\ Close /\ service' = "STOPPED" /\ Goes("loop", Off)
    /\ UNCHANGED <<World, latest, refreshes>>

Refresh ==
    /\ polls["refresh"] = Off /\ ~stopping
    /\ refreshes < MaxRefreshes /\ refreshes' = refreshes + 1
    /\ Goes("refresh", Ensuring)
    /\ UNCHANGED <<World, inputs, held, latest, service>>

\* _ensure_bridge_open: an open port, or open() when it found none.
EnsureOpen(t) ==
    /\ polls[t] = Ensuring
    /\ Goes(t, IF held THEN Fetching(~ticking) ELSE Opening)
    /\ UNCHANGED <<World, inputs, held, latest, service, refreshes>>

\* open: the port is found, made or opened, and becomes _midi_in.  That nothing was open
\* yet was asked before; another thread may have opened it since.
OpenLogic(t) ==
    /\ host = "LOGIC_PRO" /\ polls[t] = Opening
    /\ available
    /\ inputs' = inputs + 1 /\ held' = TRUE
    /\ Goes(t, Fetching(~ticking))
    /\ UNCHANGED <<World, latest, service, refreshes>>

OpenStudioOne(t) ==
    /\ host = "STUDIO_ONE" /\ polls[t] = Opening
    /\ available
    /\ inputs' = inputs + 1 /\ held' = TRUE
    /\ Goes(t, Fetching(~ticking))
    /\ UNCHANGED <<World, latest, service, refreshes>>

\* The port is missing or ambiguous, or the other thread has opened it by the time open
\* looks: in each case what is open is dropped.
OpenFails(t) ==
    /\ polls[t] = Opening
    /\ ~available \/ held
    /\ Close
    /\ service' = (IF host = "LOGIC_PRO" THEN "WAITING_FOR_BRIDGE" ELSE "WAITING_FOR_MIDI_PORT")
    /\ Goes(t, After(t))
    /\ UNCHANGED <<World, latest, refreshes>>

FetchAnswers(t) ==
    /\ polls[t].pc = "fetching" /\ latest = "FRESH"
    /\ service' = "OBSERVING"
    /\ Goes(t, After(t))
    /\ UNCHANGED <<World, inputs, held, latest, refreshes>>

\* Nothing fresh within the timeout (an error of the callback counts as silence), or the
\* port was dropped before the fetch began.  Logic opens its port anew, Studio One listens on.
LogicFails(t) ==
    /\ host = "LOGIC_PRO" /\ polls[t].pc = "fetching"
    /\ polls[t].silence \/ ~held
    /\ Close /\ service' = "WAITING_FOR_BRIDGE"
    /\ Goes(t, After(t))
    /\ UNCHANGED <<World, latest, refreshes>>

StudioOneFails(t) ==
    /\ host = "STUDIO_ONE" /\ polls[t].pc = "fetching"
    /\ polls[t].silence \/ ~held
    /\ service' = "WAITING_FOR_CLOCK"
    /\ Goes(t, After(t))
    /\ UNCHANGED <<World, inputs, held, latest, refreshes>>

Step(t) ==
    \/ EnsureOpen(t) \/ OpenLogic(t) \/ OpenStudioOne(t) \/ OpenFails(t)
    \/ FetchAnswers(t) \/ LogicFails(t) \/ StudioOneFails(t)

Next ==
    \/ PortComesOrGoes \/ ClockComesOrGoes \/ Publish \/ Ages \/ Stop
    \/ Run \/ LoopPolls \/ LoopEnds \/ Refresh
    \/ \E t \in Tasks : Step(t)

Fairness ==
    /\ WF_vars(LoopPolls \/ LoopEnds) /\ WF_vars(Publish)
    /\ \A t \in Tasks : WF_vars(Step(t))

Spec == Init /\ [][Next]_vars /\ Fairness

-----------------------------------------------------------------------------
(* Properties.                                                             *)

\* run's finally: a loop that ended by itself has given its port back; every input that is
\* still open is of a refresh_references that crossed it, one for each.
PortsAreGivenBack ==
    /\ inputs <= 1 + refreshes
    /\ service = "STOPPED" /\ polls["refresh"] = Off => inputs <= refreshes

\* "waiting is automatic while the MIDI port or stable Studio One clock is unavailable"
\* (studio_one_session_launcher.py): once both are there for good, the loop observes,
\* whatever failed before and whoever closed the port under it.
ClockIsFoundAgain ==
    <>[](available /\ ticking /\ polls["loop"] # Off /\ ~stopping) => <>[](service = "OBSERVING")

=============================================================================

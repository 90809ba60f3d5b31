---------------------------- MODULE HostSessions ----------------------------
(***************************************************************************)
(* The five host launchers (n0te/*_session_launcher.py), each its own copy *)
(* of build_config, run_session and _run_observer, with the                *)
(* CoordinatorProcessSupervisor of host_runtime.py.  A session owns its    *)
(* profile's lease; sessions of several profiles share one coordinator     *)
(* port on the machine, reuse whoever listens there or start a process of  *)
(* their own, and stop what they started.                                  *)
(***************************************************************************)
EXTENDS Naturals, FiniteSets

CONSTANTS
    Sessions,   \* launcher processes
    Profiles, Nobody,
    Starts,     \* what may be started: [os, host and profile of each session]
    Elsewhere   \* a coordinator that somebody else started

VARIABLES
    started,    \* the machine's operating system, what each session is for
    at,         \* where each run_session is
    owned,      \* the supervisors with _owned and a _process
    process,    \* the coordinator process of each session, and the one elsewhere
    holder,     \* the session whose process the lease of a profile names
    failing,    \* primary_error
    stuck,      \* stop() raised: coordinator_error
    unquit,     \* quit() did not come to STOPPED
    result      \* what each command ended with

sessionVars == <<at, owned, process>>
errors == <<failing, stuck, unquit>>
vars == <<started, at, owned, process, holder, failing, stuck, unquit, result>>

Processes == Sessions \cup {Elsewhere}
Alive == {"starting", "listening"}
Listening == \E p \in Processes : process[p] = "listening"

TypeOK ==
    /\ started \in Starts
    /\ at \in [Sessions -> {"idle", "launching", "starting", "spawning", "waiting", "serving",
                            "observing", "ending", "quitting", "ended", "crashed"}]
    /\ owned \subseteq Sessions
    /\ process \in [Processes -> Alive \cup {"none", "dead"}]
    /\ Cardinality({p \in Processes : process[p] = "listening"}) <= 1
    /\ holder \in [Profiles -> Sessions \cup {Nobody}]
    /\ failing \subseteq Sessions /\ stuck \subseteq Sessions /\ unquit \subseteq Sessions
    /\ result \in [Sessions -> {"none", "ok", "error"}]

Init ==
    /\ started \in Starts
    /\ at = [s \in Sessions |-> "idle"]
    /\ owned = {}
    /\ process \in {[p \in Processes |-> IF p = Elsewhere THEN there ELSE "none"] :
                        there \in {"none", "listening"}}
    /\ holder = [p \in Profiles |-> Nobody]
    /\ failing = {} /\ stuck = {} /\ unquit = {}
    /\ result = [s \in Sessions |-> "none"]

-----------------------------------------------------------------------------
Goes(s, pc) == at' = [at EXCEPT ![s] = pc]
Returns(s, r) == result' = [result EXCEPT ![s] = r]

\* Into the except and the finally of run_session.
Raises(s) == Goes(s, "ending") /\ failing' = failing \cup {s} /\ UNCHANGED <<stuck, unquit>>

\* build_config: a profile, a provider, and for two hosts the right machine.
Configures(s, systems) ==
    /\ at[s] = "idle"
    /\ \/ started.os \in systems /\ Goes(s, "launching") /\ UNCHANGED result
       \/ Goes(s, "ended") /\ Returns(s, "error")
    /\ UNCHANGED <<started, owned, process, holder, errors>>

AbletonConfigures(s) == started.host[s] = "ABLETON_LIVE" /\ Configures(s, {"MACOS", "WINDOWS", "LINUX"})
FLStudioConfigures(s) == started.host[s] = "FL_STUDIO" /\ Configures(s, {"MACOS", "WINDOWS", "LINUX"})
ReaperConfigures(s) == started.host[s] = "REAPER" /\ Configures(s, {"MACOS", "WINDOWS", "LINUX"})
LogicConfigures(s) == started.host[s] = "LOGIC_PRO" /\ Configures(s, {"MACOS"})
StudioOneConfigures(s) == started.host[s] = "STUDIO_ONE" /\ Configures(s, {"MACOS", "WINDOWS"})

Free(p) == holder[p] # Nobody => at[holder[p]] \in {"ended", "crashed"}

\* runtime.launch: STARTED with the lease of the profile, of which a dead owner is relieved.
Launch(s) ==
    /\ at[s] = "launching"
    /\ \/ /\ Free(started.profile[s])
          /\ holder' = [holder EXCEPT ![started.profile[s]] = s]
          /\ Goes(s, "starting") /\ UNCHANGED result
       \/ Goes(s, "ended") /\ Returns(s, "error") /\ UNCHANGED holder
    /\ UNCHANGED <<started, owned, process, errors>>

\* No active Song raises; then start(): REUSED, or no, and then without a reference
\* provider that raises.
Looks(s) ==
    /\ at[s] = "starting"
    /\ \/ Raises(s)
       \/ Goes(s, IF Listening THEN "serving" ELSE "spawning") /\ UNCHANGED errors
    /\ UNCHANGED <<started, owned, process, holder, result>>

Spawns(s) ==
    /\ at[s] = "spawning"
    /\ process' = [process EXCEPT ![s] = "starting"]
    /\ owned' = owned \cup {s}
    /\ Goes(s, "waiting")
    /\ UNCHANGED <<started, holder, errors, result>>

SpawnFails(s) == at[s] = "spawning" /\ Raises(s) /\ UNCHANGED <<started, owned, process, holder, result>>

\* A process binds the port, finds it taken and exits, or exits for another reason.
Binds(p) ==
    /\ process[p] = "starting"
    /\ process' = [process EXCEPT ![p] = IF Listening THEN "dead" ELSE "listening"]
    /\ UNCHANGED <<started, at, owned, holder, errors, result>>

Exits(p) ==
    /\ process[p] \in Alive
    /\ process' = [process EXCEPT ![p] = "dead"]
    /\ UNCHANGED <<started, at, owned, holder, errors, result>>

\* One round of start's loop: the process has exited, or somebody listens by now.
Waits(s) ==
    /\ at[s] = "waiting"
    /\ \/ process[s] = "dead" /\ owned' = owned \ {s} /\ Raises(s)
       \/ process[s] # "dead" /\ Listening /\ Goes(s, "serving") /\ UNCHANGED <<owned, errors>>
    /\ UNCHANGED <<started, process, holder, result>>

\* stop(): terminate, wait and kill what is still there; to wait for that may time out.
StopsOwn(s, killed) ==
    /\ owned' = owned \ {s}
    /\ process' = [process EXCEPT ![s] = IF s \in owned /\ @ \in Alive /\ killed THEN "dead" ELSE @]

\* Eight seconds are over; start stops its process and raises.
TimesOut(s) ==
    /\ at[s] = "waiting"
    /\ \E killed \in BOOLEAN :
          StopsOwn(s, killed) /\ Goes(s, "ending") /\ failing' = failing \cup {s}
          /\ stuck' = IF killed \/ s \notin owned \/ process[s] \notin Alive
                      THEN stuck ELSE stuck \cup {s}
    /\ UNCHANGED <<started, holder, unquit, result>>

\* service_factory, and _run_observer: it returns when a signal stops it or, with --once, a
\* reference was looked for; or something raises.
Observes(s) ==
    /\ at[s] \in {"serving", "observing"}
    /\ \/ Goes(s, IF at[s] = "serving" THEN "observing" ELSE "ending") /\ UNCHANGED errors
       \/ Raises(s)
    /\ UNCHANGED <<started, owned, process, holder, result>>

\* Mutant: a process that somebody answers for is taken for reused.
CleanupIfStillThere(s) ==
    /\ at[s] = "ending"
    /\ IF process[s] = "listening" THEN StopsOwn(s, TRUE) ELSE UNCHANGED <<owned, process>>
    /\ Goes(s, "quitting") /\ UNCHANGED <<started, holder, errors, result>>

\* The finally of run_session: the coordinator first; what that raises is kept.
Cleanup(s) ==
    /\ at[s] = "ending"
    /\ \E killed \in BOOLEAN :
          /\ StopsOwn(s, killed)
          /\ stuck' = IF killed \/ s \notin owned \/ process[s] \notin Alive
                      THEN stuck ELSE stuck \cup {s}
    /\ Goes(s, "quitting")
    /\ UNCHANGED <<started, holder, failing, unquit, result>>

\* Then quit(), which closes the Headquarters and releases the lease or says it could not.
Quits(s) ==
    /\ at[s] = "quitting" /\ Goes(s, "ended")
    /\ \/ holder' = [holder EXCEPT ![started.profile[s]] = Nobody] /\ UNCHANGED unquit
       \/ unquit' = unquit \cup {s} /\ UNCHANGED holder
    /\ Returns(s, IF s \in failing \cup stuck \cup unquit' THEN "error" ELSE "ok")
    /\ UNCHANGED <<started, owned, process, failing, stuck>>

\* A launcher that dies leaves its process behind, and its lease.
Crash(s) ==
    /\ at[s] \notin {"idle", "ended", "crashed"}
    /\ Goes(s, "crashed")
    /\ owned' = owned \ {s}
    /\ UNCHANGED <<started, process, holder, errors, result>>

\* run_session after its configuration.
SessionStep(s) ==
    \/ Launch(s) \/ Looks(s) \/ Spawns(s) \/ SpawnFails(s) \/ Waits(s) \/ TimesOut(s)
    \/ Observes(s) \/ Cleanup(s) \/ Quits(s)

AbletonSession(s) == started.host[s] = "ABLETON_LIVE" /\ SessionStep(s)
FLStudioSession(s) == started.host[s] = "FL_STUDIO" /\ SessionStep(s)
ReaperSession(s) == started.host[s] = "REAPER" /\ SessionStep(s)
LogicSession(s) == started.host[s] = "LOGIC_PRO" /\ SessionStep(s)
StudioOneSession(s) == started.host[s] = "STUDIO_ONE" /\ SessionStep(s)

Next ==
    \/ \E s \in Sessions :
          \/ AbletonConfigures(s) \/ FLStudioConfigures(s) \/ ReaperConfigures(s)
          \/ LogicConfigures(s) \/ StudioOneConfigures(s)
          \/ AbletonSession(s) \/ FLStudioSession(s) \/ ReaperSession(s)
          \/ LogicSession(s) \/ StudioOneSession(s)
          \/ Crash(s)
    \/ \E p \in Processes : Binds(p) \/ Exits(p)

Spec == Init /\ [][Next]_vars

-----------------------------------------------------------------------------
(* Properties.                                                             *)

\* A session that ended by itself has left no coordinator process behind, whoever was
\* listening while it waited for its own, unless it could not kill it; one that reports
\* success has also given its profile back.
NothingLeftRunning ==
    \A s \in Sessions : at[s] = "ended" =>
        /\ s \notin stuck => process[s] \notin Alive
        /\ result[s] = "ok" => s \notin stuck /\ holder[started.profile[s]] # s

=============================================================================

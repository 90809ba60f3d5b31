---------------------------- MODULE Capabilities ----------------------------
(***************************************************************************)
(* What N0TE may say a studio can do: probes of routes recorded for one    *)
(* exact observation of the workspace (capability_evidence.py), the choice *)
(* of a route (studio.py, capabilities.py), what the artist's profile may  *)
(* use (entitlements.py), whether all of it is still fresh                 *)
(* (evidence_freshness.py), and the negotiation that puts these together   *)
(* (capability_negotiation.py); and the tools the artist has declared      *)
(* (tool_inventory.py, tools.py).  One capability; scores are one number.  *)
(***************************************************************************)
EXTENDS Naturals, Sequences, FiniteSets

CONSTANTS
    Routes,       \* route ids, numbered as they sort
    Runtimes,     \* host runtime fingerprints
    Kinds,        \* route kinds a probe may report, of {"OWNED_TOOL", "GUIDED"}
    Fits,         \* the scores a probe may give
    Sources,      \* of access facts, of {"USER_DECLARED", "OBSERVED"}
    MaxProbes, MaxObservations, MaxClock, MaxFacts,  \* bounds
    Tools, Endpoints, MaxRevisions                   \* declared tools; a bound

VARIABLES
    workspace,    \* the current observation: its number and the host's runtime
    installed,    \* the routes there really are
    clock,
    probes,       \* probes whose results are not recorded yet
    evidence,     \* capability_observations, in the order of seq
    facts,        \* entitlement claims of the profile, in the order of seq
    snapshots,    \* EntitlementSnapshots somebody holds
    revisions     \* tool_inventory_revisions of each tool, in the order of seq

vars == <<workspace, installed, clock, probes, evidence, facts, snapshots, revisions>>
studioVars == <<workspace, installed, clock, probes, evidence>>

None == [none |-> TRUE]
Last(s) == s[Len(s)]
Elements(s) == {s[i] : i \in DOMAIN s}

Init ==
    /\ workspace \in [id : {1}, runtime : Runtimes]
    /\ installed \in SUBSET Routes
    /\ clock = 0 /\ probes = {} /\ evidence = <<>> /\ facts = <<>> /\ snapshots = {}
    /\ revisions = [t \in Tools |-> <<>>]

-----------------------------------------------------------------------------
(* The studio: time, the workspace and its host, and probes of it.         *)

Tick ==
    /\ clock < MaxClock /\ clock' = clock + 1
    /\ UNCHANGED <<workspace, installed, probes, evidence, facts, snapshots, revisions>>

\* The host changed or was restarted, and WorkspaceMemory observed it.
Observe ==
    /\ workspace.id < MaxObservations
    /\ \E runtime \in Runtimes : workspace' = [id |-> workspace.id + 1, runtime |-> runtime]
    /\ installed' \in SUBSET Routes
    /\ UNCHANGED <<clock, probes, evidence, facts, snapshots, revisions>>

\* Somebody asks a route what it can do, and comes to know, or not.
Probe ==
    /\ Cardinality(probes) + Len(evidence) < MaxProbes
    /\ \E r \in Routes, kind \in Kinds, fit \in Fits, known \in BOOLEAN :
          probes' = probes \cup
              {[workspace |-> workspace, route |-> r, kind |-> kind, fit |-> fit, at |-> clock,
                availability |-> IF ~known THEN "UNKNOWN"
                                 ELSE IF r \in installed THEN "AVAILABLE" ELSE "UNAVAILABLE"]}
    /\ UNCHANGED <<workspace, installed, clock, evidence, facts, snapshots, revisions>>

\* record(): nothing of another observation, nothing older, no other kind of the same route.
Holds(p) ==
    /\ p.workspace = workspace
    /\ \A o \in Elements(evidence) :
          o.workspace.id = workspace.id /\ o.route = p.route => o.at <= p.at /\ o.kind = p.kind

\* Mutant: what comes late is taken for what is there now.
RecordsAsCurrent(p) == evidence' = Append(evidence, [p EXCEPT !.workspace = workspace])

Records(p) == Holds(p) /\ evidence' = Append(evidence, p)

\* A probe comes back, in whatever order, and is recorded if it holds.
Record ==
    /\ \E p \in probes :
          /\ probes' = probes \ {p}
          /\ Records(p) \/ (~Holds(p) /\ evidence' = evidence)
    /\ UNCHANGED <<workspace, installed, clock, facts, snapshots, revisions>>

\* state().current: the latest of each route, in this environment.
History(r) ==
    {i \in DOMAIN evidence : evidence[i].route = r /\ evidence[i].workspace = workspace}
Latest(r) == CHOOSE i \in History(r) : \A j \in History(r) : j <= i
Current == {evidence[Latest(r)] : r \in {q \in Routes : History(q) # {}}}

-----------------------------------------------------------------------------
(* StudioCapabilityProfile.resolve and CapabilityResolver.                 *)

\* _reject_reasons: verified, compatible, and no older than the constraints allow.
Legitimate(maxAge) == {o \in Current : o.availability = "AVAILABLE" /\ clock - o.at <= maxAge}

\* Mutant: a manual way that scores better wins.
RankedAll(candidates) == candidates

\* Manual ways count only when nothing does it by itself.
Ranked(candidates) ==
    LET automated == {o \in candidates : o.kind # "GUIDED"} IN
    IF automated = {} THEN candidates ELSE automated

\* The highest score, then the lowest candidate id.
Best(candidates) ==
    CHOOSE o \in candidates : \A p \in candidates :
        p.fit < o.fit \/ (p.fit = o.fit /\ p.route >= o.route)

\* What a resolution now recommends, if anything.
Recommended(maxAge) ==
    LET ranked == Ranked(Legitimate(maxAge)) IN IF ranked = {} THEN {} ELSE {Best(ranked)}

-----------------------------------------------------------------------------
(* EntitlementTruthService.  An entitlement; permissions are alike.        *)

Strong == {"OBSERVED"}
Forever == MaxClock + 1
Active == {i \in DOMAIN facts : \A j \in DOMAIN facts : i \notin facts[j].supersedes}

\* record_fact: what it supersedes is of the same route and not observed later.
RecordFact ==
    /\ Len(facts) < MaxFacts
    /\ \E r \in Routes, state \in {"GRANTED", "DENIED", "UNKNOWN"}, source \in Sources,
          expires \in {clock + 1, Forever}, supersedes \in SUBSET Active :
          /\ Cardinality(supersedes) <= 1
          /\ \A i \in supersedes : facts[i].route = r /\ facts[i].at <= clock
          /\ facts' = Append(facts, [route |-> r, state |-> state, source |-> source, at |-> clock,
                                     expires |-> expires, supersedes |-> supersedes])
    /\ UNCHANGED <<studioVars, snapshots, revisions>>

\* Mutant: the artist's word is enough.
EligibleAsSaid(states, validity, strong) ==
    IF validity # "CURRENT" \/ Cardinality(states) # 1 THEN "UNKNOWN"
    ELSE CHOOSE s \in states : TRUE

\* _eligibility_state: a denial counts from anybody, a grant only from who could see it.
Eligible(states, validity, strong) ==
    IF validity # "CURRENT" \/ Cardinality(states) # 1 THEN "UNKNOWN"
    ELSE IF states = {"DENIED"} THEN "DENIED"
    ELSE IF states = {"GRANTED"} /\ strong THEN "GRANTED" ELSE "UNKNOWN"

\* snapshot(): of the active facts, those observed and not expired by now.
SnapshotOf(r) ==
    LET active == {i \in Active : facts[i].route = r}
        current == {i \in active : facts[i].expires > clock}
        states == {facts[i].state : i \in current}
        strong == \E i \in current : facts[i].source \in Strong
        validity == IF active = {} THEN "UNKNOWN"
                    ELSE IF current = {} THEN "EXPIRED" ELSE "CURRENT" IN
    [route |-> r, at |-> clock, facts |-> active, validity |-> validity,
     resolution |-> IF active = {} THEN "UNKNOWN"
                    ELSE IF Cardinality(states) > 1 THEN "CONFLICT" ELSE "RESOLVED",
     eligible |-> Eligible(states, validity, strong)]

Snapshot ==
    /\ MaxFacts > 0
    /\ \E r \in Routes : snapshots' = {SnapshotOf(r)}
    /\ UNCHANGED <<studioVars, facts, revisions>>

\* assert_current: the same active facts, whatever the time is by now.
AssertCurrent ==
    /\ \E s \in snapshots : s.facts # {i \in Active : facts[i].route = s.route}
    /\ snapshots' = {}
    /\ UNCHANGED <<studioVars, facts, revisions>>

-----------------------------------------------------------------------------
(* CapabilityNegotiator.negotiate, for an observation and a snapshot that  *)
(* the caller has had for a while.                                         *)

\* Mutant: evidence of an earlier environment is good while it is young.
FreshnessByAge(o, maxAge) ==
    IF clock - o.at > maxAge THEN "REVALIDATION_REQUIRED" ELSE "CURRENT"

\* assess_capability_observation_freshness: the dependencies are the observation of the
\* workspace and the host's runtime.
Freshness(o, maxAge) ==
    IF o.workspace # workspace \/ clock - o.at > maxAge THEN "REVALIDATION_REQUIRED" ELSE "CURRENT"

\* What stands against a negotiation of o, given what access evidence there is.
Unavailable(o, required, access, paths) ==
    \/ o.availability = "UNAVAILABLE"
    \/ required /\ access # None /\ access.eligible = "DENIED"
    \/ paths = "none"
Conflicts(required, access) == required /\ access # None /\ access.resolution = "CONFLICT"
Stale(required, access, freshness) ==
    freshness # "CURRENT" \/ (required /\ access # None /\ access.validity = "EXPIRED")
Unknown(o, required, access) ==
    \/ o.availability = "UNKNOWN"
    \/ required /\ (access = None \/ access.eligible # "GRANTED")

Status(o, required, access, freshness, paths) ==
    IF Unavailable(o, required, access, paths) THEN "UNAVAILABLE"
    ELSE IF Conflicts(required, access) THEN "CONFLICT"
    ELSE IF Stale(required, access, freshness) THEN "REVALIDATION_REQUIRED"
    ELSE IF Unknown(o, required, access) THEN "UNKNOWN"
    ELSE IF paths = "weaker" THEN "DEGRADED"
    ELSE "NEGOTIABLE"

\* _validate_bindings: access evidence is of the route, and only where access is required.
Bound(o, required, access) == access # None => required /\ access.route = o.route

\* negotiate: may this be ranked among what can be done?
Rankable(o, required, access, maxAge, paths) ==
    /\ Bound(o, required, access)
    /\ Status(o, required, access, Freshness(o, maxAge), paths) \in {"NEGOTIABLE", "DEGRADED"}

-----------------------------------------------------------------------------
(* ToolInventoryMemory.  A profile of a tool is the endpoints it claims.   *)

ActiveProfile(t) ==
    IF revisions[t] # <<>> /\ Last(revisions[t]).state = "ACTIVE"
    THEN Last(revisions[t]).endpoints ELSE {}

\* _validate_active_uniqueness
Unique(profile) ==
    \A s, t \in Tools : s # t => profile[s] \cap profile[t] = {}

\* Mutant: a tool is looked at by itself.
AcceptsAlone(t, endpoints) == endpoints # {}

\* _validate_candidate_state, with the tool's own revision replaced.
Accepts(t, endpoints) ==
    endpoints # {} /\ Unique([s \in Tools |-> IF s = t THEN endpoints ELSE ActiveProfile(s)])

Revises(t, state, source, endpoints) ==
    /\ Len(revisions[t]) < MaxRevisions
    /\ revisions' = [revisions EXCEPT ![t] =
                        Append(@, [state |-> state, source |-> source, endpoints |-> endpoints])]
    /\ UNCHANGED <<studioVars, facts, snapshots>>

Register(t, endpoints) ==
    /\ revisions[t] = <<>> /\ Accepts(t, endpoints)
    /\ \E source \in {"ARTIST_DECLARED", "EXPLICIT_IMPORT"} :
          Revises(t, "ACTIVE", source, endpoints)

Correct(t, endpoints) ==
    /\ revisions[t] # <<>> /\ Accepts(t, endpoints)
    /\ Revises(t, "ACTIVE", "ARTIST_CORRECTION", endpoints)

Retire(t) ==
    /\ ActiveProfile(t) # {}
    /\ Revises(t, "RETIRED", "ARTIST_CORRECTION", ActiveProfile(t))

ToolStep ==
    \E t \in Tools :
        \/ \E endpoints \in SUBSET Endpoints : Register(t, endpoints) \/ Correct(t, endpoints)
        \/ Retire(t)

Next ==
    \/ Tick \/ Observe \/ Probe \/ Record
    \/ RecordFact \/ Snapshot \/ AssertCurrent
    \/ ToolStep

Spec == Init /\ [][Next]_vars

-----------------------------------------------------------------------------
(* Properties.                                                             *)

Access == {None} \cup snapshots

\* "Append-only capability truth bound to one exact current DAW environment": a route that is
\* recommended, or may be ranked after a negotiation, is there, however late its probe was
\* recorded and whatever became of the host in between.
WhatIsOfferedIsThere ==
    \A maxAge \in 0..MaxClock :
        /\ \A o \in Recommended(maxAge) : o.route \in installed
        /\ \A o \in Elements(evidence), required \in BOOLEAN, access \in Access :
              Rankable(o, required, access, maxAge, "strongest") => o.route \in installed

\* "GUIDED remains a terminal fallback": the artist is sent to work by hand only while no
\* other route was last seen to be there, and young enough.
ByHandOnlyAtLast ==
    \A maxAge \in 0..MaxClock : \A best \in Recommended(maxAge) :
        best.kind = "GUIDED" =>
            \A o \in Elements(evidence) :
                /\ o.kind # "GUIDED" /\ o.workspace = workspace
                /\ o.availability = "AVAILABLE" /\ clock - o.at <= maxAge
                => o # evidence[Latest(o.route)]

\* "only the entitlement service's conservative eligibility projection may make access
\* negotiable": the artist's word alone makes nothing usable, nor does a grant that another
\* fact in force contradicted when access was looked at.
AccessIsBacked ==
    \A o \in Elements(evidence), access \in Access, maxAge \in 0..MaxClock :
        Rankable(o, TRUE, access, maxAge, "weaker") =>
            LET inForce == {i \in access.facts : facts[i].expires > access.at} IN
            /\ \E i \in inForce : facts[i].source \in Strong
            /\ \A i \in inForce : facts[i].state = "GRANTED"

\* _validate_existing: no two active tools claim one endpoint, so the inventory opens again.
InventoryOpens == Unique([t \in Tools |-> ActiveProfile(t)])

=============================================================================

------------------------- MODULE HostReconciliation -------------------------
(***************************************************************************)
(* n0te/workspace.py, shadow.py and reconcile.py over n0te/evidence.py:    *)
(* where the DAW projects of a Song are, what was last seen in them, and   *)
(* what to do where that differs from what the Song's evidence says.  All  *)
(* of it is append-only; what is current is worked out on every read.      *)
(* Batches and cases are about one object field (a batch that leaves it    *)
(* alone is one that sets it to what it was), and evidence is of one       *)
(* scope; a claim outside Technical is of another twin domain.             *)
(***************************************************************************)
EXTENDS EvidenceMemory, SequencesExt

CONSTANTS
    Workspaces,      \* fresh workspace ids (a bound)
    Locations,       \* where a project may be
    Technical,       \* the Values of TECHNICAL claims, some of Values
    NoFact,          \* the field is not there
    NoSource,        \* NULL
    MaxObservations, \* observations of workspaces (a bound, also of the calls; and so is the next)
    MaxBatches,      \* Host Shadow batches (a bound)
    MaxCases         \* reconciliation cases (a bound)

VARIABLES
    observations, \* workspace_observations in the order of seq, with their workspaces
    batches,      \* host_shadow_batches in the order of seq, with their events
    cases         \* reconciliation_cases with the choices of their decisions

host == <<observations, batches, cases>>
vars == <<claims, supersedes, calls, observations, batches, cases>>

\* KEEP_WORKSPACE_SPECIFIC is guarded like DO_NOTHING.
Resolutions == {"UPDATE_SONG", "RESTORE_HOST", "DO_NOTHING"}
Effects == Values \cup {NoFact}   \* SET and REMOVE
Used == {observations[o].workspace : o \in DOMAIN observations}

\* _history(workspace)[-1], and current_candidates_at_location.
Current(w) == Max({o \in DOMAIN observations : observations[o].workspace = w})
At(location) == {w \in Used : observations[Current(w)].location = location}

\* The FULL batches of an observation, of which the last is the baseline.
Baselines(o) == {b \in DOMAIN batches : batches[b].observation = o /\ batches[b].coverage = "FULL"}

\* HostShadow.state: nothing is kept of batches before the baseline.
Shadow(w) ==
    LET o == Current(w)
        seen == {b \in DOMAIN batches :
                    batches[b].observation = o /\ b >= Max(Baselines(o))}
    IN IF Baselines(o) = {} THEN [status |-> "STALE"] ELSE
       [status |-> "CURRENT", baseline |-> Max(Baselines(o)), latest |-> Max(seen),
        fact |-> batches[Max(seen)].effect]

\* for_song(...).technical_claims of the key, and their distinct values.
TechnicalClaims(topic) == {c \in Active(topic) : claims[c].value \in Technical}
Said(ids) == {claims[c].value : c \in ids}

\* compare
Comparison(values, fact) ==
    IF Cardinality(values) > 1 THEN "UNRESOLVED"
    ELSE IF values = {} THEN IF fact = NoFact THEN "MATCH" ELSE "HOST_ONLY"
    ELSE IF fact = NoFact THEN "SONG_ONLY"
    ELSE IF values = {fact} THEN "MATCH" ELSE "CONFLICT"

\* Mutant: a batch recorded since does not make a case stale.
StatusOfBaseline(c) ==
    LET case == cases[c]
        shadow == Shadow(case.workspace)
    IN IF \/ shadow.status = "STALE"
          \/ shadow.baseline # case.baseline
          \/ TechnicalClaims(case.topic) # case.ids
       THEN "STALE" ELSE IF case.choices = <<>> THEN "OPEN" ELSE "DECIDED"

\* ReconciliationService.state
Status(c) ==
    LET case == cases[c]
        shadow == Shadow(case.workspace)
    IN IF \/ shadow.status = "STALE"
          \/ shadow.baseline # case.baseline \/ shadow.latest # case.latest
          \/ TechnicalClaims(case.topic) # case.ids
       THEN "STALE" ELSE IF case.choices = <<>> THEN "OPEN" ELSE "DECIDED"

TypeOK ==
    /\ EvidenceTypeOK
    /\ observations \in Seq([workspace : Workspaces, location : Locations,
                             source : Workspaces \cup {NoSource}])
    /\ batches \in Seq([observation : DOMAIN observations, coverage : {"FULL", "INCREMENTAL"},
                        effect : Effects])
    /\ \A c \in DOMAIN cases :
          /\ cases[c].workspace \in Used /\ cases[c].topic \in Topics
          /\ cases[c].ids \subseteq Claims
          /\ {cases[c].baseline, cases[c].latest} \subseteq DOMAIN batches
          /\ cases[c].choices \in Seq(Resolutions)

Init ==
    /\ EvidenceInit
    /\ observations = <<>> /\ batches = <<>> /\ cases = <<>>

-----------------------------------------------------------------------------
\* workspace_location_current_unique, and the check before it.
FreeFor(w, location) == At(location) \subseteq {w}

\* host_shadow_batch_matches_workspace_observation
IsCurrent(o) == Current(observations[o].workspace) = o

HostReads(call) == Reads(call) /\ UNCHANGED <<claims, supersedes, host>>
HostWrites(call) == Writes(call) /\ UNCHANGED <<claims, supersedes>>

Evidence ==
    /\ \/ \E topic \in Topics, value \in Values, olds \in SUBSET Claims : ClaimReads(topic, value, olds)
       \/ \E call \in calls : ClaimWrites(call)
    /\ UNCHANGED host

\* create; attach of a project nobody knows.
CreateReads(w, location, source) ==
    /\ Len(observations) < MaxObservations
    /\ w \notin Used
    /\ At(location) = {}
    /\ HostReads([op |-> "place", workspace |-> w, location |-> location, source |-> source])

\* derive, of a workspace of the same Song.
DeriveReads(w, location, source) == source \in Used /\ CreateReads(w, location, source)

\* reconcile_existing; attach of a known project, also where it was.
MoveReads(w, location) ==
    /\ Len(observations) < MaxObservations
    /\ w \in Used
    /\ FreeFor(w, location)
    /\ HostReads([op |-> "place", workspace |-> w, location |-> location, source |-> NoSource])

\* Mutant: no trigger looks who is at the location by now.
PlaceWritesAnyway(call) ==
    /\ call.op = "place" /\ Len(observations) < MaxObservations
    /\ HostWrites(call)
    /\ observations' = Append(observations, [workspace |-> call.workspace,
                                 location |-> call.location, source |-> call.source])
    /\ UNCHANGED <<batches, cases>>

\* _append_observation
PlaceWrites(call) ==
    /\ call.op = "place" /\ Len(observations) < MaxObservations
    /\ HostWrites(call)
    /\ observations' = IF FreeFor(call.workspace, call.location)
          THEN Append(observations, [workspace |-> call.workspace,
                         location |-> call.location, source |-> call.source])
          ELSE observations
    /\ UNCHANGED <<batches, cases>>

\* record_batch: bound to the observation it was made under.
BatchReads(w, coverage, effect) ==
    /\ Len(batches) < MaxBatches
    /\ coverage = "INCREMENTAL" => Baselines(Current(w)) # {}
    /\ HostReads([op |-> "batch", observation |-> Current(w), coverage |-> coverage,
                  effect |-> effect])

\* The transaction of record_batch.
BatchWrites(call) ==
    /\ call.op = "batch" /\ Len(batches) < MaxBatches
    /\ HostWrites(call)
    /\ batches' = IF IsCurrent(call.observation)
          THEN Append(batches, [observation |-> call.observation, coverage |-> call.coverage,
                                effect |-> call.effect])
          ELSE batches
    /\ UNCHANGED <<observations, cases>>

\* open_case compares: first the Host Shadow is read ...
CaseReads(w, topic) ==
    LET shadow == Shadow(w) IN
    /\ Len(cases) < MaxCases
    /\ shadow.status = "CURRENT"
    /\ HostReads([op |-> "case", workspace |-> w, topic |-> topic, shadow |-> shadow])

\* ... then the evidence.  A match raises; a case is recorded in a later transaction, but
\* unconditionally, and nobody asks for it before.
CaseWrites(call) ==
    LET ids == TechnicalClaims(call.topic)
        status == Comparison(Said(ids), call.shadow.fact)
    IN
    /\ call.op = "case" /\ Len(cases) < MaxCases
    /\ HostWrites(call)
    /\ cases' = IF status = "MATCH" THEN cases ELSE
          Append(cases, [workspace |-> call.workspace, topic |-> call.topic,
                         status |-> status, ids |-> ids, fact |-> call.shadow.fact,
                         baseline |-> call.shadow.baseline, latest |-> call.shadow.latest,
                         choices |-> <<>>])
    /\ UNCHANGED <<observations, batches>>

\* record_decision asks for the state of the case ...
DecideReads(c, choice) ==
    /\ cases[c].choices = <<>>   \* one decision of a case, a bound
    /\ Status(c) # "STALE"
    /\ choice = "UPDATE_SONG" => cases[c].fact # NoFact
    /\ choice = "RESTORE_HOST" => Cardinality(Said(cases[c].ids)) = 1
    /\ HostReads([op |-> "decide", case |-> c, choice |-> choice])

\* ... and does not ask again in the transaction.
DecideWrites(call) ==
    /\ call.op = "decide"
    /\ HostWrites(call)
    /\ cases' = [cases EXCEPT ![call.case].choices = Append(@, call.choice)]
    /\ UNCHANGED <<observations, batches>>

Next ==
    \/ Evidence
    \/ \E w \in Workspaces, location \in Locations :
          \/ CreateReads(w, location, NoSource)
          \/ \E source \in Used : DeriveReads(w, location, source)
          \/ MoveReads(w, location)
    \/ \E w \in Used :
          \/ \E coverage \in {"FULL", "INCREMENTAL"}, effect \in Effects :
                BatchReads(w, coverage, effect)
          \/ \E topic \in Topics : CaseReads(w, topic)
    \/ \E c \in DOMAIN cases, choice \in Resolutions : DecideReads(c, choice)
    \/ \E call \in calls :
          \/ PlaceWrites(call) \/ BatchWrites(call)
          \/ CaseWrites(call) \/ DecideWrites(call)

Spec == Init /\ [][Next]_vars

-----------------------------------------------------------------------------
(* Properties.                                                             *)

\* Two calls that both found a location free do not both get it.
OneWorkspacePerLocation == \A location \in Locations : Cardinality(At(location)) <= 1

\* A case that is not called stale says what the host and the Song say now, although
\* it keeps ids and values read at different moments and recorded later still: a
\* decision that arrives late is never shown as one about the present.
DecidedIsNow ==
    \A c \in DOMAIN cases : Status(c) # "STALE" =>
        LET values == Said(TechnicalClaims(cases[c].topic))
            fact == Shadow(cases[c].workspace).fact
        IN /\ cases[c].fact = fact
           /\ Said(cases[c].ids) = values
           /\ cases[c].status = Comparison(values, fact)

\* HostShadow._validate_existing and WorkspaceMemory._validate_existing: changes come
\* after a FULL batch of their observation, and a source is there before what it led to.
HostMemoryOpens ==
    /\ \A b \in DOMAIN batches :
          batches[b].coverage = "INCREMENTAL" => \E f \in Baselines(batches[b].observation) : f < b
    /\ \A o \in DOMAIN observations : observations[o].source # NoSource =>
          \E p \in 1..o - 1 : observations[p].workspace = observations[o].source

=============================================================================

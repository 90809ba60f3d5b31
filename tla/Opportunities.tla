---------------------------- MODULE Opportunities ----------------------------
(***************************************************************************)
(* n0te/opportunities.py, capture_opportunities.py and                     *)
(* opportunity_matching.py: opportunities of business and moments worth    *)
(* capturing are claims of the evidence memory that rest on other claims.  *)
(* A capture moves through its statuses by revisions, each superseding the *)
(* one before; the matching of an opportunity is advice over evidence that *)
(* may have gone stale since.                                              *)
(***************************************************************************)
EXTENDS EvidenceMemory

CONSTANTS
    Facts,       \* topics of independent evidence
    Captures,    \* topics of capture opportunities
    Businesses,  \* topics of business opportunities
    ScopeOf,     \* the scope of each fact: "ARTIST", "SONG" or "VERSION"
    Told,        \* what is said of a fact: who says it, and whether with a reference
    Dimensions   \* what a match is assessed by

vars == <<claims, supersedes, calls>>

Scopes == {"ARTIST", "SONG", "VERSION"}
Statuses == {"OPEN", "SAVED", "DISMISSED", "CAPTURED"}
TerminalStatuses == {"DISMISSED", "CAPTURED"}
States == {"SATISFIED", "GAP", "BLOCKED", "UNKNOWN", "CONFLICT", "NOT_APPLICABLE"}
NoDecision == 0

Capture == [status : Statuses, target : Scopes, basis : Nat, decision : Nat]
Business == [song : BOOLEAN, basis : Nat]

TypeOK ==
    /\ \A c \in Claims :
          /\ claims[c].topic \in Facts => claims[c].value \in Told
          /\ claims[c].topic \in Captures => claims[c].value \in Capture
          /\ claims[c].topic \in Businesses => claims[c].value \in Business
    /\ supersedes \subseteq Claims \X Claims

Scope(c) ==
    LET topic == claims[c].topic IN
    CASE topic \in Facts -> ScopeOf[topic]
      [] topic \in Captures -> claims[c].value.target
      [] topic \in Businesses -> "ARTIST"
Source(c) == IF claims[c].topic \in Facts THEN claims[c].value.source ELSE "INFERRED"
IsActive(c) == c \in Active(claims[c].topic)

\* Everything but the artist's own word needs a reference to where it comes from.
HasProvenance(c) ==
    claims[c].topic \in Facts /\ Source(c) # "USER_DECLARED" => claims[c].value.ref

\* The scopes whose evidence may speak for a capture, and for an opportunity.
MatchesCapture(c, target) ==
    \/ Scope(c) = "ARTIST"
    \/ Scope(c) = "SONG" /\ target \in {"SONG", "VERSION"}
    \/ Scope(c) = "VERSION" /\ target = "VERSION"
MatchesBusiness(c, song) == Scope(c) = "ARTIST" \/ song

-----------------------------------------------------------------------------
(* Capture opportunities.                                                  *)

MayBeBasis(c, target) ==
    /\ claims[c].topic \notin Captures
    /\ MatchesCapture(c, target)
    /\ HasProvenance(c)

MayDecide(c, target, status) ==
    /\ MatchesCapture(c, target)
    /\ HasProvenance(c)
    /\ Source(c) \in {"USER_DECLARED"} \cup (IF status = "CAPTURED" THEN {"OBSERVED"} ELSE {})

\* _parse: what a revision must be for the profile to open.
Admissible(c) ==
    LET revision == claims[c].value IN
    /\ MayBeBasis(revision.basis, revision.target)
    /\ IF revision.decision = NoDecision THEN revision.status = "OPEN"
       ELSE MayDecide(revision.decision, revision.target, revision.status)

\* get raises unless there is one current revision.
Readable(k) == Cardinality(Active(k)) = 1
Current(k) == CHOOSE c \in Active(k) : TRUE

\* A uuid, which no claim and no other call has.
Fresh(k) == \A c \in Claims : claims[c].topic # k

CreateCaptureReads(k, target, basis) ==
    /\ Fresh(k) /\ \A call \in calls : call.topic # k
    /\ IsActive(basis) /\ MayBeBasis(basis, target)
    /\ \A other \in Captures : \A c \in Active(other) : claims[c].value.basis # basis
    /\ ClaimReads(k, [status |-> "OPEN", target |-> target, basis |-> basis,
                      decision |-> NoDecision], {})

\* Mutant: only the status asked for is looked at.
MovesAnyhow(from, to) == to # from

Moves(from, to) == from \notin TerminalStatuses /\ to # from

\* set_status: the revision that is current now is the one to be superseded.
SetStatusReads(k, status, decision) ==
    /\ Readable(k)
    /\ LET old == Current(k) IN
       /\ Moves(claims[old].value.status, status)
       /\ IsActive(decision) /\ claims[decision].topic \notin Captures
       /\ MayDecide(decision, claims[old].value.target, status)
       /\ ClaimReads(k, [claims[old].value EXCEPT !.status = status, !.decision = decision],
                     {old})

\* attention_state
AttentionOf(c) ==
    LET revision == claims[c].value IN
    IF revision.status \in TerminalStatuses THEN "CLOSED"
    ELSE IF ~IsActive(revision.basis) THEN "NEEDS_REVALIDATION"
    ELSE IF revision.decision # NoDecision /\ ~IsActive(revision.decision) THEN "NEEDS_REVALIDATION"
    ELSE IF revision.status = "SAVED" THEN "SAVED"
    ELSE "AVAILABLE"

-----------------------------------------------------------------------------
(* Business opportunities.                                                 *)

MayBeSource(c, song) ==
    /\ claims[c].topic \in Facts
    /\ MatchesBusiness(c, song)
    /\ HasProvenance(c)

CreateBusinessReads(b, song, basis) ==
    /\ Fresh(b) /\ \A call \in calls : call.topic # b
    /\ IsActive(basis) /\ MayBeSource(basis, song)
    /\ \A other \in Businesses : \A c \in Active(other) :
          claims[c].value # [song |-> song, basis |-> basis]
    /\ ClaimReads(b, [song |-> song, basis |-> basis], {})

\* _parse: what a representation must be for the profile to open.
AdmissibleBusiness(c) == MayBeSource(claims[c].value.basis, claims[c].value.song)

\* What an assessment is given for a dimension: a state, and the claims it rests on.
Criteria == [state : States, basis : {S \in SUBSET Claims : Cardinality(S) <= 2}]

\* Otherwise assess raises.
Assessable(opportunity, criterion) ==
    /\ criterion.state # "UNKNOWN" => criterion.basis # {}
    /\ \A c \in criterion.basis : MayBeSource(c, opportunity.song)
    /\ criterion.state = "CONFLICT" => Cardinality({claims[c].value : c \in criterion.basis}) >= 2

ResolvedState(criterion) ==
    IF \E c \in criterion.basis : ~IsActive(c) THEN "NEEDS_REVALIDATION" ELSE criterion.state

\* The state of every dimension, also of those no criterion was given for.
Resolved(criteria) ==
    [d \in Dimensions |-> IF d \in DOMAIN criteria THEN ResolvedState(criteria[d]) ELSE "UNKNOWN"]

\* Mutant: an opportunity whose source is gone is weighed like any other.
DispositionOfStates(opportunity, states) ==
    IF "BLOCKED" \in states THEN "BLOCKED"
    ELSE IF "CONFLICT" \in states THEN "REVIEW_CONFLICT"
    ELSE IF "NEEDS_REVALIDATION" \in states THEN "NEEDS_REVALIDATION"
    ELSE IF "GAP" \in states THEN "CLOSE_GAPS"
    ELSE IF "UNKNOWN" \in states THEN "INSUFFICIENT_EVIDENCE"
    ELSE "READY_TO_DECIDE"

Disposition(opportunity, states) ==
    IF ~IsActive(opportunity.basis) THEN "NEEDS_REVALIDATION"
    ELSE IF "BLOCKED" \in states THEN "BLOCKED"
    ELSE IF "CONFLICT" \in states THEN "REVIEW_CONFLICT"
    ELSE IF "NEEDS_REVALIDATION" \in states THEN "NEEDS_REVALIDATION"
    ELSE IF "GAP" \in states THEN "CLOSE_GAPS"
    ELSE IF "UNKNOWN" \in states THEN "INSUFFICIENT_EVIDENCE"
    ELSE "READY_TO_DECIDE"

\* What is left to do in a dimension.
HasNextAction(state) == state \notin {"SATISFIED", "NOT_APPLICABLE"}

\* The advice, and what it tells the artist to do first.
Assess(opportunity, criteria) ==
    LET resolved == Resolved(criteria) IN
    [disposition |-> Disposition(opportunity, {resolved[d] : d \in Dimensions}),
     gaps |-> {d \in Dimensions : HasNextAction(resolved[d])}
                \cup (IF IsActive(opportunity.basis) THEN {} ELSE {"SOURCE"})]

-----------------------------------------------------------------------------
Init == EvidenceInit

\* The artist, or an observation, says something new of a fact, on its own or
\* in place of what was said before.
Tell(fact, said, olds) ==
    /\ olds \subseteq Active(fact)
    /\ Len(claims) < MaxClaims
    /\ claims' = Append(claims, [topic |-> fact, value |-> said])
    /\ supersedes' = supersedes \cup ({Len(claims) + 1} \X olds)
    /\ UNCHANGED calls

Next ==
    \/ \E fact \in Facts, said \in Told : \E olds \in SUBSET Active(fact) : Tell(fact, said, olds)
    \/ \E k \in Captures, target \in Scopes, basis \in Claims : CreateCaptureReads(k, target, basis)
    \/ \E k \in Captures, status \in Statuses, decision \in Claims :
          SetStatusReads(k, status, decision)
    \/ \E b \in Businesses, song \in BOOLEAN, basis \in Claims : CreateBusinessReads(b, song, basis)
    \/ \E call \in calls : ClaimWrites(call)

Spec == Init /\ [][Next]_vars

-----------------------------------------------------------------------------
(* Properties.                                                             *)

\* Two revisions that each superseded the same one: their set_status calls crossed.
Crossed(k) ==
    \E c, d, old \in Claims :
        c # d /\ claims[c].topic = k /\ <<c, old>> \in supersedes /\ <<d, old>> \in supersedes

\* _validate_existing of capture_opportunities.py and opportunities.py: what was
\* admitted when it was written is still admitted when the profile opens, whatever
\* was superseded since, and there is one of each, but for a capture of which two
\* set_status calls crossed: that one is refused as corrupt, see OneCurrentRevision.
OpportunitiesOpen ==
    /\ \A k \in Captures :
          /\ \A c \in Active(k) : Admissible(c)
          /\ Cardinality(Active(k)) <= 1 \/ Crossed(k)
    /\ \A b \in Businesses :
          /\ \A c \in Active(b) : AdmissibleBusiness(c)
          /\ Cardinality(Active(b)) <= 1

\* set_status refuses a "capture opportunity revision changed during status update"
\* (capture_opportunities.py 553), and _validate_existing raises where "multiple current
\* revisions exist for one capture opportunity" (440): there is never more than one.
OneCurrentRevision == \A k \in Captures : Cardinality(Active(k)) <= 1

\* set_status: a capture that was ever dismissed or captured reads so for good, or
\* cannot be read; no call that read it before revives it.
ClosedCapturesStay ==
    \A k \in Captures : Readable(k) =>
        \A c \in Claims : claims[c].topic = k /\ claims[c].value.status \in TerminalStatuses
            => claims[Current(k)].value.status = claims[c].value.status

\* assess: an opportunity is ready to decide exactly when nothing is left to do about
\* it, and then it and all that speaks for it is evidence that nothing has superseded
\* and that is not itself a suggestion.
AdviceIsCurrent ==
    \A b \in Businesses : \A c \in Active(b) :
        LET opportunity == claims[c].value
            assessable == {k \in Criteria : Assessable(opportunity, k)} IN
        \A given \in SUBSET Dimensions : \A criteria \in [given -> assessable] :
            LET advice == Assess(opportunity, criteria) IN
            /\ advice.disposition = "READY_TO_DECIDE" <=> advice.gaps = {}
            /\ advice.gaps = {} =>
                  \A basis \in {opportunity.basis} \cup UNION {criteria[d].basis : d \in given} :
                      IsActive(basis) /\ claims[basis].topic \in Facts

=============================================================================
